------------------------------ MODULE TpmFifo ------------------------------
(***************************************************************************
 The TPM's command FIFO as seen through its memory-mapped registers:
 tpm_update() with tpm_runCmd(), pcr_extend() and pcr_read() behind it
 (CBMC/tpm-c).  One action per register access.

 A byte keeps its value, because the device branches on the size, ordinal
 and PCR-number bytes of a command.  The status register is the set of the
 flags that are on.  FIFO_MAX_AMT (126 in the code), DigestLen (20) and
 PcrCount (24) are parameters; every array offset is written as the code
 writes it, relative to them.
 ***************************************************************************)
EXTENDS Integers, Sequences

CONSTANTS
    FIFO_MAX_AMT,   \* bytes the FIFO holds
    DigestLen,      \* bytes of a PCR
    PcrCount,       \* number of PCRs
    SHA1(_)         \* the hash: a tuple of 2 * DigestLen bytes to a tuple of DigestLen

RespSize      == 10 + DigestLen   \* CMD_SIZE of pcr_extend() and pcr_read()
MalformedSize == 9                \* CMD_SIZE of the malformed-command answer

ASSUME FifoAssumption ==
    /\ DigestLen \in Nat \ {0}
    /\ PcrCount \in 1..256
    /\ FIFO_MAX_AMT \in Nat
    /\ FIFO_MAX_AMT > 14 + DigestLen

Byte  == 0..255
Index == 0..(FIFO_MAX_AMT - 1)
FifoStates == {"IDLE", "ACCEPTING", "FULL", "SENDING", "WORKING"}
StsFlags   == {"VALID", "DATA_AVAIL", "DATA_EXPECT"}

VARIABLES
    fifo_state, fifo_sts,
    fifo_indata, fifo_in_amt, fifo_in_cmdsize,
    fifo_outdata, fifo_out_amt,
    pcr_data,     \* the PCRs
    cmd_worked    \* did the last STS_GO run a command?

fifoVars == <<fifo_state, fifo_sts, fifo_indata, fifo_in_amt, fifo_in_cmdsize,
              fifo_outdata, fifo_out_amt, pcr_data, cmd_worked>>

tpm_init ==
    /\ fifo_state = "IDLE" /\ fifo_sts = {}
    /\ fifo_in_amt = 0 /\ fifo_in_cmdsize = 0 /\ fifo_out_amt = 0
    /\ fifo_indata = [k \in Index |-> 0]
    /\ fifo_outdata = [k \in Index |-> 0]
    /\ pcr_data = [p \in 0..(PcrCount - 1) |-> [k \in 1..DigestLen |-> 0]]
    /\ cmd_worked = FALSE

Status_FullIsBusy(state, in_amt, cmdsize, out_amt) ==
    {f \in StsFlags :
        \/ f = "DATA_AVAIL" /\ out_amt > 0
        \/ f = "VALID" /\ state \notin {"WORKING", "FULL"}
        \/ f = "DATA_EXPECT" /\ \/ state = "ACCEPTING" /\ in_amt < 4
                                \/ in_amt < cmdsize}

(* The status byte every access recomputes before it returns. *)
Status(state, in_amt, cmdsize, out_amt) ==
    {f \in StsFlags :
        \/ f = "DATA_AVAIL" /\ out_amt > 0
        \/ f = "VALID" /\ state # "WORKING"
        \/ f = "DATA_EXPECT" /\ \/ state = "ACCEPTING" /\ in_amt < 4
                                \/ in_amt < cmdsize}

UpdateSts == fifo_sts' = Status(fifo_state', fifo_in_amt', fifo_in_cmdsize', fifo_out_amt')

(***************************************************************************
 tpm_runCmd
 ***************************************************************************)
Ordinal(ord) == fifo_indata[6] = 0 /\ fifo_indata[7] = 0 /\ fifo_indata[8] = 0
                /\ fifo_indata[9] = ord
PcrExtendOrd == 20   \* 0x14
PcrReadOrd   == 21   \* 0x15
pcr_index    == fifo_indata[13]

PcrAnswer_Forward(digest) ==
    [k \in Index |-> IF k = RespSize - 1 THEN 196
                     ELSE IF k = RespSize - 5 THEN RespSize
                     ELSE IF k \in 1..DigestLen THEN digest[k]
                     ELSE fifo_outdata[k]]

(* What pcr_extend() and pcr_read() leave in fifo_outdata: the answer is
   stored backwards, first byte at index RespSize, last one at index 1. *)
PcrAnswer(digest) ==
    [k \in Index |-> IF k = RespSize - 1 THEN 196
                     ELSE IF k = RespSize - 5 THEN RespSize
                     ELSE IF k \in 1..DigestLen THEN digest[DigestLen + 1 - k]
                     ELSE fifo_outdata[k]]

MalformedAnswer ==
    [fifo_outdata EXCEPT ![MalformedSize - 1] = 196,
                         ![MalformedSize - 5] = MalformedSize,
                         ![MalformedSize - MalformedSize] = 255]

ExtendData == [k \in 1..(2 * DigestLen) |->
                  IF k <= DigestLen THEN pcr_data[pcr_index][k]
                  ELSE fifo_indata[13 + k - DigestLen]]

(* The DigestLen bytes that SHA1() leaves in its digest argument. *)
Digest(data) == [k \in 1..DigestLen |-> SHA1(data)[k]]

Runnable(ord) == /\ fifo_state = "ACCEPTING" /\ fifo_in_amt = fifo_in_cmdsize
                 /\ Ordinal(ord) /\ pcr_index < PcrCount

pcr_extend ==
    /\ Runnable(PcrExtendOrd)
    /\ pcr_data' = [pcr_data EXCEPT ![pcr_index] = Digest(ExtendData)]
    /\ fifo_outdata' = PcrAnswer(pcr_data'[pcr_index])
    /\ fifo_out_amt' = RespSize
    /\ cmd_worked' = TRUE
    /\ UNCHANGED fifo_in_amt

pcr_read ==
    /\ Runnable(PcrReadOrd)
    /\ fifo_outdata' = PcrAnswer(pcr_data[pcr_index])
    /\ fifo_out_amt' = RespSize
    /\ cmd_worked' = TRUE
    /\ UNCHANGED <<pcr_data, fifo_in_amt>>

Malformed ==
    /\ ~Runnable(PcrExtendOrd) /\ ~Runnable(PcrReadOrd)
    /\ fifo_in_amt' = 0
    /\ fifo_outdata' = MalformedAnswer
    /\ fifo_out_amt' = MalformedSize
    /\ cmd_worked' = FALSE
    /\ UNCHANGED pcr_data

(***************************************************************************
 tpm_update: one action per register and direction
 ***************************************************************************)
WriteCommandReady ==
    /\ fifo_indata' = [k \in Index |-> 0]
    /\ fifo_state' = "ACCEPTING"
    /\ fifo_in_amt' = 0 /\ fifo_out_amt' = 0
    /\ UNCHANGED <<fifo_in_cmdsize, fifo_outdata, pcr_data, cmd_worked>>
    /\ UpdateSts

WriteGo ==
    /\ pcr_extend \/ pcr_read \/ Malformed
    /\ fifo_state' = "SENDING"
    /\ UNCHANGED <<fifo_indata, fifo_in_cmdsize>>
    /\ UpdateSts

FifoHasRoom == fifo_state # "FULL"

WriteFifo(data) ==
    /\ IF FifoHasRoom
       THEN /\ fifo_in_cmdsize' = IF fifo_in_amt = 5 THEN data ELSE fifo_in_cmdsize
            /\ fifo_indata' = [fifo_indata EXCEPT ![fifo_in_amt] = data]
            /\ fifo_in_amt' = fifo_in_amt + 1
            /\ fifo_state' = IF fifo_in_amt' = FIFO_MAX_AMT THEN "FULL" ELSE fifo_state
       ELSE UNCHANGED <<fifo_in_cmdsize, fifo_indata, fifo_in_amt, fifo_state>>
    /\ UNCHANGED <<fifo_outdata, fifo_out_amt, pcr_data, cmd_worked>>
    /\ UpdateSts

(* The byte a read of the FIFO register returns. *)
FifoByte == IF fifo_state = "SENDING" /\ fifo_out_amt > 0
            THEN fifo_outdata[fifo_out_amt] ELSE 0

ReadFifo ==
    /\ fifo_out_amt' = IF fifo_state = "SENDING" /\ fifo_out_amt > 0
                       THEN fifo_out_amt - 1 ELSE fifo_out_amt
    /\ UNCHANGED <<fifo_state, fifo_indata, fifo_in_amt, fifo_in_cmdsize,
                   fifo_outdata, pcr_data, cmd_worked>>
    /\ UpdateSts

(* A read of the status register returns fifo_sts as the previous access left it. *)
ReadSts ==
    /\ UNCHANGED <<fifo_state, fifo_indata, fifo_in_amt, fifo_in_cmdsize,
                   fifo_outdata, fifo_out_amt, pcr_data, cmd_worked>>
    /\ UpdateSts

(***************************************************************************
 The device under an arbitrary host
 ***************************************************************************)
FifoNext ==
    \/ WriteCommandReady \/ WriteGo \/ ReadFifo \/ ReadSts
    \/ \E data \in Byte : WriteFifo(data)

FifoSpec == tpm_init /\ [][FifoNext]_fifoVars

FifoTypeOK ==
    /\ fifo_state \in FifoStates
    /\ fifo_sts \subseteq StsFlags
    /\ fifo_indata \in [Index -> Byte]
    /\ fifo_in_amt \in Nat /\ fifo_out_amt \in Nat
    /\ fifo_in_cmdsize \in Byte
    /\ DOMAIN fifo_outdata = Index
    /\ DOMAIN pcr_data = 0..(PcrCount - 1)
    /\ cmd_worked \in BOOLEAN

(* tpm_update() indexes fifo_indata with fifo_in_amt and fifo_outdata with
   fifo_out_amt and checks neither against the array: whatever the host does,
   every state from which an access would store or load a byte has the index
   inside the array, and a FIFO holding FIFO_MAX_AMT bytes refuses more. *)
FifoIndexSafe ==
    /\ fifo_state # "FULL" => fifo_in_amt \in Index
    /\ fifo_state = "SENDING" => fifo_out_amt \in Index
    /\ fifo_in_amt = FIFO_MAX_AMT => fifo_state = "FULL"
    /\ fifo_in_amt <= FIFO_MAX_AMT
=============================================================================
