-------------------------- MODULE TpmDriverProofs --------------------------
(***************************************************************************
 The TPM driver and the TPM it talks to, for every FIFO size, digest size,
 number of PCRs, set of requests and size of the response buffers.  First
 the device alone, under an arbitrary host; then the driver as that host;
 then the two as an implementation of the abstract RPC.
 ***************************************************************************)
EXTENDS TpmDriver, TLAPS

(* FifoIndexSafe is not inductive: that fifo_in_amt stops at FIFO_MAX_AMT
   needs the state to leave FULL only together with a reset of fifo_in_amt,
   and the output index needs the answers to be shorter than the array in
   every state, not only in SENDING. *)
FifoInv ==
    /\ FifoTypeOK
    /\ FifoIndexSafe
    /\ fifo_state = "FULL" => fifo_in_amt = FIFO_MAX_AMT
    /\ fifo_out_amt \in Index

LEMMA StatusType ==
    ASSUME NEW s, NEW i, NEW c, NEW o
    PROVE  Status(s, i, c, o) \subseteq StsFlags
  BY DEF Status

(* tpm_init() leaves both FIFOs empty. *)
LEMMA FifoInitInv == tpm_init => FifoInv
  <1> SUFFICES ASSUME tpm_init PROVE FifoInv
    OBVIOUS
  <1>1. 0 \in Index /\ 0 \in Byte
    BY FifoAssumption DEF Index, Byte
  <1>2. FifoTypeOK
    BY Zenon, <1>1, FifoAssumption DEF tpm_init, FifoTypeOK, FifoStates, StsFlags, Index, Byte
  <1> QED
    BY <1>1, <1>2, FifoAssumption DEF tpm_init, FifoInv, FifoIndexSafe, Index

LEMMA AnswerSizes == RespSize \in Index /\ MalformedSize \in Index
  BY FifoAssumption DEF RespSize, MalformedSize, Index

(* STS_COMMAND_READY empties both FIFOs and leaves FULL. *)
LEMMA CommandReadyInv == FifoInv /\ WriteCommandReady => FifoInv'
  <1> SUFFICES ASSUME FifoInv, WriteCommandReady PROVE FifoInv'
    OBVIOUS
  <1>1. fifo_sts' \subseteq StsFlags
    BY StatusType DEF WriteCommandReady, UpdateSts
  <1>2. FifoTypeOK'
    BY <1>1, FifoAssumption
    DEF FifoInv, FifoTypeOK, WriteCommandReady, FifoStates, Index, Byte
  <1> QED
    BY <1>2, FifoAssumption DEF FifoInv, FifoIndexSafe, WriteCommandReady, Index

(* STS_GO leaves at most RespSize bytes to send, and an empty or unchanged
   input FIFO that was not FULL. *)
LEMMA GoInv == FifoInv /\ WriteGo => FifoInv'
  <1> SUFFICES ASSUME FifoInv, WriteGo PROVE FifoInv'
    OBVIOUS
  <1>1. /\ fifo_sts' \subseteq StsFlags
        /\ fifo_state' = "SENDING"
        /\ fifo_indata' = fifo_indata /\ fifo_in_cmdsize' = fifo_in_cmdsize
    BY StatusType DEF WriteGo, UpdateSts
  <1>2. /\ fifo_out_amt' \in Index
        /\ fifo_in_amt' \in Index
        /\ DOMAIN fifo_outdata' = Index
        /\ DOMAIN pcr_data' = 0..(PcrCount - 1)
        /\ cmd_worked' \in BOOLEAN
    <2>1. CASE pcr_extend
      BY <2>1, AnswerSizes
      DEF pcr_extend, Runnable, PcrAnswer, FifoInv, FifoTypeOK, FifoIndexSafe
    <2>2. CASE pcr_read
      BY <2>2, AnswerSizes
      DEF pcr_read, Runnable, PcrAnswer, FifoInv, FifoTypeOK, FifoIndexSafe
    <2>3. CASE Malformed
      <3>1. 0 \in Index
        BY FifoAssumption DEF Index
      <3> QED
        BY Zenon, <2>3, <3>1, AnswerSizes
        DEF Malformed, MalformedAnswer, FifoInv, FifoTypeOK
    <2> QED
      BY <2>1, <2>2, <2>3 DEF WriteGo
  <1>3. FifoTypeOK'
    BY <1>1, <1>2 DEF FifoInv, FifoTypeOK, FifoStates, Index
  <1> QED
    BY <1>1, <1>2, <1>3, FifoAssumption DEF FifoInv, FifoIndexSafe, Index

(* A byte written stays inside fifo_indata, and the last one makes it FULL. *)
LEMMA WriteInv ==
    ASSUME NEW data \in Byte, FifoInv, WriteFifo(data)
    PROVE  FifoInv'
  <1>1. fifo_sts' \subseteq StsFlags
    BY StatusType DEF WriteFifo, UpdateSts
  <1>2. FifoTypeOK'
    BY <1>1, FifoAssumption DEF FifoInv, FifoTypeOK, FifoIndexSafe, WriteFifo, FifoHasRoom, FifoStates, Index
  <1> QED
    BY <1>2, FifoAssumption DEF FifoInv, FifoTypeOK, FifoIndexSafe, WriteFifo, FifoHasRoom, Index

LEMMA ReadInv == FifoInv /\ (ReadFifo \/ ReadSts) => FifoInv'
  <1> SUFFICES ASSUME FifoInv, ReadFifo \/ ReadSts PROVE FifoInv'
    OBVIOUS
  <1>1. fifo_sts' \subseteq StsFlags
    BY StatusType DEF ReadFifo, ReadSts, UpdateSts
  <1>2. fifo_out_amt' \in Index
    BY FifoAssumption DEF FifoInv, FifoTypeOK, ReadFifo, ReadSts, Index
  <1> QED
    BY <1>1, <1>2, FifoAssumption
    DEF FifoInv, FifoTypeOK, FifoIndexSafe, ReadFifo, ReadSts, Index

(* One register access, or none, preserves the invariant. *)
LEMMA FifoStepInv == FifoInv /\ [FifoNext]_fifoVars => FifoInv'
  <1> SUFFICES ASSUME FifoInv, [FifoNext]_fifoVars PROVE FifoInv'
    OBVIOUS
  <1>1. CASE FifoNext
    BY <1>1, CommandReadyInv, GoInv, WriteInv, ReadInv DEF FifoNext
  <1>2. CASE UNCHANGED fifoVars
    BY <1>2 DEF fifoVars, FifoInv, FifoTypeOK, FifoIndexSafe
  <1> QED
    BY <1>1, <1>2

(* tpm_update() never stores or loads a byte outside fifo_indata and
   fifo_outdata, whatever the host writes and reads and in whatever order. *)
THEOREM FifoIndexSafety == FifoSpec => []FifoIndexSafe
  <1>1. FifoInv => FifoIndexSafe
    BY DEF FifoInv
  <1> QED
    BY <1>1, FifoInitInv, FifoStepInv, PTL DEF FifoSpec

(***************************************************************************
 The driver
 ***************************************************************************)
Sending == pc \in {"write", "status", "last", "lastStatus", "go"}

(* Bytes of the request that have been written to the FIFO register. *)
Sent == IF pc \in {"lastStatus", "go"} THEN count + 1 ELSE count

(* While send() runs, the device holds what was sent, up to its capacity. *)
SendInv ==
    /\ count \in 0..(len - 1)
    /\ pc = "write" => count < len - 1
    /\ pc \in {"last", "lastStatus", "go"} => count = len - 1
    /\ fifo_out_amt = 0
    /\ fifo_in_amt = IF Sent < FIFO_MAX_AMT THEN Sent ELSE FIFO_MAX_AMT
    /\ fifo_state = IF fifo_in_amt < FIFO_MAX_AMT THEN "ACCEPTING" ELSE "FULL"
    /\ \A k \in Index : fifo_indata[k] = IF k < fifo_in_amt THEN request[k + 1] ELSE 0
    /\ fifo_in_amt > 5 => fifo_in_cmdsize = len
    /\ pc = "go" => fifo_in_amt = len

(* The size of the answer in the output FIFO, and the PCR it is about. *)
Total == IF cmd_worked THEN RespSize ELSE MalformedSize
PcrAsked == IF len > 13 THEN request[14] ELSE 0

AnswerInv ==
    /\ fifo_state = "SENDING"
    /\ fifo_outdata[Total - 5] = Total
    /\ cmd_worked => /\ PcrAsked \in 0..(PcrCount - 1)
                     /\ \A k \in 1..DigestLen : fifo_outdata[DigestLen + 1 - k] = pcr_data[PcrAsked][k]

(* While recv() runs, what it has received and what is left in the output
   FIFO make up the answer, and no recv_helper() is asked for more. *)
RecvInv ==
    /\ count \in 0..goal /\ goal <= Total
    /\ count + fifo_out_amt = Total
    /\ \A k \in 0..(count - 1) : response[k] = fifo_outdata[Total - k]
    /\ pc = "read" => count < goal
    /\ part = "head" => goal = 6
    /\ part # "head" => count > 5 /\ Total <= max_length
    /\ part = "body" => goal = Total - 1
    /\ part = "tail" => goal = Total
    /\ pc = "underflow" => part = "body" /\ count = Total - 1
    /\ pc \in {"leftover", "ready"} => part = "tail" /\ count = Total

CallInv ==
    /\ request \in Requests /\ max_length \in MaxLengths
    /\ DOMAIN response = 0..(max_length - 1)
    /\ calls > 0
    /\ pc = "send" => count = 0
    /\ pc # "send" => fifo_sts = Status(fifo_state, fifo_in_amt, fifo_in_cmdsize, fifo_out_amt)

(* A PCR is an array of DigestLen bytes. *)
PcrsOk ==
    \A p \in 0..(PcrCount - 1) : pcr_data[p] = [k \in 1..DigestLen |-> pcr_data[p][k]]

DriverInv ==
    /\ FifoInv
    /\ calls \in Nat /\ part \in {"head", "body", "tail"}
    /\ PcrsOk
    /\ pc \in {"idle", "send"} \/ Sending \/ Running
    /\ pc # "idle" => CallInv
    /\ Sending => SendInv
    /\ Running => AnswerInv
    /\ pc = "recv" => fifo_out_amt = Total
    /\ Running /\ pc # "recv" => RecvInv

(* A request is a tuple of bytes that knows its length. *)
LEMMA RequestBytes ==
    ASSUME NEW r \in Requests
    PROVE  /\ r \in Seq(Byte) /\ Len(r) \in Nat /\ Len(r) > 5 /\ r[6] = Len(r)
           /\ \A k \in 1..Len(r) : r[k] \in Byte
  BY DriverAssumption

LEMMA DriverInitInv == Init => DriverInv
  <1> SUFFICES ASSUME Init PROVE DriverInv
    OBVIOUS
  <1>1. FifoInv
    BY FifoInitInv DEF Init
  <1>2. PcrsOk
    BY DEF Init, tpm_init, PcrsOk
  <1> QED
    BY <1>1, <1>2 DEF Init, DriverInv, Sending, Running

(* What a step leaves alone of the call, and what every access establishes. *)
LEMMA CallKept ==
    ASSUME DriverInv, UNCHANGED callVars, pc # "idle", DOMAIN response' = DOMAIN response,
           pc' # "send", UpdateSts
    PROVE  CallInv'
  BY DEF DriverInv, CallInv, callVars, UpdateSts

(* TlclSendReceiveNoRetry() starts a call with a buffer of its own. *)
LEMMA CallStep == DriverInv /\ Call => DriverInv'
  <1> SUFFICES ASSUME DriverInv, Call PROVE DriverInv'
    OBVIOUS
  <1>1. FifoInv' /\ PcrsOk'
    BY DEF Call, DriverInv, fifoVars, FifoInv, FifoTypeOK, FifoIndexSafe, PcrsOk
  <1>2. part \in {"head", "body", "tail"}
    BY DEF DriverInv
  <1>3. CallInv'
    BY <1>2 DEF Call, DriverInv, CallInv
  <1> QED
    BY <1>1, <1>2, <1>3 DEF Call, DriverInv, Sending, Running

(* What is left to show of a step inside send(). *)
LEMMA StaysInSend ==
    ASSUME DriverInv, FifoInv', CallInv', SendInv', Sending',
           UNCHANGED <<calls, part, pcr_data>>
    PROVE  DriverInv'
  BY DEF DriverInv, Sending, Running, PcrsOk

(* A step of send() or recv() that returns to the caller. *)
LEMMA Returns ==
    ASSUME DriverInv, FifoInv', pc' = "idle", UNCHANGED <<calls, part, pcr_data>>
    PROVE  DriverInv'
  BY DEF DriverInv, Sending, Running, PcrsOk

(* STS_COMMAND_READY empties the FIFOs before the first byte. *)
LEMMA ReadyStep == DriverInv /\ SendReady => DriverInv'
  <1> SUFFICES ASSUME DriverInv, SendReady PROVE DriverInv'
    OBVIOUS
  <1>1. FifoInv'
    BY CommandReadyInv DEF SendReady, DriverInv
  <1>2. CallInv'
    BY CallKept DEF SendReady, SendLoop, WriteCommandReady
  <1>3. request \in Requests /\ len \in Nat /\ len > 5
    BY RequestBytes DEF SendReady, DriverInv, CallInv, len
  <1>4. pc' = (IF 0 < len - 1 THEN "write" ELSE "last") /\ len' = len /\ request' = request
    BY DEF SendReady, SendLoop, callVars, len
  <1>5. count' = 0
    BY DEF SendReady, DriverInv, CallInv
  <1>6. SendInv'
    BY <1>3, <1>4, <1>5, FifoAssumption DEF SendReady, WriteCommandReady, SendInv, Sent, Index
  <1>7. Sending' /\ UNCHANGED <<calls, part, pcr_data>>
    BY <1>4 DEF SendReady, WriteCommandReady, Sending, callVars
  <1> QED
    BY <1>1, <1>2, <1>6, <1>7, StaysInSend

(* A byte sent is a byte the device holds, as long as it has room. *)
LEMMA ByteArrives ==
    ASSUME DriverInv, SendInv, request \in Requests, Sent = count,
           WriteFifo(request[count + 1])
    PROVE  /\ FifoInv'
           /\ fifo_out_amt' = 0
           /\ fifo_in_amt' = IF count + 1 < FIFO_MAX_AMT THEN count + 1 ELSE FIFO_MAX_AMT
           /\ fifo_state' = IF fifo_in_amt' < FIFO_MAX_AMT THEN "ACCEPTING" ELSE "FULL"
           /\ \A k \in Index : fifo_indata'[k] = IF k < fifo_in_amt' THEN request[k + 1] ELSE 0
           /\ fifo_in_amt' > 5 => fifo_in_cmdsize' = len
           /\ UNCHANGED <<pcr_data, cmd_worked>> /\ UpdateSts
  <1>1. count \in 0..(len - 1) /\ len \in Nat /\ len > 5 /\ request[6] = len
    BY RequestBytes DEF SendInv, len
  <1>2. request[count + 1] \in Byte
    BY <1>1, RequestBytes DEF len
  <1>3. FifoInv' /\ FifoInv
    BY <1>2, WriteInv DEF DriverInv
  <1>4. FIFO_MAX_AMT \in Nat /\ FIFO_MAX_AMT > 15
    BY FifoAssumption
  <1>5. CASE count < FIFO_MAX_AMT
    <2>1. fifo_in_amt = count /\ fifo_state = "ACCEPTING"
      BY <1>1, <1>4, <1>5 DEF SendInv
    <2>2. /\ fifo_in_amt' = count + 1
          /\ fifo_state' = IF count + 1 = FIFO_MAX_AMT THEN "FULL" ELSE "ACCEPTING"
          /\ fifo_indata' = [fifo_indata EXCEPT ![count] = request[count + 1]]
          /\ fifo_in_cmdsize' = IF count = 5 THEN request[6] ELSE fifo_in_cmdsize
      BY <2>1, <1>1 DEF WriteFifo, FifoHasRoom
    <2>3. \A k \in Index : fifo_indata'[k] = IF k < count + 1 THEN request[k + 1] ELSE 0
      <3> SUFFICES ASSUME NEW k \in Index
                   PROVE  fifo_indata'[k] = IF k < count + 1 THEN request[k + 1] ELSE 0
        OBVIOUS
      <3>1. k \in Nat /\ k \in DOMAIN fifo_indata
        BY <1>3, <1>4 DEF FifoInv, FifoTypeOK, Index
      <3>2. fifo_indata[k] = IF k < count THEN request[k + 1] ELSE 0
        BY <2>1 DEF SendInv
      <3> QED
        BY <2>2, <3>1, <3>2, <1>1
    <2>4. count + 1 > 5 => fifo_in_cmdsize' = len
      BY <2>1, <2>2, <1>1 DEF SendInv
    <2> QED
      BY <1>1, <1>3, <1>4, <1>5, <2>2, <2>3, <2>4 DEF WriteFifo, SendInv
  <1>6. CASE ~(count < FIFO_MAX_AMT)
    <2>1. fifo_in_amt = FIFO_MAX_AMT /\ fifo_state = "FULL"
      BY <1>1, <1>4, <1>6 DEF SendInv
    <2>2. UNCHANGED <<fifo_in_amt, fifo_state, fifo_indata, fifo_in_cmdsize>>
      BY <2>1 DEF WriteFifo, FifoHasRoom
    <2> QED
      BY <1>1, <1>3, <1>4, <1>6, <2>1, <2>2 DEF WriteFifo, SendInv
  <1> QED
    BY <1>5, <1>6

LEMMA ByteStep == DriverInv /\ SendByte => DriverInv'
  <1> SUFFICES ASSUME DriverInv, SendByte PROVE DriverInv'
    OBVIOUS
  <1>1. SendInv /\ request \in Requests /\ Sent = count
    BY DEF SendByte, DriverInv, Sending, CallInv, Sent
  <1>2. len \in Nat /\ len > 5 /\ count \in 0..(len - 1) /\ count < len - 1
    BY <1>1, RequestBytes DEF SendByte, SendInv, len
  <1>3. /\ count' = count + 1 /\ request' = request /\ len' = len
        /\ pc' = (IF burstcnt' > 0 /\ count' < len - 1 THEN "write" ELSE "status")
    BY DEF SendByte, callVars, len
  <1>4. Sending' /\ Sent' = count + 1
    BY <1>3 DEF Sending, Sent
  <1>5. SendInv'
    BY <1>1, <1>2, <1>3, <1>4, ByteArrives DEF SendByte, SendInv
  <1>6. FifoInv' /\ UpdateSts /\ UNCHANGED <<calls, part, pcr_data>>
    BY <1>1, ByteArrives DEF SendByte, callVars
  <1>7. CallInv'
    BY <1>3, <1>6, CallKept DEF SendByte
  <1> QED
    BY <1>4, <1>5, <1>6, <1>7, StaysInSend

LEMMA LastByteStep == DriverInv /\ SendLastByte => DriverInv'
  <1> SUFFICES ASSUME DriverInv, SendLastByte PROVE DriverInv'
    OBVIOUS
  <1>1. SendInv /\ request \in Requests /\ Sent = count
    BY DEF SendLastByte, DriverInv, Sending, CallInv, Sent
  <1>2. len \in Nat /\ len > 5 /\ count = len - 1
    BY <1>1, RequestBytes DEF SendLastByte, SendInv, len
  <1>3. count' = count /\ request' = request /\ len' = len /\ pc' = "lastStatus"
    BY DEF SendLastByte, Goto, callVars, len
  <1>4. Sending' /\ Sent' = count + 1
    BY <1>3 DEF Sending, Sent
  <1>5. SendInv'
    BY <1>1, <1>2, <1>3, <1>4, ByteArrives DEF SendLastByte, SendInv
  <1>6. FifoInv' /\ UpdateSts /\ UNCHANGED <<calls, part, pcr_data>>
    BY <1>1, ByteArrives DEF SendLastByte, Goto, callVars
  <1>7. CallInv'
    BY <1>3, <1>6, CallKept DEF SendLastByte, Goto
  <1> QED
    BY <1>4, <1>5, <1>6, <1>7, StaysInSend

(* A read of the status register that leaves a loop of send(). *)
LEMMA StatusKept ==
    ASSUME DriverInv, ReadSts, pc \notin {"idle", "send"}
    PROVE  /\ FifoInv' /\ UpdateSts
           /\ UNCHANGED <<fifo_state, fifo_in_amt, fifo_in_cmdsize, fifo_indata, fifo_outdata,
                          fifo_out_amt, pcr_data, cmd_worked>>
  BY ReadInv DEF DriverInv, ReadSts

LEMMA StatusStep == DriverInv /\ SendStatus => DriverInv'
  <1> SUFFICES ASSUME DriverInv, SendStatus PROVE DriverInv'
    OBVIOUS
  <1>1. SendInv /\ request \in Requests /\ Sent = count /\ pc = "status"
    BY DEF SendStatus, DriverInv, Sending, CallInv, Sent
  <1>2. len \in Nat /\ len > 5
    BY <1>1, RequestBytes DEF len
  <1>3. CASE SendLoop(count) /\ UNCHANGED <<count, part, goal, ret, response>>
    <2>1. /\ count' = count /\ request' = request /\ len' = len
          /\ pc' = (IF count < len - 1 THEN "write" ELSE "last")
      BY <1>3 DEF SendStatus, SendLoop, callVars, len
    <2>2. Sending' /\ Sent' = count
      BY <2>1 DEF Sending, Sent
    <2>3. SendInv'
      BY <1>1, <1>2, <2>1, <2>2, StatusKept DEF SendStatus, SendInv
    <2>4. CallInv'
      BY <1>1, <1>3, <2>1, StatusKept, CallKept DEF SendStatus
    <2> QED
      BY <1>1, <1>3, <2>2, <2>3, <2>4, StatusKept, StaysInSend DEF SendStatus, callVars
  <1>4. CASE Return(-1)
    BY <1>1, <1>4, StatusKept, Returns DEF SendStatus, Return, callVars
  <1> QED
    BY <1>3, <1>4 DEF SendStatus

(* Without DATA_EXPECT after the last byte the device has all of them. *)
LEMMA LastStatusStep == DriverInv /\ SendLastStatus => DriverInv'
  <1> SUFFICES ASSUME DriverInv, SendLastStatus PROVE DriverInv'
    OBVIOUS
  <1>1. SendInv /\ request \in Requests /\ pc = "lastStatus" /\ Sent = count + 1
    BY DEF SendLastStatus, DriverInv, Sending, CallInv, Sent
  <1>2. len \in Nat /\ len > 5 /\ count = len - 1
    BY <1>1, RequestBytes DEF SendInv, len
  <1>3. CASE "DATA_EXPECT" \notin fifo_sts /\ Goto("go")
    <2>1. count' = count /\ request' = request /\ len' = len /\ pc' = "go"
      BY <1>3 DEF SendLastStatus, Goto, callVars, len
    <2>2. Sending' /\ Sent' = count + 1
      BY <2>1 DEF Sending, Sent
    <2>3. fifo_in_amt = len
      <3>1. FIFO_MAX_AMT \in Nat /\ FIFO_MAX_AMT > 15
        BY FifoAssumption
      <3>2. fifo_in_amt > 5 /\ fifo_in_cmdsize = len /\ fifo_in_amt <= len /\ fifo_in_amt \in Nat
        BY <1>1, <1>2, <3>1 DEF SendInv
      <3>3. ~(fifo_in_amt < fifo_in_cmdsize)
        BY <1>1, <1>3 DEF DriverInv, CallInv, Status, StsFlags
      <3> QED
        BY <1>2, <3>2, <3>3
    <2>4. SendInv'
      BY <1>1, <1>2, <2>1, <2>2, <2>3, StatusKept DEF SendLastStatus, SendInv
    <2>5. CallInv'
      BY <1>1, <1>3, <2>1, StatusKept, CallKept DEF SendLastStatus, Goto
    <2> QED
      BY <1>1, <1>3, <2>2, <2>4, <2>5, StatusKept, StaysInSend DEF SendLastStatus, Goto, callVars
  <1>4. CASE Return(-1)
    BY <1>1, <1>4, StatusKept, Returns DEF SendLastStatus, Return, callVars
  <1> QED
    BY <1>3, <1>4 DEF SendLastStatus

(* When the driver starts the command, the device reads the same bytes of it
   as the abstract RPC does: zero beyond the end of the request. *)
LEMMA BytesAtGo ==
    ASSUME DriverInv, pc = "go"
    PROVE  /\ request \in Requests /\ fifo_out_amt = 0
           /\ fifo_in_amt = len /\ fifo_in_cmdsize = len
           /\ fifo_state = "ACCEPTING" <=> len < FIFO_MAX_AMT
           /\ \A k \in Index : fifo_indata[k] = Rpc!At(request, k)
  <1>1. SendInv /\ request \in Requests
    BY DEF DriverInv, Sending, CallInv
  <1>2. len \in Nat /\ len > 5
    BY <1>1, RequestBytes DEF len
  <1>3. \A k \in Index : k \in Nat
    BY FifoAssumption DEF Index
  <1>4. fifo_in_amt = len /\ fifo_in_amt <= FIFO_MAX_AMT
    BY <1>1 DEF SendInv, DriverInv, FifoInv, FifoIndexSafe
  <1>5. \A k \in Index : fifo_indata[k] = Rpc!At(request, k)
    BY <1>1, <1>2, <1>3, <1>4 DEF SendInv, Rpc!At, len
  <1> QED
    BY <1>1, <1>2, <1>4, <1>5, FifoAssumption DEF SendInv

(* tpm_runCmd() runs exactly the commands that the RPC calls valid. *)
LEMMA RunnableIsValid ==
    ASSUME DriverInv, pc = "go", NEW ord
    PROVE  /\ Runnable(ord) <=> Rpc!Valid(request, ord)
           /\ pcr_index = Rpc!Pcr(request) /\ pcr_index = PcrAsked
           /\ pcr_index \in Byte
  <1>1. {6, 7, 8, 9, 13} \subseteq Index
    BY FifoAssumption DEF Index
  <1>2. pcr_index \in Byte
    BY <1>1 DEF DriverInv, FifoInv, FifoTypeOK, pcr_index
  <1>3. pcr_index = Rpc!Pcr(request)
    BY <1>1, BytesAtGo DEF pcr_index, Rpc!Pcr
  <1>4. len \in Nat
    BY BytesAtGo, RequestBytes DEF len
  <1>5. pcr_index = PcrAsked
    BY <1>3, <1>4 DEF Rpc!Pcr, Rpc!At, PcrAsked, len
  <1>6. Ordinal(ord) <=> Rpc!Ord(request) = <<0, 0, 0, ord>>
    BY <1>1, BytesAtGo DEF Ordinal, Rpc!Ord
  <1> QED
    BY <1>2, <1>3, <1>5, <1>6, BytesAtGo DEF Runnable, Rpc!Valid, len

(* What tpm_runCmd() leaves in the output FIFO. *)
LEMMA GoAnswers ==
    ASSUME DriverInv, SendGo
    PROVE  AnswerInv' /\ fifo_out_amt' = Total'
           /\ PcrsOk'
  <1> USE DEF SendGo
  <1>1. request' = request /\ len' = len /\ fifo_state' = "SENDING" /\ PcrAsked' = PcrAsked
    BY DEF callVars, len, WriteGo, PcrAsked
  <1>2. DOMAIN fifo_outdata = Index /\ DOMAIN pcr_data = 0..(PcrCount - 1)
    BY DEF DriverInv, FifoInv, FifoTypeOK
  <1>3. \A k \in 1..DigestLen : k \in Index /\ DigestLen + 1 - k \in 1..DigestLen
    BY FifoAssumption DEF Index
  <1>4. /\ RespSize - 5 \in Index /\ RespSize - 5 \notin 1..DigestLen
        /\ RespSize - 5 # RespSize - 1 /\ RespSize - 1 \notin 1..DigestLen
    BY FifoAssumption DEF RespSize, Index
  <1>5. ASSUME NEW d
        PROVE  /\ PcrAnswer(d)[RespSize - 5] = RespSize
               /\ \A k \in 1..DigestLen : PcrAnswer(d)[DigestLen + 1 - k] = d[k]
    <2>1. PcrAnswer(d)[RespSize - 5] = RespSize
      BY <1>4 DEF PcrAnswer
    <2>2. ASSUME NEW k \in 1..DigestLen
          PROVE  PcrAnswer(d)[DigestLen + 1 - k] = d[k]
      <3> DEFINE j == DigestLen + 1 - k
      <3>1. j \in 1..DigestLen /\ j \in Index
        BY <1>3
      <3>2. j # RespSize - 1 /\ j # RespSize - 5
        BY <1>4, <3>1
      <3>3. PcrAnswer(d)[j] = d[DigestLen + 1 - j]
        BY <3>1, <3>2 DEF PcrAnswer
      <3>4. DigestLen + 1 - j = k
        BY FifoAssumption
      <3> QED
        BY <3>3, <3>4
    <2> QED
      BY <2>1, <2>2
  <1>6. pcr_index < PcrCount => pcr_index \in 0..(PcrCount - 1)
    BY RunnableIsValid, FifoAssumption DEF Byte
  <1>7. CASE pcr_extend
    <2>1. pcr_index \in 0..(PcrCount - 1) /\ pcr_index = PcrAsked /\ cmd_worked'
      BY <1>6, <1>7, RunnableIsValid DEF pcr_extend, Runnable
    <2>2. fifo_outdata' = PcrAnswer(pcr_data'[PcrAsked]) /\ fifo_out_amt' = RespSize
      BY <1>7, <2>1 DEF pcr_extend
    <2>3. PcrsOk'
      BY Zenon, <1>2, <1>7, <2>1 DEF pcr_extend, Digest, DriverInv, PcrsOk
    <2> QED
      BY <1>1, <1>5, <2>1, <2>2, <2>3 DEF AnswerInv, Total
  <1>8. CASE pcr_read
    <2>1. pcr_index \in 0..(PcrCount - 1) /\ pcr_index = PcrAsked /\ cmd_worked' /\ pcr_data' = pcr_data
      BY <1>6, <1>8, RunnableIsValid DEF pcr_read, Runnable
    <2>2. fifo_outdata' = PcrAnswer(pcr_data'[PcrAsked]) /\ fifo_out_amt' = RespSize
      BY <1>8, <2>1 DEF pcr_read
    <2> QED
      BY <1>1, <1>5, <2>1, <2>2 DEF AnswerInv, Total, DriverInv, PcrsOk
  <1>9. CASE Malformed
    <2>1. ~cmd_worked' /\ fifo_out_amt' = MalformedSize /\ fifo_outdata' = MalformedAnswer
          /\ pcr_data' = pcr_data
      BY <1>9 DEF Malformed
    <2>2. {0, 4, 8} \subseteq Index
      BY FifoAssumption DEF Index
    <2>3. MalformedAnswer[MalformedSize - 5] = MalformedSize
      BY <1>2, <2>2 DEF MalformedAnswer, MalformedSize
    <2> QED
      BY <1>1, <2>1, <2>3 DEF AnswerInv, Total, DriverInv, PcrsOk
  <1> QED
    BY <1>7, <1>8, <1>9 DEF WriteGo

LEMMA GoStep == DriverInv /\ SendGo => DriverInv'
  <1> SUFFICES ASSUME DriverInv, SendGo PROVE DriverInv'
    OBVIOUS
  <1>1. FifoInv'
    BY GoInv DEF SendGo, DriverInv
  <1>2. CallInv'
    BY CallKept DEF SendGo, Goto, WriteGo
  <1>3. pc' = "recv" /\ UNCHANGED <<calls, part>>
    BY DEF SendGo, Goto, callVars
  <1> QED
    BY <1>1, <1>2, <1>3, GoAnswers DEF DriverInv, Sending, Running

(* What is left to show of a step inside recv(): the answer stays. *)
LEMMA StaysInRecv ==
    ASSUME DriverInv, Running, Running', pc' # "recv", FifoInv', CallInv', RecvInv',
           UNCHANGED <<calls, request, pcr_data, cmd_worked, fifo_state, fifo_outdata>>,
           part' \in {"head", "body", "tail"}
    PROVE  DriverInv'
  <1>1. AnswerInv'
    BY DEF DriverInv, AnswerInv, Total, PcrAsked, len
  <1> QED
    BY <1>1 DEF DriverInv, Sending, Running, PcrsOk

LEMMA Sizes == Total \in Nat /\ Total > 6 /\ Total < FIFO_MAX_AMT
  BY FifoAssumption DEF Total, RespSize, MalformedSize

(* The status says whether there is anything left of the answer. *)
LEMMA DataAvail ==
    ASSUME DriverInv, Running
    PROVE  is_data_aval <=> fifo_out_amt > 0
  BY DEF DriverInv, CallInv, Running, AnswerInv, Status, StsFlags, is_data_aval

(* The size byte of the answer, once the header has been received. *)
LEMMA SizeReceived ==
    ASSUME DriverInv, RecvInv, count > 5
    PROVE  Running /\ AnswerInv => command_size = Total
  BY Sizes DEF RecvInv, AnswerInv, command_size

LEMMA RecvStartStep == DriverInv /\ RecvStart => DriverInv'
  <1> SUFFICES ASSUME DriverInv, RecvStart PROVE DriverInv'
    OBVIOUS
  <1>1. pc = "recv" /\ Running /\ fifo_out_amt = Total
    BY DEF RecvStart, DriverInv, Running
  <1>2. CASE RecvHelper("head", 6, 0)
    <2>1. Running' /\ pc' = "helper" /\ part' = "head" /\ goal' = 6 /\ count' = 0
      BY <1>2 DEF RecvHelper, Running
    <2>2. RecvInv'
      BY <1>1, <2>1, StatusKept, Sizes DEF RecvStart, RecvInv, Total
    <2>3. CallInv'
      BY <1>1, <1>2, <2>1, StatusKept, CallKept DEF RecvStart, RecvHelper
    <2> QED
      BY <1>1, <2>1, <2>2, <2>3, StatusKept, StaysInRecv DEF RecvStart, callVars
  <1>3. CASE Return(-1)
    BY <1>1, <1>3, StatusKept, Returns DEF RecvStart, Return, callVars
  <1> QED
    BY <1>2, <1>3 DEF RecvStart

(* recv_helper() returns only when it has what it was asked for. *)
LEMMA HelperTestStep == DriverInv /\ HelperTest => DriverInv'
  <1> SUFFICES ASSUME DriverInv, HelperTest PROVE DriverInv'
    OBVIOUS
  <1>1. pc = "helper" /\ Running /\ RecvInv /\ AnswerInv
    BY DEF HelperTest, DriverInv, Running
  <1>2. /\ FifoInv' /\ UpdateSts
        /\ UNCHANGED <<calls, request, max_length, fifo_state, fifo_outdata, fifo_out_amt,
                       pcr_data, cmd_worked>>
    BY SMTT(30), SMTT(60), <1>1, StatusKept DEF HelperTest, callVars
  <1>3. /\ Total \in Nat /\ Total > 6 /\ Total' = Total
        /\ count \in Nat /\ goal \in Int /\ fifo_out_amt \in Nat
    BY <1>1, <1>2, Sizes DEF RecvInv, Total, DriverInv, FifoInv, FifoTypeOK
  <1>4. ASSUME response' = response, pc' \notin {"send"} PROVE CallInv'
    BY SMTT(30), SMTT(60), <1>1, <1>2, <1>4, CallKept DEF HelperTest
  <1>5. CASE is_data_aval /\ count < goal
    <2>1. /\ Running' /\ pc' = "read"
          /\ UNCHANGED <<count, part, goal, response>>
      BY SMTT(30), SMTT(60), <1>5 DEF HelperTest, Running
    <2>2. RecvInv'
      BY <1>1, <1>2, <1>3, <1>5, <2>1 DEF RecvInv
    <2> QED
      BY <1>1, <1>2, <1>4, <2>1, <2>2, StaysInRecv DEF DriverInv
  <1>6. CASE ~(is_data_aval /\ count < goal)
    <2>1. count = goal
      BY <1>1, <1>3, <1>6, DataAvail DEF RecvInv
    <2>2. HelperReturn
      BY <1>6 DEF HelperTest
    <2>3. CASE Return(-1)
      BY <1>1, <1>2, <2>3, Returns DEF Return
    <2>4. CASE part = "head" /\ ~AnswerTooLarge /\ RecvHelper("body", command_size - 1, count)
      <3>1. count = 6 /\ command_size = Total
        BY <1>1, <2>1, <2>4, SizeReceived DEF RecvInv
      <3>2. max_length \in Nat
        BY Zenon, <1>1, DriverAssumption DEF DriverInv, CallInv
      <3>3. /\ Running' /\ pc' = "helper" /\ part' = "body" /\ goal' = Total - 1 /\ count' = 6
            /\ response' = response
        BY <2>4, <3>1 DEF RecvHelper, Running
      <3>4. Total <= max_length
        BY <1>3, <2>4, <3>1, <3>2 DEF AnswerTooLarge
      <3>5. RecvInv'
        BY <1>1, <1>2, <1>3, <3>1, <3>3, <3>4 DEF RecvInv
      <3> QED
        BY <1>1, <1>2, <1>4, <3>3, <3>5, StaysInRecv
    <2>5. CASE part = "body" /\ Goto("underflow")
      <3>1. Running' /\ pc' = "underflow" /\ UNCHANGED <<count, part, goal, response>>
        BY SMTT(30), SMTT(60), <2>5 DEF Goto, Running
      <3>2. RecvInv'
        BY SMTT(30), SMTT(60), <1>1, <1>2, <1>3, <2>1, <2>5, <3>1 DEF RecvInv
      <3> QED
        BY <1>1, <1>2, <1>4, <3>1, <3>2, StaysInRecv DEF DriverInv
    <2>6. CASE part = "tail" /\ Goto("leftover")
      <3>1. Running' /\ pc' = "leftover" /\ UNCHANGED <<count, part, goal, response>>
        BY SMTT(30), SMTT(60), <2>6 DEF Goto, Running
      <3>2. RecvInv'
        BY SMTT(30), SMTT(60), <1>1, <1>2, <1>3, <2>1, <2>6, <3>1 DEF RecvInv
      <3> QED
        BY <1>1, <1>2, <1>4, <3>1, <3>2, StaysInRecv DEF DriverInv
    <2> QED
      BY <2>2, <2>3, <2>4, <2>5, <2>6 DEF HelperReturn
  <1> QED
    BY <1>5, <1>6

(* One byte moves from the output FIFO to the response buffer. *)
LEMMA HelperReadStep == DriverInv /\ HelperRead => DriverInv'
  <1> SUFFICES ASSUME DriverInv, HelperRead PROVE DriverInv'
    OBVIOUS
  <1>1. pc = "read" /\ Running /\ RecvInv /\ AnswerInv /\ CallInv
    BY DEF HelperRead, DriverInv, Running
  <1>2. FifoInv' /\ UpdateSts
    BY ReadInv DEF HelperRead, DriverInv, ReadFifo
  <1>3. UNCHANGED <<calls, request, max_length, part, goal, fifo_state, fifo_outdata, pcr_data,
                    cmd_worked>>
    BY DEF HelperRead, ReadFifo, callVars
  <1>4. /\ Total \in Nat /\ Total > 6 /\ Total' = Total
        /\ count \in Nat /\ goal \in Int /\ count < goal /\ goal <= Total
        /\ fifo_out_amt = Total - count /\ fifo_out_amt > 0
    <2>1. Total \in Nat /\ Total > 6 /\ Total' = Total
      BY <1>3, Sizes DEF Total
    <2>2. fifo_out_amt \in Nat /\ part \in {"head", "body", "tail"}
      BY DEF DriverInv, FifoInv, FifoTypeOK
    <2> QED
      BY <1>1, <2>1, <2>2 DEF RecvInv
  <1>5. fifo_out_amt' = fifo_out_amt - 1 /\ FifoByte = fifo_outdata[Total - count]
    BY <1>1, <1>4 DEF HelperRead, ReadFifo, FifoByte, AnswerInv
  <1>6. count' = count + 1 /\ pc' \in {"read", "helper"} /\ (pc' = "read" => count' < goal)
    BY DEF HelperRead
  <1>7. DOMAIN response' = DOMAIN response /\ CallInv'
    BY <1>1, <1>2, <1>6, CallKept DEF HelperRead
  <1>8. \A k \in 0..(count' - 1) : response'[k] = fifo_outdata'[Total' - k]
    <2>1. max_length \in Nat /\ max_length >= 10 /\ DOMAIN response = 0..(max_length - 1)
      BY <1>1, DriverAssumption DEF CallInv
    <2>2. count \in DOMAIN response
      BY <1>1, <1>4, <2>1 DEF RecvInv, DriverInv
    <2>3. ASSUME NEW k \in 0..count PROVE response'[k] = fifo_outdata[Total - k]
      <3>1. CASE k = count
        BY <1>5, <2>2, <3>1 DEF HelperRead
      <3>2. CASE k # count
        <4>1. k \in 0..(count - 1) /\ k \in DOMAIN response
          BY SMTT(30), SMTT(60), <1>4, <2>1, <2>2, <3>2
        <4> QED
          BY <1>1, <2>2, <3>2, <4>1 DEF HelperRead, RecvInv
      <3> QED
        BY <3>1, <3>2
    <2> QED
      BY <1>3, <1>4, <1>6, <2>3
  <1>9. RecvInv'
    BY <1>1, <1>3, <1>4, <1>5, <1>6, <1>8 DEF RecvInv
  <1> QED
    BY Zenon, <1>1, <1>2, <1>3, <1>6, <1>7, <1>9, StaysInRecv DEF Running, DriverInv

LEMMA UnderflowStep == DriverInv /\ RecvUnderflow => DriverInv'
  <1> SUFFICES ASSUME DriverInv, RecvUnderflow PROVE DriverInv'
    OBVIOUS
  <1>1. pc = "underflow" /\ Running /\ RecvInv
    BY DEF RecvUnderflow, DriverInv, Running
  <1>2. CASE RecvHelper("tail", count + 1, count)
    <2>1. /\ Running' /\ pc' = "helper" /\ part' = "tail" /\ goal' = count + 1 /\ count' = count
          /\ response' = response
      BY SMTT(30), SMTT(60), <1>2 DEF RecvHelper, Running
    <2>2. RecvInv'
      BY <1>1, <2>1, StatusKept, Sizes DEF RecvUnderflow, RecvInv, Total, callVars
    <2>3. CallInv'
      BY <1>1, <2>1, StatusKept, CallKept DEF RecvUnderflow
    <2> QED
      BY <1>1, <2>1, <2>2, <2>3, StatusKept, StaysInRecv DEF RecvUnderflow, callVars
  <1>3. CASE Return(-1)
    BY <1>1, <1>3, StatusKept, Returns DEF RecvUnderflow, Return, callVars
  <1> QED
    BY <1>2, <1>3 DEF RecvUnderflow

LEMMA LeftoverStep == DriverInv /\ RecvLeftover => DriverInv'
  <1> SUFFICES ASSUME DriverInv, RecvLeftover PROVE DriverInv'
    OBVIOUS
  <1>1. pc = "leftover" /\ Running /\ RecvInv
    BY SMTT(30), SMTT(60) DEF RecvLeftover, DriverInv, Running
  <1>2. CASE Goto("ready")
    <2>1. Running' /\ pc' = "ready" /\ UNCHANGED <<count, part, goal, response>>
      BY SMTT(30), SMTT(60), <1>2 DEF Goto, Running
    <2>2. RecvInv'
      BY <1>1, <2>1, StatusKept DEF RecvLeftover, RecvInv, Total, callVars
    <2>3. CallInv'
      BY <1>1, <2>1, StatusKept, CallKept DEF RecvLeftover
    <2> QED
      BY <1>1, <2>1, <2>2, <2>3, StatusKept, StaysInRecv DEF RecvLeftover, callVars, DriverInv
  <1>3. CASE Return(-1)
    BY SMTT(30), SMTT(60), <1>1, <1>3, StatusKept, Returns DEF RecvLeftover, Return, callVars
  <1> QED
    BY <1>2, <1>3 DEF RecvLeftover

LEMMA RecvReadyStep == DriverInv /\ RecvReady => DriverInv'
  BY CommandReadyInv, Returns DEF RecvReady, Return, callVars, WriteCommandReady, DriverInv

(* One step of the driver, or none, preserves the invariant. *)
LEMMA DriverStepInv == DriverInv /\ [Next]_vars => DriverInv'
  <1> SUFFICES ASSUME DriverInv, [Next]_vars PROVE DriverInv'
    OBVIOUS
  <1>1. CASE Next
    BY SMTT(30), SMTT(60), <1>1, CallStep, ReadyStep, ByteStep, StatusStep, LastByteStep, LastStatusStep, GoStep,
       RecvStartStep, HelperTestStep, HelperReadStep, UnderflowStep, LeftoverStep, RecvReadyStep
    DEF Next
  <1>2. CASE UNCHANGED vars
    <2>1. UNCHANGED fifoVars /\ UNCHANGED driverVars
      BY SMTT(30), SMTT(60), <1>2 DEF vars
    <2>2. FifoInv' /\ PcrsOk'
      BY <2>1 DEF fifoVars, DriverInv, FifoInv, FifoTypeOK, FifoIndexSafe, PcrsOk
    <2>3. (Sending' <=> Sending) /\ (Running' <=> Running) /\ Total' = Total
      BY <2>1 DEF fifoVars, driverVars, Sending, Running, Total
    <2>4. CallInv => CallInv'
      BY SMTT(30), SMTT(60), <2>1, <2>3 DEF fifoVars, driverVars, CallInv
    <2>5. SendInv => SendInv'
      BY SMTT(30), SMTT(60), <2>1, <2>3 DEF fifoVars, driverVars, SendInv, Sent, len
    <2>6. AnswerInv => AnswerInv'
      BY SMTT(30), SMTT(60), <2>1, <2>3 DEF fifoVars, driverVars, AnswerInv, PcrAsked, len
    <2>7. RecvInv => RecvInv'
      BY <2>1, <2>3 DEF fifoVars, driverVars, RecvInv
    <2>8. pc' = pc /\ calls' = calls /\ part' = part /\ fifo_out_amt' = fifo_out_amt
      BY <2>1 DEF fifoVars, driverVars
    <2> QED
      BY <2>2, <2>3, <2>4, <2>5, <2>6, <2>7, <2>8 DEF DriverInv
  <1> QED
    BY <1>1, <1>2

(* What DriverInv says of the two buffers and of the position of a call holds in
   every state: the one fact the three theorems below rest on. *)
THEOREM DriverInvariant == Spec => []DriverInv
  BY DriverInitInv, DriverStepInv, PTL DEF Spec

(* Whatever requests and answers pass, and wherever a call is abandoned, no
   index of driver or device leaves its array. *)
THEOREM BuffersStaySafe == Spec => []BuffersSafe
  <1>1. DriverInv => BuffersSafe
    <2> SUFFICES ASSUME DriverInv PROVE BuffersSafe
      OBVIOUS
    <2>1. FifoIndexSafe
      BY DEF DriverInv, FifoInv
    <2>2. ASSUME pc = "read" PROVE count < max_length
      <3>1. RecvInv /\ max_length \in Nat /\ max_length >= 10
        BY Zenon, <2>2, DriverAssumption DEF DriverInv, Running, CallInv
      <3> QED
        BY <2>2, <3>1, Sizes DEF RecvInv, DriverInv
    <2>3. ASSUME pc \in {"write", "last"} PROVE count < len
      BY <2>3, RequestBytes DEF DriverInv, Sending, SendInv, CallInv, len
    <2> QED
      BY <2>1, <2>2, <2>3 DEF BuffersSafe
  <1> QED
    BY <1>1, DriverInvariant, PTL

(* The assertions of send() hold: what the device runs is the request. *)
THEOREM CommandArrives == Spec => []CommandArrived
  <1>1. DriverInv => CommandArrived
    <2> SUFFICES ASSUME DriverInv, pc = "go"
                 PROVE  /\ len = fifo_in_amt /\ fifo_in_amt = fifo_in_cmdsize
                        /\ \A k \in 0..(len - 1) : fifo_indata[k] = request[k + 1]
                        /\ fifo_out_amt = 0
      BY DEF CommandArrived
    <2>1. len \in Nat /\ fifo_in_amt = len /\ fifo_in_cmdsize = len /\ fifo_out_amt = 0 /\ SendInv
      BY BytesAtGo, RequestBytes DEF len, DriverInv, Sending
    <2>2. len <= FIFO_MAX_AMT
      BY <2>1 DEF DriverInv, FifoInv, FifoIndexSafe
    <2>3. \A k \in 0..(len - 1) : k \in Index /\ k < fifo_in_amt
      BY <2>1, <2>2, FifoAssumption DEF Index
    <2> QED
      BY <2>1, <2>3 DEF SendInv
  <1> QED
    BY <1>1, DriverInvariant, PTL

(***************************************************************************
 The refinement
 ***************************************************************************)
LEMMA OutcomeFailed ==
    ASSUME ~Running, ~(Returned /\ ret = 0)
    PROVE  Outcome = Rpc!Failed
  BY DEF Outcome, Rpc!Failed

LEMMA OutcomeRunning ==
    ASSUME Running
    PROVE  Outcome = IF cmd_worked THEN Rpc!Answer(pcr_data[PcrAsked]) ELSE Rpc!Rejected
  BY DEF Outcome, Returned, Running, PcrAsked, Answered, NotRun, Rpc!Answer, Rpc!Rejected

LEMMA RpcInitially == Init => Rpc!RpcInit
  <1> SUFFICES ASSUME Init PROVE Rpc!RpcInit
    OBVIOUS
  <1>1. Outcome = Rpc!Failed /\ Phase = "idle"
    BY OutcomeFailed DEF Init, Returned, Running, Phase
  <1> QED
    BY <1>1 DEF Init, tpm_init, Rpc!RpcInit

(* Inside send() nothing is visible but that it gives up. *)
LEMMA SendRefines ==
    ASSUME DriverInv, SendReady \/ SendByte \/ SendStatus \/ SendLastByte \/ SendLastStatus
    PROVE  Rpc!Refuse \/ UNCHANGED Rpc!rpcVars
  <1>1. pc \in {"send", "write", "status", "last", "lastStatus"} /\ request' = request
    BY SMTT(30), SMTT(60) DEF SendReady, SendByte, SendStatus, SendLastByte, SendLastStatus, callVars
  <1>2. pcr_data' = pcr_data
    BY SMTT(30), SMTT(60) DEF SendReady, SendByte, SendStatus, SendLastByte, SendLastStatus, WriteCommandReady,
           WriteFifo, ReadSts
  <1>3. \/ pc' \in {"write", "status", "last", "lastStatus", "go"}
        \/ pc' = "idle" /\ ret' = -1
    BY DEF SendReady, SendByte, SendStatus, SendLastByte, SendLastStatus, SendLoop, Goto, Return
  <1>4. Phase = "sent" /\ Outcome = Rpc!Failed
    BY <1>1, OutcomeFailed DEF Phase, Running, Returned
  <1>5. ~Running' /\ ~(Returned' /\ ret' = 0)
    BY <1>3 DEF Running, Returned
  <1>6. Outcome' = Rpc!Failed
    BY <1>5 DEF Outcome, Rpc!Failed
  <1>7. Phase' \in {"idle", "sent"}
    BY <1>3 DEF Phase, Running
  <1> QED
    BY SMTT(30), SMTT(60), <1>1, <1>2, <1>4, <1>6, <1>7 DEF Rpc!Refuse, Rpc!rpcVars

LEMMA CallRefines == DriverInv /\ Call => Rpc!Submit
  <1> SUFFICES ASSUME DriverInv, Call PROVE Rpc!Submit
    OBVIOUS
  <1>1. /\ pc = "idle" /\ pc' = "send" /\ request' \in Requests /\ pcr_data' = pcr_data
    BY DEF Call, fifoVars
  <1>2. Phase = "idle" /\ Phase' = "sent"
    BY <1>1 DEF Phase, Running
  <1>3. Outcome' = Rpc!Failed
    BY <1>1 DEF Outcome, Running, Returned, Rpc!Failed
  <1> QED
    BY <1>1, <1>2, <1>3 DEF Rpc!Submit

(* STS_GO is the execution of the request. *)
LEMMA GoRefines == DriverInv /\ SendGo => Rpc!Execute
  <1> SUFFICES ASSUME DriverInv, SendGo PROVE Rpc!Execute
    OBVIOUS
  <1>1. pc = "go" /\ pc' = "recv" /\ request' = request /\ PcrAsked' = PcrAsked
    BY DEF SendGo, Goto, callVars, PcrAsked, len
  <1>2. Phase = "sent" /\ Phase' = "run" /\ Running'
    BY <1>1 DEF Phase, Running
  <1>3. Outcome' = IF cmd_worked' THEN Rpc!Answer(pcr_data'[PcrAsked]) ELSE Rpc!Rejected
    BY <1>1, <1>2
    DEF Outcome, Returned, Running, PcrAsked, Answered, NotRun, Rpc!Answer, Rpc!Rejected
  <1>4. PcrAsked = Rpc!Pcr(request) /\ pcr_index = Rpc!Pcr(request)
    BY <1>1, RunnableIsValid
  <1>5. CASE pcr_extend
    <2>1. ExtendData = Rpc!Hashed(request)
      <3>1. \A k \in 1..(2 * DigestLen) : k > DigestLen => 13 + k - DigestLen \in Index
        BY FifoAssumption DEF Index
      <3>2. \A k \in 1..(2 * DigestLen) : ~(k <= DigestLen) => k > DigestLen
        BY FifoAssumption
      <3> QED
        BY <1>1, <1>4, <3>1, <3>2, BytesAtGo DEF ExtendData, Rpc!Hashed
    <2>2. Digest(ExtendData) = Rpc!Extended(request)
      BY <2>1 DEF Digest, Rpc!Extended
    <2>3. Rpc!Valid(request, 20) /\ cmd_worked'
      BY <1>1, <1>5, RunnableIsValid DEF pcr_extend, PcrExtendOrd
    <2>4. pcr_data' = [pcr_data EXCEPT ![Rpc!Pcr(request)] = Rpc!Extended(request)]
      BY <1>4, <1>5, <2>2 DEF pcr_extend
    <2>5. PcrAsked \in DOMAIN pcr_data
      <3>1. pcr_index < PcrCount /\ pcr_index \in Byte
        BY <1>1, <1>5, RunnableIsValid DEF pcr_extend, Runnable
      <3>2. DOMAIN pcr_data = 0..(PcrCount - 1)
        BY DEF DriverInv, FifoInv, FifoTypeOK
      <3>3. pcr_index \in 0..(PcrCount - 1)
        BY <3>1, FifoAssumption DEF Byte
      <3> QED
        BY <1>4, <3>2, <3>3
    <2>6. Outcome' = Rpc!Answer(Rpc!Extended(request))
      BY SMTT(30), SMTT(60), <1>3, <1>4, <2>3, <2>4, <2>5
    <2> QED
      BY SMTT(30), SMTT(60), <1>1, <1>2, <2>3, <2>4, <2>6 DEF Rpc!Execute
  <1>6. CASE pcr_read
    <2>1. Rpc!Valid(request, 21) /\ cmd_worked' /\ pcr_data' = pcr_data
      BY SMTT(30), SMTT(60), <1>1, <1>6, RunnableIsValid DEF pcr_read, PcrReadOrd
    <2> QED
      BY <1>1, <1>2, <1>3, <1>4, <2>1 DEF Rpc!Execute
  <1>7. CASE Malformed
    <2>1. ~Rpc!Valid(request, 20) /\ ~Rpc!Valid(request, 21) /\ ~cmd_worked' /\ pcr_data' = pcr_data
      BY <1>1, <1>7, RunnableIsValid DEF Malformed, PcrReadOrd, PcrExtendOrd
    <2> QED
      BY <1>1, <1>2, <1>3, <2>1 DEF Rpc!Execute
  <1> QED
    BY <1>5, <1>6, <1>7 DEF SendGo, WriteGo

(* Inside recv() nothing is visible but that it gives up. *)
LEMMA RecvRefines ==
    ASSUME DriverInv, RecvStart \/ HelperTest \/ HelperRead \/ RecvUnderflow \/ RecvLeftover
    PROVE  Rpc!Lose \/ UNCHANGED Rpc!rpcVars
  <1>1. Running /\ request' = request
    BY SMTT(30), SMTT(60) DEF RecvStart, HelperTest, HelperRead, RecvUnderflow, RecvLeftover, callVars, Running
  <1>2. pcr_data' = pcr_data /\ cmd_worked' = cmd_worked
    BY SMTT(30), SMTT(60) DEF RecvStart, HelperTest, HelperRead, RecvUnderflow, RecvLeftover, ReadFifo, ReadSts
  <1>3. Running' \/ (pc' = "idle" /\ ret' = -1)
    BY DEF RecvStart, HelperTest, HelperRead, RecvUnderflow, RecvLeftover, HelperReturn,
           RecvHelper, Goto, Return, Running
  <1>4. Phase = "run"
    BY <1>1 DEF Phase, Running
  <1>5. CASE Running'
    <2>1. Phase' = "run"
      BY <1>5 DEF Phase, Running
    <2>2. Outcome' = Outcome
      BY <1>1, <1>2, <1>5 DEF Outcome, Running, Returned, len
    <2> QED
      BY <1>1, <1>2, <1>4, <2>1, <2>2 DEF Rpc!rpcVars
  <1>6. CASE pc' = "idle" /\ ret' = -1
    <2>1. Phase' = "idle" /\ Outcome' = Rpc!Failed
      BY <1>6 DEF Phase, Outcome, Running, Returned, Rpc!Failed
    <2> QED
      BY <1>1, <1>2, <1>4, <2>1 DEF Rpc!Lose
  <1> QED
    BY SMTT(30), SMTT(60), <1>3, <1>5, <1>6

(* A call that succeeds hands over the answer of this execution. *)
LEMMA ReadyRefines == DriverInv /\ RecvReady => Rpc!Deliver
  <1> SUFFICES ASSUME DriverInv, RecvReady PROVE Rpc!Deliver
    OBVIOUS
  <1>1. /\ pc = "ready" /\ pc' = "idle" /\ ret' = 0
        /\ UNCHANGED <<response, request, calls, pcr_data>>
    BY SMTT(30), SMTT(60) DEF RecvReady, Return, callVars, WriteCommandReady
  <1>2. Running /\ RecvInv /\ AnswerInv /\ calls > 0 /\ count = Total
    BY Zenon, <1>1 DEF DriverInv, Running, CallInv, RecvInv
  <1>3. Phase = "run" /\ Phase' = "idle"
    BY <1>1 DEF Phase, Running
  <1>4. Returned' /\ ret' = 0
    BY <1>1, <1>2 DEF Returned
  <1>5. command_size' = command_size /\ command_size = Total
    BY <1>1, <1>2, SizeReceived, Sizes DEF command_size
  <1>6. Outcome' = IF command_size = RespSize
                   THEN Rpc!Answer([k \in 1..DigestLen |-> response[9 + k]]) ELSE Rpc!Rejected
    <2>1. ~Running'
      BY <1>1 DEF Running
    <2>2. Outcome' = IF command_size' = RespSize
                     THEN Answered([k \in 1..DigestLen |-> response'[9 + k]]) ELSE NotRun
      BY <1>4, <2>1 DEF Outcome
    <2> QED
      BY <1>1, <1>5, <2>2 DEF Answered, NotRun, Rpc!Answer, Rpc!Rejected
  <1>7. Outcome = IF cmd_worked THEN Rpc!Answer(pcr_data[PcrAsked]) ELSE Rpc!Rejected
    BY <1>2, OutcomeRunning
  <1>8. Total = RespSize <=> cmd_worked
    BY FifoAssumption DEF Total, RespSize, MalformedSize
  <1>9. ASSUME cmd_worked PROVE [k \in 1..DigestLen |-> response[9 + k]] = pcr_data[PcrAsked]
    <2>1. ASSUME NEW k \in 1..DigestLen PROVE response[9 + k] = pcr_data[PcrAsked][k]
      <3>1. 9 + k \in 0..(count - 1) /\ Total - (9 + k) = DigestLen + 1 - k
        BY SMTT(30), SMTT(60), <1>2, <1>9, FifoAssumption DEF Total, RespSize
      <3>2. response[9 + k] = fifo_outdata[Total - (9 + k)]
        BY SMTT(30), SMTT(60), <1>2, <3>1 DEF RecvInv
      <3> QED
        BY <1>2, <1>9, <3>1, <3>2 DEF AnswerInv
    <2>2. pcr_data[PcrAsked] = [k \in 1..DigestLen |-> pcr_data[PcrAsked][k]]
      BY SMTT(30), SMTT(60), <1>2, <1>9 DEF AnswerInv, DriverInv, PcrsOk
    <2> QED
      BY SMTT(30), SMTT(60), <2>1, <2>2
  <1>10. Outcome' = Outcome
    BY <1>5, <1>6, <1>7, <1>8, <1>9
  <1> QED
    BY <1>1, <1>3, <1>10 DEF Rpc!Deliver

LEMMA StepRefines == DriverInv /\ [Next]_vars => [Rpc!RpcNext]_(Rpc!rpcVars)
  <1> SUFFICES ASSUME DriverInv, [Next]_vars PROVE [Rpc!RpcNext]_(Rpc!rpcVars)
    OBVIOUS
  <1>1. CASE Next
    BY <1>1, CallRefines, SendRefines, GoRefines, RecvRefines, ReadyRefines DEF Next, Rpc!RpcNext
  <1>2. CASE UNCHANGED vars
    BY <1>2 DEF vars, fifoVars, driverVars, Rpc!rpcVars, Phase, Outcome, Running, Returned, len,
                command_size
  <1> QED
    BY <1>1, <1>2

(* The driver on the registers of the TPM implements the abstract RPC. *)
THEOREM DriverImplementsRpc == Spec => ImplementsRpc
  BY RpcInitially, StepRefines, DriverInvariant, PTL DEF Spec, ImplementsRpc, Rpc!RpcSpec
=============================================================================
