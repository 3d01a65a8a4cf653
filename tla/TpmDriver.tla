----------------------------- MODULE TpmDriver -----------------------------
(***************************************************************************
 A tlcl caller, the TPM driver VbExTpmSendReceive() with send(), recv() and
 recv_helper() (CBMC/tpm-fw.c), and the TPM it talks to (TpmFifo).  Every
 step is one register access of the driver together with the branch the
 driver takes on what it read; pc names the place the driver has reached.

 The driver's position in the two buffers is `count'; response is the
 caller's stack buffer, whose bytes have an arbitrary value (`junk') until
 the driver writes them.
 ***************************************************************************)
EXTENDS TpmFifo

CONSTANTS
    Requests,     \* requests a caller may send: tuples of bytes, the sixth of which is
                  \* their length (tlcl fills in the size field, and none has 256 bytes)
    MaxLengths,   \* sizes of the response buffers callers pass
    BurstCount,   \* what readBurstCount() returns: 256
    MaxCalls      \* bound on the number of calls

ASSUME DriverAssumption ==
    /\ \A r \in Requests : r \in Seq(Byte) /\ Len(r) > 5 /\ r[6] = Len(r)
    /\ MaxLengths \subseteq {n \in Nat : n >= 10}
    /\ BurstCount \in Nat \ {0}
    /\ MaxCalls \in Nat

VARIABLES
    pc,
    request, max_length,   \* the arguments of the call in progress
    response,              \* the response buffer
    count,                 \* send: bytes sent; recv: bytes received
    burstcnt,
    part, goal,            \* which recv_helper() call, and the count it runs to
    ret,                   \* VbExTpmSendReceive()'s value: 0 or -1
    calls                  \* calls started

callVars   == <<request, max_length, calls>>
driverVars == <<pc, request, max_length, response, count, burstcnt, part, goal, ret, calls>>
vars == <<fifoVars, driverVars>>

Init ==
    /\ tpm_init
    /\ pc = "idle" /\ ret = 0 /\ calls = 0
    /\ request = <<>> /\ max_length = 0 /\ response = <<>>
    /\ count = 0 /\ burstcnt = 0 /\ part = "head" /\ goal = 0

Return(v) == pc' = "idle" /\ ret' = v /\ UNCHANGED <<count, burstcnt, part, goal, response>>
Goto(l)   == pc' = l /\ UNCHANGED <<ret, count, burstcnt, part, goal, response>>

(* TlclSendReceiveNoRetry: a request and an uninitialised response buffer. *)
Call ==
    /\ pc = "idle" /\ calls < MaxCalls
    /\ \E r \in Requests, m \in MaxLengths, junk \in {0, 1} :
          /\ request' = r /\ max_length' = m
          /\ response' = [k \in 0..(m - 1) |-> junk]
    /\ pc' = "send" /\ count' = 0 /\ burstcnt' = 0 /\ ret' = -1
    /\ calls' = calls + 1
    /\ UNCHANGED <<part, goal, fifoVars>>

(***************************************************************************
 send
 ***************************************************************************)
len == Len(request)

(* The write loop's head, reached with `c' bytes sent. *)
SendLoop(c) == IF c < len - 1 THEN pc' = "write" /\ burstcnt' = BurstCount
               ELSE pc' = "last" /\ UNCHANGED burstcnt

SendReady ==
    /\ pc = "send"
    /\ WriteCommandReady /\ SendLoop(0)
    /\ UNCHANGED <<count, part, goal, ret, response, callVars>>

SendByte ==
    /\ pc = "write"
    /\ WriteFifo(request[count + 1])
    /\ count' = count + 1 /\ burstcnt' = burstcnt - 1
    /\ pc' = IF burstcnt' > 0 /\ count' < len - 1 THEN "write" ELSE "status"
    /\ UNCHANGED <<part, goal, ret, response, callVars>>

(* The polling loops read the status until STS_VALID is on; a read that finds
   it off changes nothing, so the step is the read that leaves the loop. *)
SendStatus ==
    /\ pc = "status"
    /\ ReadSts
    /\ "VALID" \in fifo_sts
    /\ IF "DATA_EXPECT" \in fifo_sts
       THEN SendLoop(count) /\ UNCHANGED <<count, part, goal, ret, response>>
       ELSE Return(-1)
    /\ UNCHANGED callVars

SendLastByte ==
    /\ pc = "last"
    /\ WriteFifo(request[count + 1]) /\ Goto("lastStatus")
    /\ UNCHANGED callVars

SendLastStatus_NoCheck == pc = "lastStatus" /\ ReadSts /\ Goto("go") /\ UNCHANGED callVars

SendLastStatus ==
    /\ pc = "lastStatus"
    /\ ReadSts
    /\ "VALID" \in fifo_sts
    /\ IF "DATA_EXPECT" \in fifo_sts THEN Return(-1) ELSE Goto("go")
    /\ UNCHANGED callVars

SendGo ==
    /\ pc = "go"
    /\ WriteGo /\ Goto("recv")
    /\ UNCHANGED callVars

(***************************************************************************
 recv
 ***************************************************************************)
is_data_aval == {"DATA_AVAIL", "VALID"} \subseteq fifo_sts
command_size == response[5]

AnswerTooLarge_OffByOne == command_size > max_length + 1
AnswerTooLarge == command_size > max_length

(* Enter recv_helper() to bring the number of bytes received up to g. *)
RecvHelper(p, g, c) == /\ pc' = "helper" /\ part' = p /\ goal' = g /\ count' = c
                       /\ burstcnt' = 0 /\ UNCHANGED <<ret, response>>

RecvStart ==
    /\ pc = "recv"
    /\ ReadSts
    /\ IF is_data_aval THEN RecvHelper("head", 6, 0) ELSE Return(-1)
    /\ UNCHANGED callVars

(* What recv() does with the result of each of its recv_helper() calls. *)
HelperReturn ==
    \/ part = "head" /\ IF count < 6 \/ AnswerTooLarge THEN Return(-1)
                        ELSE RecvHelper("body", command_size - 1, count)
    \/ part = "body" /\ IF count < command_size - 1 THEN Return(-1) ELSE Goto("underflow")
    \/ part = "tail" /\ IF count # command_size THEN Return(-1) ELSE Goto("leftover")

HelperTest ==
    /\ pc = "helper"
    /\ ReadSts
    /\ IF is_data_aval /\ count < goal
       THEN /\ pc' = "read"
            /\ burstcnt' = IF burstcnt = 0 THEN BurstCount ELSE burstcnt
            /\ UNCHANGED <<count, part, goal, ret, response>>
       ELSE HelperReturn
    /\ UNCHANGED callVars

HelperRead ==
    /\ pc = "read"
    /\ ReadFifo
    /\ response' = [response EXCEPT ![count] = FifoByte]
    /\ count' = count + 1 /\ burstcnt' = burstcnt - 1
    /\ pc' = IF burstcnt' > 0 /\ count' < goal THEN "read" ELSE "helper"
    /\ UNCHANGED <<part, goal, ret, callVars>>

RecvUnderflow ==
    /\ pc = "underflow"
    /\ ReadSts
    /\ IF is_data_aval THEN RecvHelper("tail", count + 1, count) ELSE Return(-1)
    /\ UNCHANGED callVars

RecvLeftover ==
    /\ pc = "leftover"
    /\ ReadSts
    /\ IF is_data_aval THEN Return(-1) ELSE Goto("ready")
    /\ UNCHANGED callVars

RecvReady ==
    /\ pc = "ready"
    /\ WriteCommandReady /\ Return(0)
    /\ UNCHANGED callVars

Next ==
    \/ Call \/ SendReady \/ SendByte \/ SendStatus \/ SendLastByte \/ SendLastStatus
    \/ SendGo \/ RecvStart \/ HelperTest \/ HelperRead \/ RecvUnderflow
    \/ RecvLeftover \/ RecvReady

Spec == Init /\ [][Next]_vars

(* The driver runs on a single thread that nothing suspends. *)
FairSpec == Spec /\ WF_vars(Next)

(***************************************************************************
 What the caller sees
 ***************************************************************************)
Returned == pc = "idle" /\ calls > 0

Running == pc \in {"recv", "helper", "read", "underflow", "leftover", "ready"}

(***************************************************************************
 Properties
 ***************************************************************************)
(* No byte goes astray between the two sides.  recv() bounds what recv_helper()
   stores only through command_size and the six bytes of the header: no byte
   the TPM sends lands outside the caller's response buffer, none of the
   request's bytes is read past its end, and the device's own indices stay
   inside its FIFOs. *)
BuffersSafe ==
    /\ FifoIndexSafe
    /\ pc = "read" => count < max_length
    /\ pc \in {"write", "last"} => count < len

(* The three claims send() and VbExTpmSendReceive() assert about the device
   (tpm-fw.c:120-121 and 244-248): when the driver starts a command the FIFO
   holds exactly the request and agrees with the driver on its length.  And
   nothing of an earlier answer is left for recv() to read, even when it gave
   up half way through that one. *)
CommandArrived ==
    pc = "go" => /\ len = fifo_in_amt /\ fifo_in_amt = fifo_in_cmdsize
                 /\ \A k \in 0..(len - 1) : fifo_indata[k] = request[k + 1]
                 /\ fifo_out_amt = 0

(* A call as its caller sees it: what the driver has reached, and what has
   been or will be delivered. *)
Answered(d) == [kind |-> "answer", digest |-> d]
NotRun      == [kind |-> "rejected", digest |-> <<>>]
Phase   == IF pc = "idle" THEN "idle" ELSE IF Running THEN "run" ELSE "sent"
Outcome == CASE Returned /\ ret = 0 ->
                    IF command_size = RespSize
                    THEN Answered([k \in 1..DigestLen |-> response[9 + k]]) ELSE NotRun
             [] Running ->
                    IF cmd_worked
                    THEN Answered(pcr_data[IF len > 13 THEN request[14] ELSE 0]) ELSE NotRun
             [] OTHER -> [kind |-> "failed", digest |-> <<>>]

Rpc == INSTANCE TpmRpc WITH phase <- Phase, pcrs <- pcr_data, req <- request, outcome <- Outcome

(* Registers and bytes put together, the stack is the RPC of TpmRpc: at most
   one execution per call, none when send() fails, and the answer delivered
   is the one to this request. *)
ImplementsRpc == Rpc!RpcSpec

(* No call waits for ever on STS_VALID or on data: the two polling loops of
   send() and the one of recv_helper() end, so every call returns. *)
EveryCallReturns == pc # "idle" ~> pc = "idle"
=============================================================================
