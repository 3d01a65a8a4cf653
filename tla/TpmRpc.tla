------------------------------- MODULE TpmRpc -------------------------------
(***************************************************************************
 What the TPM stack promises its callers, without registers or bytes on the
 way: a request is executed at most once, as a whole, and an answer that is
 delivered is the answer to that request.  A call may fail before it runs
 (nothing happened) or after it (it happened, and the caller is not told).
 ***************************************************************************)
EXTENDS Integers, Sequences

CONSTANTS Requests, FIFO_MAX_AMT, DigestLen, PcrCount, SHA1(_)

VARIABLES phase, pcrs, req, outcome
rpcVars == <<phase, pcrs, req, outcome>>

Failed        == [kind |-> "failed",   digest |-> <<>>]
Rejected      == [kind |-> "rejected", digest |-> <<>>]
Answer(d)     == [kind |-> "answer",   digest |-> d]

(* Bytes beyond the end of a request read as zero. *)
At(r, k)      == IF k + 1 <= Len(r) THEN r[k + 1] ELSE 0
Ord(r)        == <<At(r, 6), At(r, 7), At(r, 8), At(r, 9)>>
Pcr(r)        == At(r, 13)
Valid(r, ord) == Len(r) < FIFO_MAX_AMT /\ Ord(r) = <<0, 0, 0, ord>> /\ Pcr(r) < PcrCount

Hashed(r)     == [k \in 1..(2 * DigestLen) |->
                     IF k <= DigestLen THEN pcrs[Pcr(r)][k] ELSE At(r, 13 + k - DigestLen)]
Extended(r)   == [k \in 1..DigestLen |-> SHA1(Hashed(r))[k]]

RpcInit ==
    /\ phase = "idle" /\ req = <<>> /\ outcome = Failed
    /\ pcrs = [p \in 0..(PcrCount - 1) |-> [k \in 1..DigestLen |-> 0]]

Submit == /\ phase = "idle" /\ phase' = "sent"
          /\ req' \in Requests /\ outcome' = Failed
          /\ UNCHANGED pcrs

Refuse == phase = "sent" /\ phase' = "idle" /\ UNCHANGED <<pcrs, req, outcome>>

Execute ==
    /\ phase = "sent" /\ phase' = "run"
    /\ \/ Valid(req, 20) /\ pcrs' = [pcrs EXCEPT ![Pcr(req)] = Extended(req)]
                         /\ outcome' = Answer(Extended(req))
       \/ Valid(req, 21) /\ outcome' = Answer(pcrs[Pcr(req)]) /\ UNCHANGED pcrs
       \/ ~Valid(req, 20) /\ ~Valid(req, 21) /\ outcome' = Rejected /\ UNCHANGED pcrs
    /\ UNCHANGED req

Deliver == phase = "run" /\ phase' = "idle" /\ UNCHANGED <<pcrs, req, outcome>>

Lose    == phase = "run" /\ phase' = "idle" /\ outcome' = Failed /\ UNCHANGED <<pcrs, req>>

RpcNext == Submit \/ Refuse \/ Execute \/ Deliver \/ Lose
RpcSpec == RpcInit /\ [][RpcNext]_rpcVars
=============================================================================
