---------------------------- MODULE MCTpmDriver ----------------------------
(* Small instance of TpmDriver: PCRs of two bytes, a FIFO of 20. *)
EXTENDS TpmDriver

MCHash(t) == [k \in 1..2 |-> (3 * t[k] + 5 * t[k + 2] + k) % 7]

(* A tlcl request: tag, size, ordinal and arguments; its size field is its length. *)
Command(ord, args) == <<0, 193, 0, 0, 0, 10 + Len(args), 0, 0, 0, ord>> \o args

Extend(p, d) == Command(PcrExtendOrd, <<0, 0, 0, p>> \o d)
Read(p)      == Command(PcrReadOrd, <<0, 0, 0, p>>)

(* An extend of each of two PCRs, a read, an extend of a PCR that does not
   exist, a command the TPM does not know, and commands that fill the FIFO
   exactly and overfill it by one byte. *)
MCRequests == {Extend(0, <<1, 2>>), Extend(1, <<2, 0>>), Read(0), Extend(2, <<1, 1>>),
               Command(153, <<0, 1>>),
               Command(PcrReadOrd, <<0, 0, 0, 0, 0, 0, 0, 0, 0, 0>>),
               Command(PcrReadOrd, <<0, 0, 0, 0, 0, 0, 0, 0, 0, 0, 0>>)}

(* One byte too small for an answer with a digest, exactly large enough
   (TlclExtend's buffer), and larger. *)
MCMaxLengths == {11, 12, 16}
=============================================================================
