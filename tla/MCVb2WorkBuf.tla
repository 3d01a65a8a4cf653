----------------------------- MODULE MCVb2WorkBuf -----------------------------
(* Boots of Vb2WorkBuf for TLC.  The sizes keep the order of the real ones:    *)
(* a packed key header is two alignment units, keyblock_size lies one unit     *)
(* into the keyblock, the keyblock header is three.                            *)
EXTENDS Vb2WorkBuf

MCSz == [sd |-> 6, kb_header |-> 12, pre_header |-> 7, dc |-> 5, digest |-> 2, rsa |-> 6,
         gbb |-> 6, size_field |-> 4]

Fw == [root |-> 12, key |-> 12, kb |-> 20, pre |-> 22, subkey |-> 8, recovery |-> 8,
       body |-> 1, bad |-> "none"]

\* Data keys smaller than, equal to and larger than the root key.
Firmwares ==
  {[Fw EXCEPT !.root = r, !.key = d, !.pre = p, !.bad = b, !.body = 2] :
     r \in {8, 16}, d \in {8, 16}, p \in {18, 21},
     b \in {"none", "keyblock", "key_version", "preamble", "fw_version", "body"}}

GoodKernel == [kb |-> 18, key |-> 8, pre |-> 10, sig |-> TRUE, hash |-> TRUE,
               flags |-> {"dev0", "dev1", "rec0"}, kv |-> 1, pv |-> 1, preamble |-> TRUE,
               data |-> TRUE, body |-> 2, successful |-> TRUE]

\* One defect, or one difference, each.
Kernels ==
  {GoodKernel,
   [GoodKernel EXCEPT !.flags = {"dev0", "dev1", "rec1"}],
   [GoodKernel EXCEPT !.flags = {"dev0", "rec0"}, !.pv = 2],
   [GoodKernel EXCEPT !.sig = FALSE, !.kv = 2],
   [GoodKernel EXCEPT !.sig = FALSE, !.hash = FALSE],
   [GoodKernel EXCEPT !.kv = 0],
   [GoodKernel EXCEPT !.kv = 4, !.flags = {"dev0", "dev1", "rec0", "rec1"}],
   [GoodKernel EXCEPT !.pv = 0],
   [GoodKernel EXCEPT !.pv = 4],
   [GoodKernel EXCEPT !.preamble = FALSE, !.kv = 3],
   [GoodKernel EXCEPT !.data = FALSE, !.kv = 3],
   [GoodKernel EXCEPT !.successful = FALSE, !.kv = 2]}

\* Kernels whose keyblock is accepted in some mode and which then fail.
Dropped == {v \in Kernels : ~v.preamble \/ ~v.data \/ ~v.sig}

Boot == [lib |-> "20", buf |-> 160, roomy |-> TRUE, fw |-> Fw, kernels |-> <<>>, rec |-> FALSE,
         reads |-> {0}, engines |-> {"unsupported"}, dev |-> FALSE, signed_only |-> FALSE, secdatak |-> [ok |-> TRUE, version |-> 5]]

FirmwareBoots ==
  {[Boot EXCEPT !.lib = l, !.fw = f, !.buf = b, !.roomy = b > 90,
                !.reads = 0..3, !.engines = {"ok", "unsupported", "error"}] :
     l \in {"20", "21"}, f \in Firmwares, b \in {4, 44, 60, 100}}

Modes == {<<FALSE, FALSE, FALSE>>, <<FALSE, TRUE, FALSE>>, <<FALSE, TRUE, TRUE>>,
          <<TRUE, FALSE, FALSE>>, <<TRUE, TRUE, FALSE>>}

KernelBoots ==
  {[Boot EXCEPT !.rec = m[1], !.dev = m[2], !.signed_only = m[3], !.kernels = <<v, w>>] :
     m \in Modes, v \in Kernels, w \in Kernels}
  \cup
  {[Boot EXCEPT !.rec = m[1], !.dev = m[2], !.signed_only = m[3], !.kernels = <<v, w, x>>] :
     m \in Modes, v \in Dropped, w \in Dropped, x \in Kernels}

\* Secure storage unreadable; buffers with room for one kernel but not for two;
\* a preamble that leaves the next data key misaligned.
TightBoots ==
  {[Boot EXCEPT !.rec = r, !.secdatak = s, !.buf = b, !.roomy = FALSE, !.reads = 0..2,
                !.kernels = <<[GoodKernel EXCEPT !.pre = p, !.data = FALSE], GoodKernel>>] :
     r \in BOOLEAN, s \in {[ok |-> TRUE, version |-> 5], [ok |-> FALSE, version |-> 5]},
     b \in {64, 68, 84, 130}, p \in {10, 11}}

MCScenarios == FirmwareBoots \cup KernelBoots \cup TightBoots
=============================================================================
