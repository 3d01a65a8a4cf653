------------------------------ MODULE Vb2WorkBuf ------------------------------
(* The vboot2 work buffer from the firmware stage to the kernel stage: where   *)
(* vb2_load_fw_keyblock, vb2_load_fw_preamble, vb2api_init_hash,               *)
(* vb2api_kernel_phase1, vb2_load_kernel_keyblock and vb2_load_kernel_preamble *)
(* put their objects, which of them survive, and what the verdict on one       *)
(* kernel leaves behind for the next.  The buffer is an array of cells, each   *)
(* tagged with the object last written there.  The caller is external: it      *)
(* follows the order of calls that 2api.h prescribes.  vb2_fail and the        *)
(* selection of the slot are in Vb2Boot; here a failed firmware call ends the  *)
(* boot.                                                                       *)
EXTENDS Integers, Sequences, FiniteSets, FiniteSetsExt

CONSTANTS
  Scenarios,   \* the boots examined
  Sz,          \* the sizes of the structures, in cells
  WbAlign,     \* VB2_WORKBUF_ALIGN, in cells
  KeyAlign,    \* sizeof(uint32_t), the alignment vb2_unpack_key demands
  VersionMax   \* 0xffff, the largest half of a composite version

VARIABLES
  env,       \* the scenario: buffer, firmware vblock, kernel vblocks, mode
  ctx,       \* ctx->workbuf, ctx->workbuf_used and vb2_shared_data
  secdatak,  \* kernel version in secure storage, and whether its CRC is good
  pc,        \* the caller's place in the sequence of 2api.h
  k,         \* the kernel partition being tried, 0 before the first
  rv         \* what the last call returned

vars == <<env, ctx, secdatak, pc, k, rv>>

(***************************************************************************)
(* 2common.c: the work buffer allocator.  Sizes stay below 2^32 - WbAlign, *)
(* so the rounding does not wrap.                                          *)
(***************************************************************************)
wb_round_up(v) == ((v + WbAlign - 1) \div WbAlign) * WbAlign

vb2_aligned(at, align) == at % align = 0

\* vb2_workbuf_init of what lies above workbuf_used; the size is 0 when even
\* the padding does not fit.
vb2_workbuf_from_ctx(c) ==
  LET at == wb_round_up(c.used)
  IN IF at > env.buf THEN [buf |-> c.used, size |-> 0]
     ELSE [buf |-> at, size |-> env.buf - at]

\* vb2_workbuf_alloc returns NULL unless the rounded size fits.
Granted(wb, n) == wb_round_up(n) <= wb.size

vb2_workbuf_alloc(wb, n) ==
  [buf |-> wb.buf + wb_round_up(n), size |-> wb.size - wb_round_up(n)]

vb2_workbuf_free(wb, n) ==
  [buf |-> wb.buf - wb_round_up(n), size |-> wb.size + wb_round_up(n)]

\* vb2_workbuf_realloc frees the old size; the caller then allocates the new.
Freed(wb, old) == vb2_workbuf_free(vb2_workbuf_alloc(wb, old), old)

\* The buffer's contents are the writes still visible in it, oldest first: a
\* cell holds what the last write that covers it put there.
Covers(w, i) == w.at <= i /\ i < w.at + w.n

Cell(c, i) == c.mem[Max({j \in DOMAIN c.mem : Covers(c.mem[j], i)})].tag

\* Writing n cells from at on; writes wholly covered by this one disappear.
Put(c, at, n, tag) ==
  [c EXCEPT !.mem = Append(SelectSeq(@, LAMBDA w : w.at < at \/ w.at + w.n > at + n),
                           [at |-> at, n |-> n, tag |-> tag])]

\* A read or a computation into freshly allocated space, when it was granted.
Fill(c, wb, n, tag) == IF Granted(wb, n) THEN Put(c, wb.buf, n, tag) ELSE c

\* The first check that fails decides what a function returns.
FirstError(checks) ==
  LET failed == {i \in DOMAIN checks : checks[i][1]}
  IN IF failed = {} THEN "SUCCESS" ELSE checks[Min(failed)][2]

(***************************************************************************)
(* lib20/common.c: what checking a signature needs above the object.       *)
(***************************************************************************)
\* The digest, then the digest context, then (that freed) the RSA arrays.
VerifyRoom(wb) ==
  LET above == vb2_workbuf_alloc(wb, Sz.digest)
  IN Granted(wb, Sz.digest) /\ Granted(above, Sz.dc) /\ Granted(above, Sz.rsa)

vb2_verify_data(wb, good) == VerifyRoom(wb) /\ good

\* The hash of a keyblock needs the digest and the context alone.
vb2_verify_keyblock_hash(wb, good) ==
  Granted(wb, Sz.digest) /\ Granted(vb2_workbuf_alloc(wb, Sz.digest), Sz.dc) /\ good

\* The scratch the checks above write.
Scratch(c, wb) == Fill(c, wb, Sz.digest + Sz.dc + Sz.rsa, <<"scratch", 0>>)

vb2_unpack_key_ok(at) == vb2_aligned(at, KeyAlign)

(***************************************************************************)
(* The context: an object is where it starts and how many cells it has.    *)
(***************************************************************************)
None == [off |-> 0, size |-> 0]
SD == <<"shared_data", 0>>

vb2_init_context(buf) ==
  [mem |-> <<[at |-> 0, n |-> buf, tag |-> <<"free", 0>>], [at |-> 0, n |-> Sz.sd, tag |-> SD]>>,
   used |-> Sz.sd, data_key |-> None, preamble |-> None, kernel_key |-> None,
   hash |-> None, vblock_preamble_offset |-> 0, kernel_version |-> 0,
   kernel_version_secdatak |-> 0, signed |-> FALSE, secdatak_init |-> FALSE,
   hash_tag |-> 0, remaining |-> 0, engine |-> "sw",
   fed |-> [sw |-> 0, hw |-> 0], since |-> 0, key_of |-> 0, pre_of |-> 0]

End(o) == o.off + o.size

(***************************************************************************)
(* The firmware stage.  fault is the read of vb2ex_read_resource that      *)
(* fails, 0 for none.                                                      *)
(***************************************************************************)
\* kb->keyblock_size read from the keyblock in memory: what it says once
\* something has been written over the field is not the keyblock's size.
KeyblockSizeAt(c, at, v) == IF Cell(c, at + Sz.size_field)[1] = "kb" THEN v.kb ELSE -1

\* The keyblock is read above the root key.
AboveRootKey(wb, f) == vb2_workbuf_alloc(wb, f.root)

\* lib20 and lib21 differ in when the offset of the preamble is noted, and in
\* lib21 reading the header of an object into a local instead of the buffer.
vb2_load_fw_keyblock(c, f, lib, fault) ==
  LET wb0 == vb2_workbuf_from_ctx(c)
      header == IF lib = "20" THEN Sz.kb_header ELSE 0
      wb1 == Freed(AboveRootKey(wb0, f), header)
      wb2 == vb2_workbuf_alloc(wb1, f.kb)
      result == FirstError(
        << <<~Granted(wb0, f.root), "WORKBUF">>, <<fault = 1, "READ">>,
           <<~vb2_unpack_key_ok(wb0.buf), "ALIGN">>,
           <<~Granted(AboveRootKey(wb0, f), header), "WORKBUF">>, <<fault = 2, "READ">>,
           <<~Granted(wb1, f.kb), "WORKBUF">>, <<fault = 3, "READ">>,
           <<~vb2_verify_data(wb2, f.bad # "keyblock"), "KEYBLOCK">>,
           <<f.bad = "key_version", "VERSION">> >>)
      read == Scratch(Fill(Fill(c, wb0, f.root, <<"root_key", 0>>), wb1, f.kb, <<"kb", 0>>), wb2)
      moved == Put(read, wb0.buf, f.key, <<"data_key", 0>>)
      key == [off |-> wb0.buf, size |-> f.key]
      noted == KeyblockSizeAt(IF lib = "20" THEN moved ELSE read, wb1.buf, f)
  IN IF result = "SUCCESS"
     THEN [rv |-> result,
           c |-> [moved EXCEPT !.data_key = key, !.key_of = 0, !.used = End(key),
                               !.vblock_preamble_offset = noted]]
     ELSE [rv |-> result,
           c |-> IF lib = "21" /\ result = "VERSION"
                 THEN [read EXCEPT !.vblock_preamble_offset = noted] ELSE read]

\* lib20 keeps the preamble above the data key; lib21 moves it down over the
\* data key, which is gone even when the version is then refused.
vb2_load_fw_preamble(c, f, lib, fault) ==
  LET wb0 == vb2_workbuf_from_ctx(c)
      header == IF lib = "20" THEN Sz.pre_header ELSE 0
      free == Freed(wb0, header)
      wb1 == vb2_workbuf_alloc(free, f.pre)
      found == c.vblock_preamble_offset = f.kb
      result == FirstError(
        << <<c.data_key.size = 0, "DATA_KEY">>,
           <<~vb2_unpack_key_ok(c.data_key.off), "ALIGN">>,
           <<~Granted(wb0, header), "WORKBUF">>, <<fault = 1, "READ">>,
           <<~found, "PREAMBLE">>,
           <<~Granted(free, f.pre), "WORKBUF">>, <<fault = 2, "READ">>,
           <<~vb2_verify_data(wb1, f.bad # "preamble"), "PREAMBLE">>,
           <<f.bad = "fw_version", "VERSION">> >>)
      read == Scratch(Fill(c, free, f.pre, <<"preamble", 0>>), wb1)
      at == IF lib = "20" THEN free.buf ELSE c.data_key.off
      moved == IF lib = "20" THEN read
               ELSE [Put(read, at, f.pre, <<"preamble", 0>>) EXCEPT !.data_key = None]
      pre == [off |-> at, size |-> f.pre]
  IN [rv |-> result,
      c |-> CASE result = "SUCCESS" ->
                   [moved EXCEPT !.preamble = pre, !.pre_of = 0, !.used = End(pre)]
              [] result = "VERSION" -> moved
              [] OTHER -> read]

lib21_load_fw_keyblock(c, f, fault) == vb2_load_fw_keyblock(c, f, "21", fault)

lib21_load_fw_preamble(c, f, fault) == vb2_load_fw_preamble(c, f, "21", fault)

\* vb2api_fw_phase3: the keyblock, then the preamble.
FwPhase3(c, f, fault1, fault2) ==
  LET first == vb2_load_fw_keyblock(c, f, "20", fault1)
  IN IF first.rv # "SUCCESS" THEN first ELSE vb2_load_fw_preamble(first.c, f, "20", fault2)

lib21_fw_phase3(c, f, fault1, fault2) ==
  LET first == lib21_load_fw_keyblock(c, f, fault1)
  IN IF first.rv # "SUCCESS" THEN first ELSE lib21_load_fw_preamble(first.c, f, fault2)

\* The hash area is allocated by the first call and used again by the next.
HashArea(c) ==
  IF c.hash.size # 0 THEN c.hash
  ELSE [off |-> vb2_workbuf_from_ctx(c).buf, size |-> Sz.dc]

\* dc->using_hwcrypto: set with the hardware, cleared by vb2_digest_init.
Engine(c, engine) == IF engine = "ok" THEN "hw" ELSE "sw"

\* engine: what vb2ex_hwcrypto_digest_init says: "ok", "unsupported", "error".
\* The lib21 tag is the offset of the signature in the work buffer.
InitHash(c, f, lib, engine) ==
  LET area == HashArea(c)
      result == FirstError(
        << <<c.preamble.size = 0, "PREAMBLE">>,
           <<c.hash.size = 0 /\ ~Granted(vb2_workbuf_from_ctx(c), Sz.dc), "WORKBUF">>,
           <<lib = "20" /\ c.data_key.size = 0, "DATA_KEY">>,
           <<lib = "20" /\ ~vb2_unpack_key_ok(c.data_key.off), "ALIGN">> >>)
      placed == [Put(c, area.off, area.size, <<"hash", 0>>) EXCEPT
                   !.hash = area, !.used = IF c.hash.size = 0 THEN End(area) ELSE c.used]
      begun == [placed EXCEPT !.remaining = f.body, !.since = 0,
                  !.hash_tag = IF lib = "20" THEN 1 ELSE c.preamble.off + 1]
  IN IF result \in {"PREAMBLE", "WORKBUF"} THEN [rv |-> result, c |-> c]
     ELSE IF result # "SUCCESS" THEN [rv |-> result, c |-> placed]
     ELSE IF engine = "error" THEN [rv |-> "HWCRYPTO", c |-> begun]
     ELSE [rv |-> "SUCCESS",
           c |-> [begun EXCEPT !.engine = Engine(c, engine),
                               !.fed[IF engine = "ok" THEN "hw" ELSE "sw"] = 0]]

vb2api_init_hash2(c, f, engine) == InitHash(c, f, "21", engine)

\* "Don't extend past the data we expect to hash."
ExtendOk(c, n) == n # 0 /\ n <= c.remaining

vb2api_extend_hash(c, n) ==
  IF c.hash.size = 0 THEN [rv |-> "WORKBUF", c |-> c]
  ELSE IF ~ExtendOk(c, n) THEN [rv |-> "SIZE", c |-> c]
  ELSE [rv |-> "SUCCESS", c |-> [c EXCEPT !.remaining = @ - n, !.fed[c.engine] = @ + n,
                                         !.since = @ + n]]

\* vb2api_check_hash_get_digest (lib20: the signature of the preamble over the
\* body) and vb2api_check_hash (lib21: the hash the tag points at).  The digest
\* is of what the engine that finalises it was fed since it was started.
CheckHash(c, f, lib, engineFails) ==
  LET wb0 == vb2_workbuf_from_ctx(c)
      wb1 == vb2_workbuf_alloc(wb0, Sz.digest)
      matches == f.bad # "body" /\ c.fed[c.engine] = f.body
      result == FirstError(
        << <<lib = "20" /\ c.preamble.size = 0, "PREAMBLE">>,
           <<lib = "21" /\ c.hash_tag = 0, "TAG">>,
           <<c.hash.size = 0, "WORKBUF">>, <<c.remaining # 0, "SIZE">>,
           <<~Granted(wb0, Sz.digest), "WORKBUF">>,
           <<c.engine = "hw" /\ engineFails, "HWCRYPTO">>,
           <<lib = "20" /\ c.data_key.size = 0, "DATA_KEY">>,
           <<lib = "20" /\ ~Granted(wb1, Sz.rsa), "WORKBUF">>,
           <<~matches, "BODY">> >>)
      filled == Fill(c, wb0, Sz.digest, <<"scratch", 0>>)
      scratch == IF Granted(wb0, Sz.digest) THEN Fill(filled, wb1, Sz.rsa, <<"scratch", 0>>)
                 ELSE filled
  IN [rv |-> result, c |-> scratch]

lib21_check_hash(c, f, engineFails) == CheckHash(c, f, "21", engineFails)

(***************************************************************************)
(* The kernel stage (lib20).                                               *)
(***************************************************************************)
\* vb2_secdatak_init and vb2_secdatak_get: the CRC (and the UID) must be good.
KernelPhase1(c, sec, f, rec, fault) ==
  LET wb == vb2_workbuf_from_ctx(c)
      read == [c EXCEPT !.secdatak_init = sec.ok,
                        !.kernel_version_secdatak = IF sec.ok THEN sec.version ELSE 0]
      result == FirstError(
        << <<~sec.ok /\ ~rec, "SECDATAK">>,
           <<rec /\ ~Granted(wb, Sz.gbb), "WORKBUF">>, <<rec /\ fault = 1, "READ">>,
           <<rec /\ ~Granted(wb, f.recovery), "WORKBUF">>, <<rec /\ fault = 2, "READ">>,
           <<~rec /\ c.preamble.size = 0, "PREAMBLE">> >>)
      key == IF rec THEN [off |-> wb.buf, size |-> f.recovery]
             ELSE [off |-> Sz.sd, size |-> f.subkey]
      moved == Put(read, key.off, key.size, <<"kernel_key", 0>>)
  IN IF result # "SUCCESS" THEN [rv |-> result, c |-> read]
     ELSE [rv |-> result,
           c |-> [moved EXCEPT !.data_key = None, !.preamble = None, !.hash = None,
                               !.kernel_key = key, !.used = End(key)]]

vb2_need_signed_kernel(e) == e.rec \/ ~e.dev \/ e.signed_only

\* The flags of the keyblock against the mode of this boot.
FlagsMatch(v, e) ==
  /\ (IF e.dev THEN "dev1" ELSE "dev0") \in v.flags
  /\ (IF e.rec THEN "rec1" ELSE "rec0") \in v.flags

\* The checks of the data key's version, made outside recovery mode only.
KeyVersionOk(c, v, e) ==
  e.rec \/ (v.kv <= VersionMax /\ v.kv >= c.kernel_version_secdatak \div (VersionMax + 1))

Cleared_Kept(c) == c

\* "Clear any previous keyblock-valid flag."
Cleared(c) == [c EXCEPT !.signed = FALSE]

DataKeyPlace_OverKey(c, v) == [off |-> c.used - KeyAlign, size |-> v.key]

\* "Keep just the data key from the vblock": it goes where the used part ends.
DataKeyPlace(c, v) == [off |-> c.used, size |-> v.key]

vb2_load_kernel_keyblock(c, v, e, fault) ==
  LET wb0 == vb2_workbuf_from_ctx(c)
      free == Freed(wb0, Sz.kb_header)
      wb1 == vb2_workbuf_alloc(free, v.kb)
      sig == vb2_verify_data(wb1, v.sig)
      strict == vb2_need_signed_kernel(e)
      valid == sig /\ FlagsMatch(v, e) /\ KeyVersionOk(c, v, e)
      result == FirstError(
        << <<~vb2_unpack_key_ok(c.kernel_key.off), "ALIGN">>,
           <<~Granted(wb0, Sz.kb_header), "WORKBUF">>, <<fault = 1, "READ">>,
           <<~Granted(free, v.kb), "WORKBUF">>, <<fault = 2, "READ">>,
           <<~VerifyRoom(wb1) /\ (strict \/ ~vb2_verify_keyblock_hash(wb1, v.hash)), "WORKBUF">>,
           <<~sig /\ (strict \/ ~vb2_verify_keyblock_hash(wb1, v.hash)), "KEYBLOCK">>,
           <<strict /\ ~FlagsMatch(v, e), "FLAGS">>,
           <<strict /\ ~KeyVersionOk(c, v, e), "VERSION">> >>)
      read == Scratch(Fill(Cleared(c), free, v.kb, <<"kb", k>>), wb1)
      key == DataKeyPlace(c, v)
  IN IF result # "SUCCESS" THEN [rv |-> result, c |-> read]
     ELSE [rv |-> result,
           c |-> [Put(read, key.off, key.size, <<"data_key", k>>) EXCEPT
                    !.kernel_version = (v.kv * (VersionMax + 1)) % ((VersionMax + 1) * (VersionMax + 1)),
                    !.signed = valid \/ read.signed,
                    !.vblock_preamble_offset = KeyblockSizeAt(read, free.buf, v),
                    !.data_key = key, !.key_of = k, !.used = End(key)]]

\* A preamble that is refused leaves the data key of its keyblock behind, and
\* the combined version once its range was checked.
vb2_load_kernel_preamble(c, v, e, fault) ==
  LET wb0 == vb2_workbuf_from_ctx(c)
      free == Freed(wb0, Sz.pre_header)
      wb1 == vb2_workbuf_alloc(free, v.pre)
      version == c.kernel_version + v.pv
      result == FirstError(
        << <<c.data_key.size = 0, "DATA_KEY">>,
           <<~vb2_unpack_key_ok(c.data_key.off), "ALIGN">>,
           <<~Granted(wb0, Sz.pre_header), "WORKBUF">>, <<fault = 1, "READ">>,
           <<~Granted(free, v.pre), "WORKBUF">>, <<fault = 2, "READ">>,
           <<~VerifyRoom(wb1), "WORKBUF">>, <<~v.preamble, "PREAMBLE">>,
           <<v.pv > VersionMax, "RANGE">>,
           <<vb2_need_signed_kernel(e) /\ version < c.kernel_version_secdatak, "VERSION">> >>)
      read == Scratch(Fill(c, free, v.pre, <<"preamble", k>>), wb1)
      combined == [read EXCEPT !.kernel_version = version]
      pre == [off |-> free.buf, size |-> v.pre]
  IN [rv |-> result,
      c |-> CASE result = "SUCCESS" ->
                   [combined EXCEPT !.preamble = pre, !.pre_of = k, !.used = End(pre)]
              [] result = "VERSION" -> combined
              [] OTHER -> read]

\* vb2api_load_kernel_vblock: the keyblock, then the preamble.
LoadKernelVblock(c, v, e, fault1, fault2) ==
  LET first == vb2_load_kernel_keyblock(c, v, e, fault1)
  IN IF first.rv # "SUCCESS" THEN first ELSE vb2_load_kernel_preamble(first.c, v, e, fault2)

\* The kernel follows the preamble; it has the size that was signed.
vb2api_get_kernel_size(c, v) ==
  IF c.preamble.size = 0 THEN [offset |-> -1, size |-> -1]
  ELSE [offset |-> c.vblock_preamble_offset + c.preamble.size, size |-> v.body]

\* size is what the caller passes, good whether the data is what was signed.
vb2api_verify_kernel_data(c, v, size, good) ==
  LET wb0 == vb2_workbuf_from_ctx(c)
      wb1 == vb2_workbuf_alloc(wb0, Sz.dc)
      wb2 == vb2_workbuf_alloc(wb1, Sz.digest)
      scratch == Fill(c, wb0, Sz.dc + Sz.digest + Sz.rsa, <<"scratch", 0>>)
  IN [rv |-> FirstError(
        << <<c.preamble.size = 0, "PREAMBLE">>, <<size # v.body, "SIZE">>,
           <<~Granted(wb0, Sz.dc), "WORKBUF">>, <<c.data_key.size = 0, "DATA_KEY">>,
           <<~vb2_unpack_key_ok(c.data_key.off), "ALIGN">>,
           <<~Granted(wb1, Sz.digest), "WORKBUF">>, <<~Granted(wb2, Sz.rsa), "WORKBUF">>,
           <<~(good /\ c.key_of = k /\ c.pre_of = k), "BODY">> >>),
      c |-> scratch]

\* The condition under which phase 3 advances the version in secure storage.
RollsForward(c, e, allow) ==
  c.kernel_version > c.kernel_version_secdatak /\ c.signed /\ ~e.rec /\ allow

\* vb2_secdatak_set, with its refusal when secdatak was not initialised.
vb2api_kernel_phase3(c, sec, e, allow) ==
  IF ~RollsForward(c, e, allow) THEN [rv |-> "SUCCESS", c |-> c, sec |-> sec]
  ELSE IF ~c.secdatak_init THEN [rv |-> "SECDATAK", c |-> c, sec |-> sec]
  ELSE [rv |-> "SUCCESS", c |-> [c EXCEPT !.kernel_version_secdatak = c.kernel_version],
        sec |-> [sec EXCEPT !.version = c.kernel_version]]

(***************************************************************************)
(* The caller.                                                             *)
(***************************************************************************)
Kernel == env.kernels[k]

\* A call returns r; the caller goes on at good, or at bad when it failed.
Return(call, good, bad) ==
  \E r \in {call} :
    /\ ctx' = r.c
    /\ rv' = r.rv
    /\ pc' = IF r.rv = "SUCCESS" THEN good ELSE bad

Init ==
  /\ env \in Scenarios
  /\ ctx = [used |-> 0]
  /\ secdatak = env.secdatak
  /\ pc = "init"
  /\ k = 0
  /\ rv = "SUCCESS"

InitContext ==
  /\ pc = "init"
  /\ IF env.buf < Sz.sd
     THEN rv' = "WORKBUF_SMALL" /\ pc' = "failed" /\ UNCHANGED ctx
     ELSE /\ ctx' = vb2_init_context(env.buf)
          /\ rv' = "SUCCESS"
          /\ pc' = IF env.rec THEN "kernel" ELSE "firmware"
  /\ UNCHANGED <<env, secdatak, k>>

vb2api_fw_phase3 ==
  /\ pc = "firmware"
  /\ \E fault1 \in env.reads, fault2 \in env.reads \ {3} :
       Return(IF env.lib = "20" THEN FwPhase3(ctx, env.fw, fault1, fault2)
              ELSE lib21_fw_phase3(ctx, env.fw, fault1, fault2), "hash", "failed")
  /\ UNCHANGED <<env, secdatak, k>>

\* The caller may start the hash again before it has fed all of the body.
vb2api_init_hash ==
  /\ pc \in {"hash", "extend"}
  /\ \E engine \in env.engines :
       Return(IF env.lib = "20" THEN InitHash(ctx, env.fw, "20", engine)
              ELSE vb2api_init_hash2(ctx, env.fw, engine), "extend", "failed")
  /\ UNCHANGED <<env, secdatak, k>>

ExtendHash ==
  /\ pc = "extend"
  /\ \E n \in 0..(env.fw.body + 1) :
       Return(vb2api_extend_hash(ctx, n), "extend", "failed")
  /\ UNCHANGED <<env, secdatak, k>>

\* Only lib20 has a kernel stage.
vb2api_check_hash ==
  /\ pc = "extend"
  /\ \E engineFails \in BOOLEAN :
       Return(IF env.lib = "20" THEN CheckHash(ctx, env.fw, "20", engineFails)
              ELSE lib21_check_hash(ctx, env.fw, engineFails),
              IF env.lib = "20" THEN "kernel" ELSE "hashed", "failed")
  /\ UNCHANGED <<env, secdatak, k>>

\* After phase 1 the caller goes to the first kernel partition.
NextKernel(kk) == IF kk < Len(env.kernels) THEN "try" ELSE "out"

vb2api_kernel_phase1 ==
  /\ pc = "kernel"
  /\ \E fault \in env.reads \ {3} :
       Return(KernelPhase1(ctx, secdatak, env.fw, env.rec, fault), "next", "failed")
  /\ UNCHANGED <<env, secdatak, k>>

NextPartition ==
  /\ pc = "next"
  /\ pc' = NextKernel(k)
  /\ k' = IF k < Len(env.kernels) THEN k + 1 ELSE k
  /\ UNCHANGED <<env, ctx, secdatak, rv>>

vb2api_load_kernel_vblock ==
  /\ pc = "try"
  /\ \E fault1, fault2 \in env.reads \ {3} :
       Return(LoadKernelVblock(ctx, Kernel, env, fault1, fault2), "loaded", "next")
  /\ UNCHANGED <<env, secdatak, k>>

\* The caller asks for the size, then loads the data; the storage may fail it.
LoadKernelData ==
  /\ pc = "loaded"
  /\ \E good \in BOOLEAN :
       LET size == vb2api_get_kernel_size(ctx, Kernel).size
       IN Return(vb2api_verify_kernel_data(ctx, Kernel, size, good /\ Kernel.data),
                 "verified", "next")
  /\ UNCHANGED <<env, secdatak, k>>

\* The caller allows the roll forward for a partition known to be successful.
FinishVerified ==
  /\ pc = "verified"
  /\ LET r == vb2api_kernel_phase3(ctx, secdatak, env, Kernel.successful)
     IN Return(r, "booted", "failed") /\ secdatak' = r.sec
  /\ UNCHANGED <<env, k>>

\* Out of kernels: phase 3 without the permission to roll forward, or
\* vb2api_fail; either way no kernel starts.
FinishOut ==
  /\ pc = "out"
  /\ LET r == vb2api_kernel_phase3(ctx, secdatak, env, FALSE)
     IN ctx' = r.c /\ secdatak' = r.sec /\ rv' = r.rv
  /\ pc' = "failed"
  /\ UNCHANGED <<env, k>>

Next ==
  \/ InitContext \/ vb2api_fw_phase3 \/ vb2api_init_hash \/ ExtendHash
  \/ vb2api_check_hash \/ vb2api_kernel_phase1 \/ NextPartition
  \/ vb2api_load_kernel_vblock \/ LoadKernelData \/ FinishVerified \/ FinishOut

Spec == Init /\ [][Next]_vars

(***************************************************************************)
(* What the buffer promises.                                               *)
(***************************************************************************)
Results == {"SUCCESS", "WORKBUF", "WORKBUF_SMALL", "READ", "ALIGN", "KEYBLOCK", "VERSION",
            "DATA_KEY", "PREAMBLE", "HWCRYPTO", "SIZE", "TAG", "BODY", "SECDATAK", "FLAGS",
            "RANGE"}

TypeOK ==
  /\ rv \in Results
  /\ pc \in {"init", "firmware", "hash", "extend", "hashed", "kernel", "next", "try", "loaded",
             "verified", "booted", "out", "failed"}
  /\ k \in 0..Len(env.kernels)
  /\ pc # "init" /\ rv # "WORKBUF_SMALL" => ctx.used \in Sz.sd..env.buf

\* The object o, when there is one, is inside the used part of the buffer and
\* every cell of it is what was written as tag.
Whole(o, tag) ==
  o.size > 0 => End(o) <= ctx.used /\ \A i \in o.off..(End(o) - 1) : Cell(ctx, i) = tag

(* Whatever was loaded, moved, refused or abandoned before, every object that  *)
(* vb2_shared_data points at (data key, preamble, hash area, kernel key), and  *)
(* the shared data itself, is below workbuf_used and has not been overwritten  *)
(* by the scratch space, the keyblocks or the moves of later calls: the        *)
(* comments "Work buffer now contains" of lib20/misc.c, kernel.c and           *)
(* api_kernel.c.                                                               *)
ObjectsIntact ==
  (pc # "init" /\ rv # "WORKBUF_SMALL") =>
    /\ Whole([off |-> 0, size |-> Sz.sd], SD)
    /\ Whole(ctx.data_key, <<"data_key", ctx.key_of>>)
    /\ Whole(ctx.preamble, <<"preamble", ctx.pre_of>>)
    /\ Whole(ctx.hash, <<"hash", 0>>)
    /\ Whole(ctx.kernel_key, <<"kernel_key", 0>>)

\* A good firmware vblock whose data key is no larger than the root key.
GoodFirmware(f) == f.bad = "none" /\ f.key <= f.root

(* A good vblock in a buffer with room to spare is refused only because a read *)
(* failed: neither the data key written over the root key nor the preamble     *)
(* moved over the data key destroys what is still to be read.  vb2_load_fw_    *)
(* keyblock of lib20 reads keyblock_size after that move; its comment counts   *)
(* on a root key at least as large as the data key.                            *)
GoodFirmwareLoads ==
  (vb2api_fw_phase3 /\ env.roomy /\ GoodFirmware(env.fw)) => rv' \in {"SUCCESS", "READ"}

(* The check of the hash accepts exactly the signed body fed completely since  *)
(* the last initialisation: nothing left over from an earlier, abandoned one   *)
(* (the hash area is shared, the engine may differ) makes it accept less or    *)
(* refuse that, unless the engine itself fails.                                *)
HashVerdict ==
  vb2api_check_hash =>
        LET good == env.fw.bad = "none" /\ ctx.since = env.fw.body
        IN /\ rv' = "SUCCESS" => good
           /\ good /\ env.roomy => rv' \in {"SUCCESS", "HWCRYPTO"}

\* What makes kernel v one this machine may boot, in terms of the vblock and
\* the mode alone.
MayBoot(v) ==
  LET strict == env.rec \/ ~env.dev \/ env.signed_only
      stored == IF secdatak.ok THEN secdatak.version ELSE 0
  IN /\ v.preamble /\ v.data /\ (v.sig \/ (~strict /\ v.hash))
     /\ strict => v.sig /\ FlagsMatch(v, env) /\ v.kv * (VersionMax + 1) + v.pv >= stored

(* A kernel whose data verified meets the rules of the boot mode, whatever     *)
(* kernels were tried and dropped before it: in the modes that need a signed   *)
(* kernel the keyblock is signed, its flags match and its version is not       *)
(* rolled back; in developer mode at least its hash is right.                  *)
VerifiedMayBoot == pc = "verified" => MayBoot(Kernel)

(* The version in secure storage changes only when phase 3 follows a verified  *)
(* kernel; it then grows, outside recovery mode, to that kernel's own version, *)
(* and the kernel was signed for this mode, not merely accepted in developer   *)
(* mode.  A signed keyblock of an earlier, refused kernel does not count.      *)
RollForwardEarned ==
  secdatak' # secdatak =>
        /\ pc = "verified" /\ ~env.rec /\ Kernel.successful
        /\ Kernel.sig /\ FlagsMatch(Kernel, env)
        /\ secdatak'.version = Kernel.kv * (VersionMax + 1) + Kernel.pv
        /\ secdatak'.version > secdatak.version

\* Refusals that say nothing about the vblock itself.
Environmental == {"WORKBUF", "ALIGN", "DATA_KEY"}

(* With room for all the kernels and preambles padded to the alignment of a    *)
(* key, a kernel is refused only for what is wrong with it (or a failed read): *)
(* the kernels tried before it, whose keys and preambles are never given back, *)
(* do not matter.                                                              *)
NextKernelLoads ==
  (vb2api_load_kernel_vblock /\ env.roomy) => rv' \notin Environmental

(* What shares the work buffer does not spoil it for the others: the objects
   stay whole, a good firmware loads, its hash is checked as fed, and the
   kernels tried before leave room for the next one. *)
BufferShared == [][ObjectsIntact' /\ GoodFirmwareLoads /\ HashVerdict /\ NextKernelLoads]_vars

(* A kernel boots, and moves the version in secure storage, by its own merit. *)
KernelEarned == [][VerifiedMayBoot' /\ RollForwardEarned]_vars
=============================================================================
