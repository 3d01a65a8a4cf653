---------------------------- MODULE StructCalls -----------------------------
(***************************************************************************)
(* The sequential algorithms of the library, called on bounded inputs: a   *)
(* behaviour is one call and its result.  Here are the readers and writers *)
(* of the signed structures.                                               *)
(***************************************************************************)
EXTENDS Integers, Sequences, FiniteSets

VARIABLES
  call,     \* the function called and its arguments
  done,     \* it has returned
  result    \* what it returned

vars == <<call, done, result>>

Return(fn, r) ==
  call.fn = fn /\ ~done /\ done' = TRUE /\ result' = r /\ UNCHANGED call

Returned(fn) == call.fn = fn /\ done

N == INSTANCE VbStructs   WITH Bits <- 3
S == INSTANCE VbStructs WITH Bits <- 4
H == INSTANCE VbStructs WITH Bits <- 6
O == INSTANCE Vb2Objects  WITH Bits <- 5, Align <- 2
P == INSTANCE Vb2Objects  WITH Bits <- 8, Align <- 2

(***************************************************************************)
(* Inputs                                                                  *)
(***************************************************************************)
Members ==
  [fn : {"member"}, parent : {0, 6}, parent_size : N!Word, member : N!Word,
   member_size : {1, 3}, off : N!Word, size : N!Word]

SigLen  == 2                \* scaled sizes of an RSA signature and a digest
HashLen == 3

Refs(at, offs, sizes) == [at : {at}, off : offs, size : sizes]

Sigs(at, offs, sizes, datas) ==
  [at : {at}, off : offs, size : sizes, data_size : datas, intact : {TRUE}]

AnySig == [at |-> 1, off |-> 1, size |-> SigLen, data_size |-> 4, intact |-> FALSE]

KeyBlocks ==
  [fn : {"keyblock"}, size : {3, 9, 15}, key : {S!NoKey, S!BadKey, SigLen},
   b : [form : {"ok"}, size : {0, 4, 9, 15}, checksum : {AnySig},
        signature : Sigs(1, {0, 1, 3, 15}, {0, SigLen, 14}, {3, 4, 7, 15}),
        data_key : Refs(3, {0, 1, 4, 13}, {0, 3, 8, 15})]]

HashedBlocks ==
  [fn : {"keyblock_hash"}, size : {3, 9, 15},
   b : [form : {"ok", "bad"}, size : {4, 9, 15}, signature : {AnySig},
        checksum : Sigs(2, {1, 3, 8, 15}, {0, HashLen, 14}, {3, 4, 7, 15}) \cup
                   {AnySig},
        data_key : Refs(3, {0, 1, 4, 13}, {0, 3, 8, 15})]]

FwPreambles ==
  [fn : {"fw_preamble"}, size : {4, 15},
   p : [form : {"ok"}, minor : {0, 1}, size : {4, 5, 9},
        signature : Sigs(1, {1, 4, 15}, {SigLen, 14}, {4, 5, 7, 15}) \cup {AnySig},
        kernel_subkey : Refs(2, {1, 3, 14}, {0, 2, 12}),
        body_signature : Refs(3, {1, 2, 15}, {0, 12})]]

Parts == [address : {0, 3, 5}, size : {0, 2, 13}]

KernelPreambles ==
  [fn : {"kernel_preamble"}, size : {5, 15},
   p : [form : {"ok"}, minor : 0 .. 2, size : {4, 6, 9},
        signature : Sigs(1, {1, 15}, {SigLen}, {5, 8, 15}),
        body_signature : Sigs(3, {1, 3, 15}, {2, 12}, {0, 4}),
        body_load_address : {3, 14}, bootloader : Parts, vmlinuz : {[address |-> 4, size |-> 1]}]]

(* The host library: sizes of keys, signatures and digests, and a padding  *)
Created ==
  [fn : {"host_keyblock"}, key_size : 0 .. 3, siglen : {H!NoKey, 0, 1, 2},
   hashlen : 1 .. 2]
    \cup [fn : {"host_fw_preamble"}, key_size : 0 .. 2, siglen : 0 .. 2,
          body : [size : 0 .. 2, data_size : {0, 3, 9}]]
    \cup [fn : {"host_kernel_preamble"}, siglen : 0 .. 2, desired : {0, 9, 12},
          body : [size : 0 .. 2, data_size : {0, 3, 9}]]
    \cup [fn : {"host_key"}, key : [size : 1 .. 3, off : {1, 4}, at : {0},
                                   algorithm : 0 .. 2, version : 0 .. 3]]

KeyLen == [a \in 0 .. 2 |-> a + 1]    \* key size by algorithm
MaxVersion == 2

(* lib21: what may be found at the offsets of a buffer *)
Sig(total, desc, off, alg, id, data_size) ==
  [magic |-> "signature", major |-> TRUE, total |-> total, fixed |-> 4,
   desc |-> desc, terminated |-> TRUE, sig_offset |-> off,
   sig_size |-> O!vb2_sig_size(alg, "sha"), sig_alg |-> alg, hash_alg |-> "sha",
   id |-> id, data_size |-> data_size,
   made |-> [by |-> "owner", size |-> data_size]]

Found ==
  {Sig(8, 0, 4, "rsa", "a", 8), Sig(8, 0, 4, "rsa", "h", 8), Sig(6, 0, 4, "none", "h", 3),
   Sig(8, 2, 6, "none", "h", 6), Sig(30, 0, 4, "rsa", "a", 8),
   Sig(8, 0, 4, "rsa", "a", 12), Sig(4, 30, 4, "rsa", "a", 10), O!Zeros}

Key21 == [id |-> "a", sig_alg |-> "rsa", hash_alg |-> "sha", secret |-> "owner", desc |-> 0]

Keyblocks21 ==
  [fn : {"keyblock21"}, size : {16},
   b : [magic : {"keyblock"}, major : {TRUE}, total : {16, 24}, fixed : {2, 4},
        desc : {0, 2, 30}, terminated : {TRUE}, key_offset : {4, 6, 30},
        sig_offset : {4, 12, 14}, sig_count : 0 .. 2,
        objs : [{4, 12} -> Found] \cup [{6, 14} -> Found]]]

Preambles21 ==
  [fn : {"preamble21"}, size : {28},
   p : [magic : {"preamble"}, major : {TRUE}, total : {16, 28, 30}, fixed : {4},
        desc : {0, 2}, terminated : {TRUE, FALSE}, hash_offset : {4, 6},
        sig_offset : {4, 12, 20}, hash_count : 0 .. 2,
        objs : [{4, 10, 12} -> Found \ {Sig(30, 0, 4, "rsa", "a", 8), Sig(8, 2, 6, "none", "h", 6)}]]]

SigningKeys ==
  [id : {"a", "b"}, sig_alg : {"rsa", "none"}, hash_alg : {"sha"}, secret : {"owner"},
   desc : 0 .. 3]

Created21 ==
  [fn : {"host_keyblock21"}, key : SigningKeys, desc : 0 .. 2,
   keys : {ks \in SigningKeys \X SigningKeys : ks[1].id # ks[2].id}]
    \cup [fn : {"host_preamble21"}, key : SigningKeys, desc : 0 .. 2,
          hashes : UNION {[1 .. n -> {k \in SigningKeys : k.sig_alg = "none"}] : n \in 0 .. 2}]
    \cup [fn : {"host_key21"}, key : SigningKeys, der : {1, 5}]

(***************************************************************************)
(* Calls                                                                   *)
(***************************************************************************)
CallMember ==
  Return("member",
    [vb1 |-> N!VerifyMemberInside(call.parent_size, call.member, call.member_size,
                                  call.off, call.size),
     vb2 |-> N!vb2_verify_member_inside(call.parent, call.parent_size,
               N!Wrap(call.parent + call.member), call.member_size,
               call.off, call.size)])

CallKeyBlock ==
  Return("keyblock",
    [vb1 |-> S!KeyBlockVerify(call.b, call.size, call.key, FALSE, HashLen),
     vb2 |-> S!vb2_verify_keyblock(call.b, call.size, SigLen)])

CallKeyBlockHash ==
  Return("keyblock_hash",
    [vb1 |-> S!KeyBlockVerify(call.b, call.size, S!NoKey, TRUE, HashLen),
     vb2 |-> S!vb2_verify_keyblock_hash(call.b, call.size)])

CallFwPreamble ==
  Return("fw_preamble",
    [vb1 |-> S!VerifyFirmwarePreamble(call.p, call.size, SigLen),
     vb2 |-> S!vb2_verify_fw_preamble(call.p, call.size, SigLen)])

CallKernelPreamble ==
  Return("kernel_preamble",
    [vb1 |-> S!VerifyKernelPreamble(call.p, call.size, SigLen),
     vb2 |-> S!vb2_verify_kernel_preamble(call.p, call.size, SigLen)])

CallHostKeyBlock ==
  LET b == H!KeyBlockCreate(call.key_size, call.siglen, call.hashlen) IN
  Return("host_keyblock",
    [signature |-> {H!KeyBlockVerify(b, b.size, call.siglen, FALSE, call.hashlen),
                    H!vb2_verify_keyblock(b, b.size, call.siglen)},
     hash |-> {H!KeyBlockVerify(b, b.size, H!NoKey, TRUE, call.hashlen),
               H!vb2_verify_keyblock_hash(b, b.size)}])

CallHostFwPreamble ==
  LET p == H!CreateFirmwarePreamble(call.key_size, call.body, call.siglen) IN
  Return("host_fw_preamble",
    [accepts |-> {H!VerifyFirmwarePreamble(p, p.size, call.siglen),
                  H!vb2_verify_fw_preamble(p, p.size, call.siglen)},
     body |-> p.body_signature])

CallHostKernelPreamble ==
  LET none == [address |-> 0, size |-> 0]
      p == H!CreateKernelPreamble(call.body, call.siglen, call.desired, 0, none, none)
  IN Return("host_kernel_preamble",
       [accepts |-> {H!VerifyKernelPreamble(p, p.size, call.siglen),
                     H!vb2_verify_kernel_preamble(p, p.size, call.siglen)},
        body |-> p.body_signature])

CallHostKey ==
  LET w == H!PublicKeyWrite(call.key) IN
  Return("host_key",
    [okay |-> H!PublicKeyLooksOkay(w.key, w.file_size, KeyLen, MaxVersion), key |-> w.key])

CallKeyblock21 ==
  Return("keyblock21", [rv |-> O!vb2_verify_keyblock(call.b, call.size, Key21)])

CallPreamble21 ==
  Return("preamble21", [rv |-> O!vb2_verify_fw_preamble(call.p, call.size, Key21),
                        hash |-> O!FindHash(call.p, "h")])

CallHostKeyblock21 ==
  LET b == P!vb2_keyblock_create(call.key, call.keys, call.desc) IN
  Return("host_keyblock21",
    [created |-> b.rv,
     accepted |-> {P!vb2_verify_keyblock(b, b.total, call.keys[i]) : i \in 1 .. 2},
     key |-> P!vb2_unpack_key(b.objs[b.key_offset], b.objs[b.key_offset].total)])

CallHostPreamble21 ==
  LET hash(i) == P!vb2_sign_data(7, call.hashes[i])
      p == P!vb2_fw_preamble_create(call.key, [i \in DOMAIN call.hashes |-> hash(i)], call.desc)
  IN Return("host_preamble21",
       [created |-> p.rv, accepted |-> P!vb2_verify_fw_preamble(p, p.total, call.key)])

CallHostKey21 ==
  LET k == P!vb2_private_key_write(call.key, call.der) IN
  Return("host_key21", [rv |-> P!vb2_private_key_unpack(k, k.total)])

StructInputs ==
  \/ call \in Members
  \/ call \in KeyBlocks /\ (call.key # SigLen => call.size = 15)
  \/ call \in HashedBlocks
  \/ call \in FwPreambles
  \/ call \in KernelPreambles
  \/ call \in Created
  \/ /\ call \in Keyblocks21
     /\ call.b.desc = 30 => call.b.key_offset = 4 /\ call.b.sig_offset = 12
     /\ call.b.key_offset = 30 => call.b.desc = 0
  \/ call \in Preambles21 /\ (~call.p.terminated => call.p.total = 16 /\ call.p.desc = 2)
  \/ call \in Created21

StructNext ==
  \/ CallMember \/ CallKeyBlock \/ CallKeyBlockHash \/ CallFwPreamble
  \/ CallKernelPreamble \/ CallHostKeyBlock \/ CallHostFwPreamble
  \/ CallHostKernelPreamble \/ CallHostKey \/ CallKeyblock21 \/ CallPreamble21
  \/ CallHostKeyblock21 \/ CallHostPreamble21 \/ CallHostKey21

(***************************************************************************)
(* Properties                                                              *)
(***************************************************************************)
(* The bytes a reference names, if there are any, end within the limit *)
DataInside(ref, limit) == ref.size > 0 => ref.at + ref.off + ref.size <= limit

(* VerifyMemberInside accepts exactly the members whose header and data    *)
(* both end within the parent, whatever wraps on the way.                  *)
MemberInsideExact ==
  Returned("member") =>
    (result.vb1 <=> /\ call.member + call.member_size <= call.parent_size
                    /\ call.member + call.off + call.size <= call.parent_size)

(* vb2_verify_member_inside, with its signed pointer differences, accepts  *)
(* only a parent that fits in memory, a member inside it and data behind   *)
(* the member and inside the parent; and it accepts those when the parent  *)
(* is smaller than half of the address space.                              *)
Vb2MemberInside ==
  Returned("member") =>
    LET fits == /\ call.parent + call.parent_size <= N!MaxWord
                /\ call.member + call.member_size <= call.parent_size
                /\ call.member + call.off + call.size <= call.parent_size
                /\ call.size > 0 => call.off >= call.member_size
    IN /\ result.vb2 /\ call.size > 0 => fits
       /\ fits /\ call.parent_size < 4 => result.vb2

(* A key block either reader accepts: everything a caller then uses, the   *)
(* header and the data key, is inside the signed bytes, and those and the  *)
(* signature are inside the block and the buffer.                          *)
Covered(b, sig, size) ==
  /\ S!SizeofKeyBlock <= sig.data_size /\ sig.data_size <= b.size /\ b.size <= size
  /\ DataInside(b.data_key, sig.data_size)
  /\ DataInside(sig, b.size)

KeyBlockCovered ==
  /\ Returned("keyblock") =>
       ("SUCCESS" \in {result.vb1, result.vb2} =>
          Covered(call.b, call.b.signature, call.size))
  /\ Returned("keyblock_hash") =>
       ("SUCCESS" \in {result.vb1, result.vb2} =>
          Covered(call.b, call.b.checksum, call.size))

(* A firmware or kernel preamble either reader accepts: the fields the     *)
(* getters read, the body signature and the kernel subkey are inside the   *)
(* signed bytes, and those are inside the buffer.  The vb2 reader asks a   *)
(* kernel preamble only for as many signed bytes as a firmware preamble    *)
(* header has.                                                             *)
PreambleCovered ==
  /\ Returned("fw_preamble") =>
       ("SUCCESS" \in {result.vb1, result.vb2} =>
          /\ S!FirmwarePreambleRead(call.p) <= call.p.signature.data_size
          /\ call.p.signature.data_size <= call.p.size /\ call.p.size <= call.size
          /\ DataInside(call.p.body_signature, call.p.signature.data_size)
          /\ DataInside(call.p.kernel_subkey, call.p.signature.data_size))
  /\ Returned("kernel_preamble") =>
       /\ "SUCCESS" \in {result.vb1, result.vb2} =>
            /\ call.p.signature.data_size <= call.size
            /\ DataInside(call.p.body_signature, call.p.signature.data_size)
       /\ result.vb1 = "SUCCESS" =>
            S!KernelPreambleRead(call.p) <= call.p.signature.data_size

(* The bootloader of a kernel preamble the vb2 reader accepts lies in the  *)
(* body that the body signature covers.                                    *)
BootloaderInBody ==
  Returned("kernel_preamble") =>
    (result.vb2 = "SUCCESS" /\ call.p.bootloader.size > 0 =>
       /\ call.p.body_load_address <= call.p.bootloader.address
       /\ call.p.bootloader.address + call.p.bootloader.size
            <= call.p.body_load_address + call.p.body_signature.data_size)

(* A signed key block or firmware preamble that vb2 accepts is accepted by *)
(* vboot1 as well: the two readers of one format never disagree that way.  *)
ReadersAgree ==
  /\ Returned("keyblock") /\ call.key = SigLen =>
       (result.vb2 = "SUCCESS" /\ call.b.data_key.size > 0 => result.vb1 = "SUCCESS")
  /\ Returned("fw_preamble") =>
       (result.vb2 = "SUCCESS" /\ call.p.kernel_subkey.size > 0
          /\ call.p.body_signature.size > 0 => result.vb1 = "SUCCESS")

(* What the host library creates, both readers accept: signing an object   *)
(* and storing the signature leaves the signed bytes as they were.         *)
HostAccepted ==
  /\ Returned("host_keyblock") =>
       /\ result.hash = {"SUCCESS"}
       /\ call.siglen = H!NoKey \/ result.signature = {"SUCCESS"}
  /\ Returned("host_fw_preamble") \/ Returned("host_kernel_preamble") =>
       /\ result.accepts = {"SUCCESS"}
       /\ result.body.size = call.body.size
       /\ result.body.data_size = call.body.data_size

(* A public key written to a file is accepted when it is read back exactly *)
(* when its size fits its algorithm and its version fits in the TPM, and   *)
(* it keeps its algorithm and version.                                     *)
HostKeyRoundTrip ==
  Returned("host_key") =>
    /\ result.okay <=> /\ call.key.size = KeyLen[call.key.algorithm]
                       /\ call.key.version <= MaxVersion
    /\ result.key.algorithm = call.key.algorithm
    /\ result.key.version = call.key.version

(* A lib21 key block that is accepted: the header and the data key lie     *)
(* before the signatures, so inside the signed bytes, and the block inside *)
(* the buffer.                                                             *)
Keyblock21Covered ==
  Returned("keyblock21") =>
    (result.rv = "SUCCESS" =>
       /\ call.b.total <= call.size
       /\ call.b.fixed + call.b.desc <= call.b.key_offset
       /\ call.b.key_offset + O!At(call.b, call.b.key_offset).total <= call.b.sig_offset
       /\ call.b.sig_offset < call.b.total)

(* A lib21 preamble that is accepted: the hash vb2api_init_hash2 picks is  *)
(* one of the hashes that were verified, a bare hash inside the signed     *)
(* bytes.                                                                  *)
Preamble21Covered ==
  Returned("preamble21") =>
    (result.rv = "SUCCESS" /\ result.hash.found =>
       LET h == O!At(call.p, result.hash.off) IN
       /\ h.sig_alg = "none"
       /\ call.p.fixed + call.p.desc <= result.hash.off
       /\ result.hash.off + h.total <= call.p.sig_offset
       /\ call.p.sig_offset <= call.p.total /\ call.p.total <= call.size)

(* What the lib21 host library creates, lib21 accepts: a key block with    *)
(* the public half of each of its signing keys, its data key, a preamble,  *)
(* a private key read back.                                                *)
Host21Accepted ==
  /\ Returned("host_keyblock21") =>
       result = [created |-> "SUCCESS", accepted |-> {"SUCCESS"}, key |-> "SUCCESS"]
  /\ Returned("host_preamble21") =>
       result = [created |-> "SUCCESS", accepted |-> "SUCCESS"]
  /\ Returned("host_key21") => result.rv = "SUCCESS"
=============================================================================
