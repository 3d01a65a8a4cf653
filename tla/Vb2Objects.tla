----------------------------- MODULE Vb2Objects -----------------------------
(***************************************************************************)
(* The self-describing objects of the second verified-boot format: the     *)
(* readers in firmware/lib21/common.c and packed_key.c, and the writers in *)
(* host/lib21/.                                                            *)
(*                                                                         *)
(* An object starts with a common header [magic, major, total, fixed,      *)
(* desc]; "total" is the size of the object, "fixed" of its fixed part,    *)
(* "desc" of the description behind it.  Objects nest: "objs" of a key     *)
(* block or a preamble is what a reader finds at an offset of its buffer.  *)
(* Sizes are words of "Bits" bits that wrap; Align units stand for the     *)
(* four bytes that sizes and offsets must be a multiple of.                *)
(***************************************************************************)
EXTENDS Integers, Sequences

CONSTANTS Bits, Align

Word    == 0 .. 2^Bits - 1
Wrap(n) == n % 2^Bits
Aligned(n) == n % Align = 0
RoundUp(n) == ((n + Align - 1) \div Align) * Align

SizeofCommon   == 1 * Align     \* struct vb2_struct_common
SizeofObject   == 2 * Align     \* vb2_signature, vb2_packed_key,
                                \* vb2_keyblock, vb2_fw_preamble
(***************************************************************************)
(* lib21/common.c                                                          *)
(***************************************************************************)
vb2_verify_common_header(c, parent_size) ==
  IF parent_size < c.total THEN "TOTAL_SIZE"
  ELSE IF c.total < c.fixed \/ c.fixed < SizeofCommon THEN "FIXED_SIZE"
  ELSE IF ~(Aligned(c.total) /\ Aligned(c.fixed) /\ Aligned(c.desc)) THEN "UNALIGNED"
  ELSE IF c.desc > 0 /\ Wrap(c.fixed + c.desc) < c.fixed THEN "DESC_WRAPS"
  ELSE IF c.desc > 0 /\ Wrap(c.fixed + c.desc) > c.total THEN "DESC_SIZE"
  ELSE IF c.desc > 0 /\ ~c.terminated THEN "DESC_TERMINATOR"
  ELSE "SUCCESS"

(* A member starts at or after *min_offset and moves it to its end; zero   *)
(* stands for "no member yet".  The result is [rv, min].                   *)
vb2_verify_common_member(c, min_offset, offset, size) ==
  LET end == Wrap(offset + size)
      min == IF min_offset = 0 THEN Wrap(c.fixed + c.desc) ELSE min_offset
  IN IF end < offset THEN [rv |-> "MEMBER_WRAPS", min |-> min_offset]
     ELSE IF ~(Aligned(offset) /\ Aligned(size))
       THEN [rv |-> "MEMBER_UNALIGNED", min |-> min_offset]
     ELSE IF offset < min THEN [rv |-> "MEMBER_OVERLAP", min |-> min]
     ELSE IF end > c.total THEN [rv |-> "MEMBER_SIZE", min |-> min]
     ELSE [rv |-> "SUCCESS", min |-> end]

(* "m" is what the buffer holds at the offset *)
vb2_verify_common_subobject(p, min_offset, offset, m) ==
  LET member == vb2_verify_common_member(p, min_offset, offset, SizeofCommon)
      header == vb2_verify_common_header(m, Wrap(p.total - offset))
  IN IF member.rv # "SUCCESS" THEN member
     ELSE IF header # "SUCCESS" THEN [rv |-> header, min |-> member.min]
     ELSE [rv |-> "SUCCESS", min |-> Wrap(offset + m.total)]

(* Sizes by algorithm; zero for an algorithm that is not supported.  The   *)
(* signature algorithm "none" is a bare hash.                              *)
vb2_digest_size(hash_alg) == IF hash_alg = "sha" THEN Align ELSE 0
vb2_rsa_sig_size(sig_alg) == IF sig_alg = "rsa" THEN 2 * Align ELSE 0

vb2_sig_size(sig_alg, hash_alg) ==
  IF vb2_digest_size(hash_alg) = 0 THEN 0
  ELSE IF sig_alg = "none" THEN vb2_digest_size(hash_alg)
  ELSE vb2_rsa_sig_size(sig_alg)

vb2_verify_signature(sig, size) ==
  LET header == vb2_verify_common_header(sig, size)
      member == vb2_verify_common_member(sig, 0, sig.sig_offset, sig.sig_size)
      expect == vb2_sig_size(sig.sig_alg, sig.hash_alg)
  IN IF sig.magic # "signature" THEN "SIG_MAGIC"
     ELSE IF header # "SUCCESS" THEN header
     ELSE IF ~sig.major THEN "SIG_VERSION"
     ELSE IF sig.fixed < SizeofObject THEN "SIG_HEADER_SIZE"
     ELSE IF member.rv # "SUCCESS" THEN member.rv
     ELSE IF expect = 0 THEN "SIG_ALGORITHM"
     ELSE IF sig.sig_size # expect THEN "SIG_SIZE"
     ELSE "SUCCESS"

(* vb2_verify_data and vb2_verify_digest.  A signature is made by a key    *)
(* over some bytes; "made" is the key and the number of bytes.             *)
vb2_verify_data(size, sig, key) ==
  IF sig.data_size # size THEN "VDATA_SIZE"
  ELSE IF vb2_sig_size(key.sig_alg, key.hash_alg) = 0 THEN "VDATA_ALGORITHM"
  ELSE IF key.sig_alg # sig.sig_alg \/ key.hash_alg # sig.hash_alg
    THEN "VDATA_ALGORITHM_MISMATCH"
  ELSE IF sig.sig_size # vb2_sig_size(key.sig_alg, key.hash_alg)
    THEN "VDATA_SIG_SIZE"
  ELSE IF sig.made # [by |-> key.secret, size |-> size] THEN "VDATA_VERIFY_DIGEST"
  ELSE "SUCCESS"

(* The header checks that a key block and a preamble share *)
ObjectHeader(b, size, magic) ==
  LET header == vb2_verify_common_header(b, size) IN
  IF b.magic # magic THEN "MAGIC"
  ELSE IF header # "SUCCESS" THEN header
  ELSE IF ~b.major THEN "HEADER_VERSION"
  ELSE IF b.fixed < SizeofObject THEN "SIZE"
  ELSE "SUCCESS"

(* What a reader finds where the buffer holds no object: zeros *)
Zeros == [magic |-> "zero", major |-> FALSE, total |-> 0, fixed |-> 0, desc |-> 0,
          sig_offset |-> 0, sig_size |-> 0, sig_alg |-> "zero", hash_alg |-> "zero",
          id |-> "zero", data_size |-> 0, made |-> [by |-> "zero", size |-> 0]]

At(b, offset) == IF offset \in DOMAIN b.objs THEN b.objs[offset] ELSE Zeros

(* The loop over the signatures of a key block, from the i-th on: the      *)
(* first one with the ID of the key decides.                               *)
KeyblockSignatures(b, key, min0) ==
  LET Sigs[i \in 0 .. b.sig_count] == [off \in Word, min \in Word |->
        LET sub == vb2_verify_common_subobject(b, min, off, At(b, off))
            sig == At(b, off)
            chk == vb2_verify_signature(sig, Wrap(b.total - off))
        IN IF i = b.sig_count THEN "KEYBLOCK_SIG_ID"
           ELSE IF sub.rv # "SUCCESS" THEN sub.rv
           ELSE IF chk # "SUCCESS" THEN chk
           ELSE IF sig.id # key.id THEN Sigs[i + 1][sub.min, sub.min]
           ELSE IF sig.data_size # b.sig_offset THEN "KEYBLOCK_SIGNED_SIZE"
           ELSE vb2_verify_data(b.sig_offset, sig, key)]
  IN Sigs[0][b.sig_offset, min0]

vb2_verify_keyblock(b, size, key) ==
  LET header == ObjectHeader(b, size, "keyblock")
      datakey == vb2_verify_common_subobject(b, 0, b.key_offset, At(b, b.key_offset))
  IN IF header # "SUCCESS" THEN header
     ELSE IF datakey.rv # "SUCCESS" THEN datakey.rv
     ELSE KeyblockSignatures(b, key, datakey.min)

BareHash(sig) == sig.sig_alg = "none"

(* The loop over the hashes of a preamble ends with [rv, min] *)
PreambleHashes(p) ==
  LET Hashes[i \in 0 .. p.hash_count] == [off \in Word, min \in Word |->
        LET sub == vb2_verify_common_subobject(p, min, off, At(p, off))
            sig == At(p, off)
            chk == vb2_verify_signature(sig, Wrap(p.total - off))
        IN IF i = p.hash_count THEN [rv |-> "SUCCESS", min |-> min]
           ELSE IF sub.rv # "SUCCESS" THEN sub
           ELSE IF chk # "SUCCESS" THEN [rv |-> chk, min |-> sub.min]
           ELSE IF ~BareHash(sig)
             THEN [rv |-> "PREAMBLE_HASH_SIGNED", min |-> sub.min]
           ELSE Hashes[i + 1][sub.min, sub.min]]
  IN Hashes[0][p.hash_offset, 0]

(* The signature of the preamble itself is found like a hash, and checked  *)
(* over everything before it.                                              *)
vb2_verify_fw_preamble(p, size, key) ==
  LET header == ObjectHeader(p, size, "preamble")
      hashes == PreambleHashes(p)
      sub == vb2_verify_common_subobject(p, hashes.min, p.sig_offset, At(p, p.sig_offset))
  IN IF header # "SUCCESS" THEN header
     ELSE IF hashes.rv # "SUCCESS" THEN hashes.rv
     ELSE IF sub.rv # "SUCCESS" THEN sub.rv
     ELSE vb2_verify_data(p.sig_offset, At(p, p.sig_offset), key)

(***************************************************************************)
(* lib21/packed_key.c                                                      *)
(***************************************************************************)
(* The array size, the inverse, the modulus and its companion: two words   *)
(* and two arrays of the size of a signature                               *)
vb2_packed_key_size(sig_alg) ==
  IF vb2_rsa_sig_size(sig_alg) = 0 THEN 0
  ELSE 2 * Align + 2 * vb2_rsa_sig_size(sig_alg)

vb2_unpack_key_data(sig_alg, key_size, arrsize) ==
  IF vb2_packed_key_size(sig_alg) \in {0} \cup (Word \ {key_size})
    THEN "UNPACK_KEY_SIZE"
  ELSE IF arrsize * Align # vb2_rsa_sig_size(sig_alg)
    THEN "UNPACK_KEY_ARRAY_SIZE"
  ELSE "SUCCESS"

vb2_unpack_key(k, size) ==
  LET header == vb2_verify_common_header(k, size)
      member == vb2_verify_common_member(k, 0, k.key_offset, k.key_size)
  IN IF k.magic # "key" THEN "UNPACK_KEY_MAGIC"
     ELSE IF header # "SUCCESS" THEN header
     ELSE IF member.rv # "SUCCESS" THEN member.rv
     ELSE IF ~k.major THEN "UNPACK_KEY_STRUCT_VERSION"
     ELSE IF vb2_digest_size(k.hash_alg) = 0 THEN "UNPACK_KEY_HASH_ALGORITHM"
     ELSE IF k.sig_alg # "none" /\ vb2_rsa_sig_size(k.sig_alg) = 0
       THEN "UNPACK_KEY_SIG_ALGORITHM"
     ELSE IF k.sig_alg # "none" THEN vb2_unpack_key_data(k.sig_alg, k.key_size, k.arrsize)
     ELSE "SUCCESS"

(***************************************************************************)
(* host/lib21: the writers.  A description is its length without the       *)
(* terminator; zero stands for an absent or empty one.                     *)
(***************************************************************************)
vb2_desc_size(desc) == IF desc = 0 THEN 0 ELSE RoundUp(desc + 1)

(* The terminator is inside the description that the header announces *)
Header(magic, total, desc) ==
  [magic |-> magic, major |-> TRUE, total |-> total, fixed |-> SizeofObject,
   desc |-> vb2_desc_size(desc), terminated |-> vb2_desc_size(desc) > desc]

Merge(r, s) == [f \in DOMAIN r \cup DOMAIN s |-> IF f \in DOMAIN s THEN s[f] ELSE r[f]]

vb2_sign_data(size, key) ==
  LET sig_offset == SizeofObject + vb2_desc_size(key.desc)
      sig_size   == vb2_sig_size(key.sig_alg, key.hash_alg)
  IN Merge(Header("signature", sig_offset + sig_size, key.desc),
       [sig_offset |-> sig_offset, sig_size |-> sig_size, sig_alg |-> key.sig_alg,
        hash_alg |-> key.hash_alg, id |-> key.id, data_size |-> size,
        made |-> [by |-> key.secret, size |-> size]])

(* vb2_sig_size_for_key, and the sum of vb2_sig_size_for_keys *)
vb2_sig_size_for_key(key) ==
  vb2_sig_size(key.sig_alg, key.hash_alg) + SizeofObject + vb2_desc_size(key.desc)

SumUpTo(n, size) ==
  LET s[i \in 0 .. n] == IF i = 0 THEN 0 ELSE s[i - 1] + size[i] IN s[n]

(* vb2_public_key_pack *)
vb2_public_key_pack(key) ==
  LET key_offset == SizeofObject + vb2_desc_size(key.desc)
      key_size   == IF key.sig_alg = "none" THEN 0 ELSE vb2_packed_key_size(key.sig_alg)
  IN Merge(Header("key", key_offset + key_size, key.desc),
       [key_offset |-> key_offset, key_size |-> key_size, sig_alg |-> key.sig_alg,
        hash_alg |-> key.hash_alg, id |-> key.id,
        arrsize |-> vb2_rsa_sig_size(key.sig_alg) \div Align])

(* vb2_keyblock_create and vb2_sign_object_multiple: the data key behind   *)
(* the description, the signatures one after the other behind the key.     *)
(* "OVERFLOW" when they do not fit in what was allocated for them.         *)
vb2_keyblock_create(data_key, keys, desc) ==
  LET key == vb2_public_key_pack(data_key)
      key_offset == SizeofObject + vb2_desc_size(desc)
      sig_offset == key_offset + key.total
      Size == [i \in DOMAIN keys |-> vb2_sig_size_for_key(keys[i])]
      sig(i)  == vb2_sign_data(sig_offset, keys[i])
      Total == [i \in DOMAIN keys |-> sig(i).total]
      where(i) == sig_offset + SumUpTo(i - 1, Total)
      total   == sig_offset + SumUpTo(Len(keys), Size)
      objs == [o \in {key_offset} \cup {where(i) : i \in DOMAIN keys} |->
                 IF o = key_offset THEN key
                 ELSE sig(CHOOSE i \in DOMAIN keys : where(i) = o)]
  IN Merge(Header("keyblock", total, desc),
       [rv |-> IF where(Len(keys) + 1) > total THEN "OVERFLOW" ELSE "SUCCESS",
        key_offset |-> key_offset, sig_offset |-> sig_offset,
        sig_count |-> Len(keys), objs |-> objs])

(* vb2_fw_preamble_create and vb2_sign_object *)
vb2_fw_preamble_create(key, hashes, desc) ==
  LET hash_offset == SizeofObject + vb2_desc_size(desc)
      Size == [i \in DOMAIN hashes |-> hashes[i].total]
      where(i) == hash_offset + SumUpTo(i - 1, Size)
      sig_offset == where(Len(hashes) + 1)
      total == sig_offset + vb2_sig_size_for_key(key)
      sig == vb2_sign_data(sig_offset, key)
  IN Merge(Header("preamble", total, desc),
       [rv |-> IF sig_offset + sig.total > total THEN "OVERFLOW" ELSE "SUCCESS",
        hash_offset |-> hash_offset, hash_count |-> Len(hashes),
        sig_offset |-> sig_offset,
        objs |-> [o \in {where(i) : i \in 1 .. Len(hashes) + 1} |->
                    IF o = sig_offset THEN sig
                    ELSE hashes[CHOOSE i \in DOMAIN hashes : where(i) = o]]])

(***************************************************************************)
(* lib21/api.c: the hash with an ID, found by walking the hashes; the      *)
(* offset, or the end of the walk when there is none                       *)
(***************************************************************************)
FindHash(p, id) ==
  LET Walk[i \in 0 .. p.hash_count] == [off \in Word |->
        IF i = p.hash_count THEN [found |-> FALSE, off |-> off]
        ELSE IF At(p, off).id = id THEN [found |-> TRUE, off |-> off]
        ELSE Walk[i + 1][Wrap(off + At(p, off).total)]]
  IN Walk[0][p.hash_offset]

(* host_key.c: a private key on disk, and read back.  "der" is the length  *)
(* of the encoded RSA key, "parses" whether the decoder accepts the bytes. *)
vb2_private_key_write(key, der) ==
  LET key_offset == SizeofObject + vb2_desc_size(key.desc)
      key_size   == IF key.sig_alg = "none" THEN 0 ELSE RoundUp(der)
  IN Merge(Header("private", key_offset + key_size, key.desc),
       [key_offset |-> key_offset, key_size |-> key_size, sig_alg |-> key.sig_alg,
        hash_alg |-> key.hash_alg, id |-> key.id, parses |-> key_size >= der])

vb2_private_key_unpack(k, size) ==
  IF k.magic # "private" THEN "UNPACK_PRIVATE_KEY_MAGIC"
  ELSE IF vb2_verify_common_header(k, size) # "SUCCESS"
    THEN "UNPACK_PRIVATE_KEY_HEADER"
  ELSE IF vb2_verify_common_member(k, 0, k.key_offset, k.key_size).rv # "SUCCESS"
    THEN "UNPACK_PRIVATE_KEY_DATA"
  ELSE IF ~k.major THEN "UNPACK_PRIVATE_KEY_STRUCT_VERSION"
  ELSE IF k.sig_alg = "none" /\ k.key_size # 0 THEN "UNPACK_PRIVATE_KEY_HASH"
  ELSE IF k.sig_alg # "none" /\ ~k.parses THEN "UNPACK_PRIVATE_KEY_RSA"
  ELSE "SUCCESS"
=============================================================================
