----------------------------- MODULE VbStructs ------------------------------
(***************************************************************************)
(* The signed structures of the first verified-boot format (key block,     *)
(* firmware preamble, kernel preamble), as their two readers check them    *)
(* (firmware/lib/vboot_common.c and firmware/lib20/) and as the host       *)
(* library lays them out (host/lib/host_keyblock.c, host_common.c).        *)
(*                                                                         *)
(* A structure is a header followed by data.  A public key or a signature  *)
(* inside the header is a reference [at, off, size]: it sits at byte "at"  *)
(* of the header and its data starts "off" bytes after it.  Contents are   *)
(* abstracted to one bit of a signature, "intact": the bytes it covers are *)
(* the ones that were signed.  Sizes are words of "Bits" bits, scaled down *)
(* with the sizes of the headers; every sum wraps as in the code.          *)
(***************************************************************************)
EXTENDS Integers

CONSTANT Bits               \* width of a size or an offset

Word    == 0 .. 2^Bits - 1
MaxWord == 2^Bits - 1
Wrap(n) == n % 2^Bits

(* sizeof(), scaled: one unit for a public key or a signature *)
SizeofRef       == 1
SizeofKeyBlock  == 4
SizeofFirmwarePreamble20 == 4
SizeofFirmwarePreamble   == 5
SizeofKernelPreamble20   == 4
SizeofKernelPreamble21   == 5
SizeofKernelPreamble     == 6

(***************************************************************************)
(* vboot_common.c                                                          *)
(***************************************************************************)
(* The guard on the data offset dropped: the sum may wrap. *)
VerifyMemberInside_NoWrapCheck(parent_size, member, member_size, off, size) ==
  /\ member <= parent_size
  /\ MaxWord - member >= member_size
  /\ Wrap(member + member_size) <= parent_size
  /\ Wrap(member + off) <= parent_size
  /\ MaxWord - Wrap(member + off) >= size
  /\ Wrap(Wrap(member + off) + size) <= parent_size

VerifyMemberInside(parent_size, member, member_size, off, size) ==
  /\ member <= parent_size
  /\ MaxWord - member >= member_size
  /\ Wrap(member + member_size) <= parent_size
  /\ MaxWord - member >= off
  /\ Wrap(member + off) <= parent_size
  /\ MaxWord - Wrap(member + off) >= size
  /\ Wrap(Wrap(member + off) + size) <= parent_size

RefInside(parent_size, ref) ==
  VerifyMemberInside(parent_size, ref.at, SizeofRef, ref.off, ref.size)

(* VerifyData: "siglen" is the signature size of the key's algorithm *)
VerifyData(size, sig, siglen) ==
  sig.size = siglen /\ sig.data_size <= size /\ sig.intact

(* A key is the signature size of its algorithm; these two are not keys.   *)
NoKey  == -1
BadKey == -2

DataKeyInside(b, sig) ==
  /\ RefInside(b.size, b.data_key)
  /\ RefInside(sig.data_size, b.data_key)

KeyBlockVerify(b, size, key, hash_only, hashlen) ==
  LET sig == IF hash_only THEN b.checksum ELSE b.signature IN
  IF size < SizeofKeyBlock \/ b.form # "ok" \/ size < b.size
    THEN "KEY_BLOCK_INVALID"
  ELSE IF ~hash_only /\ key = NoKey THEN "PUBLIC_KEY_INVALID"
  ELSE IF ~RefInside(b.size, sig) \/ (hash_only /\ sig.size # hashlen)
    THEN "KEY_BLOCK_INVALID"
  ELSE IF ~hash_only /\ key = BadKey THEN "PUBLIC_KEY_INVALID"
  ELSE IF b.size < sig.data_size THEN "KEY_BLOCK_INVALID"
  ELSE IF hash_only /\ ~sig.intact THEN "KEY_BLOCK_HASH"
  ELSE IF ~hash_only /\ ~VerifyData(size, sig, key)
    THEN "KEY_BLOCK_SIGNATURE"
  ELSE IF \/ sig.data_size < SizeofKeyBlock
          \/ ~DataKeyInside(b, sig)
    THEN "KEY_BLOCK_INVALID"
  ELSE "SUCCESS"

FirmwareHeaderSigned(sig) == sig.data_size >= SizeofFirmwarePreamble

VerifyFirmwarePreamble(p, size, key) ==
  LET sig == p.signature IN
  IF \/ size < SizeofFirmwarePreamble20 \/ p.form # "ok" \/ size < p.size
     \/ ~RefInside(p.size, sig) \/ p.size < sig.data_size
    THEN "PREAMBLE_INVALID"
  ELSE IF ~VerifyData(size, sig, key) THEN "PREAMBLE_SIGNATURE"
  ELSE IF \/ ~FirmwareHeaderSigned(sig)
          \/ ~RefInside(sig.data_size, p.body_signature)
          \/ ~RefInside(sig.data_size, p.kernel_subkey)
          \/ p.minor >= 1 /\ size < SizeofFirmwarePreamble
    THEN "PREAMBLE_INVALID"
  ELSE "SUCCESS"

(* Nothing compares the signed size with the size of the preamble here.    *)
VerifyKernelPreamble(p, size, key) ==
  LET sig == p.signature IN
  IF \/ size < SizeofKernelPreamble \/ p.form # "ok" \/ size < p.size
     \/ ~RefInside(p.size, sig)
    THEN "PREAMBLE_INVALID"
  ELSE IF ~VerifyData(size, sig, key) THEN "PREAMBLE_SIGNATURE"
  ELSE IF \/ sig.data_size < SizeofKernelPreamble
          \/ ~RefInside(sig.data_size, p.body_signature)
          \/ p.minor = 1 /\ size < SizeofKernelPreamble21
          \/ p.minor = 2 /\ size < SizeofKernelPreamble
    THEN "PREAMBLE_INVALID"
  ELSE "SUCCESS"

(* How much of the header the getters read: the flags exist from version   *)
(* 2.1 of the firmware preamble and 2.2 of the kernel preamble on, the     *)
(* vmlinuz header fields from 2.1 of the kernel preamble on.               *)
FirmwarePreambleRead(p) ==
  IF p.minor < 1 THEN SizeofFirmwarePreamble20 ELSE SizeofFirmwarePreamble

KernelPreambleRead(p) ==
  IF p.minor > 1 THEN SizeofKernelPreamble
  ELSE IF p.minor > 0 THEN SizeofKernelPreamble21
  ELSE SizeofKernelPreamble20

(***************************************************************************)
(* lib20: the same structures, read with pointer arithmetic.  Pointers and *)
(* sizes have the width of a word, ptrdiff_t is a signed word.             *)
(***************************************************************************)
Signed(n) == IF n >= 2^(Bits - 1) THEN n - 2^Bits ELSE n

LoadAddress == 1            \* where the structure sits in the work buffer

vb2_verify_member_inside(parent, parent_size, member, member_size, off, size) ==
  LET member_offs == Signed(Wrap(member - parent))
      member_end  == Signed(Wrap(member_offs + member_size))
      data_offs   == Signed(Wrap(member_offs + off))
      data_end    == Signed(Wrap(data_offs + size))
  IN /\ Wrap(parent + parent_size) >= parent
     /\ member_offs <= member_end
     /\ 0 <= member_offs /\ member_offs <= parent_size
     /\ Wrap(member_end) <= parent_size
     /\ size > 0 => data_offs >= member_end
     /\ data_offs <= data_end
     /\ data_offs >= 0 /\ data_offs <= parent_size
     /\ Wrap(data_end) <= parent_size

vb2_ref_inside(parent_size, ref) ==
  vb2_verify_member_inside(LoadAddress, parent_size, Wrap(LoadAddress + ref.at),
                           SizeofRef, ref.off, ref.size)

(* vb2_verify_data, then vb2_verify_digest with the size of its algorithm *)
vb2_verify_data(size, sig, siglen) ==
  sig.data_size <= size /\ sig.size = siglen /\ sig.intact

vb2_check_keyblock(b, size, sig) ==
  IF size < SizeofKeyBlock THEN "TOO_SMALL_FOR_HEADER"
  ELSE IF b.form # "ok" THEN "HEADER"
  ELSE IF size < b.size THEN "SIZE"
  ELSE IF ~vb2_ref_inside(b.size, sig) THEN "SIG_OUTSIDE"
  ELSE IF b.size < sig.data_size THEN "SIGNED_TOO_MUCH"
  ELSE IF sig.data_size < SizeofKeyBlock THEN "SIGNED_TOO_LITTLE"
  ELSE IF ~vb2_ref_inside(b.size, b.data_key) THEN "DATA_KEY_OUTSIDE"
  ELSE IF ~vb2_ref_inside(sig.data_size, b.data_key) THEN "DATA_KEY_UNSIGNED"
  ELSE "SUCCESS"

vb2_verify_keyblock(b, size, key) ==
  LET rv == vb2_check_keyblock(b, size, b.signature) IN
  IF rv # "SUCCESS" THEN rv
  ELSE IF ~vb2_verify_data(size, b.signature, key) THEN "SIG_INVALID"
  ELSE "SUCCESS"

(* The stored size of the hash is not compared with the digest size: the   *)
(* digest is compared from the start of the hash data.                     *)
vb2_verify_keyblock_hash(b, size) ==
  LET rv == vb2_check_keyblock(b, size, b.checksum) IN
  IF rv # "SUCCESS" THEN rv
  ELSE IF ~b.checksum.intact THEN "SIG_INVALID"
  ELSE "SUCCESS"

(* What the firmware and the kernel preamble check alike, up to and        *)
(* including the body signature.  Both compare the signed size with the    *)
(* size of the firmware preamble.                                          *)
vb2_preamble_signed(p, size, key, header, oldest) ==
  LET sig == p.signature IN
  IF size < header THEN "TOO_SMALL_FOR_HEADER"
  ELSE IF p.form # "ok" THEN "HEADER_VERSION"
  ELSE IF p.minor < oldest THEN "HEADER_OLD"
  ELSE IF size < p.size THEN "SIZE"
  ELSE IF ~vb2_ref_inside(p.size, sig) THEN "SIG_OUTSIDE"
  ELSE IF p.size < sig.data_size THEN "SIGNED_TOO_MUCH"
  ELSE IF ~vb2_verify_data(size, sig, key) THEN "SIG_INVALID"
  ELSE IF sig.data_size < SizeofFirmwarePreamble THEN "SIGNED_TOO_LITTLE"
  ELSE IF ~vb2_ref_inside(sig.data_size, p.body_signature)
    THEN "BODY_SIG_OUTSIDE"
  ELSE "SUCCESS"

vb2_verify_fw_preamble(p, size, key) ==
  LET rv == vb2_preamble_signed(p, size, key, SizeofFirmwarePreamble, 1) IN
  IF rv # "SUCCESS" THEN rv
  ELSE IF ~vb2_ref_inside(p.signature.data_size, p.kernel_subkey)
    THEN "KERNEL_SUBKEY_OUTSIDE"
  ELSE "SUCCESS"

(* The bootloader or the vmlinuz header, when present, lies in the body.   *)
InBody(p, part) ==
  part.size # 0 =>
    vb2_verify_member_inside(p.body_load_address, p.body_signature.data_size,
                             part.address, part.size, 0, 0)

vb2_verify_kernel_preamble(p, size, key) ==
  LET rv == vb2_preamble_signed(p, size, key, SizeofKernelPreamble, 2) IN
  IF rv # "SUCCESS" THEN rv
  ELSE IF ~InBody(p, p.bootloader) THEN "BOOTLOADER_OUTSIDE"
  ELSE IF ~InBody(p, p.vmlinuz) THEN "VMLINUZ_HEADER_OUTSIDE"
  ELSE "SUCCESS"

(***************************************************************************)
(* The host library.  A structure is laid out first and signed afterwards; *)
(* the signature is then copied into it.  The bytes it covers include the  *)
(* references in the header, so the copy must not change them: "intact" is *)
(* computed by comparing the header that was signed with the final one.    *)
(***************************************************************************)
(* Where the references sit in the headers (VbStructs!Sizeof...) *)
SignatureAt == 1
ChecksumAt  == 2
DataKeyAt   == 3
SubkeyAt    == 2
BodySigAt   == 3

SignatureInit(at, sig_data, sig_size, data_size) ==
  [at |-> at, off |-> sig_data - at, size |-> sig_size, data_size |-> data_size]

PublicKeyInit(at, key_data, key_size) ==
  [at |-> at, off |-> key_data - at, size |-> key_size]

(* CalculateSignature, CalculateChecksum and CalculateHash: a signature    *)
(* followed by its data (SignatureAlloc)                                   *)
Calculate(sig_size, data_size) ==
  [at |-> 0, off |-> SizeofRef, size |-> sig_size, data_size |-> data_size]

(* SignatureCopy leaves the destination alone when it is too small *)
SignatureCopy(dest, src) ==
  IF dest.size < src.size THEN dest
  ELSE [dest EXCEPT !.size = src.size, !.data_size = src.data_size]

WithContents(sig, intact) == [at |-> sig.at, off |-> sig.off, size |-> sig.size,
                         data_size |-> sig.data_size, intact |-> intact]

NullSignature == [at |-> SignatureAt, off |-> 0, size |-> 0, data_size |-> 0]

ChecksumInit(sig_data, hashlen, signed_size) ==
  SignatureInit(ChecksumAt, sig_data, hashlen, signed_size)

(* The header of a key block before anything is signed *)
KeyBlockHeader(data_key_size, siglen, hashlen) ==
  LET signed_size == SizeofKeyBlock + data_key_size
      chk_dest    == signed_size
      sig_dest    == chk_dest + hashlen
  IN [size |-> sig_dest + (IF siglen = NoKey THEN 0 ELSE siglen),
      data_key |-> PublicKeyInit(DataKeyAt, SizeofKeyBlock, data_key_size),
      checksum |-> ChecksumInit(chk_dest, hashlen, signed_size),
      signature |-> IF siglen = NoKey THEN NullSignature
                    ELSE SignatureInit(SignatureAt, sig_dest, siglen, signed_size)]

(* KeyBlockCreate, and KeyBlockCreate_external with a key: hash the block, *)
(* copy the hash, sign the block, copy the signature.                      *)
KeyBlockCreate(data_key_size, siglen, hashlen) ==
  LET signed_size == SizeofKeyBlock + data_key_size
      h0 == KeyBlockHeader(data_key_size, siglen, hashlen)
      h1 == [h0 EXCEPT !.checksum =
               SignatureCopy(@, Calculate(hashlen, signed_size))]
      h2 == IF siglen = NoKey THEN h1
            ELSE [h1 EXCEPT !.signature =
                    SignatureCopy(@, Calculate(siglen, signed_size))]
  IN [form |-> "ok", size |-> h2.size, data_key |-> h2.data_key,
      checksum  |-> WithContents(h2.checksum, h0 = h2),
      signature |-> WithContents(h2.signature, h1 = h2 /\ siglen # NoKey)]

CreateFirmwarePreamble(subkey_size, body_sig, siglen) ==
  LET signed_size == SizeofFirmwarePreamble + subkey_size + body_sig.size
      body_dest   == SizeofFirmwarePreamble + subkey_size
      body == SignatureCopy(SignatureInit(BodySigAt, body_dest, body_sig.size, 0),
                            body_sig)
      s0 == SignatureInit(SignatureAt, signed_size, siglen, signed_size)
      s1 == SignatureCopy(s0, Calculate(siglen, signed_size))
  IN [form |-> "ok", minor |-> 1, size |-> signed_size + siglen,
      kernel_subkey |-> PublicKeyInit(SubkeyAt, SizeofFirmwarePreamble, subkey_size),
      body_signature |-> body, signature |-> WithContents(s1, s0 = s1)]

CreateKernelPreamble(body_sig, siglen, desired_size, load, bootloader, vmlinuz) ==
  LET signed_size == SizeofKernelPreamble + body_sig.size
      block_size  == signed_size + siglen
      body == SignatureCopy(
                SignatureInit(BodySigAt, SizeofKernelPreamble, body_sig.size, 0),
                body_sig)
      s0 == SignatureInit(SignatureAt, signed_size, siglen, signed_size)
      s1 == SignatureCopy(s0, Calculate(siglen, signed_size))
  IN [form |-> "ok", minor |-> 2,
      size |-> IF block_size < desired_size THEN desired_size ELSE block_size,
      body_signature |-> body, signature |-> WithContents(s1, s0 = s1),
      body_load_address |-> load, bootloader |-> bootloader, vmlinuz |-> vmlinuz]

(* PublicKeyAlloc: the data follows the key *)
PublicKeyAlloc(key_size, algorithm, version) ==
  [at |-> 0, off |-> SizeofRef, size |-> key_size,
   algorithm |-> algorithm, version |-> version]

PublicKeyCopy(dest, src) ==
  IF dest.size < src.size THEN dest
  ELSE [dest EXCEPT !.size = src.size, !.algorithm = src.algorithm,
                    !.version = src.version]

(* PublicKeyWrite writes the header and the data, contiguous *)
PublicKeyWrite(key) ==
  LET kcopy == PublicKeyCopy(PublicKeyAlloc(key.size, 0, 0), key)
  IN [key |-> kcopy, file_size |-> kcopy.off + kcopy.size]

(* PublicKeyLooksOkay, with the key size of each algorithm and the largest *)
(* version the TPM can hold                                                *)
PublicKeyLooksOkay(key, file_size, keylen, max_version) ==
  /\ RefInside(file_size, key)
  /\ key.algorithm \in DOMAIN keylen
  /\ key.version <= max_version
  /\ key.size = keylen[key.algorithm]
=============================================================================
