-------------------------------- MODULE Bdb ---------------------------------
(***************************************************************************)
(* The boot descriptor block (bdb/): its reader bdb_verify, and the host   *)
(* functions that create one.                                              *)
(*                                                                         *)
(* A block in memory is the chain of structures found at the places the    *)
(* bdb_get_* functions compute: header, BDB key, OEM area 0, subkey,       *)
(* header signature, data, OEM area 1, hashes, data signature.  `form` is  *)
(* "ok" when magic, major version, description and hash algorithm are the  *)
(* expected ones.  The fixed parts of the structures, the key and the      *)
(* signature data have scaled sizes; a signature remembers whose secret    *)
(* made it, from which offset and over how many bytes.                     *)
(***************************************************************************)
EXTENDS Integers, Sequences

CONSTANTS
  Bits,      \* width of the 32-bit size fields and of size_t
  Align      \* alignment of the OEM areas (4)

Wrap(x) == x % 2^Bits
MaxSize == 2^Bits - 1

SizeofHeader == 2
SizeofKey    == 2
SizeofSig    == 2
SizeofData   == 3
SizeofHash   == 2

KeyDataSize == [rsa4096 |-> 5, ecdsa521 |-> 1, rsa3072b |-> 4]
SigDataSize == [rsa4096 |-> 3, ecdsa521 |-> 1, rsa3072b |-> 2]
SigAlgs     == DOMAIN KeyDataSize

(***************************************************************************)
(* Checks of one structure in `size` bytes                                 *)
(***************************************************************************)
bdb_check_header(h, size) ==
  /\ size >= SizeofHeader /\ size >= h.struct_size
  /\ h.form = "ok"
  /\ h.struct_size >= SizeofHeader
  /\ h.oem_area_0_size % Align = 0
  /\ h.bdb_size >= SizeofHeader

bdb_check_key(k, size) ==
  /\ size >= SizeofKey /\ size >= k.struct_size
  /\ k.form = "ok"
  /\ k.sig_alg \in SigAlgs
  /\ k.struct_size >= SizeofKey + KeyDataSize[k.sig_alg]

bdb_check_sig(s, size) ==
  /\ size >= SizeofSig /\ size >= s.struct_size
  /\ s.form = "ok"
  /\ s.sig_alg \in SigAlgs
  /\ s.struct_size >= SizeofSig + SigDataSize[s.sig_alg]

bdb_check_data(d, size) ==
  LET need == Wrap(d.struct_size + d.num_hashes * d.hash_entry_size) IN
  /\ size >= SizeofData /\ size >= d.signed_size
  /\ d.form = "ok"
  /\ d.struct_size >= SizeofData
  /\ d.hash_entry_size >= SizeofHash
  /\ Wrap(need + d.oem_area_1_size) >= need
  /\ d.oem_area_1_size % Align = 0
  /\ d.signed_size >= Wrap(need + d.oem_area_1_size)

(***************************************************************************)
(* Where the parts are                                                     *)
(***************************************************************************)
bdb_get_bdbkey(b)     == b.h.struct_size
bdb_get_oem_area_0(b) == bdb_get_bdbkey(b) + b.bdbkey.struct_size
bdb_get_subkey(b)     == bdb_get_oem_area_0(b) + b.h.oem_area_0_size
bdb_get_header_sig(b) == bdb_get_oem_area_0(b) + b.h.signed_size
bdb_get_data(b)       == bdb_get_header_sig(b) + b.hsig.struct_size
bdb_get_oem_area_1(b) == bdb_get_data(b) + b.data.struct_size
bdb_get_data_sig(b)   == bdb_get_data(b) + b.data.signed_size

\* The first hash entry of a type: its place, or 0.
bdb_get_hash(b, type) ==
  LET first == bdb_get_oem_area_1(b) + b.data.oem_area_1_size
      ofType == {i \in 1..b.data.num_hashes : b.hashes[i].type = type}
  IN  IF ofType = {} THEN 0
      ELSE first + ((CHOOSE i \in ofType : \A j \in ofType : i <= j) - 1) * b.data.hash_entry_size

\* The verification of ECDSA signatures is a stub that always fails.
bdb_verify_sig(key, sig, from, size) ==
  /\ key.sig_alg = sig.sig_alg
  /\ key.sig_alg # "ecdsa521"
  /\ sig.made = [by |-> key.secret, from |-> from, size |-> size]

SignedEnough(b, size) ==
  /\ Wrap(b.h.oem_area_0_size + b.subkey.struct_size) <= b.h.signed_size
  /\ b.h.signed_size <= size - bdb_get_oem_area_0(b)

\* The digest of the BDB key stands for the secret that belongs to it.
bdb_verify(b, size, trusted) ==
  CASE ~bdb_check_header(b.h, size) -> "ERROR_HEADER"
    [] ~bdb_check_key(b.bdbkey, size - bdb_get_bdbkey(b)) -> "ERROR_BDBKEY"
    [] b.h.oem_area_0_size > size - bdb_get_oem_area_0(b) -> "ERROR_OEM_AREA_0"
    [] ~bdb_check_key(b.subkey, size - bdb_get_subkey(b)) -> "ERROR_SUBKEY"
    [] ~SignedEnough(b, size) -> "ERROR_BDB_SIGNED_SIZE"
    [] ~bdb_check_sig(b.hsig, size - bdb_get_header_sig(b)) -> "ERROR_HEADER_SIG"
    [] b.hsig.signed_size # b.h.signed_size -> "ERROR_HEADER_SIG"
    [] ~bdb_verify_sig(b.bdbkey, b.hsig, bdb_get_oem_area_0(b), b.h.signed_size) -> "ERROR_HEADER_SIG"
    [] ~bdb_check_data(b.data, size - bdb_get_data(b)) -> "ERROR_DATA"
    [] ~bdb_check_sig(b.dsig, size - bdb_get_data_sig(b)) -> "ERROR_DATA_SIG"
    [] b.dsig.signed_size # b.data.signed_size -> "ERROR_DATA_SIG"
    [] ~bdb_verify_sig(b.subkey, b.dsig, bdb_get_data(b), b.data.signed_size) -> "ERROR_DATA_SIG"
    [] b.bdbkey.secret # trusted -> "GOOD_OTHER_THAN_KEY"
    [] OTHER -> "SUCCESS"

(***************************************************************************)
(* Creation                                                                *)
(***************************************************************************)
\* read_file fails on an empty file.
read_file(size) == size > 0

\* The algorithm is told from the size of the key data.
KeySizes == {KeyDataSize.rsa4096, KeyDataSize.rsa3072b}
bdb_create_key(kdata_size, secret) ==
  [form |-> "ok", struct_size |-> SizeofKey + kdata_size, secret |-> secret,
   sig_alg |-> IF kdata_size = KeyDataSize.rsa4096 THEN "rsa4096" ELSE "rsa3072b"]

bdb_create_sig(from, size, secret, sig_alg) ==
  [form |-> "ok", struct_size |-> SizeofSig + SigDataSize[sig_alg], sig_alg |-> sig_alg,
   signed_size |-> size, made |-> [by |-> secret, from |-> from, size |-> size]]

DataSignedSize(p) == SizeofData + p.oem_area_1_size + SizeofHash * Len(p.hash)

\* Space is reserved for two signatures of the larger kind.  A signature that
\* cannot be made is a NULL pointer that is read.
bdb_create(p) ==
  LET oem0   == SizeofHeader + p.bdbkey.struct_size
      signed == p.oem_area_0_size + p.subkey.struct_size
      hsig   == bdb_create_sig(oem0, signed, p.bdbkey.secret, p.bdbkey.sig_alg)
      data   == oem0 + signed + hsig.struct_size
      max    == SizeofSig + SigDataSize.rsa4096
      total  == oem0 + signed + max + SizeofData + p.oem_area_1_size
                  + SizeofHash * Len(p.hash) + max
  IN  [rv |-> CASE p.oem_area_0_size % Align # 0 \/ p.oem_area_1_size % Align # 0 -> "NULL"
                [] total > MaxSize -> "NULL"
                [] ~p.signs -> "crash"
                [] OTHER -> "ok",
       h |-> [form |-> "ok", struct_size |-> SizeofHeader, bdb_size |-> total,
              signed_size |-> signed, oem_area_0_size |-> p.oem_area_0_size],
       bdbkey |-> p.bdbkey, subkey |-> p.subkey, hsig |-> hsig,
       data |-> [form |-> "ok", struct_size |-> SizeofData, signed_size |-> DataSignedSize(p),
                 oem_area_1_size |-> p.oem_area_1_size, num_hashes |-> Len(p.hash),
                 hash_entry_size |-> SizeofHash],
       hashes |-> p.hash,
       dsig |-> bdb_create_sig(data, DataSignedSize(p), p.subkey.secret, p.subkey.sig_alg)]

\* The partition of a hash entry is an 8-bit field, so that the -1 of the table
\* is the partition 255.
HashPartition(partition, ofBlock) ==
  LET field == partition % 256 IN IF field = -1 THEN ofBlock ELSE field

\* create() of bdb_create.c; write_file deletes a file it could not write whole.
create(q) ==
  LET p == [bdbkey |-> bdb_create_key(q.bdbkey_size, "bdb"),
            subkey |-> bdb_create_key(q.subkey_size, "sub"),
            oem_area_0_size |-> q.oem0, oem_area_1_size |-> q.oem1, signs |-> q.signs,
            hash |-> [i \in DOMAIN q.files |->
                        [type |-> q.files[i].type,
                         partition |-> HashPartition(q.files[i].partition, q.partition)]]]
      bdb == bdb_create(p)
      failed == \/ \E i \in DOMAIN q.files : ~read_file(q.files[i].size)
                \/ q.oem0 % Align # 0 \/ q.oem1 % Align # 0
                \/ ~{q.bdbkey_size, q.subkey_size} \subseteq KeySizes
                \/ bdb.rv = "NULL"
  IN  CASE failed           -> [status |-> 1, file |-> "untouched", bdb |-> bdb]
        [] bdb.rv = "crash" -> [status |-> 139, file |-> "untouched", bdb |-> bdb]
        [] ~q.writes        -> [status |-> 1, file |-> "deleted", bdb |-> bdb]
        [] OTHER            -> [status |-> 0, file |-> "written", bdb |-> bdb]
=============================================================================
