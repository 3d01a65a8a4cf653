---------------------------- MODULE CryptoCalls -----------------------------
(***************************************************************************)
(* The digests, the signature checks and the boot descriptor block, called *)
(* on bounded inputs.                                                      *)
(***************************************************************************)
EXTENDS StructCalls

Blocks    == [sha1 |-> 4, sha256 |-> 4, sha512 |-> 6]
LenFields == [sha1 |-> 2, sha256 |-> 2, sha512 |-> 3]
Sizes     == [sha1 |-> 1, sha256 |-> 2, sha512 |-> 3]

D == INSTANCE Digest WITH Block <- Blocks, LenField <- LenFields, DigestSize <- Sizes, Bits <- 6
I == INSTANCE Digest WITH Block <- Blocks, LenField <- LenFields, DigestSize <- Sizes, Bits <- 4
R == INSTANCE Rsa WITH Bits <- 3
Q == INSTANCE Rsa WITH Bits <- 2
B == INSTANCE Bdb WITH Bits <- 6, Align <- 2

(***************************************************************************)
(* Inputs                                                                  *)
(***************************************************************************)
\* A message whose bytes are all different, and its pieces between the cuts.
Message(n) == [i \in 1..n |-> 1000 + i]
Pieces(n, cuts) ==
  LET ends == cuts \cup {n}
      start(e) == CHOOSE s \in {0} \cup cuts : s < e /\ \A t \in cuts : ~(s < t /\ t < e)
  IN  [e \in ends |-> SubSeq(Message(n), start(e) + 1, e)]

Digests ==
  UNION {[fn : {"digest"}, alg : {"sha1", "sha256", "sha512", "md5"}, n : {n},
          cuts : SUBSET (1..(n - 1)), room : {1, 3}] : n \in 1..9}

Chunked == [fn : {"digest_buf"}, alg : {"sha1", "sha256", "sha512"}, n : 0..27]

Moduli(bits, words) == {m \in (2^(bits * words - 1))..(2^(bits * words) - 1) : m % 2 = 1}
Powers ==
  UNION {[fn : {"modpow"}, lib : {x[1]}, n : Moduli(x[2], x[3]), a : 0..(2^(x[2] * x[3]) - 1)] :
           x \in {<<"2lib", 3, 1>>, <<"2lib", 3, 2>>, <<"cryptolib", 2, 2>>, <<"cryptolib", 2, 3>>,
                  <<"bdb", 2, 1>>, <<"bdb", 2, 2>>}}

\* The byte of the padded digest that is changed: none, or one next to the
\* boundary of a part of it.
Spots(a) ==
  LET size == R!siglen_map[a]
      tail == size - R!hash_size_map[a]
      info == tail - Len(R!digestinfo[R!hash_type_map[a]])
  IN  {0, 1, 2, 3, info - 1, info, info + 1, tail, tail + 1, size}

Signatures ==
  UNION {[fn : {"signature"}, alg : {a}, spot : Spots(a), key : {0, 32, 64, 128, 256},
          blob : {0, 32, 64, 128, 256}, room : {383, 6144}] : a \in 0..11}

BdbSignatures ==
  [fn : {"bdb_signature"}, words : {96, 128}, expected : {96, 128},
   spot : {0, 1, 2, 3, 331, 332, 333, 352, 353, 384, 459, 460, 461, 480, 481, 512}]

KeyBuffers ==
  [fn : {"key_buffer"}, words : {0, 1, 32, 64, 65},
   len : {0, 1, 2, 33, 65, 66, 67, 129, 130, 131, 132}]

Key(struct_size, alg, secret) ==
  [form |-> "ok", struct_size |-> struct_size, sig_alg |-> alg, secret |-> secret]
BdbSig(struct_size, alg, signed_size, made) ==
  [form |-> "ok", struct_size |-> struct_size, sig_alg |-> alg, signed_size |-> signed_size, made |-> made]

AllDescriptors ==
  [fn : {"bdb"}, size : {9, 63}, trusted : {"bdb", "other"},
   header : {1, 2}, oem0 : {0, 3, 62}, signed0 : {6, 9, 62}, key : {5, 7},
   subkey : {6, 7, 60}, data : {2, 3, 4}, oem1 : {0, 62}, hashes : {0, 2},
   entry : {1, 2}, signed1 : {5, 7, 9}, by : {"sub", "bdb"}]

\* With the wrong key trusted, or the wrong key used, the rest matters less.
Descriptors ==
  {c \in AllDescriptors : /\ c.trusted = "other" => c.by = "sub" /\ c.oem1 = 0 /\ c.entry = 2
                          /\ c.by = "bdb" => c.oem1 = 0 /\ c.entry = 2}

\* The block with these sizes, signed by the keys' owners over what it says.
Descriptor(c) ==
  LET oem == c.header + c.key
      dat == oem + c.signed0 + 4
  IN  [h |-> [form |-> "ok", struct_size |-> c.header, bdb_size |-> c.size,
              signed_size |-> c.signed0, oem_area_0_size |-> c.oem0],
       bdbkey |-> Key(c.key, "rsa3072b", "bdb"), subkey |-> Key(c.subkey, "rsa3072b", "sub"),
       hsig |-> BdbSig(4, "rsa3072b", c.signed0, [by |-> "bdb", from |-> oem, size |-> c.signed0]),
       data |-> [form |-> "ok", struct_size |-> c.data, signed_size |-> c.signed1,
                 oem_area_1_size |-> c.oem1, num_hashes |-> c.hashes, hash_entry_size |-> c.entry],
       hashes |-> [i \in 1..c.hashes |-> [type |-> i]],
       dsig |-> BdbSig(4, "rsa3072b", c.signed1, [by |-> c.by, from |-> dat, size |-> c.signed1])]

File(partition, size) == [type |-> 1, partition |-> partition, size |-> size]
BdbFiles ==
  [fn : {"bdb_create"}, bdbkey_size : {1, 4, 5}, subkey_size : {4, 5}, oem0 : {0, 2, 3, 30},
   oem1 : {0, 2, 3}, files : {<< >>, <<File(-1, 1)>>, <<File(2, 4), File(-1, 1)>>, <<File(1, 0)>>},
   partition : {1, 255}, signs : BOOLEAN, writes : BOOLEAN]

CryptoInputs ==
  \/ call \in Digests
  \/ call \in Chunked
  \/ call \in Powers
  \/ call \in Signatures
  \/ call \in BdbSignatures
  \/ call \in KeyBuffers
  \/ call \in Descriptors
  \/ call \in BdbFiles

(***************************************************************************)
(* Calls                                                                   *)
(***************************************************************************)
\* Every piece of the message in turn through the functions of a library.
Vb2Fed(alg, pieces, n) ==
  LET fed[k \in 0..n] ==
        IF k = 0 THEN D!vb2_digest_init(alg)
        ELSE IF k \in DOMAIN pieces THEN D!vb2_digest_extend(fed[k - 1], pieces[k]) ELSE fed[k - 1]
  IN  fed[n]

CryptolibFed(alg, pieces, n) ==
  LET fed[k \in 0..n] ==
        IF k = 0 THEN D!DigestInit(alg)
        ELSE IF k \in DOMAIN pieces THEN D!DigestUpdate(fed[k - 1], pieces[k]) ELSE fed[k - 1]
  IN  fed[n]

GenericFed(pieces, n) ==
  LET fed[k \in 0..n] ==
        IF k = 0 THEN D!SHA1_init
        ELSE IF k \in DOMAIN pieces THEN D!SHA1_update_generic(fed[k - 1], pieces[k]) ELSE fed[k - 1]
  IN  fed[n]

CallDigest ==
  LET pieces == Pieces(call.n, call.cuts) IN
  Return("digest",
    [vb2 |-> D!vb2_digest_finalize(Vb2Fed(call.alg, pieces, call.n), call.room),
     buffer |-> D!vb2_digest_buffer(Message(call.n), call.alg, call.room),
     cryptolib |-> IF call.alg = "md5" THEN << >> ELSE D!DigestFinal(CryptolibFed(call.alg, pieces, call.n)),
     generic |-> D!SHA1_final_generic(GenericFed(pieces, call.n)),
     bdb |-> D!bdb_sha256(Message(call.n))])

CallDigestBuf == Return("digest_buf", [digest |-> I!DigestBuf(call.alg, Message(call.n))])

CallModpow ==
  Return("modpow",
    IF call.lib = "2lib"
    THEN LET key == R!vb_keyb_from_rsa(call.n)
             a   == R!Words(call.a, key.arrsize)
         IN  [f4 |-> R!Value(R!modpowF4(key, a)), three |-> R!Value(R!modpow3(key, a))]
    ELSE IF call.lib = "cryptolib"
    THEN LET key == Q!dumpRSAPublicKey_output(call.n)
             a   == Q!Words(call.a, key.arrsize)
         IN  [f4 |-> Q!Value(Q!cryptolib_modpowF4(key, a)), three |-> Q!Value(Q!modpow3(key, a))]
    ELSE LET key == Q!dump_rsa_output(call.n)
             a   == Q!Words(call.a, key.arrsize)
         IN  [f4 |-> Q!Value(Q!bdb_modpowF4(key, a)), three |-> Q!Value(Q!modpow3(key, a))])

Digest(n) == [i \in 1..n |-> i]
Changed(em, spot) == [i \in DOMAIN em |-> IF i = spot THEN (em[i] + 1) % 256 ELSE em[i]]

\* What signing makes of the digest with a key of the algorithm's size.
Signed(a) ==
  R!SignatureBuf(a, Digest(R!hash_size_map[a]), R!siglen_map[a], TRUE)

CallSignature ==
  LET a      == call.alg
      em     == Changed(Signed(a), call.spot)
      digest == Digest(R!hash_size_map[a])
  IN  Return("signature",
        [vb1 |-> R!RSAVerifyBinary_f(call.blob, call.key, a, em, digest),
         vb2 |-> R!vb2_rsa_verify_digest(call.key, R!vb2_crypto_to_signature(a),
                                         R!hash_type_map[a], em, digest, call.room) = "SUCCESS"])

CallBdbSignature ==
  LET em == Changed(R!RSA_PKCS1_PADDING(R!digestinfo["sha256"] \o Digest(32), call.words * 4), call.spot)
  IN  Return("bdb_signature",
             [good |-> IF call.expected = 128 THEN R!bdb_rsa4096_verify(call.words, em, Digest(32))
                       ELSE R!bdb_rsa3072b_verify(call.words, em, Digest(32))])

CallKeyBuffer ==
  Return("key_buffer", [good |-> R!RSAPublicKeyFromBuf(call.words, call.len, {32, 64})])

CallBdb == Return("bdb", [rv |-> B!bdb_verify(Descriptor(call), call.size, call.trusted)])

CallBdbCreate ==
  LET made == B!create(call) IN
  Return("bdb_create",
    [made |-> made,
     verified |-> IF made.file = "written"
                  THEN B!bdb_verify(made.bdb, made.bdb.h.bdb_size, "bdb") ELSE "none"])

CryptoNext ==
  \/ CallDigest
  \/ CallDigestBuf
  \/ CallModpow
  \/ CallSignature
  \/ CallBdbSignature
  \/ CallKeyBuffer
  \/ CallBdb
  \/ CallBdbCreate

(***************************************************************************)
(* Properties                                                              *)
(***************************************************************************)
\* A digest does not depend on how the message was cut into pieces: whatever the
\* calls of vb2_digest_extend or DigestUpdate, the blocks compressed are those of
\* the standard's padded message.  Only the bit count of the last block wraps,
\* with the 32-bit counters of 2lib and of cryptolib's SHA-256 and SHA-512.
\* vb2_digest_finalize refuses an algorithm it does not know and a digest buffer
\* that is too small.
DigestExact ==
  Returned("digest") =>
    LET known == call.alg \in DOMAIN Blocks
        exact == D!Standard(call.alg, Message(call.n), 64)
        wide  == D!Standard(call.alg, Message(call.n), 64 * 64)
    IN
    /\ result.vb2 = IF known /\ call.room >= Sizes[call.alg] THEN exact ELSE << >>
    /\ result.buffer = result.vb2
    /\ known => result.cryptolib = IF call.alg = "sha1" THEN wide ELSE exact
    /\ call.alg = "sha1" => result.generic = wide
    /\ call.alg = "sha256" => result.bdb = exact

\* DigestBuf digests a buffer longer than the counters can count, in chunks: the
\* blocks are right up to nearly twice the largest chunk.
ChunkedDigestExact ==
  Returned("digest_buf") =>
    result.digest = I!Standard(call.alg, Message(call.n), IF call.alg = "sha1" THEN 256 ELSE 16)

Square(x, n) == (x * x) % n
PowF4(x, n) ==
  LET sq[i \in 0..16] == IF i = 0 THEN x % n ELSE Square(sq[i - 1], n)
  IN  (sq[16] * x) % n

\* With the key that vb_keyb_from_rsa pre-computes, the Montgomery
\* multiplications of modpowF4 and modpow3 compute the power of every input
\* modulo every modulus that fills its words: no carry out of the top word is
\* lost and the last conditional subtraction suffices.
MontgomeryExact ==
  Returned("modpow") =>
    /\ result.f4 = PowF4(call.a, call.n)
    /\ result.three = (Square(call.a, call.n) * call.a) % call.n

\* A signature is accepted exactly when every byte of the padded digest is the
\* signer's and the key has the algorithm's size, by vboot1 for a key or its
\* blob but not both, and by vboot2 when its work buffer also has the room: the
\* two check the padding in different ways and agree.
SignatureExact ==
  Returned("signature") =>
    LET right(words) == call.spot = 0 /\ words * 4 = R!siglen_map[call.alg] IN
    /\ result.vb1 <=> \/ call.blob = 0 /\ right(call.key)
                      \/ call.key = 0 /\ right(call.blob)
    /\ result.vb2 <=> right(call.key) /\ 3 * call.key * 4 <= call.room

\* The boot descriptor block's own padding check accepts the signer's bytes only,
\* and only for the key size of the algorithm.
BdbSignatureExact ==
  Returned("bdb_signature") =>
    (result.good <=> call.words = call.expected
                       /\ (call.spot = 0 \/ call.spot > call.words * 4))

\* A key blob is unpacked only when its length is that of its fields, neither
\* more nor less, for one of the supported sizes.
KeyBufferExact ==
  Returned("key_buffer") =>
    (result.good <=> call.words \in {32, 64} /\ call.len = 2 + 2 * call.words)

\* In a block that bdb_verify accepts the parts follow each other inside the
\* buffer; OEM area 0 and the subkey are inside what the BDB key signed, the data,
\* OEM area 1 and every hash inside what the subkey signed.  A wrong BDB key
\* changes the result and hides no other error.
BdbCovered ==
  Returned("bdb") /\ result.rv \in {"SUCCESS", "GOOD_OTHER_THAN_KEY"} =>
    LET b == Descriptor(call) IN
    /\ result.rv = "SUCCESS" <=> call.trusted = "bdb"
    /\ call.by = "sub"
    /\ B!bdb_get_subkey(b) + call.subkey <= B!bdb_get_oem_area_0(b) + call.signed0
    /\ B!bdb_get_header_sig(b) + 4 <= B!bdb_get_data(b)
    /\ B!bdb_get_oem_area_1(b) + call.oem1 + call.hashes * call.entry <= B!bdb_get_data_sig(b)
    /\ \A t \in 1..call.hashes : B!bdb_get_hash(b, t) + call.entry <= B!bdb_get_data_sig(b)
    /\ B!bdb_get_data_sig(b) + 4 <= call.size

\* Whatever bdb_create writes is accepted by bdb_verify with its own key, and a
\* failed creation leaves no partial file.
BdbCreateAccepted ==
  Returned("bdb_create") =>
    /\ result.made.status = 0 <=> result.made.file = "written"
    /\ result.made.status = 0 => result.verified = "SUCCESS"
=============================================================================
