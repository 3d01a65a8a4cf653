-------------------------------- MODULE Rsa ---------------------------------
(***************************************************************************)
(* RSA signature verification: the Montgomery arithmetic of firmware/2lib/ *)
(* 2rsa.c, firmware/lib/cryptolib/rsa.c and bdb/rsa.c (one algorithm,      *)
(* three copies), the pre-computed keys the host tools write for it, the   *)
(* PKCS #1 padding checks, and the unpacking of a key from a buffer.       *)
(*                                                                         *)
(* A big number is the little-endian sequence of its words of Bits bits;   *)
(* the big-endian byte array a signature is stored in is the number it     *)
(* encodes.                                                                *)
(***************************************************************************)
EXTENDS Integers, Sequences

CONSTANT Bits    \* bits of a word (32)

Base   == 2^Bits
Double == Base * Base        \* the 64-bit accumulators

\* (<< >> \o f makes TLC compute the words of f at once.)
Words(x, count) == << >> \o [i \in 1..count |-> (x \div Base^(i - 1)) % Base]
Value(a) ==
  LET sum[i \in 0..Len(a)] == IF i = 0 THEN 0 ELSE sum[i - 1] + a[i] * Base^(i - 1)
  IN  sum[Len(a)]

(***************************************************************************)
(* Montgomery arithmetic                                                   *)
(***************************************************************************)
\* a[] -= mod, with a signed accumulator that carries the borrow.
subM(key, a) ==
  LET A[i \in 0..key.arrsize] ==
        IF i = 0 THEN 0 ELSE (A[i - 1] \div Base) + a[i] - key.n[i]
  IN  << >> \o [i \in 1..key.arrsize |-> A[i] % Base]

\* The most significant word in which the two differ decides.
vb2_mont_ge(key, a) ==
  \A i \in 1..key.arrsize :
    a[i] < key.n[i] => \E j \in (i + 1)..key.arrsize : a[j] > key.n[j]
                          /\ \A k \in (j + 1)..key.arrsize : a[k] = key.n[k]

\* The carry out of the top word is dropped without subtracting the modulus.
montMulAdd_NoSub(key, c, a, b) ==
  LET A[i \in 1..key.arrsize] ==
        IF i = 1 THEN a * b[1] + c[1]
        ELSE ((A[i - 1] \div Base) + a * b[i] + c[i]) % Double
      d0 == ((A[1] % Base) * key.n0inv) % Base
      B[i \in 1..key.arrsize] ==
        IF i = 1 THEN d0 * key.n[1] + (A[1] % Base)
        ELSE ((B[i - 1] \div Base) + d0 * key.n[i] + (A[i] % Base)) % Double
      top == (A[key.arrsize] \div Base) + (B[key.arrsize] \div Base)
  IN  << >> \o [i \in 1..key.arrsize |->
                  IF i < key.arrsize THEN B[i + 1] % Base ELSE top % Base]

\* c[] += a * b[] / R % mod
montMulAdd(key, c, a, b) ==
  LET A[i \in 1..key.arrsize] ==
        IF i = 1 THEN a * b[1] + c[1]
        ELSE ((A[i - 1] \div Base) + a * b[i] + c[i]) % Double
      d0 == ((A[1] % Base) * key.n0inv) % Base
      B[i \in 1..key.arrsize] ==
        IF i = 1 THEN d0 * key.n[1] + (A[1] % Base)
        ELSE ((B[i - 1] \div Base) + d0 * key.n[i] + (A[i] % Base)) % Double
      top == (A[key.arrsize] \div Base) + (B[key.arrsize] \div Base)
      sum == << >> \o [i \in 1..key.arrsize |->
                IF i < key.arrsize THEN B[i + 1] % Base ELSE top % Base]
  IN  IF top \div Base > 0 THEN subM(key, sum) ELSE sum

\* c[] = a[] * b[] / R % mod
montMul(key, a, b) ==
  LET c[i \in 0..key.arrsize] ==
        IF i = 0 THEN [k \in 1..key.arrsize |-> 0] ELSE montMulAdd(key, c[i - 1], a[i], b)
  IN  c[key.arrsize]

\* (Bound in a set, a is computed before it is squared.)
montSquare(key, a) == CHOOSE c \in {montMul(key, x, x) : x \in {a}} : TRUE
Reduced(key, aaa) == IF vb2_mont_ge(key, aaa) THEN subM(key, aaa) ELSE aaa

\* Public exponentiation with the exponent 65537: sixteen squarings.
modpowF4(key, a) ==
  LET aR[i \in 0..16] ==
        IF i = 0 THEN montMul(key, a, key.rr) ELSE montSquare(key, aR[i - 1])
  IN  Reduced(key, montMul(key, aR[16], a))

\* The exponent 3 of the boot descriptor block's 3072-bit keys.
modpow3(key, a) ==
  LET aR == montMul(key, a, key.rr)
  IN  Reduced(key, montMul(key, montMul(key, aR, aR), a))

(***************************************************************************)
(* The key as the host tools pre-compute it                                *)
(***************************************************************************)
\* BN_num_bits and BN_mod_inverse of the big number library.
NumBits(x) == CHOOSE k \in 0..x : 2^k > x /\ (k = 0 \/ 2^(k - 1) <= x)
ModInverse(x, m) == CHOOSE y \in 0..(m - 1) : (x * y) % m = 1 % m

vb_keyb_from_rsa(N) ==
  LET nwords == NumBits(N) \div Bits
      R      == 2^NumBits(N)
  IN  [arrsize |-> nwords, n0inv |-> Base - ModInverse(N, Base),
       n |-> Words(N, nwords), rr |-> Words((R * R) % N, nwords)]

\* dump_rsa and dumpRSAPublicKey print the same key from a copy of this code.
dump_rsa_output(N) == vb_keyb_from_rsa(N)
dumpRSAPublicKey_output(N) == vb_keyb_from_rsa(N)

\* The copies of the arithmetic in cryptolib and in the boot descriptor block.
cryptolib_modpowF4(key, a) == modpowF4(key, a)
bdb_modpowF4(key, a) == modpowF4(key, a)

(***************************************************************************)
(* Padding: tables of padding.c, checks of 2rsa.c, rsa.c and bdb/rsa.c     *)
(***************************************************************************)
kNumAlgorithms == 12
siglen_map    == [a \in 0..11 |-> <<128, 256, 512, 1024>>[(a \div 3) + 1]]
hash_type_map == [a \in 0..11 |-> <<"sha1", "sha256", "sha512">>[(a % 3) + 1]]
hash_size_map == [a \in 0..11 |-> <<20, 32, 64>>[(a % 3) + 1]]

digestinfo ==
  [sha1   |-> <<48, 33, 48, 9, 6, 5, 43, 14, 3, 2, 26, 5, 0, 4, 20>>,
   sha256 |-> <<48, 49, 48, 13, 6, 9, 96, 134, 72, 1, 101, 3, 4, 2, 1, 5, 0, 4, 32>>,
   sha512 |-> <<48, 81, 48, 13, 6, 9, 96, 134, 72, 1, 101, 3, 4, 2, 3, 5, 0, 4, 64>>]

Bytes(b, n) == [i \in 1..n |-> b]

\* The arrays paddingRSA1024_SHA1 ...: 0x00, 0x01, 0xff..., then the tail.
padding_map(a) ==
  <<0, 1>> \o Bytes(255, siglen_map[a] - hash_size_map[a] - Len(digestinfo[hash_type_map[a]]) - 3)
    \o <<0>> \o digestinfo[hash_type_map[a]]

\* PrependDigestInfo, and the padding RSA_private_encrypt adds on its own.
PrependDigestInfo(a, digest) == digestinfo[hash_type_map[a]] \o digest
RSA_PKCS1_PADDING(data, size) == <<0, 1>> \o Bytes(255, size - Len(data) - 3) \o <<0>> \o data

\* SignatureDigest and SignatureBuf of the host library; << >> is NULL.
SignatureDigest(a, digest) == IF a < kNumAlgorithms THEN PrependDigestInfo(a, digest) ELSE << >>
SignatureBuf(a, digest, key_size, keyFile) ==
  IF keyFile THEN RSA_PKCS1_PADDING(SignatureDigest(a, digest), key_size) ELSE << >>

\* RSAVerify, given what modpowF4 makes of the signature.
RSAVerify(key_len, sig_len, sig_type, recovered, hash) ==
  /\ sig_len = key_len * 4
  /\ sig_type < kNumAlgorithms
  /\ key_len = siglen_map[sig_type] \div 4
  /\ LET padding == padding_map(sig_type) IN
     /\ SubSeq(recovered, 1, Len(padding)) = padding
     /\ SubSeq(recovered, Len(padding) + 1, sig_len) = SubSeq(hash, 1, sig_len - Len(padding))

vb2_rsa_sig_size(sig_alg) == IF sig_alg \in {1024, 2048, 4096, 8192} THEN sig_alg \div 8 ELSE 0
vb2_crypto_to_signature(a) == IF a < kNumAlgorithms THEN <<1024, 2048, 4096, 8192>>[(a \div 3) + 1] ELSE 0
vb2_digest_size(hash_alg) ==
  CASE hash_alg = "sha1" -> 20 [] hash_alg = "sha256" -> 32 [] hash_alg = "sha512" -> 64 [] OTHER -> 0

\* vb2_safe_memcmp and SafeMemcmp look at every byte whatever they find.
vb2_safe_memcmp(s1, s2) == \A i \in DOMAIN s1 : s1[i] = s2[i]

vb2_check_padding(sig, sig_alg, hash_alg) ==
  LET sig_size  == vb2_rsa_sig_size(sig_alg)
      hash_size == vb2_digest_size(hash_alg)
      pad_size  == sig_size - hash_size
      tail      == <<0>> \o digestinfo[hash_alg]
  IN  IF sig_size = 0 \/ hash_size = 0 \/ hash_size > sig_size THEN "RSA_PADDING_SIZE"
      ELSE IF /\ sig[1] = 0 /\ sig[2] = 1
              /\ \A i \in 3..(pad_size - Len(tail)) : sig[i] = 255
              /\ \A i \in 1..Len(tail) : sig[pad_size - Len(tail) + i] = tail[i]
           THEN "SUCCESS" ELSE "RSA_PADDING"

vb2_rsa_verify_digest(arrsize, sig_alg, hash_alg, recovered, digest, room) ==
  LET sig_size == vb2_rsa_sig_size(sig_alg)
      rv       == vb2_check_padding(recovered, sig_alg, hash_alg)
      pad_size == sig_size - vb2_digest_size(hash_alg)
  IN  CASE sig_size = 0            -> "RSA_VERIFY_ALGORITHM"
        [] arrsize * 4 # sig_size  -> "RSA_VERIFY_SIG_LEN"
        [] 3 * arrsize * 4 > room  -> "RSA_VERIFY_WORKBUF"
        [] rv # "SUCCESS"          -> rv
        [] ~vb2_safe_memcmp(digest, SubSeq(recovered, pad_size + 1, sig_size)) -> "RSA_VERIFY_DIGEST"
        [] OTHER                   -> "SUCCESS"

\* The boot descriptor block always uses SHA-256: 512- or 384-byte signatures.
bdb_check_padding(recovered, pad_size) ==
  LET tail == <<0>> \o digestinfo["sha256"] IN
  /\ recovered[1] = 0 /\ recovered[2] = 1
  /\ \A i \in 3..(pad_size - Len(tail)) : recovered[i] = 255
  /\ \A i \in 1..Len(tail) : recovered[pad_size - Len(tail) + i] = tail[i]

bdb_rsa4096_verify(arrsize, recovered, digest) ==
  /\ arrsize = 128
  /\ bdb_check_padding(recovered, 512 - 32)
  /\ vb2_safe_memcmp(digest, SubSeq(recovered, 512 - 31, 512))

bdb_rsa3072b_verify(arrsize, recovered, digest) ==
  /\ arrsize = 96
  /\ bdb_check_padding(recovered, 384 - 32)
  /\ vb2_safe_memcmp(digest, SubSeq(recovered, 384 - 31, 384))

(***************************************************************************)
(* RSAPublicKeyFromBuf: a key taken apart with a cursor that remembers     *)
(* that it ran past the end.  Sizes in words.                              *)
(***************************************************************************)
StatefulInit(len) == [remaining |-> len, overrun |-> FALSE]

StatefulMemcpy(st, len) ==
  IF st.overrun THEN st
  ELSE IF len > st.remaining THEN [st EXCEPT !.overrun = TRUE]
  ELSE [st EXCEPT !.remaining = @ - len]

RSAPublicKeyFromBuf(key_words, len, sizes) ==
  LET first == StatefulMemcpy(StatefulInit(len), 1)
      words == IF first.overrun THEN 0 ELSE key_words
      last  == StatefulMemcpy(StatefulMemcpy(StatefulMemcpy(first, 1), words), words)
  IN  words \in sizes /\ ~last.overrun /\ last.remaining = 0

RSAProcessedKeySize(a) == IF a < kNumAlgorithms THEN 2 * (siglen_map[a] \div 4) + 2 ELSE 0

\* RSAVerifyBinary_f and RSAVerifyBinaryWithDigest_f: exactly one of the key and
\* its pre-processed blob; the blob's length follows from the algorithm alone.
RSAVerifyBinary_f(blob, key, algorithm, recovered, digest) ==
  LET sizes == {siglen_map[a] \div 4 : a \in 0..11} IN
  /\ algorithm < kNumAlgorithms
  /\ (blob # 0) # (key # 0)
  /\ blob # 0 => RSAPublicKeyFromBuf(blob, RSAProcessedKeySize(algorithm), sizes)
  /\ RSAVerify(IF blob # 0 THEN blob ELSE key, siglen_map[algorithm], algorithm, recovered, digest)
=============================================================================
