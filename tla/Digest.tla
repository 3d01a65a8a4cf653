------------------------------- MODULE Digest -------------------------------
(***************************************************************************)
(* The message digests: vb2_sha1_*, vb2_sha256_*, vb2_sha512_* and their   *)
(* dispatcher vb2_digest_* (firmware/2lib), the SHA*_ functions of         *)
(* firmware/lib/cryptolib and the boot descriptor block's own SHA-256.     *)
(*                                                                         *)
(* What can go wrong in them is the buffering: which bytes reach which     *)
(* block when a message arrives in pieces, and the padding of the last     *)
(* one or two blocks.  The compression function is left uninterpreted: a   *)
(* chaining value is the sequence of the blocks compressed so far, so two  *)
(* digests are equal exactly when the same blocks were compressed in the   *)
(* same order.  A byte is an integer; the length field of the last block   *)
(* is one cell that holds the bit count, after LenField - 1 zero cells.    *)
(***************************************************************************)
EXTENDS Integers, Sequences

CONSTANTS
  Block,      \* [hash algorithm -> bytes in a block] (VB2_SHA256_BLOCK_SIZE ...)
  LenField,   \* [hash algorithm -> bytes of the length field] (8, 8, 16)
  DigestSize, \* [hash algorithm -> bytes of a digest] (vb2_digest_size)
  Bits        \* width of the 32-bit counters

Word == 2^Bits

\* The 0x80 byte that ends a message, and a run of zero bytes.
EndMark == 128
Zeroes(n) == [i \in 1..n |-> 0]

\* memcpy(dst + at, src).
CopyTo(dst, at, src) ==
  SubSeq(dst, 1, at) \o src \o SubSeq(dst, at + Len(src) + 1, Len(dst))

(***************************************************************************)
(* SHA-256 and SHA-512: a buffer of two blocks, of which `size` bytes are  *)
(* pending, and the count of the bytes already compressed.                 *)
(***************************************************************************)
vb2_sha256_init(alg) ==
  [alg |-> alg, h |-> << >>, block |-> Zeroes(2 * Block[alg]), size |-> 0, total_size |-> 0]

vb2_sha256_transform(alg, h, message, block_nb) ==
  h \o [i \in 1..block_nb |-> SubSeq(message, (i - 1) * Block[alg] + 1, i * Block[alg])]

vb2_sha256_update(ctx, data) ==
  LET b        == Block[ctx.alg]
      size     == Len(data)
      rem      == IF size < b - ctx.size THEN size ELSE b - ctx.size
      block    == CopyTo(ctx.block, ctx.size, SubSeq(data, 1, rem))
      block_nb == (size - rem) \div b
      shifted  == SubSeq(data, rem + 1, size)
  IN  IF (ctx.size + size) % Word < b
      THEN [ctx EXCEPT !.block = block, !.size = (ctx.size + size) % Word]
      ELSE [ctx EXCEPT !.h = vb2_sha256_transform(ctx.alg,
                               vb2_sha256_transform(ctx.alg, ctx.h, block, 1), shifted, block_nb),
                       !.block = CopyTo(block, 0, SubSeq(shifted, block_nb * b + 1, Len(shifted))),
                       !.size = (size - rem) % b,
                       !.total_size = (ctx.total_size + (block_nb + 1) * b) % Word]

vb2_sha256_finalize(ctx) ==
  LET b        == Block[ctx.alg]
      block_nb == IF b - LenField[ctx.alg] - 1 < ctx.size % b THEN 2 ELSE 1
      size_b   == ((ctx.total_size + ctx.size) * 8) % Word
      cleared  == CopyTo(ctx.block, ctx.size, Zeroes(block_nb * b - ctx.size))
      padded   == CopyTo(CopyTo(cleared, ctx.size, <<EndMark>>), block_nb * b - 1, <<size_b>>)
  IN  vb2_sha256_transform(ctx.alg, ctx.h, padded, block_nb)

(***************************************************************************)
(* SHA-1: one block, filled byte by byte.                                  *)
(***************************************************************************)
vb2_sha1_init ==
  [alg |-> "sha1", h |-> << >>, buf |-> Zeroes(Block["sha1"]), count |-> 0]

\* sha1_transform, when the block is full.
FillByte(s, byte) ==
  LET buf == CopyTo(s.buf, s.i, <<byte>>)
  IN  IF s.i + 1 = Len(buf)
      THEN [h |-> Append(s.h, buf), buf |-> buf, i |-> 0]
      ELSE [h |-> s.h, buf |-> buf, i |-> s.i + 1]

FillBytes(s, data) ==
  LET step[k \in 0..Len(data)] == IF k = 0 THEN s ELSE FillByte(step[k - 1], data[k])
  IN  step[Len(data)]

vb2_sha1_update(ctx, data) ==
  LET s == FillBytes([h |-> ctx.h, buf |-> ctx.buf, i |-> ctx.count % Len(ctx.buf)], data)
  IN  [ctx EXCEPT !.h = s.h, !.buf = s.buf, !.count = (ctx.count + Len(data)) % Word]

\* The zero bytes appended until only the length field is missing.
ZeroesBeforeLength(count, b, field) == (b - field - count) % b

vb2_sha1_finalize(ctx) ==
  LET marked == vb2_sha1_update(ctx, <<EndMark>>)
      pad    == ZeroesBeforeLength(marked.count, Len(ctx.buf), LenField["sha1"])
      cnt    == (ctx.count * 8) % Word
  IN  vb2_sha1_update(marked, Zeroes(pad + LenField["sha1"] - 1) \o <<cnt>>).h

(***************************************************************************)
(* The same functions for SHA-512, and the copies of cryptolib and of the  *)
(* boot descriptor block.                                                  *)
(***************************************************************************)
vb2_sha512_init == vb2_sha256_init("sha512")
vb2_sha512_update(ctx, data) == vb2_sha256_update(ctx, data)
vb2_sha512_finalize(ctx) == vb2_sha256_finalize(ctx)

SHA256_init == vb2_sha256_init("sha256")
SHA256_update(ctx, data) == vb2_sha256_update(ctx, data)
SHA256_final(ctx) == vb2_sha256_finalize(ctx)
SHA512_init == vb2_sha256_init("sha512")
SHA512_update(ctx, data) == vb2_sha256_update(ctx, data)
SHA512_final(ctx) == vb2_sha256_finalize(ctx)

\* cryptolib's SHA1_update copies up to a block at a time while more than the
\* room in the buffer is left, then goes on byte by byte.  Its counter has 64 bits.
SHA1_init == vb2_sha1_init

SHA1_update(ctx, data) ==
  LET b     == Len(ctx.buf)
      i     == ctx.count % b
      len   == Len(data)
      loops == IF len > b - i THEN 1 + ((len - (b - i) - 1) \div b) ELSE 0
      used  == IF loops = 0 THEN 0 ELSE loops * b - i
      bytes == SubSeq(ctx.buf, 1, i) \o data
      whole == [k \in 1..loops |-> SubSeq(bytes, (k - 1) * b + 1, k * b)]
      s     == FillBytes([h   |-> ctx.h \o whole,
                          buf |-> IF loops = 0 THEN ctx.buf ELSE whole[loops],
                          i   |-> IF loops = 0 THEN i ELSE 0],
                         SubSeq(data, used + 1, len))
  IN  [ctx EXCEPT !.h = s.h, !.buf = s.buf, !.count = (ctx.count + len) % (Word * Word)]

\* The variant for processors that are not little-endian stores every byte.
SHA1_update_generic(ctx, data) ==
  LET s == FillBytes([h |-> ctx.h, buf |-> ctx.buf, i |-> ctx.count % Len(ctx.buf)], data)
  IN  [ctx EXCEPT !.h = s.h, !.buf = s.buf, !.count = (ctx.count + Len(data)) % (Word * Word)]

SHA1_final_generic(ctx) ==
  LET pad == ZeroesBeforeLength(ctx.count + 1, Len(ctx.buf), LenField["sha1"])
      cnt == (ctx.count * 8) % (Word * Word)
  IN  SHA1_update_generic(ctx, <<EndMark>> \o Zeroes(pad + LenField["sha1"] - 1) \o <<cnt>>).h

SHA1_final(ctx) ==
  LET marked == SHA1_update(ctx, <<EndMark>>)
      pad    == ZeroesBeforeLength(marked.count, Len(ctx.buf), LenField["sha1"])
      cnt    == (ctx.count * 8) % (Word * Word)
      zeroed[k \in 0..(pad + LenField["sha1"] - 1)] ==
        IF k = 0 THEN marked ELSE SHA1_update(zeroed[k - 1], <<0>>)
  IN  SHA1_update(zeroed[pad + LenField["sha1"] - 1], <<cnt>>).h

(***************************************************************************)
(* The dispatchers.                                                        *)
(***************************************************************************)
HashAlgs == DOMAIN Block

NoContext == [alg |-> "invalid"]

vb2_digest_init(alg) ==
  CASE alg = "sha1" -> vb2_sha1_init
    [] alg = "sha256" -> vb2_sha256_init(alg)
    [] alg = "sha512" -> vb2_sha512_init
    [] OTHER -> NoContext

vb2_digest_extend(dc, buf) ==
  CASE dc.alg = "sha1" -> vb2_sha1_update(dc, buf)
    [] dc.alg = "sha256" -> vb2_sha256_update(dc, buf)
    [] dc.alg = "sha512" -> vb2_sha512_update(dc, buf)
    [] OTHER -> NoContext

\* << >> stands for an error return: a digest always has at least one block.
vb2_digest_finalize(dc, digest_size) ==
  CASE dc.alg \notin HashAlgs -> << >>
    [] digest_size < DigestSize[dc.alg] -> << >>
    [] dc.alg = "sha1" -> vb2_sha1_finalize(dc)
    [] dc.alg = "sha256" -> vb2_sha256_finalize(dc)
    [] OTHER -> vb2_sha512_finalize(dc)

vb2_digest_buffer(buf, alg, digest_size) ==
  vb2_digest_finalize(vb2_digest_extend(vb2_digest_init(alg), buf), digest_size)

\* cryptolib's dispatchers do not check the size of the digest's buffer.
DigestInit(alg) ==
  CASE alg = "sha1" -> SHA1_init [] alg = "sha256" -> SHA256_init [] OTHER -> SHA512_init

DigestUpdate(ctx, data) ==
  CASE ctx.alg = "sha1" -> SHA1_update(ctx, data)
    [] ctx.alg = "sha256" -> SHA256_update(ctx, data)
    [] OTHER -> SHA512_update(ctx, data)

DigestFinal(ctx) ==
  CASE ctx.alg = "sha1" -> SHA1_final(ctx)
    [] ctx.alg = "sha256" -> SHA256_final(ctx)
    [] OTHER -> SHA512_final(ctx)

\* internal_SHA256 and internal_SHA512 feed at most UINT32_MAX bytes at a time.
Chunk(data, k) ==
  SubSeq(data, (k - 1) * (Word - 1) + 1,
         IF k * (Word - 1) > Len(data) THEN Len(data) ELSE k * (Word - 1))
Chunks(data) == (Len(data) + Word - 2) \div (Word - 1)

internal_SHA1(data) == SHA1_final(SHA1_update(SHA1_init, data))

internal_SHA256(data) ==
  LET fed[k \in 0..Chunks(data)] ==
        IF k = 0 THEN SHA256_init ELSE SHA256_update(fed[k - 1], Chunk(data, k))
  IN  SHA256_final(fed[Chunks(data)])

internal_SHA512(data) ==
  LET fed[k \in 0..Chunks(data)] ==
        IF k = 0 THEN SHA512_init ELSE SHA512_update(fed[k - 1], Chunk(data, k))
  IN  SHA512_final(fed[Chunks(data)])

DigestBuf(alg, data) ==
  CASE alg = "sha1" -> internal_SHA1(data)
    [] alg = "sha256" -> internal_SHA256(data)
    [] OTHER -> internal_SHA512(data)

\* The boot descriptor block has a copy of the 2lib functions of its own.
bdb_sha256_init == vb2_sha256_init("sha256")
bdb_sha256_update(ctx, data) == vb2_sha256_update(ctx, data)
bdb_sha256_finalize(ctx) == vb2_sha256_finalize(ctx)
bdb_sha256(data) == bdb_sha256_finalize(bdb_sha256_update(bdb_sha256_init, data))

(***************************************************************************)
(* The reference: the padded message of the standard, cut into blocks, for *)
(* a length field that counts bits modulo `limit`.                         *)
(***************************************************************************)
Standard(alg, m, limit) ==
  LET b      == Block[alg]
      pad    == ZeroesBeforeLength(Len(m) + 1, b, LenField[alg])
      padded == m \o <<EndMark>> \o Zeroes(pad + LenField[alg] - 1) \o <<(Len(m) * 8) % limit>>
  IN  [i \in 1..(Len(padded) \div b) |-> SubSeq(padded, (i - 1) * b + 1, i * b)]
=============================================================================
