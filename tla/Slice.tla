------------------------------- MODULE Slice --------------------------------
(***************************************************************************)
(* The read cursor of src/tvm/slice.rs over one cell: bit_pos and ref_pos *)
(* advance as bits and references are loaded.                              *)
(*                                                                         *)
(* Machine integers are kept at their width as sequences of bits, most    *)
(* significant first: a u64 or i64 is a sequence of 64 bits (i64 in two's *)
(* complement), a u128 one of 128 bits.  Shifts past the width behave as  *)
(* the build makes them: with DebugAssertions they panic, without them    *)
(* the shift amount is taken modulo the width.                            *)
(***************************************************************************)
EXTENDS Cell

CONSTANT DebugAssertions   \* TRUE: overflow checks of a debug build

ASSUME DebugAssertions \in BOOLEAN

Panic == "Panic"

\* The w-bit two's-complement form of a small integer n (|n| < 2^30).
Word(w, n) ==
  [i \in 1..w |-> IF w - i >= 30 THEN (IF n < 0 THEN 1 ELSE 0)
                  ELSE BitOf(n % 2 ^ 30, w - i)]

Zeros(w) == [i \in 1..w |-> 0]

\* The low n bits of v, and v zero-extended (or sign-extended) to w bits.
LowBits(v, n)      == SubSeq(v, Len(v) - n + 1, Len(v))
ZeroExtend(v, w)   == Zeros(w - Len(v)) \o v
SignExtend(v, w)   == [i \in 1..(w - Len(v)) |-> v[1]] \o v

\* The value of a short bit sequence (at most 30 bits).
RECURSIVE BitsToNat(_)
BitsToNat(v) == IF v = <<>> THEN 0 ELSE 2 * BitsToNat(SubSeq(v, 1, Len(v) - 1)) + v[Len(v)]

\* Results of loads: the advanced slice and the value read.
Loaded(s, v) == [ok |-> TRUE, sl |-> s, val |-> v]

\* Slice::new
NewSlice(c) == [cell |-> c, bit_pos |-> 0, ref_pos |-> 0]

\* remaining_bits / remaining_refs (saturating_sub)
RemainingBits(s) == IF s.cell.bit_len > s.bit_pos THEN s.cell.bit_len - s.bit_pos ELSE 0
RemainingRefs(s) == IF Len(s.cell.refs) > s.ref_pos THEN Len(s.cell.refs) - s.ref_pos ELSE 0

\* load_bits(n): the next n bits (load_bit n times after one bounds check).
LoadBits(s, n) ==
  IF n > RemainingBits(s) THEN Err(MalformedStream)
  ELSE Loaded([s EXCEPT !.bit_pos = @ + n],
              SubSeq(Unpack(s.cell.data, s.cell.bit_len), s.bit_pos + 1, s.bit_pos + n))

\* load_bytes(n): n * 8 bits.
LoadBytes(s, n) == LoadBits(s, 8 * n)

\* load_byte, load_u32, load_u64: load_bits of the width, read
\* big-endian (the bits in order, here).
LoadByte(s) == LoadBits(s, 8)
LoadU32(s)  == LoadBits(s, 32)
LoadU64(s)  == LoadBits(s, 64)

\* load_remaining_bits
LoadRemainingBits(s) == LoadBits(s, RemainingBits(s))

\* load_uint(bits): big-endian, zero-extended to 64 bits.
LoadUint(s, bits) ==
  IF bits > 64 THEN Err(MalformedStream)
  ELSE IF bits = 0 THEN Loaded(s, Zeros(64))
  ELSE LET r == LoadBits(s, bits)
       IN  IF ~r.ok THEN r ELSE Loaded(r.sl, ZeroExtend(r.val, 64))

LoadInt_NoSignExtend(s, bits) ==
  IF bits > 64 THEN Err(MalformedStream) ELSE LoadUint(s, bits)

\* load_int(bits): load_uint, then sign extension with !0u64 << bits,
\* which overflows for bits = 64.
LoadInt(s, bits) ==
  IF bits > 64 THEN Err(MalformedStream)
  ELSE IF bits = 0 THEN Loaded(s, Zeros(64))
  ELSE LET r == LoadUint(s, bits)
           u == IF r.ok THEN r.val ELSE Zeros(64)
           negative == u[64 - bits + 1] = 1
       IN  IF ~r.ok THEN r
           ELSE IF ~negative THEN r
           ELSE IF bits < 64 THEN Loaded(r.sl, SignExtend(LowBits(u, bits), 64))
           ELSE IF DebugAssertions THEN Err(Panic)
           ELSE Loaded(r.sl, [i \in 1..64 |-> 1])

\* load_reference
LoadReference(s) ==
  IF RemainingRefs(s) = 0 THEN Err(MalformedStream)
  ELSE Loaded([s EXCEPT !.ref_pos = @ + 1], s.cell.refs[s.ref_pos + 1])

\* skip_bits(n)
SkipBits(s, n) ==
  IF n > RemainingBits(s) THEN Err(MalformedStream)
  ELSE Loaded([s EXCEPT !.bit_pos = @ + n], <<>>)

\* skip_refs(n)
SkipRefs(s, n) ==
  IF n > RemainingRefs(s) THEN Err(MalformedStream)
  ELSE Loaded([s EXCEPT !.ref_pos = @ + n], <<>>)

\* load_var_uint(length_bits): a length in bytes, then that many bytes.
LoadVarUint(s, length_bits) ==
  IF length_bits > 8 THEN Err(MalformedStream)
  ELSE LET lr  == LoadUint(s, length_bits)
           len == IF lr.ok THEN BitsToNat(LowBits(lr.val, 8)) ELSE 0
       IN  IF ~lr.ok THEN lr
           ELSE IF len > 8 THEN Err(MalformedStream)
           ELSE IF len = 0 THEN Loaded(lr.sl, Zeros(64))
           ELSE LET br == LoadBits(lr.sl, 8 * len)
                IN  IF ~br.ok THEN br ELSE Loaded(br.sl, ZeroExtend(br.val, 64))

\* load_coins: a 4-bit length, then that many bytes, into a u128.
LoadCoins(s) ==
  LET lr  == LoadUint(s, 4)
      len == IF lr.ok THEN BitsToNat(LowBits(lr.val, 4)) ELSE 0
  IN  IF ~lr.ok THEN lr
      ELSE IF len = 0 THEN Loaded(lr.sl, Zeros(128))
      ELSE LET br == LoadBits(lr.sl, 8 * len)
           IN  IF ~br.ok THEN br ELSE Loaded(br.sl, ZeroExtend(br.val, 128))
=============================================================================
