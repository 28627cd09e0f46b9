------------------------------ MODULE Builder -------------------------------
(***************************************************************************)
(* The high-level Builder of src/tvm/builder.rs, a wrapper around the     *)
(* CellBuilder of Cell.  Every store returns the builder as the call      *)
(* leaves it together with the call's Result: a store made of several     *)
(* inner stores (`?` after each) returns Err with the parts written before *)
(* the failing one still in the builder, exactly as the &mut self does.   *)
(* An optional argument is a sequence of length 0 (None) or 1 (Some).     *)
(***************************************************************************)
EXTENDS Slice

\* The builder after a call, and the call's Result.
Done(b)    == [bld |-> b, ok |-> TRUE,  err |-> "none"]
Fail(b, e) == [bld |-> b, ok |-> FALSE, err |-> e]
Res(b, r)  == IF r.ok THEN Done(r.val) ELSE Fail(b, r.err)

\* `first?; then ...`: F runs on the builder the first call left.
Then(r, F(_)) == IF r.ok THEN F(r.bld) ELSE r

\* Leading zero bits of a bit sequence (u64::leading_zeros and friends).
LeadingZeros(v) ==
  IF \A i \in DOMAIN v : v[i] = 0 THEN Len(v)
  ELSE (CHOOSE i \in DOMAIN v : v[i] = 1 /\ \A j \in 1..(i - 1) : v[j] = 0) - 1

\* CellBuilder::store_uint(value, bits): the low `bits` bits, MSB first.
CbStoreUint(b, v, bits) ==
  IF bits > 64 THEN Err(CapacityExceeded)
  ELSE StoreBits(b, Pack(LowBits(v, bits)), bits)

\* CellBuilder::store_bytes: every bit of the bytes.
CbStoreBytes(b, d) == StoreBits(b, d, 8 * Len(d))

\* CellBuilder::store_byte, store_u32 and store_u64 (the value's
\* to_be_bytes, a bit sequence of that width here) and store_bit (0x80 or
\* 0x00, one bit).
CbStoreByte(b, x) == StoreBits(b, <<x>>, 8)
CbStoreU32(b, v)  == StoreBits(b, Pack(v), 32)
CbStoreU64(b, v)  == StoreBits(b, Pack(v), 64)
CbStoreBit(b, x)  == StoreBits(b, <<IF x = 1 THEN 128 ELSE 0>>, 1)

\* Builder::bit_len and ref_count are placeholders returning 0, so the
\* available capacity the builder reports never shrinks.
PlaceholderBitLen(b) == 0
PlaceholderRefCount(b) == 0
AvailableBytes(b) == (MAX_CELL_BITS - PlaceholderBitLen(b)) \div 8

\* store_bits(bits, bit_len) and the wrappers over it.
BStoreBitsFrom(b, src, n) == Res(b, StoreBits(b, src, n))
BStoreBit(b, bit)         == Res(b, CbStoreBit(b, bit))
BStoreBool(b, x)          == BStoreBit(b, x)
BStoreByte(b, x)          == Res(b, CbStoreByte(b, x))
BStoreBytes(b, d)         == Res(b, CbStoreBytes(b, d))
BStoreU32(b, v)           == Res(b, CbStoreU32(b, v))
BStoreU64(b, v)           == Res(b, CbStoreU64(b, v))
BStoreUint(b, v, bits)    == Res(b, CbStoreUint(b, v, bits))

\* store_int: a negative value is masked with (1u64 << bits) - 1, which
\* overflows for bits = 64 (a release build shifts by 0: mask 0).
BStoreInt(b, v, bits) ==
  IF bits > 64 THEN Fail(b, CapacityExceeded)
  ELSE IF v[1] = 1 /\ bits = 64 /\ DebugAssertions THEN Fail(b, Panic)
  ELSE LET unsigned == IF v[1] = 0 THEN v
                       ELSE IF bits = 64 THEN Zeros(64)
                       ELSE ZeroExtend(LowBits(v, bits), 64)
       IN  BStoreUint(b, unsigned, bits)

\* store_ref
BStoreRef(b, c) == Res(b, StoreReference(b, c))

\* store_maybe_ref: the presence bit, then the reference.
BStoreMaybeRef(b, mc) ==
  IF mc = <<>> THEN BStoreBit(b, 0)
  ELSE Then(BStoreBit(b, 1), LAMBDA x : BStoreRef(x, mc[1]))

\* store_dict: the dictionary's root as an optional reference.
BStoreDict(b, d) == BStoreMaybeRef(b, d)

\* store_ref for each of refs in turn, stopping at the first failure.
BStoreRefs(r, refs) == FoldLeft(LAMBDA acc, c : Then(acc, LAMBDA x : BStoreRef(x, c)), r, refs)

\* store_cell: the reference check counts the placeholder ref_count.
BStoreCell(b, c) ==
  IF PlaceholderRefCount(b) + Len(c.refs) > MAX_CELL_REFS THEN Fail(b, CapacityExceeded)
  ELSE BStoreRefs(BStoreBitsFrom(b, c.data, c.bit_len), c.refs)

\* store_slice: the slice's remaining bits, then its remaining references.
BStoreSlice(b, s) ==
  LET n  == RemainingBits(s)
      lb == LoadBits(s, n)
      r1 == IF n > 0 THEN BStoreBitsFrom(b, Pack(lb.val), n) ELSE Done(b)
  IN  BStoreRefs(r1, SubSeq(s.cell.refs, s.ref_pos + 1, Len(s.cell.refs)))

\* store_var_uint(value, length_bits): byte length, then the bytes.
BStoreVarUint(b, v, lb) ==
  IF v = Zeros(64) THEN BStoreUint(b, Zeros(64), lb)
  ELSE LET byteLen == (64 - LeadingZeros(v) + 7) \div 8
       IN  Then(BStoreUint(b, Word(64, byteLen), lb), LAMBDA x : BStoreUint(x, v, 8 * byteLen))

\* store_var_int: a negative value always has bit length 64.
BStoreVarInt(b, v, lb) ==
  IF v = Zeros(64) THEN BStoreUint(b, Zeros(64), lb)
  ELSE LET byteLen == (64 - LeadingZeros(v) + 7) \div 8
       IN  Then(BStoreUint(b, Word(64, byteLen), lb), LAMBDA x : BStoreInt(x, v, 8 * byteLen))

\* store_coins(amount: u128): byte length in 4 bits, then the bytes.
BStoreCoins(b, a) ==
  IF a = Zeros(128) THEN BStoreUint(b, Zeros(64), 4)
  ELSE LET byteLen == (128 - LeadingZeros(a) + 7) \div 8
       IN  IF byteLen > 16 THEN Fail(b, CapacityExceeded)
           ELSE Then(BStoreUint(b, Word(64, byteLen), 4),
                     LAMBDA x : BStoreBytes(x, Pack(LowBits(a, 8 * byteLen))))

\* store_string: at most 127 bytes.
BStoreString(b, d) == IF Len(d) > 127 THEN Fail(b, CapacityExceeded) ELSE BStoreBytes(b, d)

\* store_snake_bytes: what fits by available_bytes here, the rest in a
\* chain of new builders stored as a reference.
RECURSIVE BStoreSnakeBytes(_, _)
BStoreSnakeBytes(b, d) ==
  LET avail == AvailableBytes(b)
  IN  IF d = <<>> THEN Done(b)
      ELSE IF Len(d) <= avail THEN BStoreBytes(b, d)
      ELSE Then(BStoreBytes(b, SubSeq(d, 1, avail)),
             LAMBDA x : LET nb == BStoreSnakeBytes(EmptyBuilder, SubSeq(d, avail + 1, Len(d)))
                            nc == Build(nb.bld)
                        IN  IF ~nb.ok THEN Fail(x, nb.err)
                            ELSE IF ~nc.ok THEN Fail(x, nc.err)
                            ELSE BStoreRef(x, nc.val))

\* store_snake_string(s, with_prefix): an optional 0x00 prefix byte.
BStoreSnakeString(b, d, withPrefix) ==
  BStoreSnakeBytes(b, IF withPrefix THEN <<0>> \o d ELSE d)

\* store_address: addr_none as store_bits(&[0], 2); addr_std as
\* store_bits(&[0b10], 2), no anycast, int8 workchain, 256-bit hash.
BStoreAddress(b, ma) ==
  IF ma = <<>> THEN BStoreBitsFrom(b, <<0>>, 2)
  ELSE Then(Then(Then(BStoreBitsFrom(b, <<2>>, 2),
                      LAMBDA x : BStoreBit(x, 0)),
                 LAMBDA x : BStoreInt(x, ma[1].workchain, 8)),
            LAMBDA x : BStoreBytes(x, ma[1].hash_part))

\* store_external_address: store_bits(&[0b01], 2), a 9-bit length, then
\* the value's low bit_len bits if there is a value.
BStoreExternalAddress(b, e) ==
  Then(Then(BStoreBitsFrom(b, <<1>>, 2),
            LAMBDA x : BStoreUint(x, Word(64, e.bit_len), 9)),
       LAMBDA x : IF e.value = <<>> THEN Done(x) ELSE BStoreUint(x, e.value[1], e.bit_len))
=============================================================================
