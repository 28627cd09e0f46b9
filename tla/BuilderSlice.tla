---------------------------- MODULE BuilderSlice ----------------------------
(***************************************************************************)
(* A program that writes typed fields into a cell with the Builder of    *)
(* src/tvm/builder.rs and reads them back with the Slice of               *)
(* src/tvm/slice.rs - the pattern every message and contract-data codec   *)
(* built on this library follows.                                          *)
(*                                                                         *)
(* The writer makes store calls in any order, with arguments from small   *)
(* sets, `log` keeping the fields whose store returned Ok.  A store that  *)
(* returns Err ends the construction (the `?` idiom): the builder is      *)
(* abandoned.  After build() the reader loads the logged fields in order  *)
(* with the matching Slice loads, and stops at the first field that does  *)
(* not read back.  A snake field ends the cell: the reader takes the rest *)
(* of the cell and follows the chain.                                      *)
(***************************************************************************)
EXTENDS Builder

CONSTANTS
  U64s, UintWidths,   \* store_uint arguments (values as 64-bit sequences)
  I64s, IntWidths,    \* store_int arguments (two's complement)
  Amounts,            \* store_coins amounts (128-bit sequences)
  VarLens,            \* store_var_uint / store_var_int length_bits
  VarInts,            \* store_var_int values (i64 as 64-bit sequences)
  Payloads,           \* store_bytes payloads (byte sequences)
  SnakePayloads,      \* store_snake_bytes payloads
  Addresses,          \* store_address arguments (<<>> or <<addr>>)
  RefCell,            \* the cell stored by store_ref / store_maybe_ref
  CellArgs,           \* cells stored by store_cell and sliced for store_slice
  SliceSkips,         \* <<bits, refs>> skipped before a slice is stored
  MaxFields           \* bound: fields one builder holds

VARIABLES
  bld,     \* the Builder's CellBuilder
  log,     \* the fields stored with Ok, in order
  phase,   \* "write", "read", "done", "abandoned", "panicked", "mismatch"
  sl,      \* the reader's Slice
  rpos,    \* the next field the reader loads
  last     \* history: the last store call and its Result

vars == <<bld, log, phase, sl, rpos, last>>

Field(k, a) == [kind |-> k, arg |-> a]
NoCall == [f |-> Field("none", <<>>), ok |-> TRUE, err |-> "none"]
NoSlice == NewSlice(EmptyBuilder)

HasSnake == \E i \in DOMAIN log : log[i].kind = "snake"

\* Type invariant: the builder stays within the cell limits of CellBuilder
\* and the reader's cursor within the built cell.
TypeOK ==
  /\ bld.data \in Seq(Bytes) /\ bld.bit_len \in 0..MAX_CELL_BITS
  /\ Len(bld.refs) <= MAX_CELL_REFS
  /\ Len(log) <= MaxFields
  /\ phase \in {"write", "read", "done", "abandoned", "panicked", "mismatch"}
  /\ rpos \in 1..(MaxFields + 1)
  /\ sl.bit_pos <= sl.cell.bit_len /\ sl.ref_pos <= Len(sl.cell.refs)
  /\ last.ok \in BOOLEAN

Init ==
  /\ bld = EmptyBuilder
  /\ log = <<>>
  /\ phase = "write"
  /\ sl = NoSlice
  /\ rpos = 1
  /\ last = NoCall

\* A store call of field f with result r.
Store(f, r) ==
  /\ phase = "write" /\ Len(log) < MaxFields /\ ~HasSnake
  /\ bld' = r.bld
  /\ last' = [f |-> f, ok |-> r.ok, err |-> r.err]
  /\ log' = IF r.ok THEN Append(log, f) ELSE log
  /\ phase' = IF r.ok THEN "write" ELSE IF r.err = Panic THEN "panicked" ELSE "abandoned"
  /\ UNCHANGED <<sl, rpos>>

StoreBitStep(x)         == Store(Field("bit", x), BStoreBit(bld, x))
StoreUintStep(v, w)     == Store(Field("uint", <<v, w>>), BStoreUint(bld, v, w))
StoreIntStep(v, w)      == Store(Field("int", <<v, w>>), BStoreInt(bld, v, w))
StoreRefStep            == Store(Field("ref", RefCell), BStoreRef(bld, RefCell))
StoreMaybeRefStep(mc)   == Store(Field("maybe_ref", mc), BStoreMaybeRef(bld, mc))
StoreCoinsStep(a)       == Store(Field("coins", a), BStoreCoins(bld, a))
StoreVarUintStep(v, lb) == Store(Field("var_uint", <<v, lb>>), BStoreVarUint(bld, v, lb))
StoreBytesStep(d)       == Store(Field("bytes", d), BStoreBytes(bld, d))
StoreSnakeStep(d)       == Store(Field("snake", d), BStoreSnakeBytes(bld, d))
StoreAddressStep(ma)    == Store(Field("address", ma), BStoreAddress(bld, ma))
StoreBoolStep(x)        == Store(Field("bit", x), BStoreBool(bld, x))
StoreByteStep(x)        == Store(Field("byte", x), BStoreByte(bld, x))
StoreU32Step(v)         == Store(Field("u32", v), BStoreU32(bld, v))
StoreU64Step(v)         == Store(Field("u64", v), BStoreU64(bld, v))
StoreDictStep(d)        == Store(Field("maybe_ref", d), BStoreDict(bld, d))
StoreVarIntStep(v, lb)  == Store(Field("var_int", <<v, lb>>), BStoreVarInt(bld, v, lb))
StoreStringStep(d)      == Store(Field("string", d), BStoreString(bld, d))
StoreCellStep(c)        == Store(Field("cell", c), BStoreCell(bld, c))

\* store_snake_string: the reader sees the prefixed bytes as a snake field.
StoreSnakeStringStep(d, wp) ==
  Store(Field("snake", IF wp THEN <<0>> \o d ELSE d), BStoreSnakeString(bld, d, wp))

\* store_slice of a slice of c whose first bits and refs were skipped
\* with skip_bits and skip_refs.
StoreSliceStep(c, skip) ==
  LET s == SkipRefs(SkipBits(NewSlice(c), skip[1]).sl, skip[2]).sl
  IN  Store(Field("slice", s), BStoreSlice(bld, s))

\* build(), then Slice::new on the cell.
BuildStep ==
  /\ phase = "write" /\ log # <<>>
  /\ LET c == Build(bld)
     IN  /\ c.ok
         /\ sl' = NewSlice(c.val)
  /\ phase' = "read" /\ rpos' = 1
  /\ UNCHANGED <<bld, log, last>>

(***************************************************************************)
(* The reader                                                              *)
(***************************************************************************)

\* The rest of a snake chain: this cell's remaining bits, then the chain
\* under its next reference.
RECURSIVE ReadSnake(_)
ReadSnake(s) ==
  LET r  == LoadRemainingBits(s)
      nx == LoadReference(r.sl)
  IN  IF RemainingRefs(r.sl) = 0 THEN r
      ELSE LET rest == ReadSnake(NewSlice(nx.val))
           IN  Loaded(nx.sl, r.val \o rest.val)

\* A VarInteger as TL-B reads it (the Slice has no load_var_int): the
\* byte length, then a signed integer of that many bytes.
ReadVarInt(s, lb) ==
  LET l == LoadUint(s, lb)
      n == BitsToNat(LowBits(l.val, 8))
  IN  IF ~l.ok THEN l ELSE IF n = 0 THEN Loaded(l.sl, Zeros(64)) ELSE LoadInt(l.sl, 8 * n)

\* k references, loaded in turn.
RECURSIVE LoadRefs(_, _)
LoadRefs(s, k) ==
  IF k = 0 THEN Loaded(s, <<>>)
  ELSE LET h == LoadReference(s)
           t == LoadRefs(h.sl, k - 1)
       IN  IF ~h.ok THEN h ELSE IF ~t.ok THEN t ELSE Loaded(t.sl, <<h.val>> \o t.val)

\* n bits and then k references, as store_cell and store_slice wrote them.
ReadBitsRefs(s, n, k) ==
  LET b == LoadBits(s, n)
      r == LoadRefs(b.sl, k)
  IN  IF ~b.ok THEN b ELSE IF ~r.ok THEN r
      ELSE Loaded(r.sl, [bits |-> b.val, refs |-> r.val])

\* What is left of a slice: its unread bits and references.
Rest(s) == [bits |-> SubSeq(Unpack(s.cell.data, s.cell.bit_len), s.bit_pos + 1, s.cell.bit_len),
            refs |-> SubSeq(s.cell.refs, s.ref_pos + 1, Len(s.cell.refs))]

\* The address per spec 4.2: a 2-bit tag, then for addr_std the anycast
\* bit, the int8 workchain and the 256-bit hash.
ReadAddress(s) ==
  LET t  == LoadUint(s, 2)
      a  == LoadBits(t.sl, 1)
      wc == LoadInt(a.sl, 8)
      h  == LoadBits(wc.sl, 256)
  IN  IF ~t.ok THEN t
      ELSE IF LowBits(t.val, 2) = <<0, 0>> THEN Loaded(t.sl, <<>>)
      ELSE IF ~(a.ok /\ wc.ok /\ h.ok) THEN Err(MalformedStream)
      ELSE Loaded(h.sl, <<[workchain |-> wc.val, hash_part |-> Pack(h.val)]>>)

\* The load matching a logged field.
ReadField(s, f) ==
  CASE f.kind = "bit"      -> LoadBits(s, 1)
    [] f.kind = "uint"     -> LoadUint(s, f.arg[2])
    [] f.kind = "int"      -> LoadInt(s, f.arg[2])
    [] f.kind = "ref"      -> LoadReference(s)
    [] f.kind = "maybe_ref" ->
         LET p == LoadBits(s, 1)
         IN  IF ~p.ok THEN p
             ELSE IF p.val = <<0>> THEN Loaded(p.sl, <<>>)
             ELSE LET r == LoadReference(p.sl) IN IF r.ok THEN Loaded(r.sl, <<r.val>>) ELSE r
    [] f.kind = "coins"    -> LoadCoins(s)
    [] f.kind = "var_uint" -> LoadVarUint(s, f.arg[2])
    [] f.kind \in {"bytes", "string"} -> LoadBytes(s, Len(f.arg))
    [] f.kind = "var_int"  -> ReadVarInt(s, f.arg[2])
    [] f.kind = "byte"     -> LoadByte(s)
    [] f.kind = "u32"      -> LoadU32(s)
    [] f.kind = "u64"      -> LoadU64(s)
    [] f.kind = "cell"     -> ReadBitsRefs(s, f.arg.bit_len, Len(f.arg.refs))
    [] f.kind = "slice"    -> ReadBitsRefs(s, Len(Rest(f.arg).bits), Len(Rest(f.arg).refs))
    [] f.kind = "snake"    -> ReadSnake(s)
    [] f.kind = "address"  -> ReadAddress(s)

\* The value the store promises the load returns (spec 4.2, 4.3).
Expected(f) ==
  CASE f.kind = "bit"      -> <<f.arg>>
    [] f.kind = "uint"     -> ZeroExtend(LowBits(f.arg[1], f.arg[2]), 64)
    [] f.kind = "int"      -> SignExtend(LowBits(f.arg[1], f.arg[2]), 64)
    [] f.kind \in {"var_uint", "var_int"} -> f.arg[1]
    [] f.kind = "byte"     -> Unpack(<<f.arg>>, 8)
    [] f.kind \in {"bytes", "string", "snake"} -> Unpack(f.arg, 8 * Len(f.arg))
    [] f.kind = "cell"     -> Rest(NewSlice(f.arg))
    [] f.kind = "slice"    -> Rest(f.arg)
    [] OTHER               -> f.arg

ReadStep ==
  /\ phase = "read" /\ rpos <= Len(log)
  /\ LET r == ReadField(sl, log[rpos])
     IN  IF r.ok /\ r.val = Expected(log[rpos])
         THEN /\ sl' = r.sl /\ rpos' = rpos + 1
              /\ phase' = IF rpos = Len(log) THEN "done" ELSE "read"
         ELSE /\ phase' = "mismatch" /\ UNCHANGED <<sl, rpos>>
  /\ UNCHANGED <<bld, log, last>>

\* The program starts the next cell with Builder::new.
Restart ==
  /\ phase \in {"done", "abandoned", "panicked", "mismatch"}
  /\ bld' = EmptyBuilder /\ log' = <<>> /\ phase' = "write"
  /\ sl' = NoSlice /\ rpos' = 1 /\ last' = NoCall

Next ==
  \/ \E x \in Bits : StoreBitStep(x)
  \/ \E v \in U64s, w \in UintWidths : StoreUintStep(v, w)
  \/ \E v \in I64s, w \in IntWidths : StoreIntStep(v, w)
  \/ StoreRefStep
  \/ \E mc \in {<<>>, <<RefCell>>} : StoreMaybeRefStep(mc)
  \/ \E a \in Amounts : StoreCoinsStep(a)
  \/ \E v \in U64s, lb \in VarLens : StoreVarUintStep(v, lb)
  \/ \E v \in VarInts, lb \in VarLens : StoreVarIntStep(v, lb)
  \/ \E d \in Payloads : StoreBytesStep(d)
  \/ \E d \in SnakePayloads : StoreSnakeStep(d)
  \/ \E ma \in Addresses : StoreAddressStep(ma)
  \/ \E x \in Bits : StoreBoolStep(x)
  \/ \E v \in U64s : StoreByteStep(BitsToNat(LowBits(v, 8)))
  \/ \E v \in U64s : StoreU32Step(LowBits(v, 32))
  \/ \E v \in U64s : StoreU64Step(v)
  \/ \E d \in {<<>>, <<RefCell>>} : StoreDictStep(d)
  \/ \E d \in Payloads : StoreStringStep(d)
  \/ \E d \in SnakePayloads, wp \in BOOLEAN : StoreSnakeStringStep(d, wp)
  \/ \E c \in CellArgs : StoreCellStep(c)
  \/ \E c \in CellArgs, skip \in SliceSkips : StoreSliceStep(c, skip)
  \/ BuildStep
  \/ ReadStep
  \/ Restart

Spec == Init /\ [][Next]_vars

(***************************************************************************)
(* Properties                                                              *)
(***************************************************************************)

\* Spec 8: reading a cell back with the Slice loads that mirror the stores
\* returns every stored value - across byte boundaries, after references,
\* up to the 1023-bit limit, and for every encoding the builder offers.
ReadBackMatches == phase # "mismatch"

\* Spec 8: store_snake_bytes with a payload larger than the builder's
\* remaining room stores the prefix that fits and chains the rest, rather
\* than failing for lack of room.
SnakeNeverOverflows ==
  (~last.ok /\ last.f.kind = "snake") => last.err # CapacityExceeded
=============================================================================
