-------------------------------- MODULE Dict --------------------------------
(***************************************************************************)
(* The in-memory Dict of src/tvm/dict.rs: a key_size and a HashMap from   *)
(* u64 to values.  Every DictKey is turned into a u64 before it reaches   *)
(* the map: Int(k) as is, Bits(data, bit_len) by shifting in the bytes of *)
(* data, Address(addr) by store_address, build and load_uint(267).        *)
(* set_int_key rejects a u64 whose significant bits exceed key_size.      *)
(*                                                                         *)
(* A client creates dictionaries (new, or deserialize, which returns an   *)
(* empty one), sets keys from small sets, and ships a dictionary through  *)
(* a cell: store_dictionary into a new Builder, build, load_dict.  `shadow` is history: the    *)
(* value last set for each key as the key_size-bit string a TON          *)
(* dictionary is keyed by (Int and Bits keys with the same bits are the   *)
(* same key).                                                              *)
(***************************************************************************)
EXTENDS Builder

CONSTANTS
  KeySizes,    \* key_size arguments of Dict::new
  IntKeys,     \* DictKey::Int arguments (small naturals)
  BitsKeys,    \* DictKey::Bits arguments, records [data, bit_len]
  AddrKeys,    \* DictKey::Address arguments, [workchain (64-bit), hash_part]
  Values       \* DictValue arguments (model values)

VARIABLES
  key_size,    \* Dict.key_size
  map,         \* Dict.map: u64 (a 64-bit sequence) -> value
  shadow,      \* history: key_size-bit key -> value last set with Ok
  last,        \* history: the last call and whether it returned Ok
  loaded       \* the Result of the last load_dict of a shipped dictionary

vars == <<key_size, map, shadow, last, loaded>>

IntKey(k)  == [kind |-> "int", arg |-> k]
BitsKey(b) == [kind |-> "bits", arg |-> b]
AddrKey(a) == [kind |-> "address", arg |-> a]

Keys == {IntKey(k) : k \in IntKeys} \cup {BitsKey(b) : b \in BitsKeys}
          \cup {AddrKey(a) : a \in AddrKeys}

NoCall == [op |-> "none", key |-> IntKey(0), ok |-> TRUE]

\* set_int_key's check: the bits the key needs (1 for 0) against key_size.
KeyBits(k) == IF k = Zeros(64) THEN 1 ELSE 64 - LeadingZeros(k)

\* set_int_key: insert unless the key needs more than key_size bits.
SetIntKey(m, ks, k, v) ==
  IF KeyBits(k) > ks THEN Err("KeySize") ELSE [ok |-> TRUE, val |-> (k :> v) @@ m]

\* The Bits branch of set/get: key_int = (key_int << 8) | byte for every
\* byte that starts before bit_len; the shift drops the top byte of a u64.
BitsToKeyInt(data, bit_len) ==
  LET n == Cardinality({i \in 1..Len(data) : (i - 1) * 8 < bit_len})
  IN  FoldLeft(LAMBDA acc, byte : SubSeq(acc, 9, 64) \o Word(8, byte),
               Zeros(64), SubSeq(data, 1, n))

\* The Address branch of set/get: store_address(Some(addr)), build,
\* Slice::new and load_uint(267).
AddrToKeyInt(a) ==
  LET r == BStoreAddress(EmptyBuilder, <<a>>)
      c == Build(r.bld)
  IN  IF ~r.ok THEN Err(r.err)
      ELSE IF ~c.ok THEN Err(c.err)
      ELSE LET l == LoadUint(NewSlice(c.val), 267)
           IN  IF l.ok THEN [ok |-> TRUE, val |-> l.val] ELSE Err(l.err)

\* The u64 a DictKey becomes under a dictionary of key_size ks, or the
\* error set/get bails with before reaching the map.
KeyInt(key, ks) ==
  CASE key.kind = "int"  -> [ok |-> TRUE, val |-> Word(64, key.arg)]
    [] key.kind = "bits" ->
         IF key.arg.bit_len # ks THEN Err("KeyLength")
         ELSE [ok |-> TRUE, val |-> BitsToKeyInt(key.arg.data, key.arg.bit_len)]
    [] key.kind = "address" ->
         IF ks # 267 THEN Err("AddressKeySize") ELSE AddrToKeyInt(key.arg)

\* Dict::set
Set(m, ks, key, v) ==
  LET ki == KeyInt(key, ks) IN IF ~ki.ok THEN ki ELSE SetIntKey(m, ks, ki.val, v)

\* Dict::get: Ok(None) is <<>>, Ok(Some(v)) is <<v>>.
Get(m, ks, key) ==
  LET ki == KeyInt(key, ks)
  IN  IF ~ki.ok THEN ki
      ELSE [ok |-> TRUE, val |-> IF ki.val \in DOMAIN m THEN <<m[ki.val]>> ELSE <<>>]

\* Dict::serialize: Ok(None) for an empty map, otherwise the stub's error.
\* An Option is <<>> for None and <<x>> for Some(x).
Serialize(m) == IF m = <<>> THEN Ok(<<>>) ELSE Err("NotImplemented")

\* Builder::store_dictionary(dict): store_dict (store_maybe_ref) of what
\* serialize returns, after serialize's error.
StoreDictionary(b, md) ==
  IF md = <<>> THEN BStoreMaybeRef(b, <<>>)
  ELSE LET s == Serialize(md[1].map)
       IN  IF ~s.ok THEN Fail(b, s.err) ELSE BStoreMaybeRef(b, s.val)

\* Slice::load_dict(key_size): without a reference, the presence bit;
\* with one, Dict::deserialize of it, which is an empty dictionary.
LoadDict(sl, ks) ==
  IF RemainingRefs(sl) = 0
  THEN LET r == LoadBits(sl, 1)
       IN  IF ~r.ok THEN r
           ELSE IF r.val = <<0>> THEN Loaded(r.sl, <<>>)
           ELSE Err("ExpectedReference")
  ELSE LET r == LoadReference(sl)
       IN  IF ~r.ok THEN r ELSE Loaded(r.sl, <<[key_size |-> ks, map |-> <<>>]>>)

\* store_dictionary on a new Builder, build, Slice::new, load_dict.
ShipDict(md, ks) ==
  LET w == StoreDictionary(EmptyBuilder, md)
      c == IF w.ok THEN Build(w.bld) ELSE Err(w.err)
  IN  IF ~c.ok THEN Err(c.err) ELSE LoadDict(NewSlice(c.val), ks)

(***************************************************************************)
(* The key a TON dictionary of key_size ks means by a DictKey: a string of *)
(* ks bits.  An Int key is well formed when it fits in ks bits, a Bits     *)
(* key when its bit_len is ks and data holds exactly those bits (padded    *)
(* with zeros), an Address key when ks is 267.                             *)
(***************************************************************************)
Meaning(key, ks) ==
  CASE key.kind = "int"  -> Word(ks, key.arg)
    [] key.kind = "bits" -> SubSeq(Unpack(key.arg.data, 8 * Len(key.arg.data)), 1, ks)
    [] key.kind = "address" ->
         <<1, 0, 0>> \o LowBits(key.arg.workchain, 8) \o Unpack(key.arg.hash_part, 256)

WellFormed(key, ks) ==
  CASE key.kind = "int"  -> ks >= 30 \/ key.arg < 2 ^ ks
    [] key.kind = "bits" ->
         /\ key.arg.bit_len = ks /\ Len(key.arg.data) = (ks + 7) \div 8
         /\ \A i \in (ks + 1)..(8 * Len(key.arg.data)) :
              Unpack(key.arg.data, 8 * Len(key.arg.data))[i] = 0
    [] key.kind = "address" -> ks = 267

Init ==
  /\ key_size \in KeySizes
  /\ map = <<>>
  /\ shadow = <<>>
  /\ last = NoCall
  /\ loaded = Ok(<<>>)

\* Dict::new(key_size), and Dict::deserialize(cell, key_size), which
\* returns Self::new(key_size) whatever the cell holds.
New(ks) ==
  /\ key_size' = ks /\ map' = <<>> /\ shadow' = <<>>
  /\ last' = [NoCall EXCEPT !.op = "new"]
  /\ UNCHANGED loaded

\* Dict::set(key, value)
SetStep(key, v) ==
  LET r == Set(map, key_size, key, v)
  IN  /\ map' = IF r.ok THEN r.val ELSE map
      /\ shadow' = IF r.ok THEN (Meaning(key, key_size) :> v) @@ shadow ELSE shadow
      /\ last' = [op |-> "set", key |-> key, ok |-> r.ok]
      /\ UNCHANGED <<key_size, loaded>>

\* The program ships its dictionary (some) or None through a cell.
Ship(some) ==
  LET r == ShipDict(IF some THEN <<[key_size |-> key_size, map |-> map]>> ELSE <<>>, key_size)
  IN  /\ loaded' = IF r.ok THEN Ok(r.val) ELSE r
      /\ UNCHANGED <<key_size, map, shadow, last>>

Next ==
  \/ \E ks \in KeySizes : New(ks)
  \/ \E key \in Keys, v \in Values : SetStep(key, v)
  \/ \E some \in BOOLEAN : Ship(some)

Spec == Init /\ [][Next]_vars

(***************************************************************************)
(* Properties                                                              *)
(***************************************************************************)

\* The Dict is documented as a dictionary "with fixed-size keys": a set of
\* any well-formed key of key_size bits returns Ok, and a get of any
\* well-formed key returns the value last set for the key it means.  It
\* goes through the whole key conversion of set and get: the byte loop of
\* Bits keys, the key_bits check of set_int_key and the address encoding.
KeysReadBack ==
  /\ (last.op = "set" /\ WellFormed(last.key, key_size)) => last.ok
  /\ \A key \in Keys :
       (WellFormed(key, key_size) /\ Meaning(key, key_size) \in DOMAIN shadow)
         => LET g == Get(map, key_size, key)
            IN  g.ok /\ g.val = <<shadow[Meaning(key, key_size)]>>
=============================================================================
