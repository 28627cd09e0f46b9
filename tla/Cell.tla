-------------------------------- MODULE Cell --------------------------------
(***************************************************************************)
(* The cell data model of src/tvm/cell.rs: immutable cells holding up to  *)
(* 1023 bits and 4 references, their descriptors, padded data, depth and  *)
(* representation hash, and the low-level CellBuilder that produces them. *)
(*                                                                         *)
(* A cell is a record [data, bit_len, refs] where data is the byte buffer *)
(* (MSB-first bit packing) and refs the ordered sequence of child cells.  *)
(* Cells are values: an Arc<Cell> shared by several parents is the same   *)
(* value reached along several paths, exactly the sharing the DAG has.    *)
(* is_exotic is never set by any code path and level is the maximum of   *)
(* the children's levels starting from 0, so both are the constant 0 and  *)
(* are folded into the descriptors.                                        *)
(*                                                                         *)
(* SHA-256 is abstracted by its preimage: Hash(c) is the tuple the code   *)
(* feeds into the hasher, so two cells have equal hashes exactly when     *)
(* the hasher is fed equal bytes (no collisions).                          *)
(***************************************************************************)
EXTENDS Integers, Sequences, SequencesExt

MAX_CELL_BITS == 1023
MAX_CELL_REFS == 4

Bits  == {0, 1}
Bytes == 0..255

\* Results of fallible operations (anyhow::Result).
Ok(v)  == [ok |-> TRUE, val |-> v]
Err(e) == [ok |-> FALSE, err |-> e]

\* Error kinds of the specification's error-handling design.
CapacityExceeded == "CapacityExceeded"
InsufficientData == "InsufficientData"
UnsupportedFormat == "UnsupportedFormat"
MalformedStream  == "MalformedStream"
IntegrityError   == "IntegrityError"

\* Bit i (0 = least significant) of byte x, and x with that bit set.
BitOf(x, i)  == (x \div (2 ^ i)) % 2
SetBit(x, i) == IF BitOf(x, i) = 1 THEN x ELSE x + 2 ^ i

\* The bytes holding bit sequence s, MSB first, zero padded: the packing
\* the bit-by-bit loops of store_bits produce.
Pack(s) ==
  [k \in 1..((Len(s) + 7) \div 8) |->
     LET bit(j) == IF 8 * (k - 1) + j + 1 <= Len(s) THEN s[8 * (k - 1) + j + 1] ELSE 0
     IN  FoldLeft(LAMBDA acc, j : 2 * acc + bit(j), 0, [j \in 1..8 |-> j - 1])]

\* The first n bits of byte buffer d, MSB first (the reading loop of
\* store_bits over its source slice).
Unpack(d, n) == [i \in 1..n |-> BitOf(d[(i - 1) \div 8 + 1], 7 - ((i - 1) % 8))]

(***************************************************************************)
(* Cell                                                                    *)
(***************************************************************************)

\* Cell::with_data: bit length above 1023 or data shorter than the bits.
WithData(data, bit_len) ==
  IF bit_len > MAX_CELL_BITS THEN Err(CapacityExceeded)
  ELSE IF Len(data) < (bit_len + 7) \div 8 THEN Err(InsufficientData)
  ELSE Ok([data |-> data, bit_len |-> bit_len, refs |-> <<>>])

\* Cell::add_reference, including update_level (level stays 0).
AddReference(c, r) ==
  IF Len(c.refs) >= MAX_CELL_REFS THEN Err(CapacityExceeded)
  ELSE Ok([c EXCEPT !.refs = Append(@, r)])

\* Cell::descriptors: d1 = refs + 8*exotic + 32*level, d2 = floor + ceil.
Descriptors(c) == <<Len(c.refs), c.bit_len \div 8 + (c.bit_len + 7) \div 8>>

\* Bug variant of SerializeData, used only by mutation tests: no marker.
SerializeData_NoMarker(c) == c.data

\* Cell::serialize_data: set the completion marker after the last bit.
SerializeData(c) ==
  LET idx == c.bit_len \div 8
  IN  IF c.bit_len % 8 # 0 /\ idx < Len(c.data)
      THEN [c.data EXCEPT ![idx + 1] = SetBit(@, 7 - (c.bit_len % 8))]
      ELSE c.data

\* Cell::depth: 0 for a leaf, else one more than the deepest child.
RECURSIVE Depth(_)
Depth(c) ==
  IF c.refs = <<>> THEN 0
  ELSE 1 + FoldLeft(LAMBDA m, r : IF Depth(r) > m THEN Depth(r) ELSE m, 0, c.refs)

\* Cell::hash: the hasher input descriptors || data || depths || hashes.
RECURSIVE Hash(_)
Hash(c) ==
  <<Descriptors(c), SerializeData(c),
    [i \in DOMAIN c.refs |-> Depth(c.refs[i])],
    [i \in DOMAIN c.refs |-> Hash(c.refs[i])]>>

(***************************************************************************)
(* CellBuilder                                                             *)
(***************************************************************************)

\* CellBuilder::new
EmptyBuilder == [data |-> <<>>, bit_len |-> 0, refs |-> <<>>]

StoreBits_Unchecked(b, src, n) ==
  IF Len(src) < (n + 7) \div 8 THEN Err(InsufficientData)
  ELSE Ok([b EXCEPT !.data    = Pack(Unpack(b.data, b.bit_len) \o Unpack(src, n)),
                    !.bit_len = @ + n])

\* CellBuilder::store_bits(src, n): capacity and source-length checks, then
\* the n leading bits of src are appended after the builder's bits.
StoreBits(b, src, n) ==
  IF b.bit_len + n > MAX_CELL_BITS THEN Err(CapacityExceeded)
  ELSE IF Len(src) < (n + 7) \div 8 THEN Err(InsufficientData)
  ELSE Ok([b EXCEPT !.data    = Pack(Unpack(b.data, b.bit_len) \o Unpack(src, n)),
                    !.bit_len = @ + n])

\* CellBuilder::store_reference
StoreReference(b, c) ==
  IF Len(b.refs) >= MAX_CELL_REFS THEN Err(CapacityExceeded)
  ELSE Ok([b EXCEPT !.refs = Append(@, c)])

\* CellBuilder::build: with_data, then add_reference for each reference
\* in order (neither can fail for a builder that passed its own checks).
Build(b) ==
  LET cell == WithData(b.data, b.bit_len)
  IN  IF ~cell.ok THEN cell
      ELSE FoldLeft(LAMBDA acc, r : IF acc.ok THEN AddReference(acc.val, r) ELSE acc,
                    cell, b.refs)
=============================================================================
