----------------------------- MODULE BocChannel -----------------------------
(***************************************************************************)
(* A program that builds cells with CellBuilder (src/tvm/cell.rs), ships *)
(* one of them as a BoC (serialize_boc) over an unreliable byte channel  *)
(* and reads it back (deserialize_boc) - the round trip the spec's       *)
(* section 4.4 promises and the network layer relies on.  The BoC goes   *)
(* as bytes or through a text wrapper (boc_to_hex / hex_to_boc,           *)
(* boc_to_base64 / base64_to_boc); the reader knows which.               *)
(*                                                                         *)
(* The channel may flip bits of the stream or cut its tail, at most      *)
(* MaxFaults times per transfer.  `sent` and `faults` are history        *)
(* variables read only by the properties.                                 *)
(***************************************************************************)
EXTENDS Boc, FiniteSets

CONSTANTS
  Chunks,         \* bit strings handed to store_bits (as sequences of bits)
  MaxDataBits,    \* bound: bits one builder stores
  MaxBuilderRefs, \* bound: references one builder stores (<= MAX_CELL_REFS)
  MaxPool,        \* bound: distinct cells the program builds
  MaxFaults,      \* bound: channel faults per transfer
  FlipBits,       \* bit positions the channel may flip within a byte
  Forms           \* how a BoC is shipped: "bytes", "hex", "base64"

ASSUME Chunks \subseteq Seq(Bits) /\ MaxDataBits \in Nat /\ MaxPool \in Nat
ASSUME MaxBuilderRefs \in 0..MAX_CELL_REFS /\ MaxFaults \in Nat
ASSUME FlipBits \subseteq 0..7 /\ Forms \subseteq {"bytes", "hex", "base64"}

VARIABLES
  builder,  \* the CellBuilder in use
  pool,     \* the built cells (Arc<Cell> handles) the program holds
  wire,     \* the bytes in transit (ASCII codes for a text form)
  phase,    \* "idle", "inflight" (bytes on the wire) or "done"
  sent,     \* history: the root, has_crc32 and form of the last transfer
  faults,   \* history: channel faults applied to the bytes in transit
  outcome   \* the Result of the last serialize or deserialize that ended a transfer

vars == <<builder, pool, wire, phase, sent, faults, outcome>>

NoSent    == [root |-> EmptyBuilder, crc |-> FALSE, form |-> "bytes"]
NoOutcome == Ok(EmptyBuilder)

\* Building goes on between transfers; it starts from a clean history.
NewRound ==
  /\ phase # "inflight"
  /\ phase' = "idle" /\ sent' = NoSent /\ outcome' = NoOutcome

RECURSIVE IsCell(_)
IsCell(c) ==
  /\ DOMAIN c = {"data", "bit_len", "refs"}
  /\ c.data \in Seq(Bytes) /\ c.bit_len \in 0..MAX_CELL_BITS
  /\ Len(c.refs) <= MAX_CELL_REFS /\ \A i \in DOMAIN c.refs : IsCell(c.refs[i])

\* Type invariant: every variable of the round trip holds a value of its kind.
TypeOK ==
  /\ IsCell(builder)
  /\ \A c \in pool : IsCell(c)
  /\ wire \in Seq(Bytes)
  /\ phase \in {"idle", "inflight", "done"}
  /\ IsCell(sent.root) /\ sent.crc \in BOOLEAN /\ sent.form \in Forms \cup {"bytes"}
  /\ faults \in 0..MaxFaults
  /\ outcome.ok \in BOOLEAN /\ (outcome.ok => IsCell(outcome.val))

Init ==
  /\ builder = EmptyBuilder
  /\ pool = {}
  /\ wire = <<>>
  /\ phase = "idle"
  /\ sent = NoSent
  /\ faults = 0
  /\ outcome = NoOutcome

\* builder.store_bits(&bits, n); an Err leaves the builder as it was.
StoreBitsStep(chunk) ==
  /\ builder.bit_len + Len(chunk) <= MaxDataBits
  /\ LET r == StoreBits(builder, Pack(chunk), Len(chunk))
     IN  builder' = IF r.ok THEN r.val ELSE builder
  /\ NewRound
  /\ UNCHANGED <<pool, wire, faults>>

\* builder.store_reference(cell.clone()) for a cell the program holds.
StoreReferenceStep(c) ==
  /\ Len(builder.refs) < MaxBuilderRefs
  /\ LET r == StoreReference(builder, c)
     IN  builder' = IF r.ok THEN r.val ELSE builder
  /\ NewRound
  /\ UNCHANGED <<pool, wire, faults>>

\* builder.build(): the builder is consumed; the program starts a new one
\* and keeps the cell while it holds fewer than MaxPool cells.
BuildStep ==
  /\ LET r == Build(builder)
     IN  /\ r.ok
         /\ pool' = IF Cardinality(pool) < MaxPool THEN pool \cup {r.val} ELSE pool
  /\ builder' = EmptyBuilder
  /\ NewRound
  /\ UNCHANGED <<wire, faults>>

\* The writer and reader of each form.
Encode(root, crc, form) ==
  CASE form = "bytes"  -> SerializeBoc(root, crc)
    [] form = "hex"    -> BocToHex(root, crc)
    [] form = "base64" -> BocToBase64(root, crc)
Decode(w, form) ==
  CASE form = "bytes"  -> DeserializeBoc(w)
    [] form = "hex"    -> HexToBoc(w)
    [] form = "base64" -> Base64ToBoc(w)

\* The writer's Result r goes on the wire; an Err ends the transfer at once.
Send(r, root, crc, form) ==
  /\ IF r.ok
     THEN /\ wire' = r.val /\ phase' = "inflight" /\ outcome' = NoOutcome
     ELSE /\ outcome' = r /\ phase' = "done" /\ UNCHANGED wire
  /\ sent' = [root |-> root, crc |-> crc, form |-> form]
  /\ faults' = 0
  /\ UNCHANGED <<builder, pool>>

\* serialize_boc(&root, has_crc32), or a text wrapper of it.  The codec
\* does not touch the builder, so transfers are taken between builds.
Serialize(root, crc, form) ==
  /\ phase # "inflight"
  /\ builder = EmptyBuilder
  /\ Send(Encode(root, crc, form), root, crc, form)

\* The channel flips bit b of the i-th byte in transit.
FlipBit(i, b) ==
  /\ phase = "inflight" /\ faults < MaxFaults
  /\ wire' = [wire EXCEPT ![i] = IF BitOf(@, b) = 1 THEN @ - 2 ^ b ELSE @ + 2 ^ b]
  /\ faults' = faults + 1
  /\ UNCHANGED <<builder, pool, phase, sent, outcome>>

\* The channel delivers only the first k bytes.
Truncate(k) ==
  /\ phase = "inflight" /\ faults < MaxFaults
  /\ wire' = SubSeq(wire, 1, k)
  /\ faults' = faults + 1
  /\ UNCHANGED <<builder, pool, phase, sent, outcome>>

\* deserialize_boc(&bytes), or the matching text wrapper, on what arrived.
Deserialize ==
  /\ phase = "inflight"
  /\ outcome' = Decode(wire, sent.form)
  /\ wire' = <<>>
  /\ phase' = "done"
  /\ UNCHANGED <<builder, pool, sent, faults>>

Next ==
  \/ \E chunk \in Chunks : StoreBitsStep(chunk)
  \/ \E c \in pool : StoreReferenceStep(c)
  \/ BuildStep
  \/ \E root \in pool, crc \in BOOLEAN, form \in Forms : Serialize(root, crc, form)
  \/ \E i \in DOMAIN wire, b \in FlipBits : FlipBit(i, b)
  \/ \E k \in 0..(Len(wire) - 1) : Truncate(k)
  \/ Deserialize

Spec == Init /\ [][Next]_vars

(***************************************************************************)
(* Properties                                                              *)
(***************************************************************************)

\* Round trip (spec 4.4): for every cell the program builds and both
\* has_crc32 settings, serialize_boc succeeds and deserialize_boc of the
\* undamaged bytes returns a cell with the original's hash.  It exercises
\* post-order collection with deduplication of shared sub-cells, the one
\* byte reference indices, the completion-marker recovery of bit lengths
\* and the two-pass rebuild of cells with references.
RoundTrip ==
  (phase = "done" /\ faults = 0) =>
    outcome.ok /\ Hash(outcome.val) = Hash(sent.root)

\* With has_crc32 set, no damage the channel does makes deserialize_boc
\* return a cell other than the one serialized: it fails, or returns the
\* original.
CrcNeverAcceptsForeignCell ==
  (phase = "done" /\ sent.crc /\ outcome.ok) => Hash(outcome.val) = Hash(sent.root)
=============================================================================
