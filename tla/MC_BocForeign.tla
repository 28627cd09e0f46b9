---------------------------- MODULE MC_BocForeign ----------------------------
(***************************************************************************)
(* deserialize_boc fed by another writer.  The network layer receives BoC  *)
(* byte strings written by other TON implementations; the format is       *)
(* topologically ordered, and writers commonly put every parent before its *)
(* children (references point to higher indices), the reverse of the      *)
(* order serialize_boc uses.  WriteBoc below is that other writer: it      *)
(* emits the generic format of spec 4.4 with the collected cells in a     *)
(* given order.  It stands for the environment, not for code of this      *)
(* repository.                                                             *)
(***************************************************************************)
EXTENDS Boc, FiniteSets

Leaf  == [data |-> <<128>>, bit_len |-> 1, refs |-> <<>>]
Mid   == [data |-> <<64>>,  bit_len |-> 2, refs |-> <<Leaf>>]
Top   == [data |-> <<>>,    bit_len |-> 0, refs |-> <<Mid>>]
Roots == {Leaf, Mid, Top}

\* The generic BoC of the cells `cells` (each reference present in cells),
\* without CRC, with reference and root indices taken from that order.
WriteBoc(cells, root) ==
  LET pos(c)    == IndexOfHash(cells, Hash(c), Len(cells))
      rec(c)    == Descriptors(c) \o SerializeData(c) \o [j \in DOMAIN c.refs |-> pos(c.refs[j])]
      body      == FlattenSeq([k \in DOMAIN cells |-> rec(cells[k])])
      sizeBytes == BytesNeeded(Len(cells))
      offBytes  == BytesNeeded(Len(body))
  IN  BOC_GENERIC_MAGIC \o <<sizeBytes, offBytes>>
        \o WriteUint(Len(cells), sizeBytes) \o WriteUint(1, sizeBytes)
        \o WriteUint(0, sizeBytes) \o WriteUint(Len(body), offBytes)
        \o WriteUint(pos(root), sizeBytes) \o body

\* The two topological orders: serialize_boc's post-order, and its reverse.
Orders == {"childrenFirst", "parentsFirst"}
CellsInOrder(root, o) ==
  IF o = "childrenFirst" THEN CollectCells(root) ELSE Reverse(CollectCells(root))

VARIABLES root, order, outcome
vars == <<root, order, outcome>>

Init ==
  /\ root \in Roots
  /\ order \in Orders
  /\ outcome = Err("none")

\* deserialize_boc of the other writer's bytes.
Receive ==
  /\ outcome = Err("none")
  /\ outcome' = DeserializeBoc(WriteBoc(CellsInOrder(root, order), root))
  /\ UNCHANGED <<root, order>>

Spec == Init /\ [][Receive]_vars

\* Spec 4.4 and 6: any well-formed, topologically ordered generic BoC of a
\* cell decodes to a cell with that cell's hash.  deserialize_boc's second
\* pass attaches cells[ref_idx] as rebuilt so far, which holds only when
\* every reference points to a lower index.
ForeignBocDecodes ==
  outcome # Err("none") => outcome.ok /\ Hash(outcome.val) = Hash(root)
=============================================================================
