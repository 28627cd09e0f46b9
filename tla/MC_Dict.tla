------------------------------- MODULE MC_Dict -------------------------------
(***************************************************************************)
(* Model-checking instance of Dict.  Key sizes: 8 (one byte, the case the *)
(* code's tests use), 4 (a key shorter than a byte), 72 (longer than a    *)
(* u64) and 267 (the size address keys require).  The keys are the       *)
(* smallest and largest of their size and, for 72 bits, two keys that     *)
(* differ only in their first byte.                                        *)
(***************************************************************************)
EXTENDS Dict

MCKeySizes == {4, 8, 72, 267}
MCIntKeys  == {0, 5, 255}
MCBitsKeys ==
  { [data |-> <<5>>, bit_len |-> 8], [data |-> <<240>>, bit_len |-> 4],
    [data |-> [i \in 1..9 |-> 0], bit_len |-> 72],
    [data |-> [i \in 1..9 |-> IF i = 1 THEN 1 ELSE 0], bit_len |-> 72] }
MCAddrKeys == {[workchain |-> Zeros(64), hash_part |-> [i \in 1..32 |-> 0]]}
=============================================================================
