--------------------------- MODULE MC_BuilderSlice ---------------------------
(***************************************************************************)
(* Model-checking instance of BuilderSlice.  Values are chosen at the     *)
(* edges of their encodings: 0, a small value, 2^63 and 2^64 - 1 for u64; *)
(* -1 and 100 for i64; the coins amounts of spec 8; a 120-byte payload,   *)
(* which with a 64-bit field goes one bit past the 1023-bit limit; snake  *)
(* payloads of 127 and 200 bytes, just fitting and needing a second cell. *)
(***************************************************************************)
EXTENDS BuilderSlice

Ones(w) == [i \in 1..w |-> 1]
Pow2(k, w) == [i \in 1..w |-> IF i = w - k THEN 1 ELSE 0]   \* 2^k in w bits

MCU64s       == {Zeros(64), Word(64, 5), Pow2(63, 64), Ones(64)}
MCUintWidths == {1, 7, 64}
MCI64s       == {Word(64, -1), Word(64, 100)}
MCIntWidths  == {8, 63}
MCAmounts    == {Zeros(128), Word(128, 255), ZeroExtend(Ones(64), 128), Pow2(100, 128)}
MCVarLens    == {4}
MCVarInts    == {Zeros(64), Word(64, 100)}
MCPayloads   == {[i \in 1..120 |-> i % 256]}
MCSnake      == {[i \in 1..127 |-> i % 256], [i \in 1..200 |-> i % 256]}
MCAddresses  == {<<>>}
MCRefCell    == [data |-> <<128>>, bit_len |-> 1, refs |-> <<>>]
\* Three references: a second store_cell passes its reference check and
\* then fails on the fifth store_ref.
MCCellArgs   == {[data |-> <<160>>, bit_len |-> 3, refs |-> <<MCRefCell, MCRefCell, MCRefCell>>]}
MCSliceSkips == {<<1, 1>>, <<3, 3>>}

\* The edges where the code's encodings break: width 64 for store_int,
\* 200 (top bit on a byte boundary) for store_var_int, an addr_std.
MCIntWidths64 == MCIntWidths \cup {64}
MCVarIntsEdge == MCVarInts \cup {Word(64, 200)}
MCStdAddress  == {<<[workchain |-> Word(64, -1), hash_part |-> [i \in 1..32 |-> 0]]>>}
MCAddressesStd == MCAddresses \cup MCStdAddress
=============================================================================
