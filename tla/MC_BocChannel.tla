---------------------------- MODULE MC_BocChannel ----------------------------
(***************************************************************************)
(* Model-checking instance of BocChannel.  MCChunks gives cells of 0, 4    *)
(* and 8 bits: empty, unaligned (ending in three 0 bits, so the marker     *)
(* follows zeros) and aligned data.  With three cells in the pool a root   *)
(* reaches depth 2 and two parents share a child.  MCDamageChunks, for    *)
(* the runs that damage the stream, gives cells of 0 to 2 bits ending in  *)
(* either bit value: every byte of their streams is flipped and cut.      *)
(***************************************************************************)
EXTENDS BocChannel

MCChunks == {<<1, 0, 0, 0>>, <<1, 1, 0, 1, 0, 0, 1, 0>>}

MCDamageChunks == {<<1>>, <<0>>}
=============================================================================
