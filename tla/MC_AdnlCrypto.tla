---------------------------- MODULE MC_AdnlCrypto ----------------------------
(***************************************************************************)
(* Model-checking instance of AdnlCrypto: a group of order 40 (l = 5,     *)
(* cofactor 8) and 8-bit scalar strings.  The foreign keys are the        *)
(* identity, a point of order 8, a prime-order point plus a point of      *)
(* order 8, and a string off the curve.  Messages: the empty one (its TL  *)
(* form is the length byte and three bytes of padding) and two bytes.     *)
(***************************************************************************)
EXTENDS AdnlCrypto

CONSTANTS a, b

MCParties == {a, b}
MCForeignKeys == {0, 5, 13, 40}
MCMessages == {<<>>, <<104, 105>>}
MCSymmetry == Permutations(MCParties)
=============================================================================
