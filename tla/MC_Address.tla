----------------------------- MODULE MC_Address -----------------------------
(***************************************************************************)
(* Model-checking instance of Address.  Workchains 0 and -1 (the only two *)
(* in use; -1 has its top bit set, so the u8/i8 casts matter).  Hashes:   *)
(* all zeros (the repository's test of the zero address) and the hash of  *)
(* its other tests, whose first byte puts sextet 62, '-' or '+', at the   *)
(* third character of every text of workchain -1.                         *)
(* A copy may go wrong at the first character (which carries the tag's    *)
(* flags), the third (workchain bits) or the last (checksum bits); the    *)
(* wrong characters are the four first characters the tags produce, the  *)
(* characters the two alphabets do not share, and ':'.                    *)
(***************************************************************************)
EXTENDS Address

MCHashes ==
  { [i \in 1..32 |-> 0],
    <<131, 223, 213, 82, 230, 55, 41, 180, 114, 252, 188, 200, 196, 94, 188, 198,
      105, 23, 2, 85, 139, 104, 236, 117, 39, 225, 186, 64, 58, 15, 49, 168>> }

\* '0' 'E' 'U' 'k', '+' '/' '-' '_', ':'
MCTypoChars == {48, 69, 85, 107, 43, 47, 45, 95, 58}
MCWorkchains == {0, -1}
=============================================================================
