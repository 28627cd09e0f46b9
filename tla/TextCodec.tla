------------------------------ MODULE TextCodec ------------------------------
(***************************************************************************)
(* The text codecs of the hex and base64 crates as the repository calls   *)
(* them (hex::encode/decode, base64 URL_SAFE_NO_PAD and STANDARD), by     *)
(* what they do on ASCII codes.  Address uses them for its text forms and *)
(* Boc for its hex and base64 wrappers.                                    *)
(***************************************************************************)
EXTENDS Cell, FiniteSets

Dash    == 45
Plus    == 43
PadChar == 61

\* A 6-bit group as bits, MSB first, and back.
Bits6(v) == [j \in 1..6 |-> (v \div 2 ^ (6 - j)) % 2]
Val6(b)  == 32 * b[1] + 16 * b[2] + 8 * b[3] + 4 * b[4] + 2 * b[5] + b[6]

\* hex::encode (lower case) and hex::decode (either case, even length).
HexChar(v) == IF v < 10 THEN 48 + v ELSE 87 + v
HexVal(c)  == CASE c \in 48..57 -> c - 48 [] c \in 97..102 -> c - 87
                [] c \in 65..70 -> c - 55 [] OTHER -> -1
HexEncode(d) ==
  [i \in 1..(2 * Len(d)) |->
     LET b == d[(i + 1) \div 2] IN HexChar(IF i % 2 = 1 THEN b \div 16 ELSE b % 16)]
HexDecode(h) ==
  IF Len(h) % 2 = 1 \/ \E i \in DOMAIN h : HexVal(h[i]) < 0 THEN Err("Hex")
  ELSE Ok([k \in 1..(Len(h) \div 2) |-> 16 * HexVal(h[2 * k - 1]) + HexVal(h[2 * k])])

\* The base64 engines: URL_SAFE_NO_PAD (url) and STANDARD (padded).
B64Char(v, url) ==
  CASE v < 26 -> 65 + v [] v < 52 -> 71 + v [] v < 62 -> v - 4
    [] v = 62 -> IF url THEN Dash ELSE Plus
    [] v = 63 -> IF url THEN 95 ELSE 47
B64Val(c, url) ==
  CASE c \in 65..90 -> c - 65 [] c \in 97..122 -> c - 71 [] c \in 48..57 -> c + 4
    [] c = B64Char(62, url) -> 62 [] c = B64Char(63, url) -> 63 [] OTHER -> -1

B64Encode(d, url) ==
  LET bits  == Unpack(d, 8 * Len(d))
      n     == (Len(bits) + 5) \div 6
      six(k) == [j \in 1..6 |-> IF 6 * (k - 1) + j <= Len(bits) THEN bits[6 * (k - 1) + j] ELSE 0]
      body  == [k \in 1..n |-> B64Char(Val6(six(k)), url)]
  IN  IF url THEN body ELSE body \o [k \in 1..((4 - (n % 4)) % 4) |-> PadChar]

B64Decode(s, url) ==
  LET p    == IF url THEN 0
              ELSE Cardinality({k \in 1..2 : k <= Len(s) /\ \A j \in 1..k : s[Len(s) - j + 1] = PadChar})
      body == SubSeq(s, 1, Len(s) - p)
      bits == [i \in 1..(6 * Len(body)) |->
                 Bits6(B64Val(body[(i - 1) \div 6 + 1], url))[((i - 1) % 6) + 1]]
      n    == (6 * Len(body)) \div 8
  IN  IF \/ \E i \in DOMAIN body : B64Val(body[i], url) < 0
         \/ Len(body) % 4 = 1
         \/ ~url /\ Len(s) % 4 # 0
         \/ \E i \in (8 * n + 1)..Len(bits) : bits[i] = 1
      THEN Err("Base64")
      ELSE Ok(Pack(SubSeq(bits, 1, 8 * n)))
=============================================================================
