------------------------------- MODULE Address -------------------------------
(***************************************************************************)
(* The account address text forms of src/tvm/address.rs.  An Address is   *)
(* a workchain (i8), a 32-byte hash part and the bounceable and test-only *)
(* flags.  to_string writes it either raw, "workchain:hex", or            *)
(* user-friendly: a tag byte carrying the flags, the workchain byte, the  *)
(* hash and a CRC-16 of those 34 bytes, in base64 (URL-safe or standard). *)
(* from_str tries the raw form, then both base64 alphabets.               *)
(*                                                                         *)
(* The properties are about what a string does on its way from to_string  *)
(* to from_str, so text is kept as it is: a sequence of ASCII codes.  A   *)
(* program writes an address, the text is copied by a person who may get  *)
(* one character wrong or leave one out, and the text is parsed again.    *)
(***************************************************************************)
EXTENDS Slice, TextCodec

CONSTANTS
  Workchains,     \* i8 workchain ids handed to Address::new
  Hashes,         \* 32-byte hash parts handed to Address::new
  TypoPositions,  \* positions in a text where a copy may go wrong
  TypoChars,      \* ASCII codes a wrong character may be
  MaxTypos        \* bound: alterations of one text

ASSUME Workchains \subseteq -128..127 /\ TypoChars \subseteq 0..127
ASSUME MaxTypos \in Nat

VARIABLES
  addr,      \* the Address the program holds
  text,      \* the string written last, as it reaches from_str
  written,   \* history: the Address the text stands for and its form
  typos,     \* history: alterations of the text since it was written
  parsed,    \* the Result of the last Address::from_str
  phase      \* "idle", "sent" (a text in transit) or "parsed"

vars == <<addr, text, written, typos, parsed, phase>>

(***************************************************************************)
(* CRC-16 (crc16): a 16-bit register, MSB first, polynomial 0x1021.       *)
(***************************************************************************)
XorBits(a, b) == [i \in 1..Len(a) |-> (a[i] + b[i]) % 2]
Shl1(r)       == Tail(r) \o <<0>>
CrcPoly       == Word(16, 4129)

\* One pass of the inner loop: shift, folding in the polynomial when the
\* top bit was set.
CrcShift(c) == IF c[1] = 1 THEN XorBits(Shl1(c), CrcPoly) ELSE Shl1(c)
Shift8(c) == CrcShift(CrcShift(CrcShift(CrcShift(CrcShift(CrcShift(CrcShift(CrcShift(c))))))))

\* The register after one byte: crc ^= byte << 8, then the eight passes.
CrcByte_NoShift(crc, byte) == Shift8(XorBits(crc, Word(16, byte)))
CrcByte(crc, byte) == Shift8(XorBits(crc, Word(8, byte) \o Zeros(8)))

\* `for &byte in data` from a given register.  (Len(crc) = 16 always
\* holds; testing it makes TLC evaluate the register at every byte rather
\* than build a chain of deferred steps.)
RECURSIVE CrcLoop(_, _)
CrcLoop(crc, data) ==
  IF Len(crc) = 16 /\ data = <<>> THEN crc ELSE CrcLoop(CrcByte(crc, Head(data)), Tail(data))

\* crc16(data): the register from 0, as to_be_bytes.
Crc16(data) == Pack(CrcLoop(Zeros(16), data))

(***************************************************************************)
(* Text conversions, by what they do to the characters.                   *)
(***************************************************************************)
Colon == 58

\* format!("{}", workchain) for an i8.
RECURSIVE Digits(_)
Digits(n) == IF n < 10 THEN <<48 + n>> ELSE Digits(n \div 10) \o <<48 + (n % 10)>>
Decimal(n) == IF n < 0 THEN <<Dash>> \o Digits(-n) ELSE Digits(n)

\* str::parse::<i8>: an optional sign, then at least one digit; a value
\* outside -128..127 is an overflow error (the accumulator saturates).
ParseI8(s) ==
  LET signed == s # <<>> /\ s[1] \in {Plus, Dash}
      ds     == IF signed THEN Tail(s) ELSE s
      mag    == FoldLeft(LAMBDA a, c : IF a > 128 THEN a ELSE 10 * a + c - 48, 0, ds)
      v      == IF signed /\ s[1] = Dash THEN -mag ELSE mag
  IN  IF ds = <<>> \/ \E i \in DOMAIN ds : ds[i] \notin 48..57 THEN Err("ParseInt")
      ELSE IF v \notin -128..127 THEN Err("ParseInt") ELSE Ok(v)

(***************************************************************************)
(* Address                                                                 *)
(***************************************************************************)

\* Address::new
NewAddress(wc, h) ==
  [workchain |-> wc, hash_part |-> h, is_bounceable |-> TRUE, is_test_only |-> FALSE]

\* to_hex, and to_string with user_friendly = false.
RawForm(a) == Decimal(a.workchain) \o <<Colon>> \o HexEncode(a.hash_part)

\* The 36 bytes to_string(true, ..) encodes: tag, workchain as u8, hash, crc.
FriendlyBytes(a, bounceable, test_only) ==
  LET tag  == IF bounceable THEN 17 ELSE 81
      data == <<IF test_only THEN SetBit(tag, 7) ELSE tag, a.workchain % 256>> \o a.hash_part
  IN  data \o Crc16(data)

\* Address::to_string(user_friendly, url_safe, bounceable, test_only)
AddrToString(a, uf, url, b, t) ==
  IF ~uf THEN RawForm(a) ELSE B64Encode(FriendlyBytes(a, b, t), url)

\* from_hex: exactly one ':', an i8, then 64 hex characters.
FromHex(s) ==
  LET colons == {i \in DOMAIN s : s[i] = Colon}
      k      == CHOOSE i \in colons : TRUE
      wc     == ParseI8(SubSeq(s, 1, k - 1))
      hh     == SubSeq(s, k + 1, Len(s))
  IN  IF Cardinality(colons) # 1 THEN Err("HexFormat")
      ELSE IF ~wc.ok THEN wc
      ELSE IF Len(hh) # 64 THEN Err("HashLength")
      ELSE LET h == HexDecode(hh) IN IF h.ok THEN Ok(NewAddress(wc.val, h.val)) ELSE h

\* from_base64's tag handling: bit 0x80 is the test flag, and is cleared.
UntagTestOnly_Keep(tag) == [test |-> BitOf(tag, 7) = 1, tag |-> tag]
UntagTestOnly(tag) ==
  [test |-> BitOf(tag, 7) = 1, tag |-> IF BitOf(tag, 7) = 1 THEN tag - 128 ELSE tag]

\* `byte as i8`
I8_Unsigned(byte) == byte
I8(byte) == IF byte >= 128 THEN byte - 256 ELSE byte

\* from_base64's checksum check over the decoded bytes.
CrcMatches_Skip(d) == TRUE
CrcMatches(d) == SubSeq(d, 35, 36) = Crc16(SubSeq(d, 1, 34))

\* from_base64: URL_SAFE_NO_PAD, else STANDARD; 36 bytes; a known tag;
\* the workchain byte as i8; the checksum.
FromBase64(s) ==
  LET u == B64Decode(s, TRUE)
      r == IF u.ok THEN u ELSE B64Decode(s, FALSE)
      d == r.val
      f == UntagTestOnly(d[1])
  IN  IF ~r.ok THEN r
      ELSE IF Len(d) # 36 THEN Err("Base64Length")
      ELSE IF f.tag \notin {17, 81} THEN Err("Tag")
      ELSE IF ~CrcMatches(d) THEN Err("Crc")
      ELSE Ok([workchain |-> I8(d[2]),
               hash_part |-> SubSeq(d, 3, 34),
               is_bounceable |-> f.tag = 17, is_test_only |-> f.test])

\* Address::from_str (and the FromStr impl that calls it).
FromStr(s) ==
  LET h == FromHex(s) IN
  IF h.ok THEN h ELSE LET b == FromBase64(s) IN IF b.ok THEN b ELSE Err("InvalidFormat")

(***************************************************************************)
(* The program                                                             *)
(***************************************************************************)
NoText   == [addr |-> NewAddress(0, [i \in 1..32 |-> 0]), friendly |-> FALSE]
NoResult == Err("none")

IsAddress(a) ==
  /\ a.workchain \in -128..127 /\ Len(a.hash_part) = 32
  /\ a.is_bounceable \in BOOLEAN /\ a.is_test_only \in BOOLEAN

\* Type invariant: the held and the parsed Address are an i8 workchain, 32
\* bytes and two flags; a text is ASCII.
TypeOK ==
  /\ IsAddress(addr)
  /\ text \in Seq(0..127)
  /\ typos \in 0..MaxTypos
  /\ parsed.ok \in BOOLEAN /\ (parsed.ok => IsAddress(parsed.val))
  /\ phase \in {"idle", "sent", "parsed"}

Init ==
  /\ addr = NewAddress(CHOOSE wc \in Workchains : TRUE, CHOOSE h \in Hashes : TRUE)
  /\ text = <<>> /\ written = NoText /\ typos = 0 /\ parsed = NoResult
  /\ phase = "idle"

\* A call on the Address between transfers; the history starts afresh.
Local(a) ==
  /\ phase # "sent"
  /\ addr' = a
  /\ text' = <<>> /\ written' = NoText /\ typos' = 0 /\ parsed' = NoResult
  /\ phase' = "idle"

NewStep(wc, h)   == Local(NewAddress(wc, h))
SetBounceable(b) == Local([addr EXCEPT !.is_bounceable = b])
SetTestOnly(t)   == Local([addr EXCEPT !.is_test_only = t])

\* The program writes the address; w is the Address the text stands for.
Write(s, w, friendly) ==
  /\ phase = "idle"
  /\ text' = s /\ written' = [addr |-> w, friendly |-> friendly]
  /\ typos' = 0 /\ parsed' = NoResult /\ phase' = "sent"
  /\ UNCHANGED addr

ToStringStep(uf, url, b, t) ==
  Write(AddrToString(addr, uf, url, b, t),
        IF uf THEN [addr EXCEPT !.is_bounceable = b, !.is_test_only = t]
        ELSE NewAddress(addr.workchain, addr.hash_part), uf)
ToHexStep == Write(RawForm(addr), NewAddress(addr.workchain, addr.hash_part), FALSE)
\* to_base64, and Display, which writes it.
ToBase64Step ==
  Write(AddrToString(addr, TRUE, TRUE, addr.is_bounceable, addr.is_test_only), addr, TRUE)

\* The copy goes wrong: one character replaced, or one left out.
Mistype(p, c) ==
  /\ phase = "sent" /\ typos < MaxTypos /\ p <= Len(text) /\ text[p] # c
  /\ text' = [text EXCEPT ![p] = c] /\ typos' = typos + 1
  /\ UNCHANGED <<addr, written, parsed, phase>>
Omit(p) ==
  /\ phase = "sent" /\ typos < MaxTypos /\ p <= Len(text)
  /\ text' = RemoveAt(text, p) /\ typos' = typos + 1
  /\ UNCHANGED <<addr, written, parsed, phase>>

\* Address::from_str on the text as it arrived.
Parse ==
  /\ phase = "sent"
  /\ parsed' = FromStr(text) /\ phase' = "parsed"
  /\ UNCHANGED <<addr, text, written, typos>>

Next ==
  \/ \E wc \in Workchains, h \in Hashes : NewStep(wc, h)
  \/ \E b \in BOOLEAN : SetBounceable(b)
  \/ \E t \in BOOLEAN : SetTestOnly(t)
  \/ ToHexStep
  \/ ToBase64Step
  \/ \E uf, url, b, t \in BOOLEAN : ToStringStep(uf, url, b, t)
  \/ \E p \in TypoPositions, c \in TypoChars : Mistype(p, c)
  \/ \E p \in TypoPositions : Omit(p)
  \/ Parse

Spec == Init /\ [][Next]_vars

(***************************************************************************)
(* Properties                                                              *)
(***************************************************************************)

\* Every text to_string, to_hex or Display writes parses back with
\* from_str, undamaged, to the Address it stands for: the user-friendly
\* forms keep both flags through the tag byte (test flag set and cleared),
\* the workchain survives the u8/i8 casts, both base64 alphabets decode,
\* and the raw form gives Address::new's flags.
ParseRecoversAddress ==
  (phase = "parsed" /\ typos = 0) => parsed.ok /\ parsed.val = written.addr

\* A user-friendly text with one character wrong or missing never parses
\* to a different Address: from_base64's length, tag and CRC checks turn
\* every such text into an error, or the change is one the decoders do not
\* see (a '-' typed as '+' where no other alphabet-specific character
\* occurs) and the Address is the one written.
TypoNeverYieldsOtherAddress ==
  (phase = "parsed" /\ written.friendly /\ parsed.ok) => parsed.val = written.addr

\* The two checksum bytes of every user-friendly text are the CRC-16/XMODEM
\* of the 34 bytes before them, as other TON software computes it: the
\* remainder of the message times x^16 divided by x^16 + x^12 + x^5 + 1,
\* by long division over the message bits.
DivStep(q, bit) == IF q[1] = 1 THEN XorBits(Tail(q) \o <<bit>>, CrcPoly) ELSE Tail(q) \o <<bit>>
XmodemDivide(r, byte) ==
  LET b == Word(8, byte)
  IN  DivStep(DivStep(DivStep(DivStep(DivStep(DivStep(DivStep(DivStep(r,
        b[1]), b[2]), b[3]), b[4]), b[5]), b[6]), b[7]), b[8])
RECURSIVE DivLoop(_, _)
DivLoop(r, m) == IF Len(r) = 16 /\ m = <<>> THEN r ELSE DivLoop(XmodemDivide(r, Head(m)), Tail(m))
XmodemReference(d) == Pack(DivLoop(Zeros(16), d \o <<0, 0>>))
ChecksumIsXmodem ==
  (phase # "idle" /\ written.friendly /\ typos = 0) =>
    LET u     == B64Decode(text, TRUE)
        bytes == IF u.ok THEN u ELSE B64Decode(text, FALSE)
    IN  bytes.ok /\ SubSeq(bytes.val, 35, 36) = XmodemReference(SubSeq(bytes.val, 1, 34))
=============================================================================
