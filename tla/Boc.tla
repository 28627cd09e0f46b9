-------------------------------- MODULE Boc ---------------------------------
(***************************************************************************)
(* The Bag-of-Cells codec of src/tvm/boc.rs, as operators over byte       *)
(* sequences (elements of 0..255).  serialize_boc and deserialize_boc are *)
(* translated step by step, including the order in which the parser       *)
(* makes its checks (which decides the error a damaged stream gets) and   *)
(* the two-pass rebuild of cells with references.                          *)
(*                                                                         *)
(* Positions named pos are the code's 0-based offsets; d[pos + 1] is the  *)
(* byte data[pos].  The code reads header integers into a 64-bit usize;  *)
(* the model keeps values below 2^24 exact and represents every larger    *)
(* value by Huge, which is enough: such values are only compared with     *)
(* buffer lengths and cell counts far below 2^24.                          *)
(*                                                                         *)
(* CRC-32 is abstracted by a checksum with the one property of CRC-32 the *)
(* codec relies on: changing any single byte of the input changes it (a   *)
(* sum of the bytes modulo 2^24, little-endian in 4 bytes).                *)
(***************************************************************************)
EXTENDS TextCodec

BOC_GENERIC_MAGIC        == <<181, 238, 156, 114>>   \* 0xb5ee9c72
BOC_INDEXED_MAGIC        == <<104, 255, 101, 243>>   \* 0x68ff65f3
BOC_INDEXED_CRC32C_MAGIC == <<172, 195, 167,  40>>   \* 0xacc3a728

Huge == 2 ^ 24

\* Bug variants of Crc32LE, used only to test that the properties notice
\* them: the u32 pushed without splitting it into bytes, and a checksum
\* that covers only the six fixed header bytes.
Crc32LE_Unsplit(d) ==
  LET s == FoldLeft(LAMBDA acc, x : (acc + x) % Huge, 0, d) IN <<s, 0, 0, 0>>
Crc32LE_HeaderOnly(d) ==
  LET s == FoldLeft(LAMBDA acc, x : (acc + x) % Huge, 0, SubSeq(d, 1, 6))
  IN  <<s % 256, (s \div 256) % 256, (s \div 65536) % 256, 0>>

\* The checksum standing for crate::crc::CRC32.checksum, as its LE bytes.
Crc32LE(d) ==
  LET s == FoldLeft(LAMBDA acc, x : (acc + x) % Huge, 0, d)
  IN  <<s % 256, (s \div 256) % 256, (s \div 65536) % 256, 0>>

RECURSIVE BitLength(_)
BitLength(v) == IF v = 0 THEN 0 ELSE 1 + BitLength(v \div 2)

\* bytes_needed: minimal bytes holding v (1 for 0).
BytesNeeded(v) == IF v = 0 THEN 1 ELSE (BitLength(v) + 7) \div 8

\* write_uint: the last `size` bytes of v's 8-byte big-endian form.
WriteUint(v, size) == [i \in 1..size |-> (v \div 256 ^ (size - i)) % 256]

(***************************************************************************)
(* serialize_boc                                                           *)
(***************************************************************************)

\* 0-based position of the first cell of cs[1..upto] whose hash is h, or -1.
IndexOfHash(cs, h, upto) ==
  LET is == {i \in 1..upto : Hash(cs[i]) = h}
  IN  IF is = {} THEN -1 ELSE (CHOOSE i \in is : \A j \in is : i <= j) - 1

\* collect_cells_recursive: post-order, children before parents, skipping
\* a cell whose hash was already visited.
RECURSIVE CollectRec(_, _), CollectRefs(_, _)
CollectRec(c, cells) ==
  IF IndexOfHash(cells, Hash(c), Len(cells)) # -1 THEN cells
  ELSE Append(CollectRefs(c.refs, cells), c)
CollectRefs(rs, cells) ==
  IF rs = <<>> THEN cells ELSE CollectRefs(Tail(rs), CollectRec(Head(rs), cells))

CollectCells(root) == CollectRec(root, <<>>)

\* serialize_cell for the k-th collected cell: cell_map then holds the
\* cells 1..k; each reference index is written as one byte (`as u8`).
SerializeCell(cells, k) ==
  LET c   == cells[k]
      idx == [j \in DOMAIN c.refs |-> IndexOfHash(cells, Hash(c.refs[j]), k)]
  IN  IF \E j \in DOMAIN idx : idx[j] = -1 THEN Err(MalformedStream)
      ELSE Ok(Descriptors(c) \o SerializeData(c) \o [j \in DOMAIN idx |-> idx[j] % 256])

WithCrc32(result, has_crc32) ==
  IF has_crc32 THEN result \o Crc32LE(result) ELSE result

\* The header and body serialize_boc writes for the collected cells, and
\* the CRC32 trailer when has_crc32 is set.
BocFrame(count, rootIndex, body, has_crc32) ==
  LET sizeBytes   == BytesNeeded(count)
      offsetBytes == BytesNeeded(Len(body))
      flags       == (IF has_crc32 THEN 64 ELSE 0) + sizeBytes
  IN  WithCrc32(BOC_GENERIC_MAGIC \o <<flags, offsetBytes>>
                  \o WriteUint(count, sizeBytes)
                  \o WriteUint(1, sizeBytes)
                  \o WriteUint(0, sizeBytes)
                  \o WriteUint(Len(body), offsetBytes)
                  \o WriteUint(rootIndex, sizeBytes)
                  \o body, has_crc32)

\* serialize_boc after collect_cells: the root's index, every cell's
\* record (the first error wins), then the frame.
SerializeRecords(count, rootIndex, records, has_crc32) ==
  IF rootIndex = -1 THEN Err(MalformedStream)
  ELSE IF \E k \in DOMAIN records : ~records[k].ok
    THEN records[CHOOSE k \in DOMAIN records : ~records[k].ok]
  ELSE Ok(BocFrame(count, rootIndex,
                   FlattenSeq([k \in DOMAIN records |-> records[k].val]), has_crc32))

SerializeCollected(cells, root, has_crc32) ==
  SerializeRecords(Len(cells), IndexOfHash(cells, Hash(root), Len(cells)),
                   [k \in DOMAIN cells |-> SerializeCell(cells, k)], has_crc32)

SerializeBoc(root, has_crc32) == SerializeCollected(CollectCells(root), root, has_crc32)

(***************************************************************************)
(* deserialize_boc                                                         *)
(***************************************************************************)

\* read_uint after its bounds check: big-endian, saturating at Huge.
ReadUint(d, pos, size) ==
  FoldLeft(LAMBDA acc, i : IF acc >= 2 ^ 16 THEN Huge ELSE 256 * acc + d[pos + i],
           0, [i \in 1..size |-> i])

\* Lowest set bit of a non-zero byte (the marker scan from the low end).
LowestSetBit(x) == CHOOSE i \in 0..7 : BitOf(x, i) = 1 /\ \A j \in 0..(i - 1) : BitOf(x, j) = 0

\* The bit length parse_cells recovers from d2 and the data bytes.
RecoverBitLen(cd, d2) ==
  IF Len(cd) > 0 /\ d2 > 0
  THEN IF d2 % 2 = 0 THEN (d2 \div 2) * 8
       ELSE IF cd[Len(cd)] = 0 THEN Len(cd) * 8
       ELSE (Len(cd) - 1) * 8 + (8 - LowestSetBit(cd[Len(cd)])) - 1
  ELSE 0

\* One record of the first pass of parse_cells, starting at pos.
ParseRecord(data, pos) ==
  LET L        == Len(data)
      d1       == data[pos + 1]
      d2       == data[pos + 2]
      refCount == d1 % 8
      dataSize == (d2 + 1) \div 2
      cd       == SubSeq(data, pos + 3, pos + 2 + dataSize)
      refEnd   == pos + 2 + dataSize + refCount
      cell     == WithData(cd, RecoverBitLen(cd, d2))
  IN  IF pos >= L \/ pos + 1 >= L THEN Err(MalformedStream)
      ELSE IF pos + 2 + dataSize > L \/ refEnd > L THEN Err(MalformedStream)
      ELSE IF ~cell.ok THEN cell
      ELSE Ok([cell |-> cell.val,
               refs |-> SubSeq(data, pos + 3 + dataSize, refEnd),
               next |-> refEnd])

\* First pass: `count` records, each cell built without references.
RECURSIVE ParseRecords(_, _, _, _)
ParseRecords(data, count, pos, acc) ==
  IF count = 0 THEN Ok(acc)
  ELSE LET r == ParseRecord(data, pos)
       IN  IF ~r.ok THEN r
           ELSE ParseRecords(data, count - 1, r.val.next, Append(acc, r.val))

\* Attach the cells at the recorded indices, as they are in `cells` now.
AttachRefs(c, idxs, cells) ==
  FoldLeft(LAMBDA acc, ix : IF ~acc.ok THEN acc
                            ELSE IF ix >= Len(cells) THEN Err(MalformedStream)
                            ELSE AddReference(acc.val, cells[ix + 1]),
           Ok(c), idxs)

\* Second pass: in index order, rebuild each cell that has references from
\* its data and the current entries of `cells` at its reference indices.
RECURSIVE ResolveRefs(_, _, _)
ResolveRefs(recs, cells, i) ==
  IF i > Len(recs) THEN Ok(cells)
  ELSE IF recs[i].refs = <<>> THEN ResolveRefs(recs, cells, i + 1)
  ELSE LET fresh == WithData(cells[i].data, cells[i].bit_len)
           nc    == AttachRefs(fresh.val, recs[i].refs, cells)
       IN  IF ~nc.ok THEN nc
           ELSE ResolveRefs(recs, [cells EXCEPT ![i] = nc.val], i + 1)

ParseCells(data, count) ==
  LET recs == ParseRecords(data, count, 0, <<>>)
  IN  IF ~recs.ok THEN recs
      ELSE ResolveRefs(recs.val, [i \in DOMAIN recs.val |-> recs.val[i].cell], 1)

\* The end of deserialize_boc_generic, once the cells are parsed: the
\* CRC32 trailer, then the root index.
GenericTail(d, hasCrc32, cellsEnd, rootIdx, cells) ==
  IF ~cells.ok THEN cells
  ELSE IF hasCrc32 /\ Len(d) < cellsEnd + 4 THEN Err(MalformedStream)
  ELSE IF hasCrc32 /\ SubSeq(d, cellsEnd + 1, cellsEnd + 4) # Crc32LE(SubSeq(d, 1, cellsEnd))
    THEN Err(IntegrityError)
  ELSE IF rootIdx >= Len(cells.val) THEN Err(MalformedStream)
  ELSE Ok(cells.val[rootIdx + 1])

\* deserialize_boc_generic: header checks in the code's order, the cells,
\* then the CRC32 trailer, then the root index.
DeserializeBocGeneric(d) ==
  LET L          == Len(d)
      flags      == d[5]
      hasCrc32   == BitOf(flags, 6) = 1
      sizeBytes  == flags % 8
      offsetBytes == d[6]
      p          == 6
      cellsStart == p + 4 * sizeBytes + offsetBytes
      roots      == ReadUint(d, p + sizeBytes, sizeBytes)
      cellsEnd   == cellsStart + ReadUint(d, p + 3 * sizeBytes, offsetBytes)
  IN  IF 4 >= L \/ sizeBytes = 0 THEN Err(MalformedStream)
      ELSE IF 5 >= L \/ offsetBytes = 0 \/ offsetBytes > 8 THEN Err(MalformedStream)
      ELSE IF p + 2 * sizeBytes > L THEN Err(MalformedStream)
      ELSE IF roots # 1 THEN Err(MalformedStream)
      ELSE IF cellsStart > L THEN Err(MalformedStream)
      ELSE IF cellsEnd > L - (IF hasCrc32 THEN 4 ELSE 0) THEN Err(MalformedStream)
      ELSE GenericTail(d, hasCrc32, cellsEnd,
                       ReadUint(d, p + 3 * sizeBytes + offsetBytes, sizeBytes),
                       ParseCells(SubSeq(d, cellsStart + 1, cellsEnd),
                                  ReadUint(d, p, sizeBytes)))

DeserializeBoc(d) ==
  IF Len(d) < 4 THEN Err(MalformedStream)
  ELSE IF SubSeq(d, 1, 4) = BOC_GENERIC_MAGIC THEN DeserializeBocGeneric(d)
  ELSE IF SubSeq(d, 1, 4) \in {BOC_INDEXED_MAGIC, BOC_INDEXED_CRC32C_MAGIC}
    THEN Err(UnsupportedFormat)
  ELSE Err(MalformedStream)

(***************************************************************************)
(* The text wrappers: hex and standard base64 around the binary format    *)
(***************************************************************************)

\* hex_to_boc's clean-up: trim() drops leading and trailing whitespace,
\* then every space and newline is removed.
Whitespace == {9, 10, 11, 12, 13, 32}
RECURSIVE TrimStart(_)
TrimStart(s) == IF s # <<>> /\ Head(s) \in Whitespace THEN TrimStart(Tail(s)) ELSE s
Trim(s) == Reverse(TrimStart(Reverse(TrimStart(s))))

\* `serialize_boc(..)?` followed by the text encoding of the bytes.
HexText(r)    == IF r.ok THEN Ok(HexEncode(r.val)) ELSE r
Base64Text(r) == IF r.ok THEN Ok(B64Encode(r.val, FALSE)) ELSE r
\* `decode(..).map_err(..)?` followed by deserialize_boc.
ThenDeserialize(r) == IF r.ok THEN DeserializeBoc(r.val) ELSE r

HexToBoc(s) == ThenDeserialize(HexDecode(SelectSeq(Trim(s), LAMBDA c : c \notin {32, 10})))
BocToHex(c, has_crc32) == HexText(SerializeBoc(c, has_crc32))
BocToBase64(c, has_crc32) == Base64Text(SerializeBoc(c, has_crc32))
Base64ToBoc(s) == ThenDeserialize(B64Decode(s, FALSE))
=============================================================================
