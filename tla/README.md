# TLA+ models of tonutils-rs

This directory holds TLA+ specifications of the parts of `src/` whose
behaviour a model checker can explore, the TLC configurations that check them,
and `PROJECT.json`. `PROJECT.json` maps every modelled definition to the
source lines it translates. It also lists the runs, mutants, findings and
hazards.

## 1. The system

`tonutils-rs` is a TON blockchain client library. Its parts, leaves first:

| Part | Source | State and operations | Interacts with |
|---|---|---|---|
| Cell | `src/tvm/cell.rs` | An immutable DAG node with data bytes, `bit_len` of at most 1023 and at most 4 references. `with_data`, `add_reference`, `descriptors`, `serialize_data`, `depth`, `hash`. `CellBuilder` is the low-level bit writer: `store_bits` and its wrappers, `store_reference`, `build`. | Everything below |
| BoC codec | `src/tvm/boc.rs`, `src/crc/mod.rs` | `serialize_boc` collects cells (post-order, deduplicated by hash), then writes a header, one-byte reference indices and an optional CRC32. `deserialize_boc` checks the header, parses the cell records, rebuilds the cells in two passes and checks the CRC. | Network layer (bytes), Cell |
| Builder | `src/tvm/builder.rs` | A wrapper around `CellBuilder` that adds typed stores: int, coins, var-uint, maybe-ref, address, snake bytes, cell and slice. | Cell, Slice, Address |
| Slice | `src/tvm/slice.rs` | A read cursor (`bit_pos`, `ref_pos`) over one cell. Loads bits, integers, var-uints, coins and references. | Cell |
| Address | `src/tvm/address.rs` | A workchain, a 32-byte hash and the bounceable/test-only flags. `to_string` writes it raw (`workchain:hex`) or user-friendly (tag, workchain, hash and a CRC-16, in URL-safe or standard base64); `from_str` tries the raw form, then both base64 alphabets. | Builder, people and other TON software (text) |
| Dict | `src/tvm/dict.rs` | An in-memory map; serialization is a stub. | - |
| LiteBalancer | `src/liteclient/balancer.rs` | Load balancing over lite-server peers. It keeps the alive and archival peer sets and per-peer statistics. Its parts are `choose_peer`, `execute_request`/`complete_request`, the retry loop of every request method, `send_message`, `start_up` and `close_all`. | LiteClient (not in the tree) |
| ADNL crypto | `src/adnl/crypto.rs` | Ed25519 key pairs (`generate`, expansion of a `SecretKey` into a clamped key and a nonce), `PublicKey` from bytes, from a TL value or from a scalar, `sign_tl`/`sign_raw`, `verify_tl`/`verify_raw` and the x25519 `compute_shared_secret`. | ADNL handshake and peers (declared in `mod.rs`, not in the tree) |
| toncenter client, models, CLI, TL | `src/client`, `src/models`, `src/cli`, `src/tl` | HTTP wrappers, data types and the command line. | - |

The hard behaviours are these:

- **BoC codec:**
  - reference order in the two-pass rebuild;
  - recovering `bit_len` from the completion marker;
  - deduplicating shared sub-cells;
  - which check a damaged stream fails first;
  - a CRC flag that is read from the damaged stream itself.
- **Builder:**
  - composite stores that fail halfway;
  - integer width edges (`1u64 << 64`);
  - a length prefix too narrow for its value;
  - placeholder `bit_len()`/`ref_count()` that always return 0.
- **Address:**
  - a mistyped text that still passes the CRC-16 and the fallbacks;
  - the test bit of the tag;
  - the i8/u8 workchain round trip;
  - a CRC that other TON software computes the same way.
- **Dict:** keys of more than 64 bits folded into a u64.
- **ADNL crypto:**
  - the hash inputs of signing and verifying in the same order and the same TL or raw form;
  - two ways of deriving a public key that must agree;
  - non-canonical `s` strings (malleability);
  - peer keys with a component of order 8 (the curve's cofactor).
- **Balancer:**
  - futures cancelled between `execute_request` and `complete_request`;
  - failed peers that are never re-added;
  - retries that choose the same peer again;
  - `send_message`'s early `?` return;
  - `send_message` rounds that all go to one peer.

The LiteBalancer takes `&mut self` in every method, so one balancer serves one
request at a time. Its concurrency consists of the points where a request
future may be dropped and the order in which its peers fail.

## 2. Modules

| Module | Models | State / operators |
|---|---|---|
| `Cell` | `cell.rs` | Cells are records `[data, bit_len, refs]`, so a shared `Arc` is the same value reached along two paths. `Hash` is the tuple fed to SHA-256, which abstracts the hash function as collision-free. `StoreBits`, `StoreReference` and `Build` translate `CellBuilder`. |
| `Boc` | `boc.rs` | `SerializeBoc`, `DeserializeBoc` and every helper, as operators over byte sequences. The parser makes its checks in the code's order. The second pass (`ResolveRefs`) reads `cells` as rebuilt so far, as the code does. The later stages of both functions (`SerializeRecords`, `BocFrame`, `GenericTail`) take the values computed earlier as arguments. This keeps TLC's coverage profiling of the expressions small. The text wrappers `HexToBoc` (with `hex_to_boc`'s whitespace clean-up), `BocToHex`, `BocToBase64` and `Base64ToBoc` are included. |
| `TextCodec` | the `hex` and `base64` crates as called | `HexEncode`/`HexDecode` and `B64Encode`/`B64Decode` (URL-safe without padding, or standard) on ASCII codes, with the decoders' length, alphabet, padding and trailing-bit checks. |
| `BocChannel` | A program using both | Variables: `builder`, `pool` (the built cells the program holds), `wire`, `phase`, and the history variables `sent` and `faults`. Actions: `StoreBitsStep`, `StoreReferenceStep` and `BuildStep` (CellBuilder calls), `Serialize` (as bytes, hex or base64: constant `Forms`), `FlipBit`/`Truncate` (the channel, on bytes or on text) and `Deserialize` (the reader of the form sent). |
| `MC_BocChannel` | - | Gives the builder's bit chunks for TLC. |
| `MC_BocForeign` | Environment | Another BoC writer, which puts the collected cells in post-order or in reverse (parents first). |
| `Slice` | `slice.rs` | The cursor `[cell, bit_pos, ref_pos]` and every load as an operator returning the advanced cursor and the value. Machine integers are bit sequences of their width (64 for u64/i64, 128 for u128), most significant bit first. The shift overflows of `load_int` depend on the constant `DebugAssertions`: a debug build panics, a release build masks the shift amount. |
| `Builder` | `builder.rs` | Every store of the high-level `Builder` as an operator returning the builder as the call leaves it and the call's `Result`. A store made of several inner stores (`?` after each) keeps the parts written before a failure, as `&mut self` does. `bit_len()`/`ref_count()` are the placeholders the code has (always 0). |
| `BuilderSlice` | A program using both | Variables: `bld`, `log` (the fields stored with Ok), `phase`, `sl`, `rpos` and the history variable `last`. One action per typed store (bit, bool, byte, u32, u64, uint, int, ref, maybe_ref, dict, coins, var_uint, var_int, bytes, string, snake_bytes, snake_string, cell, slice, address; the slice is made with `Slice::new`, `skip_bits` and `skip_refs`), `BuildStep` (`build` + `Slice::new`), `ReadStep` (the load that mirrors the next logged field) and `Restart` (`Builder::new`). A store returning Err ends the builder, as the `?` idiom does. |
| `MC_BuilderSlice` | - | Edge values of every encoding (below). |
| `Balancer` | Abstract | What a balanced call promises: variables `up`, `busy`, `served`, `result`. A call returns Ok only after a peer that was up served it, returns an error only if none did, and (in `Spec`, not in `SafeSpec`) returns unless the caller drops it. |
| `LiteBalancer` | `balancer.rs` | The balancer and one program using it. Balancer state: `alive`, `archival`, `stats` (peer_stats), `inited`, `handle`/`checkers` (the checker task). The call in flight: `method`, `pc`, `attempt`, `iter`, `kk`, `results`, `target`, `reply`, `elapsed`. Environment: `up` and `faults` (peers crash and recover). History: `accepted` (the peers that accepted the request during this call) and `qlast` (served and result of the latest request-method call; every action ends with `TrackQuery`). Actions: `StartUp`, `CloseAll`, `Begin`, `Execute` (`choose_peer` + `execute_request`), `NoPeers`, `Reply` (the peer call resolves), `Cancel` (the future is dropped at that await), `CompleteQuery`/`CompleteSend` (`complete_request` + the loop's match), `QueryTimeout`, `SendNextRound`, `SendFinish`, `Crash`, `Recover`. `FindConsensusBlock` is `find_consensus_block` as an operator on a seqno table; nothing in the code calls it but `delete_unsync_peers`, which nothing calls. `B == INSTANCE Balancer WITH busy <- method = "query", served <- qlast.served, result <- qlast.result` is the refinement mapping: the request methods implement `Balancer!SafeSpec`, while `send_message` calls are steps the abstraction does not see (`send_message` does not implement it; see `bl_delivery`). |
| `MC_LiteBalancer` | - | Two peers, response times of 1 and 2 ms, a 3 ms timeout. |
| `Dict` | `dict.rs` | `key_size`, `map` (u64 -> value) and the history variable `shadow`. Actions `New` (`new`/`deserialize`), `SetStep` (`set` with its Int, Bits and Address key conversions and `set_int_key`'s check) and `Ship`. `Ship` runs `store_dictionary` into a new Builder, then `build`, then `load_dict`; `loaded` holds the result. `Get` and `Serialize` (the stub) are operators. |
| `MC_Dict` | - | Key sizes 4, 8, 72 and 267 with keys at their edges (`dict_keys` uses 72). |
| `Address` | `address.rs` | Variables: `addr` (the Address the program holds), `text` (a string as a sequence of ASCII codes), `phase`, `parsed` (the last `from_str` Result) and the history variables `written` and `typos`. Operators: `Crc16` (the code's bitwise loop), decimal, hex and base64 (both alphabets, with the decoders' padding and trailing-bit checks), `AddrToString`, `FromHex`, `FromBase64`, `FromStr`. Actions: `NewStep`, `SetBounceable`, `SetTestOnly`, `ToStringStep`, `ToHexStep`, `ToBase64Step` (also `Display`), `Parse`; and the copy of the text going wrong, `Mistype` and `Omit`. `XmodemReference` is an independent definition of CRC-16/XMODEM (polynomial long division of the message followed by 16 zero bits). |
| `AdnlCrypto` | `adnl/crypto.rs` | The curve is replaced by Z_N, N = 8L, the group of the curve's shape: a point is its discrete logarithm, the base point 8 has order L, the multiples of L are the points of order dividing 8. Operators: `ClampInteger`, `Expand` (`ExpandedSecretKey::from`), `FromScalar`, `PublicFromSecret`/`PublicFromExpanded`, `KeyPairFrom`, `FromBytes`/`FromTl`/`AsTl`, `TlBytes` (TL serialization of a byte string), `Sign`, `Verify` (with `CheckScalar`), `ToMontgomery` and `ComputeSharedSecret`. Variables: `keys`, `peer` (the key a party holds for the other side), `secret` and the history variable `verdict`. Actions: `Generate` (via `KeyPair::generate` or from parts), `ReceiveKey` (`from_tl` on a TL key: a party's own, a foreign encoding or another variant), `SharedSecret`, `SignAndVerify` (sign, an unaltered or altered delivery, verify). `Rfc8032Verify` and `X25519` are independent reference definitions. |
| `MC_AdnlCrypto` | - | L = 5, 8-bit scalar strings, two parties (symmetric), foreign keys of every order class and one off the curve. |
| `MC_Address` | - | Workchains 0 and -1, the zero hash and the hash of the repository's tests, and typo characters from every class the parsers treat differently. |

### Abstractions

- **SHA-256** is replaced by its preimage. Two cells hash equal exactly when the code feeds the hasher equal bytes.
- **The curve and SHA-512** (ADNL crypto). Z_{8L} has the shape of the Edwards group, with a prime-order subgroup and cofactor 8. Every identity the signature and key-exchange code relies on holds in Z_{8L} as it does on the curve. SHA-512 becomes a fixed, order-sensitive digest 2W bits wide; the properties hold for any digest, so nothing depends on its security, and unforgeability is not claimed.
- **CRC-32** is replaced by a byte sum modulo 2^24, written as 4 LE bytes. Like CRC-32, it changes whenever any single byte changes, and that is the only property the codec relies on.
- **Header integers** read from the stream saturate at 2^24. Beyond that they are only compared with buffer lengths and cell counts, which are far smaller.
- **`is_exotic` and `level`** are always 0 because no code path sets them.
- **Error messages** become the error kinds of the spec (and of `BalancerError`).
- **The lite-server** is the environment. A peer that is up answers with a response or a lite-server error; a peer that is down answers with an ADNL error. `connect_to_peer` always returns true, as the code does.
- **Request methods.** The ten request methods (`get_masterchain_info` ... `get_transactions`) run the same retry loop with `only_archive = false`, so one method, "query", stands for all of them.
- **`HashSet` iteration order**, which breaks ties in `build_priority_list`, is a free choice (`Foremost`).
- **`mc_block_seqno`** is never written by the code and stays 0. `find_consensus_block` and `delete_unsync_peers` have no caller.

## 3. Runs

| Run | Expect | What it shows |
|---|---|---|
| `boc_roundtrip` | pass | `TypeOK` and `RoundTrip` hold. Every cell the program can build (chunks of 4 and 8 bits, at most 8 bits, at most 2 references per builder, at most 3 cells held, so roots of depth 2, a child shared by two parents and a cell referencing the same child twice occur) is serialized with and without CRC, as bytes, hex and base64, and read back to a cell with the same hash. 70,012 states. |
| `boc_damage` | pass | `CrcNeverAcceptsForeignCell` holds. With `has_crc32`, one channel fault per transfer (flip of bit 0 or bit 6 of any byte, including the flags byte's CRC bit, or truncation to any shorter length) never yields a different cell. This holds for bytes and for the hex and base64 texts. 75,135 states. |
| `boc_foreign` | violation | `ForeignBocDecodes` fails: a parents-first BoC of a three-level chain decodes to a root whose child has lost its own child (`parse_cells`' second pass, boc.rs 290-306). |
| `bs_roundtrip` | violation | `ReadBackMatches` fails. The run tries every sequence of up to two stores from the edge values in a release build, including `store_cell` of a three-reference cell and `store_slice` of slices of it. TLC reports `store_int(-1, 64)` reading back 0: the mask `(1u64 << 64) - 1` is 0 in a release build (builder.rs:147). The same inputs include two more stores that do not read back (below). |
| `dict_keys` | violation | `KeysReadBack` fails: with key_size 72, setting the Bits key 01 00..00 overwrites the entry of 00..00, because both fold to the u64 0. |
| `bl_calls` | pass | `TypeOK`, `ResultOkOnlyIfServed`, `ConsensusBlockIsTwoThirds` and `BalancerSpec` hold for up to three calls, each a request method or `send_message`, interleaved with `start_up`, peer crashes and recoveries and a caller that drops calls. Every call returns Ok only if a peer accepted its request during the call. The request methods' retry loop implements the safety part of `Balancer`, `SafeSpec`, whatever `send_message` calls did to the peer state in between. Balancer's liveness (an undropped call returns) is not checked: the peer call has no timeout (balancer.rs:349), so a call may wait on it forever. `ConsensusBlockIsTwoThirds` holds: `find_consensus_block` returns the highest seqno that more than two thirds of the peers have reached, on every table of up to five peers with seqnos 0..2 (the reference `ConsensusReference`). Only the repository's tests call it, and the balancer's own table, also checked, holds only seqno 0. 868,029 states. |
| `bl_cancel` | violation | `CurrentRequestsMatchInFlight` fails: a call dropped while its peer call is pending leaves `current_requests` at 1 for good. |
| `bl_reconnect` | violation | `ReconnectsRecoveredPeers` fails: a peer that failed once (even with a lite-server error while up) is removed from `alive_peers` and never re-added, so a call returns NoAlivePeers while a peer is reachable. |
| `bl_delivery` | violation | `ErrorMeansNotDelivered` fails: `send_message` delivers in round 1, the peer then fails, and round 2's `?` returns NoAlivePeers. |
| `bl_distribute` | violation | `SendDistributesToPeers` fails: with two peers up, `send_message`'s second round goes to the peer that accepted the first, because its average time is now below the untried peer's default. The code's comment says it distributes the message to multiple peers. |
| `addr_text` | pass | `TypeOK`, `ParseRecoversAddress`, `TypoNeverYieldsOtherAddress` and `ChecksumIsXmodem` hold. Every text `to_string` (all 16 argument combinations), `to_hex` and `to_base64` write, after any sequence of `new`, `set_bounceable` and `set_test_only`, parses back to the address it stands for. One character replaced or left out never parses to another address. The checksum equals CRC-16/XMODEM. 5,400 states. |
| `adnl_crypto` | pass | `TypeOK`, `SignaturesVerify`, `VerifyMatchesRfc8032` and `SharedSecretsAgree` hold. Two parties generate key pairs (by `KeyPair::generate` or from `ExpandedSecretKey::from` and `PublicKey::from(&SecretKey)`) and receive keys as TL values, including foreign keys of order 1, 8 and 40 and a string off the curve. An unaltered signature verifies in both modes. Every verdict on an altered one (another message, `s + l`, R moved or off the curve) is RFC 8032's. Genuine keys give both sides the same secret. 16,678 states. |

Two violations found while modelling have no run of their own, because of the budget of twelve runs. Both can be reproduced with the modules as they are:
- `SharedSecretIsX25519` of `AdnlCrypto` fails under `adnl_crypto.cfg` within five steps. A party that holds the order-8 key 5 computes a secret other than 0 (20 or 15), where x25519 gives 0. `compute_shared_secret` multiplies by the clamped key reduced mod l, so a peer key's component of order 8 does not drop out. The secret then depends on the key mod 8.
- `SnakeNeverOverflows` of `BuilderSlice` fails when a field precedes `store_snake_bytes` of 127 bytes. `available_bytes()` is computed from the placeholder `bit_len() == 0`.

`bs_roundtrip` stops at its first counterexample. Its inputs hold two more stores that do not read back, and each can be seen alone by taking the others out of `bs_roundtrip.cfg`:
- `store_address(Some(addr))` of an addr_std writes the tag with `store_bits(&[0b10], 2)`, which stores the top two bits of 0x02, that is 00 (addr_none), although the comment on the line says addr_std$10 (`Addresses <- MCAddressesStd`).
- `store_var_int(200, 4)` sizes the value by its unsigned bit length (8), so it is written as the int8 0xC8, which the TL-B reader of a VarInteger (length, then `int(len * 8)`) takes as -56 (`VarInts <- MCVarIntsEdge`).

**BoC bounds.** Chunks of 4 and 8 bits (1000 and 11010010) give cells of 0,
4 and 8 bits: the even and odd `d2` cases, and an unaligned end in three 0 bits,
where the completion marker follows zeros; without the marker the bit length read back would be 0. `boc_damage` uses 1-bit chunks
so that every byte of its short streams is flipped and cut. Two
references per builder and a pool of three cells give roots of depth 2, a
sub-cell shared by two parents and a child referenced twice by one parent
(deduplication), and reference indices of both orders. Cells of more than
one data byte are left out to keep the run within minutes; their bytes are
copied as the first byte's are. Bit flips are limited to bits 0 and 6 because bit 6 is the flag
bit of the header and bit 0 is the bit a marker recovery reads. Every byte
position is flipped, and truncation is tried at every length.

**Builder/Slice bounds.** The values sit at the edges of their encodings:
- u64 0, 5, 2^63 and 2^64 - 1 at widths 1, 7 and 64;
- i64 -1 and 100 at widths 8, 63 and 64;
- coins 0, 255, 2^64 - 1 and 2^100;
- var_uint with a 4-bit length, var_int 0, 100 and 200 with the same;
- byte, u32 and u64 values taken from the low bits of the u64 values;
- a 120-byte payload, which after a 64-bit field goes one bit past the 1023-bit limit;
- snake payloads of 127 bytes (fits exactly) and 200 bytes (needs a second cell).
- a 3-bit cell with three references for `store_cell`: a second `store_cell` of it passes the reference check, whose `ref_count()` is the placeholder 0, and fails on the fifth `store_ref`;
- slices of that cell after skipping 1 bit and 1 reference (bits and references left) and after skipping all of them (`store_slice` stores nothing).

Two fields per builder are enough for every pair of encodings to meet at
every bit offset the first one leaves.

**Address bounds.** Workchain -1 exercises the sign in the raw form and the
i8/u8 casts; the two hashes give texts with and without `+` and `/` (or
`-` and `_`). Typos go to positions 1 (the tag), 3 (the workchain) and 48
(the last character of a friendly text, whose low bits are padding), with
characters that are a digit, an upper- and lower-case letter, a hex letter,
each alphabet's two extra characters and `:`. One typo per text is the case
a CRC-16 is built to detect.

**Balancer bounds.** Two peers are the least that makes peer choice,
failover and ties matter. Two response times and a timeout longer than both
give strict orders and ties in the sort. The bounds are:
- two retries (one in `bl_distribute`);
- three calls (two in `bl_delivery`, one in `bl_distribute`);
- one `start_up`;
- two peer faults (none in `bl_distribute`, which needs no failure).

With these, a call can meet a crash, a recovery and a retry on the other
peer.

**ADNL bounds.** L = 5 gives a group of order 40 in which every order class of a point (1, 2, 4, 8, 5, 10, 20, 40) occurs. 8-bit scalar strings keep clamping's three cleared low bits, cleared top bit and set second bit. Secrets 5 and 15 give keys 4 and 3 (mod 5). Neither is 0, neither is the other's negation, and for both the unclamped scalar differs from the clamped one mod 5, up to sign. So a public key derived without clamping is a different key, and not only a different sign. Two messages, the empty one and two bytes, give different TL paddings. Each altered delivery changes one thing a verifier checks.

**Fairness.** BoC, Builder/Slice, Dict, Address and ADNL crypto are safety models of synchronous code,
so no fairness is assumed and deadlock is checked. In `LiteBalancer` the
balancer's own steps are weakly fair: its code runs whenever the future is
polled. A pending peer call gets no fairness: `execute_request` awaits it
without the balancer's timeout (balancer.rs:349), and nothing in the tree
makes it resolve. So only safety is checked of the balancer. The caller's calls, drops,
`start_up`/`close_all` and the peers' faults are not forced. The program
makes `MaxCalls` calls and then stops, so the balancer runs disable deadlock
checking. `MC_BocForeign` runs one step and stops, and so does its cfg.

## 4. Mutants

Each property of a passing run has a mutant: a plausible bug in a mapped
definition that TLC must catch.

| Run / property | Mutant | The bug |
|---|---|---|
| `boc_roundtrip` / `TypeOK` | `Crc32LE_Unsplit` | pushes the u32 without splitting it into bytes |
| `boc_roundtrip` / `RoundTrip` | `SerializeData_NoMarker` | omits the completion marker |
| `boc_damage` / `CrcNeverAcceptsForeignCell` | `Crc32LE_HeaderOnly` | computes the checksum over the fixed header only |
| `bl_calls` / `TypeOK` | `CalcNewAverage_NoDivide` | the running average without the division by n |
| `bl_calls` / `BalancerSpec` | `QueryOutcome_OkRetries` | an Ok response treated as a retry |
| `bl_calls` / `ConsensusBlockIsTwoThirds` | `FindConsensusBlock_Ascending` | the seqnos sorted ascending |
| `bl_calls` / `ResultOkOnlyIfServed` | `SendOutcome_AnyResult` | Ok when any round produced a result, even an error |
| `addr_text` / `TypeOK` | `I8_Unsigned` | `decoded[1]` read as u8 instead of `as i8` |
| `addr_text` / `ParseRecoversAddress` | `UntagTestOnly_Keep` | the test bit not cleared before the tag match |
| `addr_text` / `TypoNeverYieldsOtherAddress` | `CrcMatches_Skip` | the CRC not checked |
| `addr_text` / `ChecksumIsXmodem` | `CrcByte_NoShift` | the byte XORed into the low half of the register |
| `adnl_crypto` / `TypeOK` | `FromBytesModOrder_NoReduce` | the key bytes not reduced mod l |
| `adnl_crypto` / `SignaturesVerify` | `Sign_SwappedHash` | the challenge hash fed the public key before R |
| `adnl_crypto` / `VerifyMatchesRfc8032` | `CheckScalar_Reduce` | `s` reduced mod l instead of rejected when not canonical |
| `adnl_crypto` / `SharedSecretsAgree` | `MulBaseClamped_NoClamp` | `from_scalar` without clamping, so `PublicKey::from(&SecretKey)` disagrees with the expanded key |

## 5. Plan

1. **Done:**
   - Cell, the BoC codec and the channel pipeline;
   - Builder and Slice with the write-then-read program;
   - LiteBalancer and its refinement of Balancer;
   - Dict with `store_dictionary`/`load_dict` (`dict_keys`);
   - the Address text forms (`addr_text`);
   - the BoC hex and base64 wrappers;
   - ADNL key pairs, signatures and the shared secret (`adnl_crypto`).
2. **Run budget.** The `store_snake_bytes` and x25519 violations (section 3) have no run of their own, and `bs_roundtrip` shows only the first of its three failing stores. `BuilderSlice`'s `TypeOK` is not checked by any run now that `bs_roundtrip` expects a violation.
3. **ExternalAddress** (`address.rs` 206-252): `from_bytes` shifts by 64 or more for inputs longer than 8 bytes.
4. **Builder:** `store_external_address` is an operator that no action drives. It writes the tag 00 for the same reason `store_address` does, so a read-back run with it would only repeat that violation.
5. **Balancer:** `get_*` with `only_archive = true` (no code path uses it yet). A second `start_up`: it leaks the first checker task, which only sleeps and logs, so no state the balancer reads can show it. Balancer liveness: with a transport model that bounds the peer call, `B!Spec` could be checked with weak fairness of `Reply` justified by that bound.

## 6. Not modelled

- the dictionary tree format, which the spec calls a non-goal (`Dict::serialize` is a stub that the model follows);
- the ADNL crypto's `Display`/`Debug` and serde (the 32 bytes as hex text) and its byte accessors. The codec, handshake, builder and peer that `src/adnl/mod.rs` declares are not in the tree;
- the toncenter HTTP client and models, the CLI and TL, which are I/O and data types with no control state to explore;
- `method_name_to_id` in `utils.rs`. It ORs 0x10000 into a CRC-16/IBM-SDLC and casts the result to u16, which drops that bit. TON get-method ids are `(crc16_xmodem & 0xffff) | 0x10000`, so the CLI's `run_smc_method` sends another id. It is listed as a hazard; with no run left in the budget, it is not modelled;
- `ExternalAddress` and `Address::to_account_id`, which no modelled program uses (the latter only copies fields);
- `LiteClient`, the lite-server transport the balancer calls, which is not in the source tree (`src/liteclient/mod.rs` declares modules that are absent). Whether a peer call resolves is left open: `Reply` has no fairness, and no liveness of the balancer is claimed.
