----------------------------- MODULE AdnlCrypto -----------------------------
(***************************************************************************)
(* The ADNL key material of src/adnl/crypto.rs: Ed25519 key pairs,         *)
(* signatures over raw bytes and over TL-serialized bytes, public keys     *)
(* received as TL PublicKey values, and the x25519 shared secret.          *)
(*                                                                         *)
(* The curve is replaced by a group of the same shape.  The Edwards group  *)
(* of curve25519 is cyclic of order 8*l (cofactor 8); here it is Z_N with  *)
(* N = 8*L for a small prime L, a point is its discrete logarithm to a     *)
(* generator of the whole group, the base point is 8 (of order L) and the  *)
(* points of order dividing 8 are the multiples of L.  Scalars are reduced *)
(* mod L, as Scalar reduces mod l.  A 32-byte scalar string is a W-bit     *)
(* number, so clamp_integer keeps its meaning (clear the three low bits    *)
(* and the top bit, set the bit below it).  A compressed point is its      *)
(* number; N and N+1 stand for the 32-byte strings that are not on the    *)
(* curve.  SHA-512 is a fixed order-sensitive digest of the bytes fed to   *)
(* the hasher, 2W bits wide; nothing here depends on its security.         *)
(*                                                                         *)
(* Programs generate key pairs, exchange their public keys as TL values    *)
(* (a peer may present any key), sign, and verify what reaches them: the   *)
(* signature and message may be altered on the way.                        *)
(***************************************************************************)
EXTENDS Integers, Sequences, SequencesExt, FiniteSetsExt

CONSTANTS
  L,            \* order of the prime-order subgroup (l = 2^252 + ... in the code)
  W,            \* bits of a 32-byte scalar string (256 in the code)
  Parties,      \* programs that hold a key pair
  Secrets,      \* SecretKey byte strings rng.fill_bytes can produce
  Messages,     \* messages signed, as byte sequences
  ForeignKeys   \* Ed25519 key encodings a peer may present that no party made

ASSUME L \in Nat \ {0, 1} /\ W \in Nat /\ W >= 4
ASSUME Secrets \subseteq 0..(2 ^ W - 1) /\ Messages \subseteq Seq(0..255)

N == 8 * L
BasePoint == 8
Encodings == 0..(N + 1)
ScalarStrings == 0..(2 * L - 1)   \* 32-byte strings in the s half of a signature

None == [some |-> FALSE]
Some(v) == [some |-> TRUE, val |-> v]

AddPoints(P, Q) == (P + Q) % N
MulPoint(k, P) == (k * P) % N
NegPoint(P) == (N - P) % N
MulBase(s) == MulPoint(s, BasePoint)

\* CompressedEdwardsY::decompress: None off the curve.
Decompress(bytes) == IF bytes < N THEN Some(bytes) ELSE None

\* Mutant: from_bytes_mod_order that does not reduce.
FromBytesModOrder_NoReduce(bytes) == bytes

\* The SHA-512 digest of a byte sequence, and the two Scalar constructors.
Mix(h, x) == ((h + x + 1) * 25173 + 13849) % (2 ^ (2 * W))
Sha512(bytes) == FoldLeft(Mix, 0, bytes)
FromBytesModOrderWide(digest) == digest % L
FromBytesModOrder(bytes) == bytes % L

\* curve25519_dalek::scalar::clamp_integer
ClampInteger(bytes) == 2 ^ (W - 2) + ((bytes % 2 ^ (W - 2)) \div 8) * 8

\* Mutant: multiplication by the base point without clamping.
MulBaseClamped_NoClamp(bits) == MulBase(bits)

\* EdwardsPoint::mul_base_clamped
MulBaseClamped(bits) == MulBase(ClampInteger(bits))

\* Mutant: a scalar check that reduces instead of rejecting.
CheckScalar_Reduce(bytes) == Some(bytes % L)

\* check_scalar: Scalar::from_canonical_bytes accepts only values below l.
CheckScalar(bytes) == IF bytes < L THEN Some(bytes) ELSE None

(***************************************************************************)
(* Keys.  A PublicKey keeps its compressed form and the negated point.    *)
(***************************************************************************)
\* PublicKey::from_scalar
FromScalar(bits) ==
  LET point == MulBaseClamped(bits)
  IN  [compressed |-> point, neg_point |-> NegPoint(point)]

\* ExpandedSecretKey::from(&SecretKey): the digest's first half is clamped
\* into the key, its second half is the nonce.
Expand(sk) ==
  LET hash == Sha512(<<sk>>)
      key_bytes == ClampInteger(hash \div 2 ^ W)
  IN  [key |-> FromBytesModOrder(key_bytes), key_bytes |-> key_bytes,
       nonce |-> hash % 2 ^ W]

\* PublicKey::from(&SecretKey) and PublicKey::from(&ExpandedSecretKey)
PublicFromSecret(sk) == FromScalar(Sha512(<<sk>>) \div 2 ^ W)
PublicFromExpanded(esk) == FromScalar(esk.key_bytes)

\* KeyPair::from(&SecretKey), which KeyPair::generate calls
KeyPairFrom(sk) ==
  LET esk == Expand(sk)
  IN  [secret_key |-> esk, public_key |-> PublicFromExpanded(esk)]

\* PublicKey::from_bytes
FromBytes(bytes) ==
  IF Decompress(bytes).some
  THEN Some([compressed |-> bytes, neg_point |-> NegPoint(bytes)])
  ELSE None

\* tl::PublicKey: only the Ed25519 variant carries a usable key.
TlVariants == {"Ed25519", "Overlay", "Aes", "Unencoded"}
AsTl(pk) == [type |-> "Ed25519", key |-> pk.compressed]
FromTl(tl) == IF tl.type = "Ed25519" THEN FromBytes(tl.key) ELSE None

(***************************************************************************)
(* Signatures.  sign_tl and verify_tl hash the TL serialization of the    *)
(* message, a byte string: a length prefix (one byte below 254, else 254  *)
(* and three little-endian bytes), the bytes, zero padding to a multiple  *)
(* of four.  sign_raw and verify_raw hash the bytes as they are.          *)
(***************************************************************************)
TlBytes(m) ==
  LET n == Len(m)
      prefix == IF n < 254 THEN <<n>>
                ELSE <<254, n % 256, (n \div 256) % 256, n \div 65536>>
      body == prefix \o m
  IN  body \o [i \in 1..((4 - (Len(body) % 4)) % 4) |-> 0]

HashedMessage(mode, m) == IF mode = "tl" THEN TlBytes(m) ELSE m

\* Mutant: the challenge hash fed the key before R.
Sign_SwappedHash(esk, mode, m, pk) ==
  LET msg == HashedMessage(mode, m)
      r == FromBytesModOrderWide(Sha512(<<esk.nonce>> \o msg))
      R == MulBase(r)
      k == FromBytesModOrderWide(Sha512(<<pk.compressed, R>> \o msg))
  IN  [R |-> R, s |-> (k * esk.key + r) % L]

\* ExpandedSecretKey::sign_tl / sign_raw
Sign(esk, mode, m, pk) ==
  LET msg == HashedMessage(mode, m)
      r == FromBytesModOrderWide(Sha512(<<esk.nonce>> \o msg))
      R == MulBase(r)
      k == FromBytesModOrderWide(Sha512(<<R, pk.compressed>> \o msg))
  IN  [R |-> R, s |-> (k * esk.key + r) % L]

\* PublicKey::verify_tl / verify_raw
Verify(pk, mode, m, sig) ==
  LET s == CheckScalar(sig.s)
      k == FromBytesModOrderWide(
             Sha512(<<sig.R, pk.compressed>> \o HashedMessage(mode, m)))
  IN  /\ s.some
      /\ AddPoints(MulPoint(k, pk.neg_point), MulBase(s.val)) = sig.R

(***************************************************************************)
(* x25519.  A Montgomery point is the u-coordinate, which a point shares  *)
(* with its negation; multiplying it by a scalar is well defined.         *)
(***************************************************************************)
ToMontgomery(P) == Min({P, NegPoint(P)})
MulMontgomery(u, k) == ToMontgomery(MulPoint(k, u))

\* ExpandedSecretKey::compute_shared_secret
ComputeSharedSecret(esk, pk) ==
  MulMontgomery(ToMontgomery(NegPoint(pk.neg_point)), esk.key)

(***************************************************************************)
(* References.  RFC 8032 section 5.1.7: s must be below l, R and A must   *)
(* decode, and [s]B = R + [k]A with k = SHA-512(R || A || M) mod l.       *)
(***************************************************************************)
Rfc8032Verify(A, mode, m, sig) ==
  /\ sig.s < L
  /\ Decompress(sig.R).some /\ Decompress(A).some
  /\ LET k == Sha512(<<sig.R, A>> \o HashedMessage(mode, m)) % L
     IN  MulBase(sig.s) = AddPoints(sig.R, MulPoint(k, A))

(***************************************************************************)
(* The programs.  keys[p] is p's KeyPair, peer[p] the PublicKey p holds   *)
(* for the other side, secret[p] the last shared secret p computed and    *)
(* the key bytes it used, verdict the last signature check made.          *)
(***************************************************************************)
VARIABLES keys, peer, secret, verdict

vars == <<keys, peer, secret, verdict>>

NoKey == [none |-> TRUE]
NoVerdict == [checked |-> FALSE]

\* tl::PublicKey values a party may receive: a party's own as_tl, any
\* Ed25519 encoding a foreign peer sends, or another variant.
Offered ==
  {AsTl(keys[q].public_key) : q \in {x \in Parties : keys[x] # NoKey}}
  \cup {[type |-> "Ed25519", key |-> e] : e \in ForeignKeys}
  \cup {[type |-> t, key |-> 0] : t \in TlVariants \ {"Ed25519"}}

\* What reaches the verifier: the message and signature as sent, another
\* message, the signature's s as the non-canonical string s + l, or its R
\* moved to another point or to a string off the curve.
Deliveries(m, sig) ==
  {[msg |-> m2, sig |-> sig] : m2 \in Messages}
  \cup {[msg |-> m, sig |-> [sig EXCEPT !.s = sig.s + L]]}
  \cup {[msg |-> m, sig |-> [sig EXCEPT !.R = r2]]
          : r2 \in {AddPoints(sig.R, BasePoint), N}}

Init ==
  /\ keys = [p \in Parties |-> NoKey]
  /\ peer = [p \in Parties |-> NoKey]
  /\ secret = [p \in Parties |-> NoKey]
  /\ verdict = NoVerdict

\* KeyPair::generate; or a key pair put together from ExpandedSecretKey::from
\* and PublicKey::from(&SecretKey), as the repository's tests do.
Generate(p, sk, via) ==
  /\ keys[p] = NoKey
  /\ keys' = [keys EXCEPT ![p] =
        IF via = "generate" THEN KeyPairFrom(sk)
        ELSE [secret_key |-> Expand(sk), public_key |-> PublicFromSecret(sk)]]
  /\ UNCHANGED <<peer, secret, verdict>>

\* PublicKey::from_tl on a received TL key; None leaves no key.
ReceiveKey(p, tl) ==
  /\ LET pk == FromTl(tl)
     IN  peer' = [peer EXCEPT ![p] = IF pk.some THEN pk.val ELSE NoKey]
  /\ UNCHANGED <<keys, secret, verdict>>

\* KeyPair::compute_shared_secret with the key p holds for its peer.
SharedSecret(p) ==
  /\ keys[p] # NoKey /\ peer[p] # NoKey
  /\ secret' = [secret EXCEPT ![p] =
        [with |-> peer[p].compressed,
         val |-> ComputeSharedSecret(keys[p].secret_key, peer[p])]]
  /\ UNCHANGED <<keys, peer, verdict>>

\* p signs m with KeyPair::sign_tl or sign_raw; q checks what reaches it
\* with verify_tl or verify_raw against the key q holds for its peer.  The
\* verdict keeps, for the properties, whether the delivery was intact, the
\* key q used was p's, and what RFC 8032 says of the same input.
SignAndVerify(p, q, mode, m) ==
  /\ keys[p] # NoKey /\ peer[q] # NoKey
  /\ LET sent == Sign(keys[p].secret_key, mode, m, keys[p].public_key)
     IN  \E d \in Deliveries(m, sent) :
           verdict' = [checked |-> TRUE,
                       ok |-> Verify(peer[q], mode, d.msg, d.sig),
                       intact |-> d = [msg |-> m, sig |-> sent],
                       genuine |-> peer[q].compressed
                                     = keys[p].public_key.compressed,
                       rfc |-> Rfc8032Verify(peer[q].compressed, mode,
                                             d.msg, d.sig)]
  /\ UNCHANGED <<keys, peer, secret>>

Next ==
  \/ \E p \in Parties, sk \in Secrets, via \in {"generate", "parts"} :
       Generate(p, sk, via)
  \/ \E p \in Parties : \E tl \in Offered : ReceiveKey(p, tl)
  \/ \E p \in Parties : SharedSecret(p)
  \/ \E p, q \in Parties, mode \in {"tl", "raw"}, m \in Messages :
       SignAndVerify(p, q, mode, m)

Spec == Init /\ [][Next]_vars

PublicKeys == [compressed : 0..(N - 1), neg_point : 0..(N - 1)]
KeyPairs == [secret_key : [key : 0..(L - 1), key_bytes : 0..(2 ^ W - 1),
                           nonce : 0..(2 ^ W - 1)],
             public_key : PublicKeys]

TypeOK ==
  /\ keys \in [Parties -> KeyPairs \cup {NoKey}]
  /\ peer \in [Parties -> PublicKeys \cup {NoKey}]
  /\ secret \in [Parties -> [with : 0..(N - 1), val : 0..(N - 1)] \cup {NoKey}]
  /\ verdict.checked \in BOOLEAN
  /\ verdict.checked =>
       {verdict.ok, verdict.intact, verdict.genuine, verdict.rfc} \subseteq BOOLEAN

\* A signature made by sign_tl or sign_raw that reaches the other side
\* unaltered is accepted by verify_tl or verify_raw of the same mode under
\* the signer's key as received from the wire, whichever way the signer's
\* key pair was put together.
SignaturesVerify ==
  verdict.checked /\ verdict.intact /\ verdict.genuine => verdict.ok

\* Every verdict of verify_tl / verify_raw, on signatures altered or not,
\* is the verdict of RFC 8032: check_scalar rejects the non-canonical s,
\* an R off the curve never matches, and the equation is checked against
\* the negated key the PublicKey keeps.
VerifyMatchesRfc8032 ==
  verdict.checked => verdict.ok = verdict.rfc

\* Two parties that each hold the other's genuine public key compute the
\* same shared secret with compute_shared_secret.
SharedSecretsAgree ==
  \A p, q \in Parties :
    /\ p # q
    /\ keys[p] # NoKey /\ keys[q] # NoKey
    /\ secret[p] # NoKey /\ secret[q] # NoKey
    /\ secret[p].with = keys[q].public_key.compressed
    /\ secret[q].with = keys[p].public_key.compressed
    => secret[p].val = secret[q].val

\* RFC 7748 x25519 multiplies by the clamped scalar string itself, a
\* multiple of 8, so the part of a peer key of order 8 drops out;
\* compute_shared_secret multiplies by that scalar reduced mod l.  The
\* secret a party computes is x25519 of its key_bytes and the key it holds.
X25519(key_bytes, P) == ToMontgomery(MulPoint(ClampInteger(key_bytes), P))

SharedSecretIsX25519 ==
  \A p \in Parties :
    secret[p] # NoKey /\ keys[p] # NoKey =>
      secret[p].val = X25519(keys[p].secret_key.key_bytes, secret[p].with)
=============================================================================
