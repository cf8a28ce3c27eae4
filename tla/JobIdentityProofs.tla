------------------------- MODULE JobIdentityProofs --------------------------
(***************************************************************************)
(* What is hashed into a job id can be read back in one way only: strings  *)
(* of different lengths never make two jobs' bytes the same.               *)
(***************************************************************************)
EXTENDS JobIdentity, SequenceTheorems, TLAPS

(* Two ways of cutting the same sequence after the same number of units. *)
LEMMA ConcatCancels ==
  ASSUME NEW S, NEW s \in Seq(S), NEW t \in Seq(S), NEW u \in Seq(S), NEW v \in Seq(S),
         Len(s) = Len(u), s \o t = u \o v
  PROVE  s = u /\ t = v
<1>1. /\ Len(s \o t) = Len(s) + Len(t)
      /\ \A i \in 1 .. Len(s) + Len(t) : (s \o t)[i] = IF i <= Len(s) THEN s[i] ELSE t[i - Len(s)]
  BY ConcatProperties
<1>2. /\ Len(u \o v) = Len(u) + Len(v)
      /\ \A i \in 1 .. Len(u) + Len(v) : (u \o v)[i] = IF i <= Len(u) THEN u[i] ELSE v[i - Len(u)]
  BY ConcatProperties
<1>3. Len(s) \in Nat /\ Len(t) \in Nat /\ Len(v) \in Nat
  OBVIOUS
<1>4. Len(t) = Len(v)
  BY <1>1, <1>2, <1>3
<1>5. ASSUME NEW i \in 1..Len(s) PROVE s[i] = u[i]
  BY <1>1, <1>2, <1>3, <1>4
<1>6. ASSUME NEW i \in 1..Len(t) PROVE t[i] = v[i]
  <2>1. /\ Len(s) + i \in 1 .. Len(s) + Len(t) /\ ~(Len(s) + i <= Len(s))
        /\ (Len(s) + i) - Len(s) = i
    BY <1>3
  <2> QED BY <1>1, <1>2, <1>4, <2>1
<1>7. s = u
  BY <1>5, SeqEqual
<1>8. t = v
  BY <1>4, <1>6, SeqEqual
<1> QED BY <1>7, <1>8

(* A prefix of the length tells where a string ends. *)
LEMMA PrefixCancels ==
  ASSUME NEW S, NEW s \in Seq(S), NEW t \in Seq(S), NEW u \in Seq(S), NEW v \in Seq(S),
         U32(Len(s)) \in S, U32(Len(u)) \in S,
         HashLengthPrefixed(s) \o t = HashLengthPrefixed(u) \o v
  PROVE  s = u /\ t = v
<1>1. HashLengthPrefixed(s) \in Seq(S) /\ HashLengthPrefixed(u) \in Seq(S)
  BY DEF HashLengthPrefixed
<1>2. Len(HashLengthPrefixed(s)) = 1 + Len(s) /\ Len(HashLengthPrefixed(u)) = 1 + Len(u)
  BY DEF HashLengthPrefixed
<1>3. Len(s) = Len(u)
  <2>1. HashLengthPrefixed(s)[1] = U32(Len(s)) /\ HashLengthPrefixed(u)[1] = U32(Len(u))
    BY DEF HashLengthPrefixed
  <2>2. /\ (HashLengthPrefixed(s) \o t)[1] = HashLengthPrefixed(s)[1]
        /\ (HashLengthPrefixed(u) \o v)[1] = HashLengthPrefixed(u)[1]
    <3>1. 1 \in 1..Len(HashLengthPrefixed(s)) /\ 1 \in 1..Len(HashLengthPrefixed(u))
      BY <1>2
    <3> HIDE DEF HashLengthPrefixed
    <3>2. (HashLengthPrefixed(s) \o t)[1] = HashLengthPrefixed(s)[1]
      BY <1>1, <3>1, ConcatProperties
    <3>3. (HashLengthPrefixed(u) \o v)[1] = HashLengthPrefixed(u)[1]
      BY <1>1, <3>1, ConcatProperties
    <3> QED BY <3>2, <3>3
  <2>3. U32(Len(s)) = U32(Len(u))
    BY <2>1, <2>2
  <2> QED BY <2>3 DEF U32
<1>4. HashLengthPrefixed(s) = HashLengthPrefixed(u) /\ t = v
  BY <1>1, <1>2, <1>3, ConcatCancels
<1>5. <<U32(Len(s))>> \o s = <<U32(Len(u))>> \o u
  BY <1>4 DEF HashLengthPrefixed
<1>6. s = u
  <2> DEFINE p == <<U32(Len(s))>>
             q == <<U32(Len(u))>>
  <2>1. p \in Seq(S) /\ q \in Seq(S) /\ Len(p) = Len(q)
    OBVIOUS
  <2>2. p \o s = q \o u
    BY <1>5
  <2> HIDE DEF p, q
  <2> QED BY <2>1, <2>2, ConcatCancels
<1> QED BY <1>4, <1>6

LEMMA PrefixedSeq ==
  ASSUME NEW S, NEW s \in Seq(S), U32(Len(s)) \in S
  PROVE  HashLengthPrefixed(s) \in Seq(S)
BY DEF HashLengthPrefixed

LEMMA Closed == ASSUME NEW S, NEW s \in Seq(S), NEW t \in Seq(S) PROVE s \o t \in Seq(S)
OBVIOUS

-----------------------------------------------------------------------------
(* An id binds everything a job says: two jobs with the same id agree in   *)
(* each number and digest and in the bytes of each string and of the       *)
(* request, however long these are.                                        *)
THEOREM JobIdBinds ==
  ASSUME NEW j, NEW k, ComputedJobId(j) = ComputedJobId(k),
         {Utf8(j.network), Utf8(j.guest_id), Json(j.request)} \subseteq Seq(Byte),
         {Utf8(k.network), Utf8(k.guest_id), Json(k.request)} \subseteq Seq(Byte)
  PROVE  /\ j.schema_version = k.schema_version /\ j.height = k.height
         /\ j.parent_checkpoint_sha256.digest = k.parent_checkpoint_sha256.digest
         /\ j.input_fingerprint.digest = k.input_fingerprint.digest
         /\ j.block_elf_sha256.digest = k.block_elf_sha256.digest
         /\ j.vkey_hash.digest = k.vkey_hash.digest
         /\ Utf8(j.network) = Utf8(k.network) /\ Utf8(j.guest_id) = Utf8(k.guest_id)
         /\ Json(j.request) = Json(k.request)
<1> DEFINE A(x) == <<U32(x.schema_version)>>
           B(x) == <<U32(x.height), x.parent_checkpoint_sha256.digest, x.input_fingerprint.digest>>
           C(x) == <<x.block_elf_sha256.digest, x.vkey_hash.digest>>
           N(x) == Utf8(x.network)
           G(x) == Utf8(x.guest_id)
           R(x) == Json(x.request)
           P(s) == HashLengthPrefixed(s)
           Own(x) == {U32(x.schema_version), U32(x.height), x.parent_checkpoint_sha256.digest,
                      x.input_fingerprint.digest, x.block_elf_sha256.digest, x.vkey_hash.digest}
           S == Byte \cup {U32(n) : n \in Nat} \cup Own(j) \cup Own(k)
<1>1. \A x \in {j, k} :
        /\ A(x) \in Seq(S) /\ B(x) \in Seq(S) /\ C(x) \in Seq(S)
        /\ Len(A(x)) = 1 /\ Len(B(x)) = 3 /\ Len(C(x)) = 2
  <2> TAKE x \in {j, k}
  <2>1. Own(x) \subseteq S
    <3> HIDE DEF Own
    <3> QED OBVIOUS
  <2> HIDE DEF S
  <2> QED BY <2>1
<1>2. ASSUME NEW s \in Seq(Byte) PROVE s \in Seq(S) /\ U32(Len(s)) \in S /\ P(s) \in Seq(S)
  <2>0. Len(s) \in Nat
    OBVIOUS
  <2>1. Byte \subseteq S /\ U32(Len(s)) \in S
    <3> HIDE DEF Own
    <3> QED BY <2>0
  <2> HIDE DEF S
  <2>2. s \in Seq(S)
    BY <2>1, SeqMonotonic
  <2> QED BY <2>1, <2>2, PrefixedSeq
<1>3. \A x \in {j, k} : {N(x), G(x), R(x)} \subseteq Seq(Byte)
  OBVIOUS
<1>4. IdentityBytes(j) = IdentityBytes(k)
  BY DEF ComputedJobId, Hex, Sha256
<1> DEFINE T5(x) == C(x) \o P(R(x))
           T4(x) == P(G(x)) \o T5(x)
           T3(x) == B(x) \o T4(x)
           T2(x) == P(N(x)) \o T3(x)
<1>5. ASSUME NEW x \in {j, k} PROVE IdentityBytes(x) = A(x) \o T2(x)
  BY DEF IdentityBytes
<1> HIDE DEF A, B, C, P, N, G, R, S
<1>6. ASSUME NEW x \in {j, k}
      PROVE  T5(x) \in Seq(S) /\ T4(x) \in Seq(S) /\ T3(x) \in Seq(S) /\ T2(x) \in Seq(S)
  <2> HIDE DEF T2, T3, T4, T5
  <2>1. P(N(x)) \in Seq(S) /\ P(G(x)) \in Seq(S) /\ P(R(x)) \in Seq(S)
    BY <1>2, <1>3
  <2>2. T5(x) \in Seq(S)
    BY <1>1, <2>1, Closed DEF T5
  <2>3. T4(x) \in Seq(S)
    BY <2>1, <2>2, Closed DEF T4
  <2>4. T3(x) \in Seq(S)
    BY <1>1, <2>3, Closed DEF T3
  <2>5. T2(x) \in Seq(S)
    BY <2>1, <2>4, Closed DEF T2
  <2> QED BY <2>2, <2>3, <2>4, <2>5
<1> HIDE DEF T2, T3, T4, T5
<1>7. A(j) = A(k) /\ T2(j) = T2(k)
  BY <1>1, <1>4, <1>5, <1>6, ConcatCancels
<1>8. N(j) = N(k) /\ T3(j) = T3(k)
  <2>1. N(j) \in Seq(S) /\ N(k) \in Seq(S) /\ U32(Len(N(j))) \in S /\ U32(Len(N(k))) \in S
    BY <1>2, <1>3
  <2>2. HashLengthPrefixed(N(j)) \o T3(j) = HashLengthPrefixed(N(k)) \o T3(k)
    BY <1>7 DEF T2, P
  <2> QED BY <1>6, <2>1, <2>2, PrefixCancels
<1>9. B(j) = B(k) /\ T4(j) = T4(k)
  <2>1. B(j) \o T4(j) = B(k) \o T4(k)
    BY <1>8 DEF T3
  <2> QED BY <1>1, <1>6, <2>1, ConcatCancels
<1>10. G(j) = G(k) /\ T5(j) = T5(k)
  <2>1. G(j) \in Seq(S) /\ G(k) \in Seq(S) /\ U32(Len(G(j))) \in S /\ U32(Len(G(k))) \in S
    BY <1>2, <1>3
  <2>2. HashLengthPrefixed(G(j)) \o T5(j) = HashLengthPrefixed(G(k)) \o T5(k)
    BY <1>9 DEF T4, P
  <2> QED BY <1>6, <2>1, <2>2, PrefixCancels
<1>11. C(j) = C(k) /\ P(R(j)) = P(R(k))
  <2>1. C(j) \o P(R(j)) = C(k) \o P(R(k))
    BY <1>10 DEF T5
  <2>2. P(R(j)) \in Seq(S) /\ P(R(k)) \in Seq(S)
    BY <1>2, <1>3
  <2> QED BY <1>1, <2>1, <2>2, ConcatCancels
<1>12. R(j) = R(k)
  <2>1. <<>> \in Seq(S)
    OBVIOUS
  <2>2. P(R(j)) \o <<>> = P(R(k)) \o <<>>
    BY <1>11
  <2> QED BY <1>2, <1>3, <2>1, <2>2, PrefixCancels DEF P
<1>13. /\ U32(j.schema_version) = U32(k.schema_version) /\ U32(j.height) = U32(k.height)
       /\ j.parent_checkpoint_sha256.digest = k.parent_checkpoint_sha256.digest
       /\ j.input_fingerprint.digest = k.input_fingerprint.digest
       /\ j.block_elf_sha256.digest = k.block_elf_sha256.digest
       /\ j.vkey_hash.digest = k.vkey_hash.digest
  BY <1>7, <1>9, <1>11 DEF A, B, C
<1> QED BY <1>8, <1>10, <1>12, <1>13 DEF N, G, R, U32
=============================================================================
