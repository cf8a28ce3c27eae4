------------------------ MODULE RetainedGuestsProofs ------------------------
(***************************************************************************)
(* What the guests without a host commit determines every byte they read,  *)
(* for all widths of the values in it.                                     *)
(***************************************************************************)
EXTENDS RetainedGuests, SequenceTheorems, TLAPS

(* Inputs that agree in a slice agree in each of its bytes. *)
LEMMA SliceBytes ==
  ASSUME NEW s \in Seq(0..255), NEW t \in Seq(0..255), Len(s) = Len(t)
  PROVE  \A offset, size \in Nat :
           offset + size <= Len(s) /\ TakeArray(s, offset, size) = TakeArray(t, offset, size)
             => \A x \in offset + 1 .. offset + size : s[x] = t[x]
<1> TAKE offset, size \in Nat
<1> SUFFICES ASSUME offset + size <= Len(s), TakeArray(s, offset, size) = TakeArray(t, offset, size),
                    NEW x \in offset + 1 .. offset + size
             PROVE  s[x] = t[x]
  OBVIOUS
<1>1. x - offset \in 1..size
  OBVIOUS
<1>2. TakeArray(s, offset, size)[x - offset] = s[x]
  BY <1>1 DEF TakeArray
<1>3. TakeArray(t, offset, size)[x - offset] = t[x]
  BY <1>1 DEF TakeArray
<1> QED BY <1>2, <1>3

LEMMA HashInjective == \A a, b : Sha256(a) = Sha256(b) => a = b
BY DEF Sha256

LEMMA PairInjective ==
  \A a, b, c, d : Sha256_2to1(a, b) = Sha256_2to1(c, d) => a = c /\ b = d
BY HashInjective DEF Sha256_2to1

(* The account of the user, the amount and the configuration of the        *)
(* custodian are in the value of a manual claim, and so is all the rest    *)
(* that its guest read.                                                    *)
THEOREM ManualClaimBindsInput ==
  \A s, t \in Seq(0..255) : ManualClaim(s) \cap ManualClaim(t) # {} => s = t
<1>1. SUFFICES ASSUME NEW s \in Seq(0..255), NEW t \in Seq(0..255),
                      Len(s) = MANUAL_CLAIM_INPUT_SIZE, Len(t) = MANUAL_CLAIM_INPUT_SIZE,
                      ManualClaimPublicInputs(ManualClaimFields(s)) =
                        ManualClaimPublicInputs(ManualClaimFields(t))
               PROVE  s = t
  BY DEF ManualClaim
<1> DEFINE f == ManualClaimFields(s)
           g == ManualClaimFields(t)
<1>2. /\ f.recent_block_merkle_tree_root = g.recent_block_merkle_tree_root
      /\ f.recent_auto_claim_txo_root = g.recent_auto_claim_txo_root
      /\ f.old_manual_claim_deposit_txo_root = g.old_manual_claim_deposit_txo_root
      /\ f.new_manual_claim_txo_root = g.new_manual_claim_txo_root
      /\ f.tx_hash = g.tx_hash /\ f.user_ata = g.user_ata
      /\ f.combined_txo_index = g.combined_txo_index
      /\ f.deposit_amount_sats = g.deposit_amount_sats
      /\ f.custodian_wallet_config_hash = g.custodian_wallet_config_hash
  <2> HIDE DEF f, g
  <2>1. ManualClaimPublicInputs(f) = ManualClaimPublicInputs(g)
    BY <1>1 DEF f, g
  <2> DEFINE recent(c) == Sha256_2to1(c.recent_block_merkle_tree_root, c.recent_auto_claim_txo_root)
             moved(c) == Sha256_2to1(c.old_manual_claim_deposit_txo_root, c.new_manual_claim_txo_root)
             tx(c) == <<c.tx_hash, c.user_ata, c.combined_txo_index, c.deposit_amount_sats>>
             whole(c) == <<Sha256_2to1(recent(c), moved(c)), Sha256(tx(c)),
                           c.custodian_wallet_config_hash>>
  <2>2. whole(f) = whole(g)
    BY <2>1, HashInjective DEF ManualClaimPublicInputs, TxInfo
  <2>3. recent(f) = recent(g) /\ moved(f) = moved(g) /\ tx(f) = tx(g)
    BY <2>2, HashInjective, PairInjective
  <2> QED BY <2>2, <2>3, PairInjective
<1> DEFINE H == HASH_SIZE
           U == U64_SIZE
           Agree(offset, size) == TakeArray(s, offset, size) = TakeArray(t, offset, size)
<1>3. Agree(7 * H, U) /\ Agree(7 * H + U, U)
  BY <1>2 DEF ManualClaimFields
<1>4. H \in Nat /\ U \in Nat
  BY WidthsAssumption
<1>5. Agree(0, H) /\ Agree(H, H) /\ Agree(2 * H, H) /\ Agree(3 * H, H) /\ Agree(4 * H, H)
      /\ Agree(5 * H, H) /\ Agree(6 * H, H)
  <2>1. 0 * H = 0 /\ 1 * H = H
    BY <1>4
  <2> QED BY <1>2, <2>1 DEF ManualClaimFields, Word
<1>6. Len(s) = 7 * H + 2 * U /\ Len(t) = Len(s)
  BY <1>1 DEF MANUAL_CLAIM_INPUT_SIZE
<1> HIDE DEF H, U
<1>7. ASSUME NEW offset \in Nat, NEW size \in Nat, offset + size <= 7 * H + 2 * U, Agree(offset, size),
             NEW x \in offset + 1 .. offset + size
      PROVE  s[x] = t[x]
  BY <1>6, <1>7, SliceBytes
<1> HIDE DEF Agree
<1>8. ASSUME NEW x \in 1..Len(s) PROVE s[x] = t[x]
  <2>1. CASE x \in 1..H
    <3>1. 0 \in Nat /\ 0 + H <= 7 * H + 2 * U /\ x \in 0 + 1 .. 0 + H
      BY <1>4, <2>1
    <3>2. Agree(0, H)
      BY <1>5
    <3> QED BY <1>4, <1>7, <3>1, <3>2
  <2>2. CASE x \in H + 1 .. H + H
    <3>1. H \in Nat /\ H \in Nat /\ H + H <= 7 * H + 2 * U
      BY <1>4
    <3>2. Agree(H, H)
      BY <1>5
    <3> QED BY <1>7, <2>2, <3>1, <3>2
  <2>3. CASE x \in 2 * H + 1 .. 2 * H + H
    <3>1. 2 * H \in Nat /\ H \in Nat /\ 2 * H + H <= 7 * H + 2 * U
      BY <1>4
    <3>2. Agree(2 * H, H)
      BY <1>5
    <3> QED BY <1>7, <2>3, <3>1, <3>2
  <2>4. CASE x \in 3 * H + 1 .. 3 * H + H
    <3>1. 3 * H \in Nat /\ H \in Nat /\ 3 * H + H <= 7 * H + 2 * U
      BY <1>4
    <3>2. Agree(3 * H, H)
      BY <1>5
    <3> QED BY <1>7, <2>4, <3>1, <3>2
  <2>5. CASE x \in 4 * H + 1 .. 4 * H + H
    <3>1. 4 * H \in Nat /\ H \in Nat /\ 4 * H + H <= 7 * H + 2 * U
      BY <1>4
    <3>2. Agree(4 * H, H)
      BY <1>5
    <3> QED BY <1>7, <2>5, <3>1, <3>2
  <2>6. CASE x \in 5 * H + 1 .. 5 * H + H
    <3>1. 5 * H \in Nat /\ H \in Nat /\ 5 * H + H <= 7 * H + 2 * U
      BY <1>4
    <3>2. Agree(5 * H, H)
      BY <1>5
    <3> QED BY <1>7, <2>6, <3>1, <3>2
  <2>7. CASE x \in 6 * H + 1 .. 6 * H + H
    <3>1. 6 * H \in Nat /\ H \in Nat /\ 6 * H + H <= 7 * H + 2 * U
      BY <1>4
    <3>2. Agree(6 * H, H)
      BY <1>5
    <3> QED BY <1>7, <2>7, <3>1, <3>2
  <2>8. CASE x \in 7 * H + 1 .. 7 * H + U
    <3>1. 7 * H \in Nat /\ U \in Nat /\ 7 * H + U <= 7 * H + 2 * U
      BY <1>4
    <3>2. Agree(7 * H, U)
      BY <1>3
    <3> QED BY <1>7, <2>8, <3>1, <3>2
  <2>9. CASE x \in 7 * H + U + 1 .. 7 * H + U + U
    <3>1. 7 * H + U \in Nat /\ U \in Nat /\ 7 * H + U + U <= 7 * H + 2 * U
      BY <1>4
    <3>2. Agree(7 * H + U, U)
      BY <1>3
    <3> QED BY <1>7, <2>9, <3>1, <3>2
  <2> QED BY <1>4, <1>6, <2>1, <2>2, <2>3, <2>4, <2>5, <2>6, <2>7, <2>8, <2>9
<1> QED BY <1>6, <1>8, SeqEqual

(* A value of the custodian transition determines both outputs and both    *)
(* configurations.                                                         *)
THEOREM CustodianTransitionBindsInput ==
  \A s, t \in Seq(0..255) : CustodianTransition(s) \cap CustodianTransition(t) # {} => s = t
<1> DEFINE R == RETURN_OUTPUT_SIZE
           H == HASH_SIZE
           value(s) == CustodianTransitionPublicInputs(TakeArray(s, 0, R), TakeArray(s, R, R),
                                                       TakeArray(s, 2 * R, H), TakeArray(s, 2 * R + H, H))
<1>1. SUFFICES ASSUME NEW s \in Seq(0..255), NEW t \in Seq(0..255),
                      Len(s) = CUSTODIAN_TRANSITION_INPUT_SIZE,
                      Len(t) = CUSTODIAN_TRANSITION_INPUT_SIZE, value(s) = value(t)
               PROVE  s = t
  BY DEF CustodianTransition
<1> DEFINE Agree(offset, size) == TakeArray(s, offset, size) = TakeArray(t, offset, size)
<1>2. Agree(0, R) /\ Agree(R, R) /\ Agree(2 * R, H) /\ Agree(2 * R + H, H)
  BY <1>1, HashInjective, PairInjective DEF CustodianTransitionPublicInputs
<1>3. Len(s) = 2 * R + 2 * H /\ Len(t) = Len(s) /\ R \in Nat /\ H \in Nat
  BY <1>1, WidthsAssumption DEF CUSTODIAN_TRANSITION_INPUT_SIZE
<1> HIDE DEF R, H
<1>4. ASSUME NEW offset \in Nat, NEW size \in Nat, offset + size <= 2 * R + 2 * H, Agree(offset, size),
             NEW x \in offset + 1 .. offset + size
      PROVE  s[x] = t[x]
  BY <1>3, <1>4, SliceBytes
<1> HIDE DEF Agree
<1>5. ASSUME NEW x \in 1..Len(s) PROVE s[x] = t[x]
  <2>1. CASE x \in 1..R
    BY <1>2, <1>3, <1>4, <2>1
  <2>2. CASE x \in R + 1 .. R + R
    BY <1>2, <1>3, <1>4, <2>2
  <2>3. CASE x \in 2 * R + 1 .. 2 * R + H
    BY <1>2, <1>3, <1>4, <2>3
  <2>4. CASE x \in 2 * R + H + 1 .. 2 * R + H + H
    BY <1>2, <1>3, <1>4, <2>4
  <2> QED BY <1>3, <2>1, <2>2, <2>3, <2>4
<1> QED BY <1>3, <1>5, SeqEqual
=============================================================================
