--------------------------- MODULE RetainedGuests ---------------------------
(***************************************************************************)
(* The guests without a host in this repository: manual_claim.rs and       *)
(* custodian_transition.rs of program/src/bin.  Each reads one framed      *)
(* vector of a fixed size, cuts it into fixed-width values and commits     *)
(* their public value.  The widths are parameters, so that they can be     *)
(* small; the proofs hold for the 32, 48 and 8 bytes of the code.          *)
(***************************************************************************)
EXTENDS PublicInputs

CONSTANTS HASH_SIZE, RETURN_OUTPUT_SIZE, U64_SIZE

ASSUME WidthsAssumption ==
  HASH_SIZE \in Nat \ {0} /\ RETURN_OUTPUT_SIZE \in Nat \ {0} /\ U64_SIZE \in Nat \ {0}

MANUAL_CLAIM_INPUT_SIZE == 7 * HASH_SIZE + 2 * U64_SIZE

CUSTODIAN_TRANSITION_INPUT_SIZE == 2 * RETURN_OUTPUT_SIZE + 2 * HASH_SIZE

(* The size bytes of input from an offset on. *)
TakeArray(input, offset, size) == SubSeq(input, offset + 1, offset + size)

Word(input, k) == TakeArray(input, k * HASH_SIZE, HASH_SIZE)

ManualClaimFields(input) ==
  [recent_block_merkle_tree_root     |-> Word(input, 0),
   recent_auto_claim_txo_root        |-> Word(input, 1),
   old_manual_claim_deposit_txo_root |-> Word(input, 2),
   new_manual_claim_txo_root         |-> Word(input, 3),
   tx_hash                           |-> Word(input, 4),
   user_ata                          |-> Word(input, 5),
   custodian_wallet_config_hash      |-> Word(input, 6),
   combined_txo_index  |-> TakeArray(input, 7 * HASH_SIZE, U64_SIZE),
   deposit_amount_sats |-> TakeArray(input, 7 * HASH_SIZE + U64_SIZE, U64_SIZE)]

(* The values a run commits: none if an assertion fails. *)
ManualClaim(input) ==
  IF Len(input) # MANUAL_CLAIM_INPUT_SIZE THEN {}
  ELSE {ManualClaimPublicInputs(ManualClaimFields(input))}

CustodianTransition(input) ==
  IF Len(input) # CUSTODIAN_TRANSITION_INPUT_SIZE THEN {}
  ELSE LET custodians == 2 * RETURN_OUTPUT_SIZE
       IN  {CustodianTransitionPublicInputs(
              TakeArray(input, 0, RETURN_OUTPUT_SIZE),
              TakeArray(input, RETURN_OUTPUT_SIZE, RETURN_OUTPUT_SIZE),
              TakeArray(input, custodians, HASH_SIZE),
              TakeArray(input, custodians + HASH_SIZE, HASH_SIZE))}
=============================================================================
