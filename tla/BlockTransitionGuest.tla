------------------------ MODULE BlockTransitionGuest ------------------------
(***************************************************************************)
(* The block-transition guests, program/src/bin/block_transition.rs and    *)
(* block_transition_testnet.rs, which differ in the consensus parameters   *)
(* and in the manager of the custody script only.                          *)
(*                                                                         *)
(* A framed vector of the guest's stdin is a record of its length and of   *)
(* what its bytes say.  Checking a transition and recomputing the hashes   *)
(* of a finalized block are functions of psy_doge_bridge_helper, which is  *)
(* not part of the repository: they are constants here.                    *)
(***************************************************************************)
EXTENDS PublicInputs

CONSTANTS
  VerifyBlockTransition(_, _, _, _, _, _),
      \* network, custody, confirmations, state, witness, fees -> commitments
  RecomputeHashes(_, _, _, _, _),
      \* network, claim witness, merkle root, custody, fees -> hashes
  EmptyPendingMints,   \* PendingMintsGroupsBuilder::new_with_hint(0).finalize()
  Rejected             \* what the two return with an error

Networks == {"regtest", "testnet"}

SOLANA_HEADER_SIZE == 320
CONFIG_PARAMS_SIZE == 48
CUSTODY_SCRIPT_CONFIG_SIZE == 32

Vector(len, data) == [len |-> len, data |-> data]

(* CustodyScriptConfig::hash with the manager of a network. *)
CustodianHash(network, custody) == [manager |-> network, config |-> custody]

(* What the eleven calls of read_vec return. *)
ReadVectors(stdin) ==
  [old_state              |-> stdin[1],
   witness                |-> stdin[2],
   custody_script_config  |-> stdin[3],
   required_confirmations |-> stdin[4],
   flat_fee               |-> stdin[5],
   fee_num                |-> stdin[6],
   fee_den                |-> stdin[7],
   old_header             |-> stdin[8],
   new_header             |-> stdin[9],
   config_params          |-> stdin[10],
   finalized_witness      |-> stdin[11]]

WellSized(in) ==
  /\ in.custody_script_config.len = CUSTODY_SCRIPT_CONFIG_SIZE
  /\ in.required_confirmations.len = 4
  /\ in.flat_fee.len = 8 /\ in.fee_num.len = 8 /\ in.fee_den.len = 8
  /\ in.old_header.len = SOLANA_HEADER_SIZE
  /\ in.new_header.len = SOLANA_HEADER_SIZE
  /\ in.config_params.len = CONFIG_PARAMS_SIZE

Fees(in) == <<in.flat_fee.data, in.fee_num.data, in.fee_den.data>>

(* The finalized commitments before and after the block, or Rejected: also *)
(* if the state or the witness cannot be parsed.                           *)
Verified(network, in) ==
  VerifyBlockTransition(network, in.custody_script_config.data, in.required_confirmations.data,
                        in.old_state.data, in.witness.data, Fees(in))

FinalizedFields ==
  {"block_hash", "block_merkle_tree_root", "auto_claimed_txo_tree_root",
   "auto_claimed_deposits_tree_root", "auto_claimed_deposits_next_index", "block_height"}

(* The fields of a header's finalized_state, at their offsets, of which    *)
(* the two hashes are checked apart.  [Mutant: the roots are forgotten]    *)
VerifyFinalizedStateFieldsFew(header, state) ==
  header.block_hash = state.block_hash /\ header.block_height = state.block_height

VerifyFinalizedStateFields(header, state) ==
  /\ header.block_hash = state.block_hash
  /\ header.block_merkle_root = state.block_merkle_tree_root
  /\ header.auto_claimed_txo_root = state.auto_claimed_txo_tree_root
  /\ header.auto_claimed_deposits_root = state.auto_claimed_deposits_tree_root
  /\ header.auto_claimed_next_index = state.auto_claimed_deposits_next_index
  /\ header.block_height = state.block_height

(* The hashes of pending mints and TXOs the new header must carry. *)
FinalizedHashes(network, in, new) ==
  LET block == in.finalized_witness.data
  IN  IF in.finalized_witness.len = 0
      THEN [pending_mints |-> EmptyPendingMints, txo_list |-> Sha256(<<>>)]
      ELSE IF /\ block.parses
              /\ block.block_hash = new.block_hash
              /\ block.merkle_root = new.block_merkle_tree_root
           THEN RecomputeHashes(network, block.claims, block.merkle_root,
                                in.custody_script_config.data, Fees(in))
           ELSE Rejected

CarriesHashes(header, hashes) ==
  /\ hashes # Rejected
  /\ header.pending_mints_hash = hashes.pending_mints
  /\ header.txo_list_hash = hashes.txo_list

(* Every assertion of main after the sizes. *)
Consistent(network, in) ==
  LET verified == Verified(network, in)
  IN  /\ verified # Rejected
      /\ VerifyFinalizedStateFields(in.old_header.data, verified.old)
      /\ VerifyFinalizedStateFields(in.new_header.data, verified.new)
      /\ CarriesHashes(in.new_header.data, FinalizedHashes(network, in, verified.new))

PublicValue(network, in) ==
  BlockTransitionPublicInputs(Sha256(in.old_header.data), Sha256(in.new_header.data),
                              Sha256(in.config_params.data),
                              CustodianHash(network, in.custody_script_config.data))

(* The values a run commits: none if it panics. *)
Commits(network, stdin) ==
  LET in == ReadVectors(stdin)
  IN  IF WellSized(in) /\ Consistent(network, in) THEN {PublicValue(network, in)} ELSE {}

BlockTransition(stdin) == Commits("regtest", stdin)

BlockTransitionTestnet(stdin) == Commits("testnet", stdin)
=============================================================================
