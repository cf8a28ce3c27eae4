---------------------------- MODULE PublicInputs ----------------------------
(***************************************************************************)
(* The public-value formulas of lib/src/lib.rs.                            *)
(*                                                                         *)
(* SHA-256 is taken to be free of collisions: a digest is the record of    *)
(* what was hashed.  All arguments of the formulas have a fixed width, so  *)
(* that their concatenation is the tuple of them.                          *)
(***************************************************************************)
EXTENDS Naturals, Sequences

Sha256(bytes) == [sha256 |-> bytes]

Sha256_2to1(a, b) == Sha256(<<a, b>>)

BlockTransitionPublicInputs(previous_header_hash, new_header_hash, config_hash, custodian_hash) ==
  Sha256(<<Sha256(<<previous_header_hash, new_header_hash>>), config_hash, custodian_hash>>)

(* [Mutant: the account of the user is not hashed] *)
TxInfoWithoutUser(tx_hash, user_ata, combined_txo_index, deposit_amount_sats) ==
  Sha256(<<tx_hash, combined_txo_index, deposit_amount_sats>>)

TxInfo(tx_hash, user_ata, combined_txo_index, deposit_amount_sats) ==
  Sha256(<<tx_hash, user_ata, combined_txo_index, deposit_amount_sats>>)

(* c names the nine arguments. *)
ManualClaimPublicInputs(c) ==
  LET recent_info == Sha256_2to1(c.recent_block_merkle_tree_root, c.recent_auto_claim_txo_root)
      transition  == Sha256_2to1(c.old_manual_claim_deposit_txo_root, c.new_manual_claim_txo_root)
  IN  Sha256(<<Sha256_2to1(recent_info, transition),
               TxInfo(c.tx_hash, c.user_ata, c.combined_txo_index, c.deposit_amount_sats),
               c.custodian_wallet_config_hash>>)

CustodianTransitionPublicInputs(old_output, new_output, old_config_hash, new_config_hash) ==
  Sha256_2to1(Sha256_2to1(Sha256(old_output), Sha256(new_output)),
              Sha256_2to1(old_config_hash, new_config_hash))
=============================================================================
