-------------------------- MODULE MCProofPipeline --------------------------
(* An instance of ProofPipeline for TLC: a chain of two blocks, the second *)
(* also after other claims than the first header says, and requests and    *)
(* jobs which deviate from honest ones in one respect each.                *)
EXTENDS ProofPipeline

(* A toy of the external verification: block k follows state k - 1, and    *)
(* claims is what the bridge recorded for it so far.                       *)
MCVerify(net, custody, confirmations, state, witness, fees) ==
  LET Commitments(k) ==
        [block_hash |-> k, block_height |-> k, block_merkle_tree_root |-> k,
         auto_claimed_txo_tree_root |-> state.claims,
         auto_claimed_deposits_tree_root |-> state.claims,
         auto_claimed_deposits_next_index |-> k]
  IN  IF state.net = net /\ witness.net = net /\ witness.block = state.block + 1
           /\ confirmations = 6 /\ fees[3] # 0
      THEN [old |-> Commitments(state.block), new |-> Commitments(witness.block)]
      ELSE Rejected

MCHashes(net, claims, root, custody, fees) ==
  IF fees[3] = 0 THEN Rejected
  ELSE [pending_mints |-> Sha256(<<root, claims, custody>> \o fees),
        txo_list |-> Sha256(<<root, claims>>)]

(* Bytes of strings: of different lengths, as in the code. *)
MCUtf8(s) == [i \in 1..(IF s \in {"regtest", "block-transition"} THEN 1 ELSE 2) |-> [byte |-> s]]
MCJson(r) == <<[json |-> r]>>

-----------------------------------------------------------------------------
Text(v) == [at |-> FALSE, inline |-> v, file |-> NoFile]
File(v) == [at |-> TRUE, inline |-> NotHex, file |-> v]

FinalizedBlock(k, claims) ==
  [parses |-> TRUE, block_hash |-> k, merkle_root |-> k, claims |-> claims]

Header(k, claims, mints, txos) ==
  [block_hash |-> k, block_height |-> k, block_merkle_root |-> k,
   auto_claimed_txo_root |-> claims, auto_claimed_deposits_root |-> claims,
   auto_claimed_next_index |-> k, pending_mints_hash |-> mints, txo_list_hash |-> txos,
   tip_state |-> k]

HeaderOf(k, claims) ==
  Header(k, claims, Sha256(<<k, claims, 7, 1, 2, 3>>), Sha256(<<k, claims>>))

Honest(net, k, claims, id) ==
  [request_id |-> id,
   old_state  |-> Text(Vector(100, [net |-> net, block |-> k - 1, claims |-> claims])),
   witness    |-> Text(Vector(100, [net |-> net, block |-> k])),
   finalized_witness     |-> Text(Vector(100, FinalizedBlock(k, claims))),
   custody_script_config |-> Text(Vector(32, 7)),
   required_confirmations |-> 6, flat_fee |-> 1, fee_num |-> 2, fee_den |-> 3,
   old_header    |-> Text(Vector(320, HeaderOf(k - 1, claims))),
   new_header    |-> Text(Vector(320, HeaderOf(k, claims))),
   config_params |-> Text(Vector(48, 5))]

First  == Honest("regtest", 1, 1, "a")
Second == Honest("regtest", 2, 1, "b")

New(h) == Text(Vector(320, h))
NewHeader == First.new_header.inline.data
NoBlock   == Text(Vector(0, FinalizedBlock(1, 1)))

(* A header that is wrong in some fields; the tip is bound by its hash only. *)
Wrong(h, fields, value) == {New([h EXCEPT ![f] = value]) : f \in fields}

WrongNewHeaders ==
  Wrong(NewHeader, {"block_hash", "block_height", "block_merkle_root", "auto_claimed_txo_root",
                    "auto_claimed_deposits_root", "auto_claimed_next_index", "tip_state"}, 9)
    \cup Wrong(NewHeader, {"pending_mints_hash", "txo_list_hash"}, Sha256(<<9>>))

WrongOldHeaders ==
  Wrong(First.old_header.inline.data, {"block_hash", "auto_claimed_next_index", "tip_state"}, 9)
    \cup Wrong(First.old_header.inline.data, {"txo_list_hash"}, Sha256(<<9>>))

(* Everything in which a finalized block can be wrong. *)
WrongBlocks ==
  LET b == FinalizedBlock(1, 1)
  IN  {[b EXCEPT !.parses = FALSE], [b EXCEPT !.block_hash = 9], [b EXCEPT !.merkle_root = 9],
       [b EXCEPT !.claims = 9]}

DeviatingRequests ==
  {[First EXCEPT !.new_header = h] : h \in WrongNewHeaders}
    \cup {[First EXCEPT !.old_header = h] : h \in WrongOldHeaders}
    \cup {[First EXCEPT !.finalized_witness = Text(Vector(100, b))] : b \in WrongBlocks}
    \cup {[First EXCEPT !.finalized_witness = NoBlock],
          [First EXCEPT !.finalized_witness = NoBlock,
             !.new_header = New(Header(1, 1, EmptyPendingMints, Sha256(<<>>)))],
          [First EXCEPT !.custody_script_config = Text(Vector(31, 7))],
          [First EXCEPT !.custody_script_config = Text(Vector(32, 8))],
          [First EXCEPT !.old_header.inline.len = 319],
          [First EXCEPT !.config_params = Text(Vector(47, 5))],
          [First EXCEPT !.config_params = Text(Vector(48, 6))],
          [First EXCEPT !.required_confirmations = 5],
          [First EXCEPT !.flat_fee = 2, !.fee_num = 1], [First EXCEPT !.fee_den = 0],
          [First EXCEPT !.old_state = File(First.old_state.inline)],
          [First EXCEPT !.old_state = [at |-> FALSE, inline |-> First.old_state.inline,
                                       file |-> Honest("regtest", 1, 2, "a").old_state.inline]],
          [First EXCEPT !.witness = File(NoFile)], [First EXCEPT !.witness = Text(NotHex)]}

(* The second block, proved from a state with other claims than the first  *)
(* header records, and in earnest from one with other claims throughout.   *)
Forked ==
  {[Honest("regtest", 2, 2, "c") EXCEPT !.old_header = First.new_header], Honest("regtest", 2, 2, "c")}

Testnet == Honest("testnet", 1, 1, "a")

MCRequests == {First, Second, Testnet} \cup Forked \cup DeviatingRequests

-----------------------------------------------------------------------------
WithId(j) == [j EXCEPT !.job_id = ComputedJobId(j)]

JobFor(net, r) ==
  WithId([schema_version |-> PROOF_SCHEMA_VERSION, job_id |-> Hex(Sha256(<<>>)), network |-> net,
          height |-> 1, parent_checkpoint_sha256 |-> Hex([checkpoint |-> 1]),
          input_fingerprint |-> ComputedInputFingerprint(r),
          guest_id |-> BlockProgram(net).guest_id,
          block_elf_sha256 |-> Hex(Sha256(BlockProgram(net).block_elf)),
          vkey_hash |-> VkeyHash(BlockProgram(net).block_elf), request |-> r])

FirstJob == JobFor("regtest", First)

(* Jobs whose id fits all they say, and which say something else. *)
DeviatingJobs ==
  {WithId(j) : j \in
    {[FirstJob EXCEPT !.schema_version = 1], [FirstJob EXCEPT !.height = 2],
     [FirstJob EXCEPT !.parent_checkpoint_sha256.form = "upper"],
     [FirstJob EXCEPT !.input_fingerprint = ComputedInputFingerprint(Second)],
     [FirstJob EXCEPT !.guest_id = "block-transition-testnet"],
     [FirstJob EXCEPT !.block_elf_sha256 = Hex(Sha256("older ELF"))],
     [FirstJob EXCEPT !.vkey_hash = VkeyHash("older ELF")]}}

MCJobs ==
  DeviatingJobs
    \cup {JobFor("regtest", First), JobFor("regtest", Second), JobFor("testnet", Testnet)}
    \cup {JobFor("regtest", r) : r \in Forked}
    \cup {JobFor("regtest", [Second EXCEPT !.request_id = ""]),
          JobFor("regtest", [First EXCEPT !.witness = File(First.witness.inline)]),
          JobFor("regtest", [First EXCEPT !.config_params.file = Vector(48, 6)]),
          JobFor("regtest", [First EXCEPT !.required_confirmations = 5]),
          [FirstJob EXCEPT !.job_id = Hex(Sha256(<<>>))],
          [FirstJob EXCEPT !.request = Second]}

MCByte ==
  {[byte |-> j[f]] : j \in MCJobs, f \in {"network", "guest_id"}} \cup {[json |-> j.request] : j \in MCJobs}

AllRequests == MCRequests \cup {j.request : j \in MCJobs}

-----------------------------------------------------------------------------
(* Inputs of the retained guests: zero but for one byte, and too short. *)
OneByte(size) == {[i \in 1..size |-> IF i = k THEN 1 ELSE 0] : k \in 0..size}

MCManualInputs == OneByte(MANUAL_CLAIM_INPUT_SIZE) \cup {[i \in 1..(MANUAL_CLAIM_INPUT_SIZE - 1) |-> 0]}
MCCustodianInputs == OneByte(CUSTODIAN_TRANSITION_INPUT_SIZE) \cup {<<>>}
=============================================================================
