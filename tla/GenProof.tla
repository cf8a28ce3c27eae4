------------------------------ MODULE GenProof ------------------------------
(***************************************************************************)
(* The process gen-proof of script/src/bin/gen_proof.rs in its three       *)
(* modes: one proof (one_shot), the verifying key alone (vkey_only), and   *)
(* requests one after another (daemon).  The SP1 client with its CUDA      *)
(* device is outside the repository: it runs the guest on the stdin it is  *)
(* given, and may fail, run out of time, or return a proof that does not   *)
(* verify.  How a daemon's lines travel is in DaemonSession.               *)
(***************************************************************************)
EXTENDS BlockTransitionGuest

CONSTANTS
  Requests,      \* requests and command lines: a text for each byte string
  NotHex,        \* a text that is no hexadecimal
  NoFile,        \* there is no readable file of that name
  Nothing,       \* no inputs, no proof, no exit status yet
  OtherValue,    \* the public value of a proof that does not verify
  MaxStarts      \* bound: how many processes a behaviour has

ASSUME NothingAssumption == Nothing \notin Requests /\ Nothing \notin {0, 1, 75}
ASSUME StartsAssumption  == MaxStarts \in Nat

VARIABLES
  mode, network, \* the command line
  pc,            \* where the process stands
  request,       \* what it works on: a member of Requests
  inputs,        \* BlockTransitionInputs
  proof,         \* what the prover returned
  answer,        \* what the process wrote last
  exit,          \* its exit status
  polluted,      \* a CUDA future of this process was dropped
  starts         \* how many processes there were

processVars == <<mode, network, pc, request, inputs, proof, answer, exit, polluted, starts>>

Mode == {"one_shot", "vkey_only", "daemon"}

(* The phases of a request that run out of time, with the code of each.    *)
Timeouts == {"EXECUTE_TIMEOUT", "PROVE_TIMEOUT"}

(* In a state named for a timeout the process has dropped the future and   *)
(* not yet said so; "leaving" is before exit_after_timeout_response.       *)
Pc == {"setup", "serving", "decode", "execute", "prove", "verify", "compare", "leaving", "gone"}
        \cup Timeouts

(* A text: preceded by @ or not; what it says as hexadecimal, after 0x and *)
(* white space are stripped; what the file of that name says.              *)
ReadHex(text) ==
  IF text.at \/ text.file # NoFile THEN text.file ELSE text.inline

DecodeInline(text) == IF text.at THEN NotHex ELSE text.inline

(* [Mutant: a length is taken as it comes] *)
DecodesAnyLength(v, len) == v \notin {NotHex, NoFile}

Decodes(v, len) == v \notin {NotHex, NoFile} /\ (len = 0 \/ v.len = len)

(* The fields of a request that are texts. *)
Texts ==
  {"old_state", "witness", "finalized_witness", "custody_script_config", "old_header",
   "new_header", "config_params"}

(* into_inputs and args_into_inputs, given what each text was read as. *)
Inputs(r, read) ==
  [old_state              |-> read.old_state,
   witness                |-> read.witness,
   finalized_witness      |-> read.finalized_witness,
   custody_script_config  |-> read.custody_script_config,
   required_confirmations |-> Vector(4, r.required_confirmations),
   flat_fee               |-> Vector(8, r.flat_fee),
   fee_num                |-> Vector(8, r.fee_num),
   fee_den                |-> Vector(8, r.fee_den),
   old_header             |-> read.old_header,
   new_header             |-> read.new_header,
   config_params          |-> read.config_params]

(* The lengths the host demands; 0 stands for any. *)
Decodable(in) ==
  /\ Decodes(in.old_state, 0) /\ Decodes(in.witness, 0) /\ Decodes(in.finalized_witness, 0)
  /\ Decodes(in.custody_script_config, CUSTODY_SCRIPT_CONFIG_SIZE)
  /\ Decodes(in.old_header, SOLANA_HEADER_SIZE)
  /\ Decodes(in.new_header, SOLANA_HEADER_SIZE)
  /\ Decodes(in.config_params, CONFIG_PARAMS_SIZE)

DaemonInputs(r) == Inputs(r, [f \in Texts |-> DecodeInline(r[f])])

ArgsInputs(r) == Inputs(r, [f \in Texts |-> ReadHex(r[f])])

(* [Mutant: two fees are written in the other order] *)
IntoStdinSwapped(in) ==
  <<in.old_state, in.witness, in.custody_script_config, in.required_confirmations,
    in.fee_num, in.flat_fee, in.fee_den, in.old_header, in.new_header,
    in.config_params, in.finalized_witness>>

IntoStdin(in) ==
  <<in.old_state, in.witness, in.custody_script_config, in.required_confirmations,
    in.flat_fee, in.fee_num, in.fee_den, in.old_header, in.new_header,
    in.config_params, in.finalized_witness>>

(* block_program: the guest embedded for a network. *)
BlockProgram(net) ==
  IF net = "regtest"
  THEN [guest_id |-> "block-transition", block_elf |-> "regtest ELF"]
  ELSE [guest_id |-> "block-transition-testnet", block_elf |-> "testnet ELF"]

RunGuest(elf, stdin) ==
  IF elf = "regtest ELF" THEN BlockTransition(stdin) ELSE BlockTransitionTestnet(stdin)

Guest(net, stdin) == RunGuest(BlockProgram(net).block_elf, stdin)

(* generate_proof: the value the host computes by itself.                  *)
(* [Mutant: with the custodian of the wrong manager]                       *)
ExpectedPublicValuesRegtest(net, in) == PublicValue("regtest", in)

ExpectedPublicValues(net, in) == PublicValue(net, in)

NoAnswer == [kind |-> "none", code |-> "none"]
Failure(code) == [kind |-> "error", code |-> code]

(* No process yet. *)
ProcessInit ==
  /\ mode = "vkey_only" /\ network = "regtest" /\ pc = "gone"
  /\ request = Nothing /\ inputs = Nothing /\ proof = Nothing
  /\ answer = NoAnswer /\ exit = 0 /\ polluted = FALSE /\ starts = 0

-----------------------------------------------------------------------------
Exit(status) == pc' = "gone" /\ exit' = status

(* Any failure but a timeout: a daemon answers it and serves on, the other *)
(* modes end.                                                              *)
Fail(code) ==
  /\ answer' = Failure(code)
  /\ IF mode = "daemon" THEN pc' = "serving" /\ UNCHANGED exit ELSE Exit(1)
  /\ proof' = Nothing /\ UNCHANGED <<mode, network, request, inputs, polluted, starts>>

(* A CUDA phase of a request runs out of time and its future is dropped.   *)
TimeOut(code) ==
  /\ pc' = code /\ polluted' = TRUE
  /\ proof' = Nothing /\ UNCHANGED <<mode, network, request, inputs, answer, exit, starts>>

(* Where a timeout leads once it is reported.  [Mutant: a daemon serves on] *)
AfterReportServing == IF mode = "daemon" THEN "serving" ELSE "leaving"

AfterReport == "leaving"

(* The timeout is reported, by a line or on stderr.  When a daemon cannot  *)
(* write its line, run_daemon returns the error and the status is 1.       *)
ReportTimeout ==
  /\ pc \in Timeouts
  /\ \/ answer' = Failure(pc) /\ pc' = AfterReport /\ UNCHANGED exit
     \/ mode = "daemon" /\ Exit(1) /\ UNCHANGED answer
  /\ UNCHANGED <<mode, network, request, inputs, proof, polluted, starts>>

(* exit_after_timeout_response *)
ExitAfterTimeout ==
  /\ pc = "leaving" /\ Exit(75)
  /\ UNCHANGED <<mode, network, request, inputs, proof, answer, polluted, starts>>

(* main: a deadline of zero seconds ends a process before it touches the   *)
(* device, and so does an input that cannot be read (ReadArguments).       *)
BadArguments ==
  /\ pc = "setup" /\ request = Nothing /\ answer = NoAnswer
  /\ answer' = Failure("arguments") /\ Exit(1)
  /\ UNCHANGED <<mode, network, request, inputs, proof, polluted, starts>>

ReadArguments(r) ==
  /\ mode = "one_shot" /\ pc = "setup" /\ request = Nothing
  /\ request' = r
  /\ IF Decodable(ArgsInputs(r))
     THEN inputs' = ArgsInputs(r) /\ UNCHANGED <<pc, answer, exit>>
     ELSE answer' = Failure("INVALID_INPUT") /\ Exit(1) /\ UNCHANGED inputs
  /\ UNCHANGED <<mode, network, proof, polluted, starts>>

(* setup_proving_key *)
ReadyForSetup == pc = "setup" /\ (mode = "one_shot" => inputs # Nothing)

SetupSucceeds ==
  /\ ReadyForSetup
  /\ CASE mode = "one_shot"  -> pc' = "execute" /\ UNCHANGED <<answer, exit>>
       [] mode = "vkey_only" -> answer' = [kind |-> "vkey", code |-> "none"] /\ Exit(0)
       [] mode = "daemon"    -> /\ pc' = "serving" /\ UNCHANGED exit
                                /\ answer' = [kind |-> "identity", code |-> "none"]
  /\ UNCHANGED <<mode, network, request, inputs, proof, polluted, starts>>

SetupFails ==
  /\ ReadyForSetup /\ Exit(1)
  /\ UNCHANGED <<mode, network, request, inputs, proof, answer, polluted, starts>>

(* In every mode a line on stderr is all that is written. *)
SetupTimesOut ==
  /\ ReadyForSetup /\ pc' = "leaving" /\ polluted' = TRUE
  /\ UNCHANGED <<mode, network, request, inputs, proof, answer, exit, starts>>

(* run_daemon: a line arrives.  A line that is no request is answered by   *)
(* INVALID_REQUEST without a request_id.                                   *)
ReceiveGarbage ==
  /\ pc = "serving" /\ answer' = Failure("INVALID_REQUEST") /\ request' = Nothing
  /\ UNCHANGED <<mode, network, pc, inputs, proof, exit, polluted, starts>>

StdinCloses ==
  /\ pc = "serving" /\ Exit(0)
  /\ UNCHANGED <<mode, network, request, inputs, proof, answer, polluted, starts>>

Receive(r) ==
  /\ pc = "serving" /\ pc' = "decode" /\ request' = r
  /\ answer' = NoAnswer /\ inputs' = Nothing
  /\ UNCHANGED <<mode, network, proof, exit, polluted, starts>>

Decode ==
  /\ pc = "decode"
  /\ IF Decodable(DaemonInputs(request))
     THEN /\ inputs' = DaemonInputs(request) /\ pc' = "execute"
          /\ UNCHANGED <<mode, network, request, proof, answer, exit, polluted, starts>>
     ELSE Fail("INVALID_INPUT")

(* generate_proof.  A guest that panics has a report with an exit code, or *)
(* makes the call an error.  The code sends PROOF_FAILURE for GUEST_EXIT   *)
(* and MISMATCH too; they are told apart to be spoken of.                  *)
Execute ==
  /\ pc = "execute"
  /\ \/ /\ Guest(network, IntoStdin(inputs)) # {}
        /\ pc' = "prove"
        /\ UNCHANGED <<mode, network, request, inputs, proof, answer, exit, polluted, starts>>
     \/ Guest(network, IntoStdin(inputs)) = {} /\ Fail("GUEST_EXIT")
     \/ Fail("PROOF_FAILURE")
     \/ TimeOut("EXECUTE_TIMEOUT")

(* A proof that verifies has the value its guest committed; any other may  *)
(* claim this one or another.                                              *)
ProofsFor(values) ==
  {[valid |-> TRUE, value |-> v, size |-> n] : v \in values, n \in {356, 0}}
    \cup {[valid |-> FALSE, value |-> v, size |-> 356] : v \in values \cup {OtherValue}}

Prove ==
  /\ pc = "prove"
  /\ \/ /\ proof' \in ProofsFor(Guest(network, IntoStdin(inputs)))
        /\ pc' = "verify"
        /\ UNCHANGED <<mode, network, request, inputs, answer, exit, polluted, starts>>
     \/ Fail("PROOF_FAILURE")
     \/ TimeOut("PROVE_TIMEOUT")

Verify ==
  /\ pc = "verify"
  /\ IF proof.valid
     THEN /\ pc' = "compare"
          /\ UNCHANGED <<mode, network, request, inputs, proof, answer, exit, polluted, starts>>
     ELSE Fail("PROOF_FAILURE")

Compare ==
  /\ pc = "compare"
  /\ IF proof.value = ExpectedPublicValues(network, inputs)
     THEN /\ answer' = [kind |-> "proof", code |-> "none"]
          /\ IF mode = "daemon" THEN pc' = "serving" /\ UNCHANGED exit ELSE Exit(0)
          /\ UNCHANGED <<mode, network, request, inputs, proof, polluted, starts>>
     ELSE Fail("MISMATCH")

(* A panic, or the system, ends the process. *)
Crash ==
  /\ pc # "gone" /\ Exit(1)
  /\ UNCHANGED <<mode, network, request, inputs, proof, answer, polluted, starts>>

(* Nothing is left of the last process when another one starts. *)
Fresh ==
  /\ pc = "gone" /\ starts < MaxStarts /\ starts' = starts + 1
  /\ request' = Nothing /\ inputs' = Nothing /\ proof' = Nothing
  /\ answer' = NoAnswer /\ polluted' = FALSE

(* A worker, or somebody at a shell, starts a process. *)
Start(m, net) ==
  /\ Fresh /\ mode' = m /\ network' = net /\ pc' = "setup" /\ exit' = Nothing

(* All but the start, the arrival of lines and Compare. *)
ProcessStep ==
  \/ BadArguments \/ (\E r \in Requests : ReadArguments(r))
  \/ SetupSucceeds \/ SetupFails \/ SetupTimesOut
  \/ Decode \/ Execute \/ Prove \/ Verify
  \/ ReportTimeout \/ ExitAfterTimeout
  \/ Crash
-----------------------------------------------------------------------------
(***************************************************************************)
(* Properties                                                              *)
(***************************************************************************)

(* The inputs a request asks for, by name and not by position in stdin. *)
Asked == IF mode = "daemon" THEN DaemonInputs(request) ELSE ArgsInputs(request)

(* A proof that leaves the process verifies, and it is a proof of the very *)
(* transition that was asked for: the guest checked this state, witness,   *)
(* custody configuration and these fees, each in its own role, against     *)
(* these headers, and committed the value a contract computes from them.   *)
ProofMatchesRequest ==
  answer.kind = "proof" =>
    /\ proof.valid
    /\ WellSized(Asked) /\ Consistent(network, Asked)
    /\ proof.value = PublicValue(network, Asked)

(* Host and guest agree: an honest request is refused by neither of them,  *)
(* so that only the device, its deadlines or a bad proof can make it fail. *)
HostGuestAgree ==
  answer.kind = "error" /\ answer.code \in {"GUEST_EXIT", "MISMATCH"} =>
    ~(WellSized(Asked) /\ Consistent(network, Asked))
=============================================================================
