--------------------------- MODULE ProofPipeline ----------------------------
(***************************************************************************)
(* From a job to its published result: workers that accept jobs, the       *)
(* gen-proof processes that compute proofs for them or for somebody at a   *)
(* command line, the guests that run inside, and everything these ever     *)
(* committed.  Leases and retries are in ProofQueue and ProofWorker, lines *)
(* and deadlines in DaemonSession; here the contents count.                *)
(***************************************************************************)
EXTENDS GenProof, JobIdentity, RetainedGuests, FiniteSets

CONSTANTS
  Jobs,          \* the jobs somebody may submit; their requests are Requests
  NoJob,         \* the worker has none
  ManualInputs, CustodianInputs,   \* what the retained guests may read
  MaxWork        \* bound: how many processes and jobs together

ASSUME JobsAssumption ==
  NoJob \notin Jobs /\ \A j \in Jobs : IsJob(j) /\ j.request \in Requests

(* Strings and requests are written as bytes, different ones differently. *)
ASSUME EncodingAssumption ==
  \A j, k \in Jobs :
    /\ {Utf8(j.network), Utf8(j.guest_id), Json(j.request)} \subseteq Seq(Byte)
    /\ Utf8(j.network) = Utf8(k.network) => j.network = k.network
    /\ Utf8(j.guest_id) = Utf8(k.guest_id) => j.guest_id = k.guest_id
    /\ Json(j.request) = Json(k.request) => j.request = k.request

(* What the guests read is a sequence of bytes. *)
ASSUME InputsAssumption == ManualInputs \cup CustodianInputs \subseteq Seq(0..255)

VARIABLES
  job,           \* the job the worker proves
  accepted,      \* the jobs that passed all checks before a request
  published,     \* <<job, result>>: the results workers published
  commits        \* <<program, what was read, value>>: values with a proof

pipelineVars == <<job, accepted, published, commits>>
vars         == <<processVars, pipelineVars>>

Success(response) == [status |-> "Success", response |-> response]
Error == [status |-> "Error", response |-> Nothing]

(* The identity line, its digests as bare digits.  bytes32() is the SDK's; *)
(* README also allows 0x before its digits, but then no daemon starts (run *)
(* vkey_form), and there is no pipeline to speak of.                       *)
VkeyHash(elf) == Hex([vkey_of |-> elf])

Identity ==
  LET program == BlockProgram(network)
  IN  [kind |-> "identity", protocol_version |-> DAEMON_PROTOCOL_VERSION,
       network |-> network, guest_id |-> program.guest_id,
       block_elf_sha256 |-> Hex(Sha256(program.block_elf)),
       vkey_hash |-> VkeyHash(program.block_elf)]

Response ==
  [kind |-> "proof", request_id |-> request.request_id, ok |-> TRUE,
   network |-> Identity.network, guest_id |-> Identity.guest_id,
   block_elf_sha256 |-> Identity.block_elf_sha256, vkey_hash |-> Identity.vkey_hash,
   proof_size |-> proof.size, public_values_size |-> PUBLIC_VALUES_BYTES,
   public_values |-> proof.value]

Init ==
  /\ ProcessInit
  /\ job = NoJob /\ accepted = {} /\ published = {} /\ commits = {}

Publish(j, outcome) == published' = published \cup {<<j, ResultWith(j, outcome)>>}

-----------------------------------------------------------------------------
Ready == mode = "daemon" /\ pc = "serving" /\ job = NoJob

Met == accepted \cup {p[1] : p \in published}

Room(j) == starts + Cardinality(Met \cup {j}) <= MaxWork

(* One process after another: what one leaves is settled first. *)
StartProcess(m, net) ==
  /\ job = NoJob /\ Start(m, net) /\ starts + Cardinality(Met) < MaxWork
  /\ UNCHANGED pipelineVars

(* prove_claim, up to the request. *)
Accept(j) ==
  /\ Ready /\ Room(j)
  /\ ValidateJob(j, network) /\ ValidateDaemonIdentity(j, Identity)
  /\ Receive(j.request)
  /\ job' = j /\ accepted' = accepted \cup {j}
  /\ UNCHANGED <<published, commits>>

(* It fails for good: finish_error, and the daemon is kept. *)
Refuse(j) ==
  /\ Ready /\ Room(j)
  /\ ~(ValidateJob(j, network) /\ ValidateDaemonIdentity(j, Identity))
  /\ Publish(j, Error)
  /\ UNCHANGED <<processVars, job, accepted, commits>>

(* An error answer: the codes of WorkerFailure::daemon_error. *)
Transient == {"EXECUTE_TIMEOUT", "PROVE_TIMEOUT"}

(* The answer to the job's request, also if it was the last thing the      *)
(* process wrote.                                                          *)
OutcomeOf ==
  IF answer.kind = "proof" /\ ValidateProofResponse(job, Response)
  THEN Success(Response) ELSE Error

Answered ==
  /\ job # NoJob /\ answer.kind \in {"proof", "error"} /\ answer.code \notin Transient
  /\ Publish(job, OutcomeOf)
  /\ job' = NoJob /\ UNCHANGED <<processVars, accepted, commits>>

(* A timeout, or the process went and its answer, if any, did not arrive:  *)
(* another attempt may follow, with another process.                       *)
GivenBack ==
  /\ job # NoJob /\ pc = "gone"
  /\ job' = NoJob /\ UNCHANGED <<processVars, accepted, published, commits>>

(* Whatever else is written to a daemon, or its end of input, comes while  *)
(* no worker waits for an answer.                                          *)
OtherInput == job = NoJob /\ (ReceiveGarbage \/ StdinCloses) /\ UNCHANGED pipelineVars

(* A proof that is given away may be shown to the contract. *)
Proved ==
  /\ Compare
  /\ commits' = IF answer'.kind = "proof"
                THEN commits \cup {<<network, inputs, proof.value>>} ELSE commits
  /\ UNCHANGED <<job, accepted, published>>

(* The retained guests are run by hosts outside the repository. *)
RunRetained(program, input, values) ==
  /\ job = NoJob /\ Fresh /\ exit' = 0
  /\ commits' = commits \cup {<<program, input, v>> : v \in values}
  /\ UNCHANGED <<mode, network, pc, job, accepted, published>>

Next ==
  \/ \E m \in Mode, net \in Networks : StartProcess(m, net)
  \/ ProcessStep /\ UNCHANGED pipelineVars
  \/ \E j \in Jobs : Accept(j) \/ Refuse(j)
  \/ Answered \/ GivenBack \/ OtherInput
  \/ Proved
  \/ \E i \in ManualInputs : RunRetained("manual_claim", i, ManualClaim(i))
  \/ \E i \in CustodianInputs : RunRetained("custodian_transition", i, CustodianTransition(i))

Spec == Init /\ [][Next]_vars
-----------------------------------------------------------------------------
(***************************************************************************)
(* Properties                                                              *)
(***************************************************************************)

PipelineTypeOK ==
  /\ mode \in Mode /\ network \in Networks /\ pc \in Pc
  /\ request \in Requests \cup {Nothing}
  /\ answer.kind \in {"none", "identity", "vkey", "proof", "error"}
  /\ exit \in {Nothing, 0, 1, 75} /\ (exit = Nothing <=> pc # "gone")
  /\ pc \in {"execute", "prove", "verify", "compare"} =>
       request # Nothing /\ inputs = Asked /\ Decodable(inputs) /\ WellSized(inputs)
  /\ pc \in {"verify", "compare"} => proof \in ProofsFor(Guest(network, IntoStdin(inputs)))
  /\ starts \in 0..MaxStarts
  /\ job \in Jobs \cup {NoJob} /\ accepted \subseteq Jobs
  /\ \A p \in published : p[1] \in Jobs

(* "Cancelling an in-flight CUDA future does not reliably reclaim GPU      *)
(* resources": from the drop on, through every step up to the end and      *)
(* whichever way the process ends, it takes no line and starts no phase,   *)
(* and its worker ends no job, so that the one at hand goes to another     *)
(* process (lines torn on the way are in DaemonSession).  And the status   *)
(* 75, which a supervisor reads as such a drop, is one: a daemon with a    *)
(* request has told the worker before.                                     *)
DropIsLastStep ==
  /\ polluted /\ starts' = starts =>
       /\ pc' \in Timeouts \cup {"leaving", "gone"}
       /\ UNCHANGED <<accepted, published, commits>>
  /\ exit' = 75 =>
       polluted' /\ (mode' = "daemon" /\ request' # Nothing => answer'.code \in Timeouts)

DropIsLast == [][DropIsLastStep]_vars

(* An id names one job: results are kept under the id, and a producer that *)
(* finds one takes it for its own job.  Two accepted jobs with the same id *)
(* are the same in every field, down to the spelling of their digests.     *)
SameIdSameWork == \A j, k \in accepted : j.job_id = k.job_id => j = k

(* The inputs a job spells out, which no file of the worker's machine has  *)
(* a part in.                                                              *)
SpeltOut(r) == Inputs(r, [f \in Texts |-> r[f].inline])

(* A published proof proves the job it is published for, by the program    *)
(* and under the key the job names, and whoever publishes for the same id  *)
(* publishes the same statement.                                           *)
ResultProvesJob ==
  /\ \A p \in published : p[2].outcome.status = "Success" =>
       LET j == p[1]
           r == p[2].outcome.response
           in == SpeltOut(j.request)
       IN  /\ p[2] = ResultWith(j, Success(r)) /\ j.job_id = ComputedJobId(j)
           /\ Consistent(j.network, in) /\ r.public_values = PublicValue(j.network, in)
           /\ r.block_elf_sha256 = j.block_elf_sha256
           /\ j.block_elf_sha256 = Hex(Sha256(BlockProgram(j.network).block_elf))
           /\ r.vkey_hash = j.vkey_hash /\ r.proof_size = GROTH16_PROOF_BYTES
  /\ \A p, q \in published :
       p[2].outcome.status = "Success" /\ q[2].outcome.status = "Success"
         /\ p[2].job_id = q[2].job_id => p[2] = q[2]

(* What a contract computes a public value from: everything the retained   *)
(* guests read, and of a transition the headers, the configuration and     *)
(* the custodian, not the state, the witnesses or the fees.                *)
Statement(c) ==
  IF c[1] \in Networks
  THEN <<c[2].old_header.data, c[2].new_header.data, c[2].config_params.data,
         c[2].custody_script_config.data>>
  ELSE c[2]

(* No committed value can be presented for another statement: a proof of   *)
(* one deposit, recipient, custodian or header never passes for another.   *)
ValuesBindStatements ==
  \A c, d \in commits : c[1] = d[1] /\ c[3] = d[3] => Statement(c) = Statement(d)

(* The contract stores one header and accepts a value computed from it and *)
(* the next.  Whenever two values fit together in this way, by whomever    *)
(* they were proved, the second run started from the finalized state the   *)
(* first one ended in, although neither guest saw the other's state.       *)
ExpectedFrom(old, new, c) ==
  BlockTransitionPublicInputs(old, new, Sha256(c[2].config_params.data),
                              CustodianHash(c[1], c[2].custody_script_config.data))

Continues(c, d) ==
  \E stored \in {Sha256(c[2].new_header.data), Sha256(d[2].old_header.data)} :
    /\ c[3] = ExpectedFrom(Sha256(c[2].old_header.data), stored, c)
    /\ d[3] = ExpectedFrom(stored, Sha256(d[2].new_header.data), d)

Joined(c, d) ==
  Continues(c, d) =>
    \A f \in FinalizedFields : Verified(c[1], c[2]).new[f] = Verified(d[1], d[2]).old[f]

ChainIsContinuous == \A c, d \in {x \in commits : x[1] \in Networks} : Joined(c, d)

(* The same for a consumer of the queue, who has nothing but jobs and      *)
(* their results: if the values of two results fit together, the two jobs  *)
(* as they are spelt out are successive parts of one chain, whichever      *)
(* workers, processes and attempts the results came from.                  *)
InResult(p) == <<p[1].network, SpeltOut(p[1].request), p[2].outcome.response.public_values>>

PublishedChain ==
  \A p, q \in {x \in published : x[2].outcome.status = "Success"} : Joined(InResult(p), InResult(q))
=============================================================================
