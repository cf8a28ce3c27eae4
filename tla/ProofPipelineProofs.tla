------------------------ MODULE ProofPipelineProofs -------------------------
(***************************************************************************)
(* Theorems about ProofPipeline, for every external verification, every    *)
(* set of requests and jobs and every number of processes.                 *)
(***************************************************************************)
EXTENDS ProofPipeline, GenProofProofs, RetainedGuestsProofs, JobIdentityProofs

(* No step of the pipeline does to the process what a process does not do. *)
LEMMA StepOfProcess == Next => ProcessNext \/ UNCHANGED processVars
BY JobsAssumption
   DEF Next, ProcessNext, StartProcess, Accept, Refuse, Answered, GivenBack, OtherInput, Proved,
       RunRetained

LEMMA ProcessAlways == Spec => []ProcessInv
<1>1. Init => ProcessInv
  BY ProcessInvInit DEF Init
<1>2. ProcessInv /\ [Next]_vars => ProcessInv'
  BY StepOfProcess, ProcessInvStep DEF vars
<1> QED BY <1>1, <1>2, PTL DEF Spec

(* A proof that leaves gen-proof, in any mode, is a proof of the very      *)
(* transition that was asked for, with every value in its own role,        *)
(* whatever the external verification accepts.                             *)
THEOREM ProofsMatch == Spec => []ProofMatchesRequest
<1>1. ProcessInv => ProofMatchesRequest
  BY DEF ProcessInv
<1> QED BY <1>1, ProcessAlways, PTL

(* The guest never rejects, nor does the host disagree with its value, but *)
(* when the transition that was asked for is not consistent.               *)
THEOREM HostAndGuestAgree == Spec => []HostGuestAgree
<1>1. ProcessInv => HostGuestAgree
  BY DEF ProcessInv
<1> QED BY <1>1, ProcessAlways, PTL

(* From the drop of a CUDA future to the end of its process, however many  *)
(* steps this takes and however it ends, no line is taken, no phase begun  *)
(* and no job accepted or ended; and a status of 75 is never anything but  *)
(* such a drop, told to the worker when there was a request.               *)
THEOREM NothingAfterDrop == Spec => DropIsLast
<1>1. ASSUME ProcessInv, ProcessInv', [Next]_vars PROVE [DropIsLastStep]_vars
  <2> SUFFICES ASSUME Next PROVE DropIsLastStep
    BY <1>1
  <2>1. ASSUME exit' = 75
        PROVE  polluted' /\ (mode' = "daemon" /\ request' # Nothing => answer'.code \in Timeouts)
    BY <1>1, <2>1 DEF ProcessInv, Dropped, TimeoutToldOf
  <2>2. ASSUME polluted, starts' = starts
        PROVE  pc' \in Timeouts \cup {"leaving", "gone"} /\ UNCHANGED <<accepted, published, commits>>
    <3>1. pc \in Timeouts \cup {"leaving", "gone"} /\ (answer.kind = "none" \/ answer.code \in Timeouts)
      BY <1>1, <2>2 DEF ProcessInv, Dropped
    <3>2. ~Fresh
      BY <1>1, <2>2, StartsAssumption DEF Fresh, ProcessInv, Places
    <3>3. CASE ProcessStep /\ UNCHANGED pipelineVars
      <4>1. polluted'
        BY <2>2, <3>3 DEF ProcessStep, BadArguments, ReadArguments, SetupSucceeds, SetupFails,
                          SetupTimesOut, Decode, Execute, Prove, Verify, ReportTimeout,
                          ExitAfterTimeout, Crash, Fail, TimeOut
      <4> QED BY <1>1, <3>3, <4>1 DEF ProcessInv, Dropped, pipelineVars
    <3>4. CASE GivenBack \/ Answered
      BY <3>1, <3>4 DEF GivenBack, Answered, processVars, Timeouts, Transient
    <3> QED
      BY <3>1, <3>2, <3>3, <3>4
         DEF Next, StartProcess, Start, Accept, Refuse, Ready, OtherInput, ReceiveGarbage,
             StdinCloses, Proved, Compare, RunRetained, Timeouts
  <2> QED BY <2>1, <2>2 DEF DropIsLastStep
<1> QED BY <1>1, ProcessAlways, PTL DEF Spec, DropIsLast

(* The types of the pipeline. *)
Kept ==
  /\ job \in Jobs \cup {NoJob} /\ accepted \subseteq Jobs
  /\ \A p \in published : p[1] \in Jobs

LEMMA KeptStep == Kept /\ [Next]_vars => Kept'
<1> SUFFICES ASSUME Kept, [Next]_vars PROVE Kept'
  OBVIOUS
<1> USE DEF Kept
<1>1. CASE UNCHANGED <<job, accepted, published>>
  BY <1>1
<1>2. ASSUME NEW j \in Jobs, NEW outcome, Publish(j, outcome) PROVE \A p \in published' : p[1] \in Jobs
  BY <1>2 DEF Publish
<1>3. ASSUME NEW j \in Jobs, Accept(j) \/ Refuse(j) PROVE Kept'
  BY <1>2, <1>3 DEF Accept, Refuse
<1>4. CASE Answered
  <2>1. job \in Jobs
    BY <1>4 DEF Answered
  <2> QED BY <1>2, <1>4, <2>1 DEF Answered
<1>5. CASE GivenBack
  BY <1>5 DEF GivenBack
<1>6. CASE UNCHANGED vars
  BY <1>1, <1>6 DEF vars, pipelineVars
<1> QED
  BY <1>1, <1>3, <1>4, <1>5, <1>6
     DEF Next, StartProcess, OtherInput, Proved, RunRetained, pipelineVars

THEOREM PipelineTypeCorrect == Spec => []PipelineTypeOK
<1>1. ProcessInv /\ Kept => PipelineTypeOK
  <2> SUFFICES ASSUME ProcessInv, Kept PROVE PipelineTypeOK
    OBVIOUS
  <2>1. Places /\ Working /\ Held
    BY DEF ProcessInv
  <2>2. PICK read : Asked = Inputs(request, read)
    BY AskedIsInputs
  <2>3. Decodable(Asked) => WellSized(Asked)
    BY <2>2, Sized
  <2> QED BY <2>1, <2>3, NothingAssumption DEF PipelineTypeOK, Places, Working, Held, Kept
<1>2. Init => Kept
  BY DEF Init, Kept
<1> QED BY <1>1, <1>2, KeptStep, ProcessAlways, PTL DEF Spec

-----------------------------------------------------------------------------
(* The values with a proof *)

Committed(c) ==
  \/ c[1] \in Networks /\ Consistent(c[1], c[2]) /\ c[3] = PublicValue(c[1], c[2])
  \/ c[1] = "manual_claim" /\ c[2] \in ManualInputs /\ c[3] \in ManualClaim(c[2])
  \/ c[1] = "custodian_transition" /\ c[2] \in CustodianInputs /\ c[3] \in CustodianTransition(c[2])

OnlyCommitted == \A c \in commits : Committed(c)

LEMMA OnlyCommittedStep == ProcessInv /\ OnlyCommitted /\ [Next]_vars => OnlyCommitted'
<1> SUFFICES ASSUME ProcessInv, OnlyCommitted, [Next]_vars PROVE OnlyCommitted'
  OBVIOUS
<1>1. CASE UNCHANGED commits
  BY <1>1 DEF OnlyCommitted
<1>2. CASE Proved
  <2>1. CASE answer'.kind = "proof"
    <3>1. ProcessInv'
      BY <1>2, ProcessInvStep DEF Proved, ProcessNext
    <3>2. pc = "compare" /\ UNCHANGED <<mode, network, request, inputs, proof>>
      <4>1. CASE proof.value = ExpectedPublicValues(network, inputs)
        BY <1>2, <4>1 DEF Proved, Compare
      <4>2. CASE proof.value # ExpectedPublicValues(network, inputs)
        <5>1. answer' = [kind |-> "error", code |-> "MISMATCH"]
          BY <1>2, <4>2 DEF Proved, Compare, Fail, Failure
        <5> QED BY <2>1, <5>1
      <4> QED BY <4>1, <4>2
    <3>3. inputs = Asked /\ network \in Networks
      BY <3>2, AtWork
    <3>4. Consistent(network, inputs) /\ proof.value = PublicValue(network, inputs)
      BY <2>1, <3>1, <3>2, <3>3 DEF ProcessInv, ProofMatchesRequest, Asked
    <3>5. Committed(<<network, inputs, proof.value>>)
      BY <3>3, <3>4 DEF Committed
    <3> QED BY <1>2, <2>1, <3>5 DEF Proved, OnlyCommitted
  <2> QED BY <1>1, <1>2, <2>1 DEF Proved
<1>3. ASSUME NEW i \in ManualInputs, RunRetained("manual_claim", i, ManualClaim(i))
      PROVE  OnlyCommitted'
  <2>1. \A v \in ManualClaim(i) : Committed(<<"manual_claim", i, v>>)
    BY DEF Committed
  <2> QED BY <1>3, <2>1 DEF RunRetained, OnlyCommitted
<1>4. ASSUME NEW i \in CustodianInputs,
             RunRetained("custodian_transition", i, CustodianTransition(i))
      PROVE  OnlyCommitted'
  <2>1. \A v \in CustodianTransition(i) : Committed(<<"custodian_transition", i, v>>)
    BY DEF Committed
  <2> QED BY <1>4, <2>1 DEF RunRetained, OnlyCommitted
<1> QED
  BY <1>1, <1>2, <1>3, <1>4
     DEF Next, StartProcess, Accept, Refuse, Answered, GivenBack, OtherInput, pipelineVars, vars

LEMMA CommitsAlways == Spec => []OnlyCommitted
<1>1. Init => OnlyCommitted
  BY DEF Init, OnlyCommitted
<1> QED BY <1>1, OnlyCommittedStep, ProcessAlways, PTL DEF Spec

(* What the public value of a transition was computed from. *)
LEMMA PublicValueBinds ==
  ASSUME NEW a, NEW b, NEW c, NEW d, NEW e, NEW f, NEW g, NEW h,
         BlockTransitionPublicInputs(a, b, c, d) = BlockTransitionPublicInputs(e, f, g, h)
  PROVE  a = e /\ b = f /\ c = g /\ d = h
<1>1. <<Sha256(<<a, b>>), c, d>> = <<Sha256(<<e, f>>), g, h>>
  BY HashInjective DEF BlockTransitionPublicInputs
<1>2. <<a, b>> = <<e, f>>
  BY <1>1, HashInjective
<1> QED BY <1>1, <1>2

(* A public value determines all its contract computes it from: of the     *)
(* claims everything the guest read, of a transition the headers, the      *)
(* configuration and the custodian.                                        *)
THEOREM ValuesBind == Spec => []ValuesBindStatements
<1>1. OnlyCommitted => ValuesBindStatements
  <2> SUFFICES ASSUME OnlyCommitted, NEW c \in commits, NEW d \in commits,
                      c[1] = d[1], c[3] = d[3]
               PROVE  Statement(c) = Statement(d)
    BY DEF ValuesBindStatements
  <2>1. Committed(c) /\ Committed(d)
    BY DEF OnlyCommitted
  <2>2. CASE c[1] \in Networks
    <3>1. PublicValue(c[1], c[2]) = PublicValue(d[1], d[2])
      BY <2>1, <2>2 DEF Committed, Networks
    <3>2. /\ Sha256(c[2].old_header.data) = Sha256(d[2].old_header.data)
          /\ Sha256(c[2].new_header.data) = Sha256(d[2].new_header.data)
          /\ Sha256(c[2].config_params.data) = Sha256(d[2].config_params.data)
          /\ CustodianHash(c[1], c[2].custody_script_config.data)
               = CustodianHash(d[1], d[2].custody_script_config.data)
      BY <3>1, PublicValueBinds DEF PublicValue
    <3>3. c[2].custody_script_config.data = d[2].custody_script_config.data
      BY <3>2 DEF CustodianHash
    <3> QED BY <2>2, <3>2, <3>3, HashInjective DEF Statement
  <2>3. CASE c[1] = "manual_claim"
    <3>1. /\ c[2] \in ManualInputs /\ c[3] \in ManualClaim(c[2])
          /\ d[2] \in ManualInputs /\ d[3] \in ManualClaim(d[2])
      BY <2>1, <2>3 DEF Committed, Networks
    <3>2. c[2] = d[2]
      BY <3>1, InputsAssumption, ManualClaimBindsInput
    <3> QED BY <2>3, <3>2 DEF Statement, Networks
  <2>4. CASE c[1] = "custodian_transition"
    <3>1. /\ c[2] \in CustodianInputs /\ c[3] \in CustodianTransition(c[2])
          /\ d[2] \in CustodianInputs /\ d[3] \in CustodianTransition(d[2])
      BY <2>1, <2>4 DEF Committed, Networks
    <3>2. c[2] = d[2]
      BY <3>1, InputsAssumption, CustodianTransitionBindsInput
    <3> QED BY <2>4, <3>2 DEF Statement, Networks
  <2> QED BY <2>1, <2>2, <2>3, <2>4 DEF Committed
<1> QED BY <1>1, CommitsAlways, PTL

(* Two transitions whose values fit together at a stored header. *)
LEMMA ValuesJoin ==
  ASSUME NEW c, NEW d,
         Consistent(c[1], c[2]), c[3] = PublicValue(c[1], c[2]),
         Consistent(d[1], d[2]), d[3] = PublicValue(d[1], d[2])
  PROVE  Joined(c, d)
<1> SUFFICES ASSUME Continues(c, d), NEW f \in FinalizedFields
             PROVE  Verified(c[1], c[2]).new[f] = Verified(d[1], d[2]).old[f]
  BY DEF Joined
<1>1. PICK stored : /\ c[3] = ExpectedFrom(Sha256(c[2].old_header.data), stored, c)
                    /\ d[3] = ExpectedFrom(stored, Sha256(d[2].new_header.data), d)
  BY DEF Continues
<1>2. Sha256(c[2].new_header.data) = stored
  <2>1. PublicValue(c[1], c[2]) = ExpectedFrom(Sha256(c[2].old_header.data), stored, c)
    BY <1>1
  <2> QED BY <2>1, PublicValueBinds DEF ExpectedFrom, PublicValue
<1>3. Sha256(d[2].old_header.data) = stored
  <2>1. PublicValue(d[1], d[2]) = ExpectedFrom(stored, Sha256(d[2].new_header.data), d)
    BY <1>1
  <2> QED BY <2>1, PublicValueBinds DEF ExpectedFrom, PublicValue
<1>4. c[2].new_header.data = d[2].old_header.data
  BY <1>2, <1>3, HashInjective
<1> DEFINE header == d[2].old_header.data
           new == Verified(c[1], c[2]).new
           old == Verified(d[1], d[2]).old
<1>5. VerifyFinalizedStateFields(header, new) /\ VerifyFinalizedStateFields(header, old)
  BY <1>4 DEF Consistent
<1> HIDE DEF header, new, old
<1>6. new[f] = old[f]
  BY <1>5 DEF VerifyFinalizedStateFields, FinalizedFields
<1> QED BY <1>6 DEF new, old

(* Values that fit together at a stored header prove transitions that fit  *)
(* together in every finalized field, whoever asked for the proofs and     *)
(* whatever else their runs were given.                                    *)
THEOREM ContinuousChain == Spec => []ChainIsContinuous
<1>1. OnlyCommitted => ChainIsContinuous
  <2> SUFFICES ASSUME OnlyCommitted, NEW c \in commits, NEW d \in commits,
                      c[1] \in Networks, d[1] \in Networks
               PROVE  Joined(c, d)
    BY DEF ChainIsContinuous
  <2>1. /\ Consistent(c[1], c[2]) /\ c[3] = PublicValue(c[1], c[2])
        /\ Consistent(d[1], d[2]) /\ d[3] = PublicValue(d[1], d[2])
    BY DEF OnlyCommitted, Committed, Networks
  <2> QED BY <2>1, ValuesJoin
<1> QED BY <1>1, CommitsAlways, PTL

-----------------------------------------------------------------------------
(* The jobs and their results *)

(* What a worker compared before it sent the request of a job. *)
Compared(j) ==
  /\ ValidateJob(j, j.network) /\ j.network \in Networks
  /\ j.guest_id = BlockProgram(j.network).guest_id
  /\ j.block_elf_sha256 = Hex(Sha256(BlockProgram(j.network).block_elf))
  /\ j.vkey_hash = VkeyHash(BlockProgram(j.network).block_elf)

AllCompared == accepted \subseteq Jobs /\ \A j \in accepted : Compared(j)

(* The process still works on the job of the worker. *)
Linked ==
  job # NoJob =>
    job \in accepted /\ mode = "daemon" /\ network = job.network /\ request = job.request

LEMMA AllComparedStep == ProcessInv /\ AllCompared /\ [Next]_vars => AllCompared'
<1> SUFFICES ASSUME ProcessInv, AllCompared, [Next]_vars PROVE AllCompared'
  OBVIOUS
<1>1. CASE UNCHANGED accepted
  BY <1>1 DEF AllCompared
<1>2. ASSUME NEW j \in Jobs, Accept(j) PROVE AllCompared'
  <2>1. network \in Networks
    BY DEF ProcessInv, Places
  <2>2. ValidateJob(j, network) /\ ValidateDaemonIdentity(j, Identity) /\ j.network = network
    BY <1>2 DEF Accept, ValidateJob
  <2>3. Compared(j)
    BY <2>1, <2>2 DEF Compared, ValidateDaemonIdentity, Identity
  <2> QED BY <1>2, <2>3 DEF Accept, AllCompared
<1> QED
  BY <1>1, <1>2
     DEF Next, StartProcess, Refuse, Answered, GivenBack, OtherInput, Proved, RunRetained,
         pipelineVars, vars

LEMMA LinkedStep == ProcessInv /\ Kept /\ Linked /\ [Next]_vars => Linked'
<1> SUFFICES ASSUME ProcessInv, Kept, Linked, [Next]_vars PROVE Linked'
  OBVIOUS
<1> USE DEF Linked
<1>1. CASE job' = NoJob
  BY <1>1
<1>2. CASE UNCHANGED <<job, accepted, mode, network, request>>
  BY <1>2
<1>3. ASSUME NEW j \in Jobs, Accept(j) PROVE Linked'
  <2>1. j.network = network
    BY <1>3 DEF Accept, ValidateJob
  <2> QED BY <1>3, <2>1 DEF Accept, Ready, Receive
<1>4. CASE ProcessStep /\ UNCHANGED pipelineVars
  <2>1. CASE \E r \in Requests : ReadArguments(r)
    BY <1>1, <1>4, <2>1 DEF ReadArguments, pipelineVars
  <2>2. CASE UNCHANGED <<mode, network, request>>
    BY <1>2, <1>4, <2>2 DEF pipelineVars
  <2> QED
    BY <1>4, <2>1, <2>2
       DEF ProcessStep, BadArguments, SetupSucceeds, SetupFails, SetupTimesOut, Decode, Execute,
           Prove, Verify, ReportTimeout, ExitAfterTimeout, Crash, Fail, TimeOut
<1>5. CASE Proved
  BY <1>2, <1>5 DEF Proved, Compare, Fail
<1>6. CASE \E j \in Jobs : Refuse(j)
  BY <1>1, <1>6 DEF Refuse, Ready
<1>7. CASE OtherInput
  BY <1>1, <1>7 DEF OtherInput, pipelineVars
<1>8. CASE \E m \in Mode, net \in Networks : StartProcess(m, net)
  BY <1>1, <1>8 DEF StartProcess, pipelineVars
<1>9. CASE Answered \/ GivenBack
  BY <1>1, <1>9 DEF Answered, GivenBack
<1>10. CASE \/ \E i \in ManualInputs : RunRetained("manual_claim", i, ManualClaim(i))
            \/ \E i \in CustodianInputs : RunRetained("custodian_transition", i, CustodianTransition(i))
  BY <1>1, <1>10 DEF RunRetained
<1>11. CASE UNCHANGED vars
  BY <1>2, <1>11 DEF vars, processVars, pipelineVars
<1> QED BY <1>3, <1>4, <1>5, <1>6, <1>7, <1>8, <1>9, <1>10, <1>11 DEF Next

Bookkeeping == Kept /\ AllCompared /\ Linked

LEMMA BookkeepingAlways == Spec => []Bookkeeping
<1>1. Init => Bookkeeping
  BY DEF Init, Bookkeeping, Kept, AllCompared, Linked
<1>2. ProcessInv /\ Bookkeeping /\ [Next]_vars => Bookkeeping'
  BY KeptStep, AllComparedStep, LinkedStep DEF Bookkeeping
<1> QED BY <1>1, <1>2, ProcessAlways, PTL DEF Spec

(* Records that agree in all their fields, digests field by field. *)
LEMMA JobsEqual ==
  ASSUME NEW j, NEW k, IsJob(j), IsJob(k),
         \A f \in Digests : j[f].form = k[f].form /\ j[f].digest = k[f].digest,
         \A f \in JobFields \ Digests : j[f] = k[f]
  PROVE  j = k
<1>1. \A f \in Digests : j[f] = k[f]
  BY DEF IsJob
<1>2. \A f \in JobFields : j[f] = k[f]
  BY <1>1
<1>3. [f \in JobFields |-> j[f]] = [f \in JobFields |-> k[f]]
  BY <1>2
<1> QED BY <1>3 DEF IsJob

LEMMA IdNamesJob == AllCompared => SameIdSameWork
<1> SUFFICES ASSUME AllCompared, NEW j \in accepted, NEW k \in accepted, j.job_id = k.job_id
             PROVE  j = k
  BY DEF SameIdSameWork
<1>1. j \in Jobs /\ k \in Jobs /\ Compared(j) /\ Compared(k)
  BY DEF AllCompared
<1>2. ComputedJobId(j) = ComputedJobId(k)
  BY <1>1 DEF Compared, ValidateJob
<1>3. /\ {Utf8(j.network), Utf8(j.guest_id), Json(j.request)} \subseteq Seq(Byte)
      /\ {Utf8(k.network), Utf8(k.guest_id), Json(k.request)} \subseteq Seq(Byte)
  BY <1>1, EncodingAssumption
<1>4. /\ j.schema_version = k.schema_version /\ j.height = k.height
      /\ j.parent_checkpoint_sha256.digest = k.parent_checkpoint_sha256.digest
      /\ j.input_fingerprint.digest = k.input_fingerprint.digest
      /\ j.block_elf_sha256.digest = k.block_elf_sha256.digest
      /\ j.vkey_hash.digest = k.vkey_hash.digest
      /\ Utf8(j.network) = Utf8(k.network) /\ Utf8(j.guest_id) = Utf8(k.guest_id)
      /\ Json(j.request) = Json(k.request)
  BY <1>2, <1>3, JobIdBinds
<1>5. j.network = k.network /\ j.guest_id = k.guest_id /\ j.request = k.request
  BY <1>1, <1>4, EncodingAssumption
<1>6. \A f \in JobFields \ Digests : j[f] = k[f]
  BY <1>4, <1>5 DEF JobFields, Digests
<1>7. \A f \in Digests : j[f].form = k[f].form /\ j[f].digest = k[f].digest
  BY <1>1, <1>4 DEF Digests, Compared, ValidateJob, IsHex32
<1>8. IsJob(j) /\ IsJob(k)
  BY <1>1, JobsAssumption
<1> QED BY <1>6, <1>7, <1>8, JobsEqual

(* Two accepted jobs with one id are one job, whatever strings, requests   *)
(* and digests jobs are made of.                                           *)
THEOREM IdIsOneJob == Spec => []SameIdSameWork
<1>1. Bookkeeping => SameIdSameWork
  BY IdNamesJob DEF Bookkeeping
<1> QED BY <1>1, BookkeepingAlways, PTL

-----------------------------------------------------------------------------
(* Without files, what is decoded is what was spelt out. *)
LEMMA DecodedIsSpeltOut ==
  ASSUME NEW r, Decodable(DaemonInputs(r))
  PROVE  DaemonInputs(r) = SpeltOut(r)
<1> DEFINE read == [f \in Texts |-> DecodeInline(r[f])]
<1>1. \A f \in Texts : read[f] # NotHex
  <2>1. Decodable(Inputs(r, read))
    BY DEF DaemonInputs
  <2> HIDE DEF read
  <2> QED BY <2>1 DEF Decodable, Decodes, Inputs, Texts
<1>2. \A f \in Texts : DecodeInline(r[f]) = r[f].inline
  BY <1>1 DEF DecodeInline
<1>3. read = [f \in Texts |-> r[f].inline]
  BY <1>2
<1> QED BY <1>3 DEF DaemonInputs, SpeltOut

(* The one answer to a job. *)
ResponseTo(j) ==
  [kind |-> "proof", request_id |-> j.request.request_id, ok |-> TRUE,
   network |-> j.network, guest_id |-> j.guest_id,
   block_elf_sha256 |-> j.block_elf_sha256, vkey_hash |-> j.vkey_hash,
   proof_size |-> GROTH16_PROOF_BYTES, public_values_size |-> PUBLIC_VALUES_BYTES,
   public_values |-> PublicValue(j.network, SpeltOut(j.request))]

Proves(p) ==
  p[2].outcome.status = "Success" =>
    /\ p[1] \in accepted /\ p[2] = ResultWith(p[1], Success(ResponseTo(p[1])))
    /\ Consistent(p[1].network, SpeltOut(p[1].request))

AllProve == \A p \in published : Proves(p)

(* An answer that passes the comparisons is the one answer to the job. *)
LEMMA TheResponse ==
  ASSUME ProcessInv, Bookkeeping, job # NoJob, answer.kind = "proof",
         ValidateProofResponse(job, Response)
  PROVE  /\ Response = ResponseTo(job) /\ job \in accepted
         /\ Consistent(job.network, SpeltOut(job.request))
<1>1. job \in accepted /\ mode = "daemon" /\ network = job.network /\ request = job.request
  BY DEF Bookkeeping, Linked
<1>2. Compared(job)
  BY <1>1 DEF Bookkeeping, AllCompared
<1>3. Asked = SpeltOut(job.request)
  BY <1>1, DecodedIsSpeltOut DEF ProcessInv, Proven, Asked
<1>4. Consistent(network, Asked) /\ proof.value = PublicValue(network, Asked)
  BY DEF ProcessInv, ProofMatchesRequest
<1>5. proof.size = GROTH16_PROOF_BYTES
  BY DEF ValidateProofResponse, Response
<1>6. Response = ResponseTo(job)
  <2>1. /\ Identity.network = job.network /\ Identity.guest_id = job.guest_id
        /\ Identity.block_elf_sha256 = job.block_elf_sha256 /\ Identity.vkey_hash = job.vkey_hash
    BY <1>1, <1>2 DEF Identity, Compared
  <2> QED BY <1>1, <1>3, <1>4, <1>5, <2>1 DEF Response, ResponseTo
<1> QED BY <1>1, <1>3, <1>4, <1>6

LEMMA AllProveStep == ProcessInv /\ Bookkeeping /\ AllProve /\ [Next]_vars => AllProve'
<1> SUFFICES ASSUME ProcessInv, Bookkeeping, AllProve, [Next]_vars PROVE AllProve'
  OBVIOUS
<1>1. CASE accepted \subseteq accepted' /\ UNCHANGED published
  BY <1>1 DEF AllProve, Proves
<1>2. ASSUME NEW j, Publish(j, Error), UNCHANGED accepted PROVE AllProve'
  <2>1. <<j, ResultWith(j, Error)>>[2].outcome.status = "Error"
    BY DEF ResultWith, Error
  <2>2. \A p \in published' : p \in published \/ p = <<j, ResultWith(j, Error)>>
    BY <1>2 DEF Publish
  <2> QED BY <1>2, <2>1, <2>2 DEF AllProve, Proves
<1>3. CASE Answered
  <2>1. CASE OutcomeOf = Error
    BY <1>2, <1>3, <2>1 DEF Answered
  <2>2. CASE answer.kind = "proof" /\ ValidateProofResponse(job, Response)
    <3>1. /\ Response = ResponseTo(job) /\ job \in accepted
          /\ Consistent(job.network, SpeltOut(job.request))
      BY <1>3, <2>2, TheResponse DEF Answered
    <3>2. OutcomeOf = Success(ResponseTo(job))
      BY <2>2, <3>1 DEF OutcomeOf
    <3>3. Proves(<<job, ResultWith(job, Success(ResponseTo(job)))>>)
      BY <3>1 DEF Proves
    <3>4. /\ published' = published \cup {<<job, ResultWith(job, Success(ResponseTo(job)))>>}
          /\ accepted' = accepted
      BY <1>3, <3>2 DEF Answered, Publish
    <3> QED BY <3>3, <3>4 DEF AllProve, Proves
  <2> QED BY <2>1, <2>2 DEF OutcomeOf
<1>4. CASE \E j \in Jobs : Refuse(j)
  BY <1>2, <1>4 DEF Refuse
<1> QED
  BY <1>1, <1>3, <1>4
     DEF Next, StartProcess, Accept, GivenBack, OtherInput, Proved, RunRetained, pipelineVars, vars

(* Every published proof is the one answer to its job, and for one id only *)
(* one statement is ever published.                                        *)
THEOREM ResultsProve == Spec => []ResultProvesJob
<1>1. Bookkeeping /\ AllProve => ResultProvesJob
  <2> SUFFICES ASSUME Bookkeeping, AllProve PROVE ResultProvesJob
    OBVIOUS
  <2>1. ASSUME NEW p \in published, p[2].outcome.status = "Success"
        PROVE  /\ p[1] \in accepted /\ p[2] = ResultWith(p[1], Success(ResponseTo(p[1])))
               /\ p[2].outcome.response = ResponseTo(p[1]) /\ p[2].job_id = p[1].job_id
               /\ Consistent(p[1].network, SpeltOut(p[1].request)) /\ Compared(p[1])
    <3>1. Proves(p)
      BY DEF AllProve
    <3>2. Compared(p[1])
      BY <2>1, <3>1 DEF Proves, Bookkeeping, AllCompared
    <3> QED BY <2>1, <3>1, <3>2 DEF Proves, ResultWith, Success
  <2>2. ASSUME NEW p \in published, p[2].outcome.status = "Success"
        PROVE  LET j == p[1]
                   r == p[2].outcome.response
                   in == SpeltOut(j.request)
               IN  /\ p[2] = ResultWith(j, Success(r)) /\ j.job_id = ComputedJobId(j)
                   /\ Consistent(j.network, in) /\ r.public_values = PublicValue(j.network, in)
                   /\ r.block_elf_sha256 = j.block_elf_sha256
                   /\ j.block_elf_sha256 = Hex(Sha256(BlockProgram(j.network).block_elf))
                   /\ r.vkey_hash = j.vkey_hash /\ r.proof_size = GROTH16_PROOF_BYTES
    <3> DEFINE j == p[1]
               r == p[2].outcome.response
    <3>1. r = ResponseTo(j) /\ p[2] = ResultWith(j, Success(ResponseTo(j))) /\ Compared(j)
      BY <2>1, <2>2
    <3>2. p[2] = ResultWith(j, Success(r)) /\ Consistent(j.network, SpeltOut(j.request))
      BY <2>1, <2>2, <3>1
    <3>3. /\ r.public_values = PublicValue(j.network, SpeltOut(j.request))
          /\ r.block_elf_sha256 = j.block_elf_sha256
          /\ r.vkey_hash = j.vkey_hash /\ r.proof_size = GROTH16_PROOF_BYTES
      BY <3>1 DEF ResponseTo
    <3>4. /\ j.job_id = ComputedJobId(j)
          /\ j.block_elf_sha256 = Hex(Sha256(BlockProgram(j.network).block_elf))
      BY <3>1 DEF Compared, ValidateJob
    <3> HIDE DEF j, r
    <3> QED BY <3>2, <3>3, <3>4 DEF j, r
  <2>3. ASSUME NEW p \in published, NEW q \in published,
               p[2].outcome.status = "Success", q[2].outcome.status = "Success",
               p[2].job_id = q[2].job_id
        PROVE  p[2] = q[2]
    <3>1. p[1] = q[1]
      BY <2>1, <2>3, IdNamesJob DEF Bookkeeping, SameIdSameWork
    <3> QED BY <2>1, <2>3, <3>1
  <2> QED BY <2>2, <2>3 DEF ResultProvesJob
<1>2. Init => AllProve
  BY DEF Init, AllProve
<1> QED BY <1>1, <1>2, AllProveStep, ProcessAlways, BookkeepingAlways, PTL DEF Spec

(* Jobs whose results fit together at a stored header are, as they are     *)
(* spelt out, successive parts of one chain: the inputs and the value a    *)
(* consumer of the queue sees are those of the proof.                      *)
THEOREM ResultsChain == Spec => []PublishedChain
<1>1. ResultProvesJob => PublishedChain
  <2> SUFFICES ASSUME ResultProvesJob, NEW p \in published, NEW q \in published,
                      p[2].outcome.status = "Success", q[2].outcome.status = "Success"
               PROVE  Joined(InResult(p), InResult(q))
    BY DEF PublishedChain
  <2>1. ASSUME NEW x \in published, x[2].outcome.status = "Success"
        PROVE  /\ Consistent(InResult(x)[1], InResult(x)[2])
               /\ InResult(x)[3] = PublicValue(InResult(x)[1], InResult(x)[2])
    BY <2>1 DEF ResultProvesJob, InResult
  <2> HIDE DEF InResult
  <2> QED BY <2>1, ValuesJoin
<1> QED BY <1>1, ResultsProve, PTL
=============================================================================
