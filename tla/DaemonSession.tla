--------------------------- MODULE DaemonSession ----------------------------
(***************************************************************************)
(* One worker and its gen-proof --daemon child, joined by two pipes:       *)
(* run_daemon of script/src/bin/gen_proof.rs on one side, and              *)
(* GenProofDaemon::start, send_request, stop and prove_claim of            *)
(* script/src/bin/doge_proof_worker.rs on the other.                       *)
(*                                                                         *)
(* write_json_line serialises straight into an unbuffered pipe, so a line  *)
(* arrives in several pieces; here in two, of which the second ends it.    *)
(* read_protocol_line collects the pieces in a local variable.  prove_claim*)
(* polls it in a select! next to the heartbeat timer and starts it anew in *)
(* every round, so a heartbeat between two pieces loses the first one.     *)
(*                                                                         *)
(* Request ids are chosen by whoever submits jobs and need not differ, so  *)
(* nothing here relies on validate_proof_response telling answers apart.   *)
(***************************************************************************)
EXTENDS Naturals, Sequences

CONSTANTS
  Jobs,          \* the jobs the worker proves, in any order and repeatedly
  NoJob,         \* no job
  VkeyForms      \* the forms of vkey_hash in an identity line

(* Hexadecimal digits alone, or after 0x (README: "<0x-or-hex VK>"). *)
VkeyForm == {"bare", "prefixed"}

ASSUME JobsAssumption  == NoJob \notin Jobs
ASSUME FormsAssumption == VkeyForms \subseteq VkeyForm /\ VkeyForms # {}

VARIABLES
  pc,            \* the worker: where prove_claim and start stand
  job,           \* the worker: the job it proves
  line,          \* the worker: what the present read_protocol_line has read
  verdict,       \* the worker: what prove_claim returned last
  child,         \* the daemon process
  work,          \* the daemon: the request it works on
  out,           \* the daemon: the line it is writing
  stdin,         \* request lines on their way to the daemon
  stdout,        \* pieces of lines on their way to the worker
  polluted       \* history, not kept by the code: this process dropped a CUDA future

workerVars == <<pc, job, line, verdict>>
daemonVars == <<child, work, out, stdin, stdout, polluted>>
vars       == <<workerVars, daemonVars>>

Running == {"setup", "serving", "executing", "proving", "writing", "leaving"}
Gone    == {"exit75", "exited"}

Identity(form) == [kind |-> "identity", job |-> NoJob, vkey |-> form]
Answer(kind, j) == [kind |-> kind, job |-> j, vkey |-> "bare"]
Nothing == [kind |-> "nothing", job |-> NoJob, vkey |-> "bare"]

Message == [kind: {"identity", "proof", "error", "timeout", "nothing"},
            job: Jobs \cup {NoJob}, vkey: VkeyForm]

Piece == [ends: BOOLEAN, msg: Message]

(* What prove_claim returns: the proof computed for some job, or a failure *)
(* that is permanent, or transient (to be retried with a new daemon).      *)
NoVerdict == [kind |-> "none", of |-> NoJob, proof |-> NoJob]

Verdict == [kind: {"none", "proof", "permanent", "transient"},
            of: Jobs \cup {NoJob}, proof: Jobs \cup {NoJob}]

Init ==
  /\ pc = "down" /\ job = NoJob /\ line = Nothing /\ verdict = NoVerdict
  /\ child = "none" /\ work = NoJob /\ out = Nothing
  /\ stdin = <<>> /\ stdout = <<>> /\ polluted = FALSE

-----------------------------------------------------------------------------
(* run_daemon *)

(* The first piece of a line goes out; WriteEnd sends the second one.  A   *)
(* timeout is written when the future it is about has been dropped.        *)
WriteBegin(msg) ==
  /\ child' = "writing" /\ out' = msg
  /\ stdout' = Append(stdout, [ends |-> FALSE, msg |-> msg])
  /\ polluted' = (polluted \/ msg.kind = "timeout")

SetupSucceeds ==
  /\ child = "setup"
  /\ \E form \in VkeyForms : WriteBegin(Identity(form))
  /\ UNCHANGED <<workerVars, work, stdin>>

(* The error goes to stderr only. *)
SetupTimesOut ==
  /\ child = "setup" /\ child' = "exit75" /\ polluted' = TRUE
  /\ UNCHANGED <<workerVars, work, out, stdin, stdout>>

SetupFails ==
  /\ child = "setup" /\ child' = "exited"
  /\ UNCHANGED <<workerVars, work, out, stdin, stdout, polluted>>

(* [Mutant: the daemon goes on after a timeout] *)
AfterWriteServing(msg) == "serving"

AfterWrite(msg) == IF msg.kind = "timeout" THEN "leaving" ELSE "serving"

WriteEnd ==
  /\ child = "writing"
  /\ stdout' = Append(stdout, [ends |-> TRUE, msg |-> out])
  /\ child' = AfterWrite(out) /\ out' = Nothing /\ work' = NoJob
  /\ UNCHANGED <<workerVars, stdin, polluted>>

ExitAfterTimeout ==
  /\ child = "leaving" /\ child' = "exit75"
  /\ UNCHANGED <<workerVars, work, out, stdin, stdout, polluted>>

TakeRequest ==
  /\ child = "serving" /\ stdin # <<>>
  /\ work' = Head(stdin) /\ stdin' = Tail(stdin)
  /\ \/ child' = "executing" /\ UNCHANGED <<out, stdout, polluted>>
     \/ WriteBegin(Answer("error", Head(stdin)))       \* INVALID_INPUT
  /\ UNCHANGED workerVars

ExecuteEnds ==
  /\ child = "executing"
  /\ \/ child' = "proving" /\ UNCHANGED <<out, stdout, polluted>>
     \/ WriteBegin(Answer("error", work))              \* PROOF_FAILURE
     \/ WriteBegin(Answer("timeout", work))            \* EXECUTE_TIMEOUT
  /\ UNCHANGED <<workerVars, work, stdin>>

ProveEnds ==
  /\ child = "proving"
  /\ \/ WriteBegin(Answer("proof", work))
     \/ WriteBegin(Answer("error", work))              \* PROOF_FAILURE
     \/ WriteBegin(Answer("timeout", work))            \* PROVE_TIMEOUT
  /\ UNCHANGED <<workerVars, work, stdin>>

(* Killed by the system, a panic, or a write that failed. *)
Crash ==
  /\ child \in Running /\ child' = "exited"
  /\ UNCHANGED <<workerVars, work, out, stdin, stdout, polluted>>

Daemon ==
  \/ SetupSucceeds \/ SetupTimesOut \/ SetupFails
  \/ WriteEnd \/ ExitAfterTimeout
  \/ TakeRequest \/ ExecuteEnds \/ ProveEnds
  \/ Crash

-----------------------------------------------------------------------------
(* GenProofDaemon::start *)

Spawn ==
  /\ pc = "down" /\ pc' = "starting"
  /\ child' = "setup" /\ work' = NoJob /\ out' = Nothing
  /\ stdin' = <<>> /\ stdout' = <<>> /\ line' = Nothing /\ polluted' = FALSE
  /\ UNCHANGED <<job, verdict>>

(* The child is killed and its pipes are dropped. *)
Kill ==
  /\ child' = "none" /\ work' = NoJob /\ out' = Nothing
  /\ stdin' = <<>> /\ stdout' = <<>> /\ polluted' = FALSE

(* read_protocol_line: a piece that does not end the line is kept, and one *)
(* that does ends it.                                                      *)
ReadPiece ==
  /\ pc \in {"starting", "waiting"} /\ stdout # <<>>
  /\ ~Head(stdout).ends
  /\ line' = Head(stdout).msg /\ stdout' = Tail(stdout)
  /\ UNCHANGED <<pc, job, verdict, child, work, out, stdin, polluted>>

LineArrives ==
  /\ pc \in {"starting", "waiting"} /\ stdout # <<>>
  /\ Head(stdout).ends

(* The line is whole only if its first piece is still in hand. *)
Whole == line = Head(stdout).msg

(* decode_daemon_identity; validate_digest takes 64 digits and no prefix.  *)
(* [Mutant: the digits are only taken after 0x]                            *)
AcceptablePrefixed(msg) == msg.kind = "identity" /\ msg.vkey = "prefixed"

Acceptable(msg) == msg.kind = "identity" /\ msg.vkey = "bare"

Started ==
  /\ pc = "starting" /\ LineArrives
  /\ Whole /\ Acceptable(line)
  /\ pc' = "idle" /\ line' = Nothing /\ stdout' = Tail(stdout)
  /\ UNCHANGED <<job, verdict, child, work, out, stdin, polluted>>

(* start returns an error, after bounded_shutdown. *)
NotStarted ==
  /\ pc = "starting" /\ pc' = "down"
  /\ line' = Nothing /\ Kill
  /\ UNCHANGED <<job, verdict>>

(* A line that is no identity, or the end of the output. *)
StartFails ==
  /\ \/ LineArrives /\ ~(Whole /\ Acceptable(line))
     \/ stdout = <<>> /\ child \in Gone
  /\ NotStarted

(* The setup and grace time, for the reading of the whole line. *)
StartTimesOut == NotStarted

-----------------------------------------------------------------------------
(* prove_claim *)

(* prove_claim returns.  Every transient failure has restart_daemon set,   *)
(* and run then stops the daemon before it does anything else with it; in  *)
(* any other case it keeps it.  [Mutant: the daemon is kept in any case]   *)
ReturnKeeping(kind, proof) ==
  /\ verdict' = [kind |-> kind, of |-> job, proof |-> proof]
  /\ line' = Nothing /\ job' = NoJob /\ pc' = "idle"

Return(kind, proof) ==
  /\ verdict' = [kind |-> kind, of |-> job, proof |-> proof]
  /\ line' = Nothing /\ job' = NoJob
  /\ pc' = IF kind = "transient" THEN "stopping" ELSE "idle"

(* After finish_error: bounded_shutdown kills the child. *)
StopDaemon ==
  /\ pc = "stopping" /\ pc' = "down"
  /\ Kill
  /\ UNCHANGED <<job, line, verdict>>

BeginJob(j) ==
  /\ pc = "idle" /\ pc' = "sending" /\ job' = j /\ verdict' = NoVerdict
  /\ UNCHANGED <<line, daemonVars>>

(* validate_job, validate_daemon_identity, a request that is too long. *)
Rejected ==
  /\ pc = "sending" /\ Return("permanent", NoJob)
  /\ UNCHANGED daemonVars

(* The write is pinned outside the select!, so that heartbeats do not      *)
(* restart it.  [Mutant: a heartbeat restarts it after it was done]        *)
RequestRestarted == <<job, job>>

Request == <<job>>

WriteRequest ==
  /\ pc = "sending" /\ child \in Running
  /\ pc' = "waiting" /\ stdin' = stdin \o Request
  /\ UNCHANGED <<job, line, verdict, child, work, out, stdout, polluted>>

(* The child's exit, a broken pipe, the write deadline, or a heartbeat that *)
(* finds the lease gone.                                                    *)
SendFails ==
  /\ pc = "sending" /\ Return("transient", NoJob)
  /\ UNCHANGED daemonVars

(* The heartbeat timer wins the select! and the read starts over. *)
Heartbeat ==
  /\ pc = "waiting" /\ line # Nothing /\ line' = Nothing
  /\ UNCHANGED <<pc, job, verdict, daemonVars>>

(* What becomes of a whole answer line: WorkerFailure::daemon_error maps   *)
(* the two timeout codes to a transient failure, the others to a permanent *)
(* one.                                                                    *)
(* [Mutant: the code is passed on as it came]                              *)
ClassifyVerbatim(msg) == msg.kind

Classify(msg) ==
  CASE msg.kind = "proof"   -> "proof"
    [] msg.kind = "timeout" -> "transient"
    [] OTHER                -> "permanent"

(* The tail of a line whose head was lost is no JSON: a permanent failure. *)
Answered ==
  /\ pc = "waiting" /\ LineArrives
  /\ IF Whole
     THEN Return(Classify(line), IF line.kind = "proof" THEN line.job ELSE NoJob)
     ELSE Return("permanent", NoJob)
  /\ stdout' = Tail(stdout)
  /\ UNCHANGED <<child, work, out, stdin, polluted>>

(* The output ends: protocol_failure. *)
OutputEnds ==
  /\ pc = "waiting" /\ stdout = <<>> /\ child \in Gone
  /\ Return("transient", NoJob)
  /\ UNCHANGED daemonVars

(* A heartbeat finds the lease fenced or cannot renew it. *)
LeaseGone ==
  /\ pc = "waiting" /\ Return("transient", NoJob)
  /\ UNCHANGED daemonVars

(* The response deadline: execute, prove and grace time together, counted  *)
(* once from the request.  [Mutant: a silent daemon is waited for]         *)
DeadlinePassesTalking == line # Nothing

DeadlinePasses == TRUE

ResponseTimesOut ==
  /\ pc = "waiting" /\ DeadlinePasses
  /\ Return("transient", NoJob)
  /\ UNCHANGED daemonVars

Worker ==
  \/ Spawn \/ Started \/ StartFails \/ StartTimesOut \/ ReadPiece
  \/ (\E j \in Jobs : BeginJob(j))
  \/ Rejected \/ WriteRequest \/ SendFails
  \/ Heartbeat \/ Answered \/ OutputEnds \/ LeaseGone \/ ResponseTimesOut
  \/ StopDaemon

Next == Daemon \/ Worker

Spec == Init /\ [][Next]_vars

(* The worker is never stuck: each of its awaits has a timer, and select!  *)
(* polls its branches in random order.  That an attempt to send is made    *)
(* again and again means that jobs keep coming and not all of them are     *)
(* rejected; that each step to an identity line in the worker's hands is   *)
(* made again and again means that a daemon which is always started anew   *)
(* is in time for the startup timer at some time.  Nothing obliges the     *)
(* daemon to answer, to end a line of an answer, or to exit.               *)
FairSpec ==
  /\ Spec
  /\ WF_vars(Spawn) /\ WF_vars(StartFails \/ StartTimesOut) /\ WF_vars(ReadPiece)
  /\ WF_vars(\E j \in Jobs : BeginJob(j)) /\ SF_vars(WriteRequest \/ SendFails)
  /\ WF_vars(Answered) /\ WF_vars(OutputEnds) /\ WF_vars(ResponseTimesOut)
  /\ WF_vars(StopDaemon)
  /\ SF_vars(SetupSucceeds) /\ SF_vars(pc = "starting" /\ WriteEnd)
  /\ SF_vars(pc = "starting" /\ child = "serving" /\ ReadPiece) /\ SF_vars(Started)
-----------------------------------------------------------------------------
(***************************************************************************)
(* Properties                                                              *)
(***************************************************************************)

TypeOK ==
  /\ pc \in {"down", "starting", "idle", "sending", "waiting", "stopping"}
  /\ job \in Jobs \cup {NoJob} /\ work \in Jobs \cup {NoJob}
  /\ line \in Message /\ out \in Message /\ verdict \in Verdict
  /\ child \in Running \cup Gone \cup {"none"}
  /\ stdin \in Seq(Jobs) /\ stdout \in Seq(Piece) /\ polluted \in BOOLEAN

(* Between two jobs nothing is under way: no request that would be proved, *)
(* no line or rest of a line that would be taken for the next answer.  It  *)
(* is what makes it safe to keep the daemon after a permanent failure.     *)
InSync ==
  pc = "idle" =>
    /\ stdin = <<>> /\ stdout = <<>>
    /\ child \notin {"setup", "executing", "proving", "writing", "none"}

(* A proof published for a job was computed for this very job, even if     *)
(* both jobs carry the same request_id, network, guest and key, which is   *)
(* all that validate_proof_response compares.                              *)
AnswerIsOwn == verdict.kind = "proof" => verdict.proof = verdict.of

(* The next request may be in the pipe of a process that has dropped a     *)
(* CUDA future: the line that said so was torn, the worker took it for a   *)
(* failure for good and kept the daemon.  This request is never taken, it  *)
(* only goes with the pipe when the daemon is stopped; and it is not       *)
(* answered either, so that its job is tried again and not ended.          *)
TimeoutIsLastStep ==
  polluted /\ stdin # <<>> =>
    /\ stdin' # stdin => pc = "stopping"
    /\ pc' # pc => verdict'.kind = "transient"

TimeoutIsLast == [][TimeoutIsLastStep]_vars

(* No daemon, hung, dead or silent, keeps a worker waiting for ever. *)
EveryRequestResolves == pc = "waiting" ~> pc # "waiting"

(* A daemon that is gone is replaced by one that serves, although nothing  *)
(* but the next request notices that it is gone.                           *)
DaemonComesBack == child \in Gone ~> child = "serving"

(* A worker without a daemon becomes ready for jobs. *)
DaemonStarts == pc = "down" ~> pc = "idle"

(* The test child_status_failure_classifies_exit_75_as_retryable: "A       *)
(* daemon that exits 75 signals a CUDA timeout; the worker must treat it"  *)
(* as retryable.                                                           *)
TimeoutIsRetryable ==
  child \in {"leaving", "exit75"} /\ verdict # NoVerdict => verdict.kind = "transient"

(* README, on the deadlines of setup, execute and prove: the daemon first  *)
(* writes a structured error and then exits with code 75.                  *)
Exit75AfterError ==
  [][child # "exit75" /\ child' = "exit75" => child = "leaving"]_vars

(***************************************************************************)
(* The refinement of ProverService: what a request came to so far is read  *)
(* off the line under way, be it in the daemon's hand or in the pipe.      *)
(***************************************************************************)
Pending ==
  IF out # Nothing THEN out
  ELSE IF stdout # <<>> THEN stdout[Len(stdout)].msg ELSE Nothing

RequestSoFar ==
  CASE pc # "waiting"            -> "none"
    [] pc = "waiting" /\ stdin # <<>> -> "queued"
    [] OTHER ->
         CASE Pending.kind = "proof"   -> "proved"
           [] Pending.kind = "error"   -> "refused"
           [] Pending.kind = "timeout" -> "timed_out"
           [] OTHER                    -> "computing"

ServicePhase ==
  CASE pc \in {"down", "starting"}   -> "away"
    [] pc = "idle"                   -> "ready"
    [] pc \in {"sending", "waiting"} -> "busy"
    [] pc = "stopping"               -> "spoiled"

Healthy ==
  /\ pc \in {"idle", "sending", "waiting"}
  /\ \/ child \in {"serving", "executing", "proving"}
     \/ child = "writing" /\ out.kind # "timeout"

Service == INSTANCE ProverService
  WITH phase <- ServicePhase, task <- job, request <- RequestSoFar,
       healthy <- Healthy, answer <- verdict

(* Whatever pieces lines arrive in and whoever dies or hangs when, worker  *)
(* and daemon together do what ProverService allows: each request is       *)
(* worked on at most once and by a daemon without a timeout behind it, a   *)
(* proof comes only of the job that was asked for, and the daemon is kept  *)
(* only if nothing of its last request is left to be done.                 *)
ImplementsService == Service!Spec
=============================================================================
