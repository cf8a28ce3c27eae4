---------------------------- MODULE JobLifecycle ----------------------------
(***************************************************************************)
(* What the proof queue promises to whoever submits a proof job, with no   *)
(* keys, leases, lists or clocks: a job is submitted, then worked on at    *)
(* most MaxAttempts times, and ends exactly once, either with a proof or   *)
(* with a failure, which is announced exactly once and never changes.      *)
(* ProofQueue is the detailed specification that implements this one.      *)
(***************************************************************************)
EXTENDS Naturals

CONSTANTS
  Jobs,          \* the proof jobs
  MaxAttempts    \* how often a job may be worked on

VARIABLES
  phase,         \* job -> where it stands
  tries,         \* job -> how often it was handed to a worker
  announced      \* job -> how often its end was announced

jobVars == <<phase, tries, announced>>

Phase == {"new", "waiting", "working", "proved", "failed"}

Ended(j) == phase[j] \in {"proved", "failed"}

Init ==
  /\ phase = [j \in Jobs |-> "new"]
  /\ tries = [j \in Jobs |-> 0]
  /\ announced = [j \in Jobs |-> 0]

Idle(j) ==
  /\ phase'[j] = phase[j]
  /\ tries'[j] = tries[j]
  /\ announced'[j] = announced[j]

Submit(j) ==
  /\ phase[j] = "new" /\ phase'[j] = "waiting"
  /\ tries'[j] = tries[j]
  /\ announced'[j] = announced[j]

(* A worker receives the job; no other worker has it. *)
Start(j) ==
  /\ phase[j] = "waiting" /\ phase'[j] = "working"
  /\ tries[j] < MaxAttempts
  /\ tries'[j] = tries[j] + 1
  /\ announced'[j] = announced[j]

(* The attempt is given up, or its worker is presumed dead; another one is *)
(* only due while attempts are left.                                       *)
Retry(j) ==
  /\ phase[j] = "working" /\ phase'[j] = "waiting"
  /\ tries[j] < MaxAttempts
  /\ tries'[j] = tries[j]
  /\ announced'[j] = announced[j]

End(j) ==
  /\ phase[j] = "working"
  /\ phase'[j] \in {"proved", "failed"}
  /\ tries'[j] = tries[j]
  /\ announced'[j] = announced[j] + 1

JobStep(j) == Submit(j) \/ Start(j) \/ Retry(j) \/ End(j)

(* One call may move several jobs (a batch of expired leases is resolved   *)
(* in one script), each of them by one step of its own.                    *)
Next ==
  /\ phase' \in [Jobs -> Phase]
  /\ tries' \in [Jobs -> Nat]
  /\ announced' \in [Jobs -> Nat]
  /\ \A j \in Jobs : JobStep(j) \/ Idle(j)

Spec == Init /\ [][Next]_jobVars
=============================================================================
