---------------------------- MODULE ProofWorker -----------------------------
(***************************************************************************)
(* The loop of doge-proof-worker (run and the *_until_resolved functions   *)
(* of script/src/bin/doge_proof_worker.rs) on top of the proof queue.      *)
(*                                                                         *)
(* A call to Redis has three steps here: it is sent, Redis executes its    *)
(* script, and the worker receives the reply.  Between any two of them the *)
(* call may fail for the worker (a timeout of the connection, a lost       *)
(* reply), which does not tell whether the script ran, or will run yet.    *)
(* Each worker reckons with a deadline on its own clock, which is counted  *)
(* from before the call that granted or renewed its lease was sent.  Both  *)
(* clocks are taken to run at the same rate.                               *)
(*                                                                         *)
(* Of the daemon only its outcomes are left; DaemonSession has the rest.   *)
(***************************************************************************)
EXTENDS ProofQueue

CONSTANTS
  NoClaim,       \* no claim
  MaxLate,       \* bound: different failed calls that may still be executed
  MaxCrashes     \* bound: crashes of workers

ASSUME NoClaimAssumption == NoClaim \notin Claim
ASSUME LoopBoundsAssumption == MaxLate \in Nat /\ MaxCrashes \in Nat

VARIABLES
  at,            \* where each worker stands
  held,          \* the claim it works on
  deadline,      \* retry_deadline: what is left until it, not below 0
  fresh,         \* lease_ms minus the time since its present call was sent
  reply,         \* its present call to Redis
  late,          \* calls that failed for their worker and may still be executed,
                 \* one of each or more
  crashes        \* how many workers crashed

loopVars   == <<at, held, deadline, fresh, reply, late, crashes>>
workerVars == <<vars, loopVars>>

(* retrying and failing are finish_error_until_resolved, with a retryable  *)
(* failure and a permanent one.                                            *)
OfHolder == {"beating", "publishing", "retrying", "failing", "rejecting"}
Calling  == OfHolder \cup {"resolving", "claiming"}
Place    == Calling \cup {"starting", "proving"}

LateCall == [by: Workers, at: Calling, claim: Claim \cup {NoClaim}]

WorkerInit ==
  /\ Init
  /\ at       = [w \in Workers |-> "starting"]
  /\ held     = [w \in Workers |-> NoClaim]
  /\ deadline = [w \in Workers |-> 0]
  /\ fresh    = [w \in Workers |-> 0]
  /\ reply    = [w \in Workers |-> "idle"]
  /\ late     = {}
  /\ crashes  = 0

-----------------------------------------------------------------------------
(* The worker goes to p and keeps its claim. *)
GoTo(w, p) ==
  /\ at' = [at EXCEPT ![w] = p]
  /\ UNCHANGED <<held, deadline>>

(* The worker goes to p and has no claim any more. *)
Leave(w, p) ==
  /\ at' = [at EXCEPT ![w] = p]
  /\ held' = [held EXCEPT ![w] = NoClaim]
  /\ deadline' = [deadline EXCEPT ![w] = 0]

(* After finish_error: a retryable failure also stops the daemon. *)
AfterFailure(w) == IF at[w] = "retrying" THEN "starting" ELSE "resolving"

(* GenProofDaemon::start succeeds. *)
DaemonUp(w) ==
  /\ at[w] = "starting" /\ GoTo(w, "resolving")
  /\ UNCHANGED <<vars, fresh, reply, late, crashes>>

(* What prove_claim returns, and its heartbeat timer. *)
Prove(w) ==
  /\ at[w] = "proving"
  /\ \E p \in {"publishing", "failing", "retrying", "beating"} : GoTo(w, p)
  /\ UNCHANGED <<vars, fresh, reply, late, crashes>>

-----------------------------------------------------------------------------
(* Calls *)

Send(w) ==
  /\ at[w] \in Calling /\ reply[w] = "idle"
  /\ reply' = [reply EXCEPT ![w] = "sent"]
  /\ fresh' = [fresh EXCEPT ![w] = Lease]
  /\ UNCHANGED <<vars, at, held, deadline, late, crashes>>

Answer(w, r) == reply' = [reply EXCEPT ![w] = r]

(* The script resolves a batch, or aborts, which the worker sees as an error. *)
ExecuteResolve(w) ==
  /\ at[w] = "resolving" /\ reply[w] = "sent"
  /\ \E B \in SUBSET Jobs :
       /\ IF B = {} THEN Resolvable(B) /\ UNCHANGED vars ELSE RequeueExpired(B)
       /\ Answer(w, IF Cardinality(B) = Batch \/ B = Expired THEN "yes" ELSE "error")
  /\ UNCHANGED <<at, held, deadline, fresh, late, crashes>>

ExecuteClaim(w) ==
  /\ at[w] = "claiming" /\ reply[w] = "sent"
  /\ \/ \E i \in DOMAIN queue :
          /\ ClaimJob(w, i)
          /\ held' = [held EXCEPT ![w] = [job |-> queue[i], worker |-> w, lease |-> lastLease + 1]]
          /\ Answer(w, "yes")
     \/ /\ ClaimNothing \/ (queue = <<>> /\ UNCHANGED vars)
        /\ Answer(w, "no") /\ UNCHANGED held
  /\ UNCHANGED <<at, deadline, fresh, late, crashes>>

(* What the script of a holder's call does with a claim it accepts; the    *)
(* scripts do not look at the payload.  A heartbeat beyond MaxRenewals is  *)
(* never executed: its call can only fail.                                 *)
Effect(p, c) ==
  \/ p = "beating" /\ Heartbeat(c)
  \/ p = "publishing" /\ Complete(c)
  \/ p = "retrying" /\ FinishErrorRetry(c)
  \/ p = "retrying" /\ ~MayRetry(c.job) /\ FinishErrorFinal(c)
  \/ p = "failing" /\ FinishErrorFinal(c)
  \/ p = "rejecting" /\ FailInvalidClaim(c)

ExecuteHeld(w) ==
  /\ at[w] \in OfHolder /\ reply[w] = "sent"
  /\ \/ Effect(at[w], held[w]) /\ Answer(w, "yes")
     \/ ~Holds(held[w]) /\ UNCHANGED vars /\ Answer(w, "no")
  /\ UNCHANGED <<at, held, deadline, fresh, late, crashes>>

Execute(w) == ExecuteResolve(w) \/ ExecuteClaim(w) \/ ExecuteHeld(w)

-----------------------------------------------------------------------------
(* Replies *)

(* [Mutants: counted from the reply; added to the old deadline] *)
NewDeadlineAtReply(w) == deadline' = [deadline EXCEPT ![w] = Lease]

NewDeadlineAdded(w) == deadline' = [deadline EXCEPT ![w] = @ + fresh[w]]

(* retry_deadline = the time before the call was sent + lease_ms *)
NewDeadline(w) == deadline' = [deadline EXCEPT ![w] = fresh[w]]

(* [Mutant: a payload that is no job of this id is proved all the same] *)
OutcomeProving(j) == "proving"

(* ClaimOutcome: Valid or Invalid *)
Outcome(j) == IF Decodes(j) THEN "proving" ELSE "rejecting"

ReceiveClaim(w) ==
  /\ at[w] = "claiming"
  /\ IF reply[w] = "yes"
     THEN /\ at' = [at EXCEPT ![w] = Outcome(held[w].job)]
          /\ NewDeadline(w) /\ UNCHANGED held
     ELSE Leave(w, "resolving")

ReceiveBeat(w) ==
  /\ at[w] = "beating"
  /\ IF reply[w] = "yes"
     THEN /\ at' = [at EXCEPT ![w] = "proving"]
          /\ NewDeadline(w) /\ UNCHANGED held
     ELSE GoTo(w, "retrying")

Receive(w) ==
  /\ reply[w] \in {"yes", "no"}
  /\ reply' = [reply EXCEPT ![w] = "idle"]
  /\ fresh' = [fresh EXCEPT ![w] = 0]
  /\ \/ at[w] = "resolving" /\ GoTo(w, "claiming")
     \/ ReceiveClaim(w)
     \/ ReceiveBeat(w)
     \/ at[w] \in OfHolder \ {"beating"} /\ Leave(w, AfterFailure(w))
  /\ UNCHANGED <<vars, late, crashes>>

(* A call that was sent and not executed may still be, or never. *)
Abandon(w) ==
  IF reply[w] = "sent" /\ Cardinality(late) < MaxLate
  THEN late' \in {late, late \cup {[by |-> w, at |-> at[w], claim |-> held[w]]}}
  ELSE UNCHANGED late

(* [Mutant: a failed call is repeated without end] *)
GivesUpNever(w) == FALSE

(* The *_until_resolved functions repeat a failed call until the deadline. *)
GivesUp(w) == deadline[w] = 0

AfterFailedCall(w) ==
  \/ at[w] \in {"resolving", "claiming"} /\ Leave(w, "resolving")
  \/ at[w] \in OfHolder /\ ~GivesUp(w) /\ UNCHANGED <<at, held, deadline>>
  \/ at[w] = "beating" /\ GivesUp(w) /\ GoTo(w, "retrying")
  \/ at[w] \in OfHolder \ {"beating"} /\ GivesUp(w) /\ Leave(w, AfterFailure(w))

CallFails(w) ==
  /\ reply[w] # "idle"
  /\ reply' = [reply EXCEPT ![w] = "idle"]
  /\ fresh' = [fresh EXCEPT ![w] = 0]
  /\ Abandon(w)
  /\ AfterFailedCall(w)
  /\ UNCHANGED <<vars, crashes>>

(* A call that failed for its worker is executed, rejected or lost.  It    *)
(* may have been made several times, so another one like it may remain.    *)
Late(call) ==
  /\ late' \in {late, late \ {call}}
  /\ \/ call.at = "resolving" /\ Resolve
     \/ call.at = "claiming" /\ \E i \in DOMAIN queue : ClaimJob(call.by, i)
     \/ call.at = "claiming" /\ ClaimNothing
     \/ call.at \in OfHolder /\ Effect(call.at, call.claim)
     \/ UNCHANGED vars
  /\ UNCHANGED <<at, held, deadline, fresh, reply, crashes>>

(* A crash, and the restart of the worker; its daemon dies with it. *)
CrashWorker(w) ==
  /\ crashes < MaxCrashes /\ crashes' = crashes + 1
  /\ Abandon(w) /\ Leave(w, "starting")
  /\ reply' = [reply EXCEPT ![w] = "idle"]
  /\ fresh' = [fresh EXCEPT ![w] = 0]
  /\ UNCHANGED vars

-----------------------------------------------------------------------------
Down(n) == IF n > 0 THEN n - 1 ELSE 0

Clock ==
  /\ (\E j \in Jobs : state[j].ttl > 0) \/ (\E w \in Workers : deadline[w] > 0)
  /\ IF \E j \in Jobs : state[j].ttl > 0 THEN Tick ELSE UNCHANGED vars
  /\ deadline' = [w \in Workers |-> Down(deadline[w])]
  /\ fresh' = [w \in Workers |-> Down(fresh[w])]
  /\ UNCHANGED <<at, held, reply, late, crashes>>

Work(w) ==
  \/ DaemonUp(w) \/ Prove(w)
  \/ Send(w) \/ Execute(w) \/ Receive(w) \/ CallFails(w)
  \/ CrashWorker(w)

WorkerNext ==
  \/ Produce /\ UNCHANGED loopVars
  \/ \E w \in Workers : Work(w)
  \/ \E call \in late : Late(call)
  \/ Clock

WorkerSpec == WorkerInit /\ [][WorkerNext]_workerVars

(* prove_claim returns: its response deadline is a branch of select!. *)
Returns(w) == Prove(w) /\ at'[w] # "beating"

(* Daemons start, calls are sent, time passes, and the two calls of an     *)
(* idle worker do not fail for ever.  Redis owes no answer to the others.  *)
WorkerFairSpec ==
  /\ WorkerSpec
  /\ WF_workerVars(Clock)
  /\ \A w \in Workers :
       /\ WF_workerVars(DaemonUp(w)) /\ WF_workerVars(Send(w)) /\ WF_workerVars(CallFails(w))
       /\ SF_workerVars(Returns(w))
       /\ SF_workerVars(ExecuteResolve(w)) /\ SF_workerVars(ExecuteClaim(w))
       /\ \A p \in {"resolving", "claiming"} : SF_workerVars(at[w] = p /\ Receive(w))
-----------------------------------------------------------------------------
(***************************************************************************)
(* Properties                                                              *)
(***************************************************************************)

WorkerTypeOK ==
  /\ at \in [Workers -> Place]
  /\ held \in [Workers -> Claim \cup {NoClaim}]
  /\ deadline \in [Workers -> 0..Lease]
  /\ fresh \in [Workers -> 0..Lease]
  /\ reply \in [Workers -> {"idle", "sent", "yes", "no", "error"}]
  /\ late \in SUBSET LateCall
  /\ crashes \in 0..MaxCrashes

Working(w) == at[w] \in {"proving", "beating"}

(* As long as a worker's own deadline has not come its lease is in force   *)
(* and lasts at least until then, whatever replies were lost or late.      *)
LocalDeadlineSafe ==
  \A w \in Workers : Working(w) /\ deadline[w] > 0 =>
    Holds(held[w]) /\ state[held[w].job].ttl >= deadline[w]

(* No two workers prove the same job within their deadlines. *)
OneProver ==
  \A v, w \in Workers :
    v # w /\ Working(v) /\ Working(w) /\ deadline[v] > 0 /\ deadline[w] > 0
      => held[v].job # held[w].job

(* What the workers do is what ProofQueue allows: a job is proved only if  *)
(* it is one, and only the claims Redis granted are used.                  *)
ImplementsQueue == Spec

(* A worker gets rid of each claim and goes on. *)
ClaimsResolve ==
  \A w \in Workers : held[w] # NoClaim ~> held[w] = NoClaim

(* The contract test: "expired lease at max must become Failed". *)
ExhaustedBecomesFailed ==
  \A j \in Jobs : Exhausted(j) ~> state[j].status = "Failed"
=============================================================================
