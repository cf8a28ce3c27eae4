----------------------------- MODULE ProofQueue -----------------------------
(***************************************************************************)
(* The Redis keys of one proof queue and the six Lua scripts of            *)
(* script/src/bin/doge_proof_worker.rs that change them.  Redis runs a     *)
(* script atomically, so each script is one action.                        *)
(*                                                                         *)
(* The callers are as general as the program allows: whoever was handed a  *)
(* claim may call heartbeat, complete, finish_error or fail_invalid_claim  *)
(* with it, in any order, at any later time and any number of times, which *)
(* stands for replies that were lost, calls that were retried or delivered *)
(* late, and workers that stall, die or come back after their lease ended. *)
(* A call that a script rejects (it returns 0) changes nothing, and so is  *)
(* no step here.                                                           *)
(*                                                                         *)
(* Redis compares lease_expires_ms with its own clock only.  The model     *)
(* keeps the remaining time: ttl = lease_expires_ms - now, not below 0, so *)
(* that "lease_expires_ms <= now" reads ttl = 0.  Tick is the passing of   *)
(* one unit of that clock.                                                 *)
(***************************************************************************)
EXTENDS Integers, Sequences, FiniteSets

CONSTANTS
  Jobs,          \* the job ids
  Workers,       \* the worker ids
  Kinds,         \* the kinds of payload producers store under a job key
  Lease,         \* lease_ms, in units of the clock
  MaxAttempts,   \* max_attempts
  Batch,         \* REQUEUE_BATCH
  MaxRenewals,   \* bound: heartbeats accepted for one claim (see Heartbeat)
  MaxPushes,     \* bound: how often a producer enqueues one job id
  NoWorker       \* no worker id

(* A payload is a ProofJob of the key's own id; a ProofJob of another id;  *)
(* a JSON object, array or string that is no ProofJob; another JSON scalar *)
(* (null, a number), that Lua decodes but cannot index; or no JSON at all. *)
PayloadKind == {"valid", "foreign", "shapeless", "scalar", "unparsable"}

ASSUME JobsAssumption    == IsFiniteSet(Jobs)
ASSUME WorkersAssumption == NoWorker \notin Workers
ASSUME KindsAssumption   == Kinds \subseteq PayloadKind
ASSUME BoundsAssumption  == /\ Lease \in Nat \ {0}
                            /\ MaxAttempts \in Nat \ {0}
                            /\ Batch \in Nat \ {0}
                            /\ MaxRenewals \in Nat
                            /\ MaxPushes \in Nat

VARIABLES
  payload,       \* job key       -> kind of the JSON stored there, or "none"
  state,         \* state key     -> the ProofJobState stored there
  attempts,      \* attempt key   -> the INCR counter
  result,        \* result key    -> the ProofResult stored there
  queue,         \* the queue list, head first
  score,         \* the leases sorted set: ttl of a member, NoScore otherwise
  notified,      \* job -> how often its id was pushed onto the notify list
  pushes,        \* job -> how often a producer enqueued it
  renewals,      \* job -> heartbeats accepted for its present claim
  lastLease,     \* how many lease ids have been drawn for claims
  claims,        \* every claim Redis ever granted
  accepted       \* every non-zero reply to complete, finish_error, fail_invalid

redisVars    == <<payload, state, attempts, result, queue, score, notified>>
producerVars == <<pushes>>
callerVars   == <<renewals, lastLease, claims, accepted>>
vars         == <<redisVars, producerVars, callerVars>>

NoScore == -1

(* The stored ProofJobState; fields a status does not have are blank. *)
Blank(status, attempt) ==
  [status |-> status, worker |-> NoWorker, lease |-> 0, ttl |-> 0, attempt |-> attempt]

Claimed(w, lease, attempt) ==
  [status |-> "Claimed", worker |-> w, lease |-> lease, ttl |-> Lease, attempt |-> attempt]

Status == {"Absent", "Queued", "Claimed", "Completed", "Failed"}

StateValue ==
  [status: Status, worker: Workers \cup {NoWorker}, lease: Nat, ttl: 0..Lease, attempt: Nat]

(* "Garbled" is a result the consumer cannot read as this job's: the       *)
(* requeue script copies identity fields out of whatever JSON it finds.    *)
ResultValue == {"none", "Success", "Error", "Garbled"}

Claim == [job: Jobs, worker: Workers, lease: Nat]

Verdict == {"completed", "requeued", "failed", "invalid"}

Acceptance == [job: Jobs, lease: Nat, verdict: Verdict]

Terminal(j) == state[j].status \in {"Completed", "Failed"}

Larger(a, b) == IF a > b THEN a ELSE b

-----------------------------------------------------------------------------
Init ==
  /\ payload   = [j \in Jobs |-> "none"]
  /\ state     = [j \in Jobs |-> Blank("Absent", 0)]
  /\ attempts  = [j \in Jobs |-> 0]
  /\ result    = [j \in Jobs |-> "none"]
  /\ queue     = <<>>
  /\ score     = [j \in Jobs |-> NoScore]
  /\ notified  = [j \in Jobs |-> 0]
  /\ pushes    = [j \in Jobs |-> 0]
  /\ renewals  = [j \in Jobs |-> 0]
  /\ lastLease = 0
  /\ claims    = {}
  /\ accepted  = {}

-----------------------------------------------------------------------------
(* The producer stores the payload, then the Queued state, then enqueues   *)
(* the id; it may repeat the last call when it saw no reply to it.         *)

SeedPayload(j) ==
  /\ payload[j] = "none"
  /\ \E kind \in Kinds : payload' = [payload EXCEPT ![j] = kind]
  /\ UNCHANGED <<state, attempts, result, queue, score, notified, pushes, callerVars>>

SeedState(j) ==
  /\ payload[j] # "none" /\ state[j].status = "Absent"
  /\ state' = [state EXCEPT ![j] = Blank("Queued", 0)]
  /\ UNCHANGED <<payload, attempts, result, queue, score, notified, pushes, callerVars>>

Enqueue(j) ==
  /\ state[j].status # "Absent"
  /\ pushes[j] < MaxPushes
  /\ pushes' = [pushes EXCEPT ![j] = @ + 1]
  /\ queue' = Append(queue, j)
  /\ UNCHANGED <<payload, state, attempts, result, score, notified, callerVars>>

-----------------------------------------------------------------------------
(* CLAIM_SCRIPT.  It pops ids until one has a payload and a Queued state,  *)
(* dropping the others for good.                                           *)

(* [Mutant: the status is not looked at] *)
ClaimableUnchecked(j) == payload[j] # "none" /\ state[j].status # "Absent"

Claimable(j) == payload[j] # "none" /\ state[j].status = "Queued"

(* The popped id that is claimed: the first claimable one of the queue.    *)
FirstClaimable(i) ==
  /\ i \in DOMAIN queue
  /\ Claimable(queue[i])
  /\ \A k \in 1..(i - 1) : ~Claimable(queue[k])

ClaimJob(w, i) ==
  LET j == queue[i] IN
  /\ FirstClaimable(i)
  /\ queue' = SubSeq(queue, i + 1, Len(queue))
  /\ lastLease' = lastLease + 1
  /\ attempts' = [attempts EXCEPT ![j] = @ + 1]
  /\ state' = [state EXCEPT ![j] = Claimed(w, lastLease + 1, attempts[j] + 1)]
  /\ score' = [score EXCEPT ![j] = Lease]
  /\ renewals' = [renewals EXCEPT ![j] = 0]
  /\ claims' = claims \cup {[job |-> j, worker |-> w, lease |-> lastLease + 1]}
  /\ UNCHANGED <<payload, result, notified, pushes, accepted>>

(* Nothing to claim: every id is dropped and the caller gets nil. *)
ClaimNothing ==
  /\ queue # <<>>
  /\ \A k \in DOMAIN queue : ~Claimable(queue[k])
  /\ queue' = <<>>
  /\ UNCHANGED <<payload, state, attempts, result, score, notified, pushes, callerVars>>

-----------------------------------------------------------------------------
(* [Mutants of the check: the lease id is forgotten; the expiry is] *)
HoldsAsWorker(c) ==
  /\ state[c.job].status = "Claimed"
  /\ state[c.job].worker = c.worker
  /\ state[c.job].ttl > 0

HoldsForever(c) ==
  /\ state[c.job].status = "Claimed"
  /\ state[c.job].worker = c.worker
  /\ state[c.job].lease = c.lease

(* The check at the head of the four scripts a claim holder calls. *)
Holds(c) ==
  /\ state[c.job].status = "Claimed"
  /\ state[c.job].worker = c.worker
  /\ state[c.job].lease = c.lease
  /\ state[c.job].ttl > 0

(* ProofQueue::claim hands out a Claim only for a payload that is a        *)
(* ProofJob of the claimed id, and an InvalidClaim otherwise.  The scripts *)
(* below do not look at the payload; which of them may be called with a    *)
(* claim is settled by what its caller was handed (see Call).              *)
Decodes(j) == payload[j] = "valid"

Accept(c, verdict) ==
  accepted' = accepted \cup {[job |-> c.job, lease |-> c.lease, verdict |-> verdict]}

(* A lease is renewed to lease_ms from now, in the state and in the sorted *)
(* set.  [Mutants: counted from its old expiry; the sorted set forgotten]  *)
RenewFromExpiry(j) ==
  /\ state' = [state EXCEPT ![j].ttl = @ + Lease]
  /\ score' = [score EXCEPT ![j] = @ + Lease]

RenewStateOnly(j) ==
  /\ state' = [state EXCEPT ![j].ttl = Lease]
  /\ UNCHANGED score

Renew(j) ==
  /\ state' = [state EXCEPT ![j].ttl = Lease]
  /\ score' = [score EXCEPT ![j] = Lease]

(* HEARTBEAT_SCRIPT.  A worker heartbeats only until the write deadline    *)
(* and the response deadline of its one request, hence MaxRenewals.        *)
Heartbeat(c) ==
  /\ Holds(c)
  /\ renewals[c.job] < MaxRenewals
  /\ Renew(c.job)
  /\ renewals' = [renewals EXCEPT ![c.job] = @ + 1]
  /\ UNCHANGED <<payload, attempts, result, queue, notified, pushes, lastLease, claims, accepted>>

(* COMPLETE_SCRIPT *)
Complete(c) ==
  /\ Holds(c)
  /\ result' = [result EXCEPT ![c.job] = "Success"]
  /\ state' = [state EXCEPT ![c.job] = Blank("Completed", @.attempt)]
  /\ score' = [score EXCEPT ![c.job] = NoScore]
  /\ notified' = [notified EXCEPT ![c.job] = @ + 1]
  /\ Accept(c, "completed")
  /\ UNCHANGED <<payload, attempts, queue, pushes, renewals, lastLease, claims>>

(* [Mutants of the retry branch: one attempt too many; no RPUSH] *)
MayRetryAtMax(j) == state[j].attempt <= MaxAttempts

MayRetry(j) == state[j].attempt < MaxAttempts

PushBackForgotten(j) == UNCHANGED queue

PushBack(j) == queue' = Append(queue, j)

(* FINISH_ERROR_SCRIPT, the branch of a retryable failure with attempts left *)
FinishErrorRetry(c) ==
  /\ Holds(c)
  /\ MayRetry(c.job)
  /\ score' = [score EXCEPT ![c.job] = NoScore]
  /\ state' = [state EXCEPT ![c.job] = Blank("Queued", 0)]
  /\ PushBack(c.job)
  /\ Accept(c, "requeued")
  /\ UNCHANGED <<payload, attempts, result, notified, pushes, renewals, lastLease, claims>>

(* [Mutant: the failure is announced without its result] *)
WriteErrorForgotten(j) == UNCHANGED result

WriteError(j) == result' = [result EXCEPT ![j] = "Error"]

(* FINISH_ERROR_SCRIPT, the branch of a permanent failure, which may come  *)
(* at any attempt, and of a retryable one at the last attempt.             *)
FinishErrorFinal(c) ==
  /\ Holds(c)
  /\ WriteError(c.job)
  /\ state' = [state EXCEPT ![c.job] = Blank("Failed", @.attempt)]
  /\ score' = [score EXCEPT ![c.job] = NoScore]
  /\ notified' = [notified EXCEPT ![c.job] = @ + 1]
  /\ Accept(c, "failed")
  /\ UNCHANGED <<payload, attempts, queue, pushes, renewals, lastLease, claims>>

(* FAIL_INVALID_CLAIM_SCRIPT: it announces a failure without a result. *)
FailInvalidClaim(c) ==
  /\ Holds(c)
  /\ state' = [state EXCEPT ![c.job] = Blank("Failed", @.attempt)]
  /\ score' = [score EXCEPT ![c.job] = NoScore]
  /\ notified' = [notified EXCEPT ![c.job] = @ + 1]
  /\ Accept(c, "invalid")
  /\ UNCHANGED <<payload, attempts, result, queue, pushes, renewals, lastLease, claims>>

-----------------------------------------------------------------------------
(* REQUEUE_EXPIRED_SCRIPT *)

Expired == {j \in Jobs : score[j] = 0}

(* The members whose state the script may resolve; the others only leave   *)
(* the sorted set.                                                         *)
Overdue(j) == state[j].status = "Claimed" /\ state[j].ttl = 0

UsedAttempts(j) == Larger(attempts[j], state[j].attempt)

(* [Mutant: the limit is not looked at] *)
RequeuesAlways(j) == Overdue(j)

Requeues(j) == Overdue(j) /\ UsedAttempts(j) < MaxAttempts

Exhausted(j) == Overdue(j) /\ UsedAttempts(j) >= MaxAttempts

(* At the last attempt the payload is decoded: no JSON, and the job is     *)
(* left as it is; a scalar, and indexing it aborts the script.             *)
(* [Mutant: only a payload that is the job's own is failed] *)
FailsOwnOnly(j) == Exhausted(j) /\ Decodes(j)

Fails(j)  == Exhausted(j) /\ payload[j] \notin {"none", "unparsable"}
Aborts(j) == Exhausted(j) /\ payload[j] = "scalar"

(* The members one call resolves: the Batch longest overdue ones, in an    *)
(* order the model leaves open since all have ttl 0, and of those the ones *)
(* before an aborting member.                                              *)
Resolvable(B) ==
  /\ B \subseteq Expired
  /\ \A j \in B : ~Aborts(j)
  /\ \/ Cardinality(B) = Batch
     \/ Cardinality(B) < Batch /\ B = Expired
     \/ Cardinality(B) < Batch /\ \E j \in Expired \ B : Aborts(j)

(* The orders in which the members of S may be pushed onto the queue. *)
Orders(S) ==
  {s \in [1..Cardinality(S) -> S] : \A x \in S : \E i \in DOMAIN s : s[i] = x}

ExpiredResult(j) == IF Decodes(j) THEN "Error" ELSE "Garbled"

RequeueExpired(B) ==
  LET Back == {j \in B : Requeues(j)}
      Lost == {j \in B : Fails(j)}
  IN
  /\ B # {} /\ Resolvable(B)
  /\ \E order \in Orders(Back) : queue' = queue \o order
  /\ state' = [j \in Jobs |-> IF j \in Back THEN Blank("Queued", 0)
                              ELSE IF j \in Lost THEN Blank("Failed", UsedAttempts(j))
                              ELSE state[j]]
  /\ result' = [j \in Jobs |-> IF j \in Lost THEN ExpiredResult(j) ELSE result[j]]
  /\ notified' = [j \in Jobs |-> IF j \in Lost THEN notified[j] + 1 ELSE notified[j]]
  /\ score' = [j \in Jobs |-> IF j \in B THEN NoScore ELSE score[j]]
  /\ UNCHANGED <<payload, attempts, pushes, callerVars>>

-----------------------------------------------------------------------------
Tick ==
  /\ \E j \in Jobs : state[j].ttl > 0
  /\ state' = [j \in Jobs |-> [state[j] EXCEPT !.ttl = IF @ > 0 THEN @ - 1 ELSE 0]]
  /\ score' = [j \in Jobs |-> IF score[j] > 0 THEN score[j] - 1 ELSE score[j]]
  /\ UNCHANGED <<payload, attempts, result, queue, notified, pushes, callerVars>>

-----------------------------------------------------------------------------
Produce == \E j \in Jobs : SeedPayload(j) \/ SeedState(j) \/ Enqueue(j)

Grant == ClaimNothing \/ \E w \in Workers, i \in DOMAIN queue : ClaimJob(w, i)

Call(c) ==
  \/ /\ Decodes(c.job)
     /\ \/ Heartbeat(c)
        \/ Complete(c)
        \/ FinishErrorRetry(c)
        \/ FinishErrorFinal(c)
  \/ ~Decodes(c.job) /\ FailInvalidClaim(c)

Resolve == \E B \in SUBSET Jobs : RequeueExpired(B)

Next ==
  \/ Produce
  \/ Grant
  \/ \E c \in claims : Call(c)
  \/ Resolve
  \/ Tick

Spec == Init /\ [][Next]_vars

(* Time passes, and some worker keeps going round its loop, which resolves *)
(* expired leases and claims a job.  Nothing obliges the holder of a claim *)
(* to ever call again.                                                     *)
FairSpec == Spec /\ WF_vars(Tick) /\ WF_vars(Resolve) /\ WF_vars(Grant)
-----------------------------------------------------------------------------
(***************************************************************************)
(* Properties                                                              *)
(***************************************************************************)

(* Every key holds a value of the shape the program reads from it.         *)
TypeOK ==
  /\ payload \in [Jobs -> PayloadKind \cup {"none"}]
  /\ state \in [Jobs -> StateValue]
  /\ attempts \in [Jobs -> Nat]
  /\ result \in [Jobs -> ResultValue]
  /\ queue \in Seq(Jobs)
  /\ score \in [Jobs -> {NoScore} \cup 0..Lease]
  /\ notified \in [Jobs -> Nat]
  /\ pushes \in [Jobs -> 0..MaxPushes]
  /\ renewals \in [Jobs -> 0..MaxRenewals]
  /\ lastLease \in Nat
  /\ claims \in SUBSET Claim
  /\ accepted \in SUBSET Acceptance

InQueue(j) == \E i \in DOMAIN queue : queue[i] = j

(* The leases sorted set and the state keys are written by different       *)
(* commands of each script, and only the sorted set is searched for expired *)
(* leases.  A member is a Claimed job with the very expiry of its state,   *)
(* and a Claimed job is a member, but for the one case the requeue script  *)
(* leaves behind: its last attempt expired and its payload is no JSON.     *)
LeasesMatchStates ==
  \A j \in Jobs :
    /\ score[j] # NoScore => state[j].status = "Claimed" /\ score[j] = state[j].ttl
    /\ state[j].status = "Claimed" /\ score[j] = NoScore =>
         /\ state[j].ttl = 0
         /\ state[j].attempt = MaxAttempts
         /\ payload[j] = "unparsable"

(* CLAIM_SCRIPT drops every id it cannot claim.  It never drops the last   *)
(* mention of a job that waits: an enqueued Queued job is in the queue.    *)
NothingLost ==
  \A j \in Jobs : state[j].status = "Queued" /\ pushes[j] > 0 => InQueue(j)

ClaimsOf(j) == {c \in claims : c.job = j}

(* However retries, expired leases and repeated enqueues mix, no job is    *)
(* handed out more than max_attempts times; CLAIM_SCRIPT itself never      *)
(* looks at the limit.                                                     *)
AttemptsBounded == \A j \in Jobs : Cardinality(ClaimsOf(j)) <= MaxAttempts

(* The end of a job is announced once, and state, result and notify list   *)
(* tell the same story.  Only a job whose payload is not its own ends      *)
(* without a result or with one its consumer cannot read.                  *)
EndIsConsistent ==
  \A j \in Jobs :
    /\ notified[j] = IF Terminal(j) THEN 1 ELSE 0
    /\ ~Terminal(j) => result[j] = "none"
    /\ state[j].status = "Completed" <=> result[j] = "Success"
    /\ Terminal(j) /\ Decodes(j) => result[j] \in {"Success", "Error"}

Final == {"completed", "failed", "invalid"}

(* At most one holder is ever told that it ended the job, its claim is the *)
(* last one ever granted for the job, and the job ended as it was told.    *)
(* In particular a published proof was never published against the lease   *)
(* of a later worker.                                                      *)
LastHolderEnds ==
  /\ \A a, b \in accepted : a.job = b.job /\ a.lease = b.lease => a = b
  /\ \A a \in accepted : a.verdict \in Final =>
       /\ \A c \in claims : c.job = a.job => c.lease <= a.lease
       /\ state[a.job].status = IF a.verdict = "completed" THEN "Completed" ELSE "Failed"
  /\ \A j \in Jobs : state[j].status = "Completed" =>
       \E a \in accepted : a.job = j /\ a.verdict = "completed"

(* A job that ended stays as it ended: no script touches its state, its    *)
(* result or its announcement again, whatever late call still arrives.     *)
EndIsFinal ==
  [][\A j \in Jobs : Terminal(j) =>
       state'[j] = state[j] /\ result'[j] = result[j] /\ notified'[j] = notified[j]]_vars

(* While a lease runs only its holder ends it: a claim with time left      *)
(* leaves the Claimed status only by a call accepted from that claim, and  *)
(* no call of a claim whose time is over is accepted.                      *)
LeaseRespectedStep ==
  /\ \A j \in Jobs :
       state[j].status = "Claimed" /\ state[j].ttl > 0
         /\ (state'[j].status # "Claimed" \/ state'[j].lease # state[j].lease)
       => \E a \in accepted' \ accepted : a.job = j /\ a.lease = state[j].lease
  /\ \A a \in accepted' \ accepted :
       /\ state[a.job].status = "Claimed" /\ state[a.job].ttl > 0
       /\ state[a.job].lease = a.lease

LeaseIsRespected == [][LeaseRespectedStep]_vars

(* How often the status of a job can still change. *)
ChangesLeft(j) ==
  CASE state[j].status = "Absent"  -> 2 * MaxAttempts + 2
    [] state[j].status = "Queued"  -> 2 * (MaxAttempts - attempts[j]) + 1
    [] state[j].status = "Claimed" -> 2 * (MaxAttempts - attempts[j]) + 2
    [] OTHER                       -> 0

(* No mix of retries, late calls, expired leases and repeated enqueues     *)
(* keeps a job going round: whatever changes its state uses up one of      *)
(* finitely many changes of its status, or else one of the heartbeats of   *)
(* its claim, or else time of its lease.  It is the half of EveryJobEnds   *)
(* that needs no fairness.                                                 *)
UsesUp(j) ==
  \/ ChangesLeft(j)' < ChangesLeft(j)
  \/ /\ ChangesLeft(j)' = ChangesLeft(j)
     /\ \/ renewals'[j] > renewals[j]
        \/ renewals'[j] = renewals[j] /\ state'[j].ttl < state[j].ttl

WorkRunsOutStep ==
  \A j \in Jobs : ChangesLeft(j)' \in Nat /\ (state'[j] # state[j] => UsesUp(j))

WorkRunsOut == [][WorkRunsOutStep]_vars

(* The payload that requeue_expired takes out of the sorted set and leaves *)
(* Claimed for good (see ExpiredAtMaxFails).                               *)
LeftBehind(j) == Exhausted(j) /\ payload[j] = "unparsable"

(* A job in progress never comes to a state no script leads out of, but    *)
(* for two kinds of payload: whenever an enqueued job waits, claim finds   *)
(* it or one before it, and whenever a lease is over, requeue_expired can  *)
(* resolve some lease, unless the job is left behind or a member aborts    *)
(* the script.  It is the other half of EveryJobEnds: with WorkRunsOut it  *)
(* leaves only the calls themselves to fairness.                           *)
NoJobIsStuck ==
  \A j \in Jobs :
    /\ state[j].status = "Queued" /\ pushes[j] > 0 =>
         \E i \in DOMAIN queue : FirstClaimable(i)
    /\ state[j].status = "Claimed" /\ state[j].ttl = 0 /\ ~LeftBehind(j) =>
         \/ \E k \in Expired : Aborts(k)
         \/ \E B \in SUBSET Jobs :
              /\ B # {} /\ Resolvable(B)
              /\ Orders({k \in B : Requeues(k)}) # {}

(* Every job a producer enqueued ends, even if every worker that claims it *)
(* dies: its lease expires, is resolved, and attempts run out.             *)
EveryJobEnds == \A j \in Jobs : pushes[j] > 0 ~> Terminal(j)

(* The contract test's words for an expired lease at the last attempt:     *)
(* "expired lease at max must become Failed".                              *)
ExpiredAtMaxFails ==
  [][\A j \in Jobs : Exhausted(j) /\ score[j] = 0 /\ score'[j] = NoScore =>
       state'[j].status = "Failed"]_vars

(***************************************************************************)
(* The refinement of JobLifecycle: the phase of a job is its state key.    *)
(***************************************************************************)
PhaseOf(j) ==
  CASE state[j].status = "Absent"    -> "new"
    [] state[j].status = "Queued"    -> "waiting"
    [] state[j].status = "Claimed"   -> "working"
    [] state[j].status = "Completed" -> "proved"
    [] state[j].status = "Failed"    -> "failed"

Lifecycle == INSTANCE JobLifecycle
  WITH phase <- [j \in Jobs |-> PhaseOf(j)], tries <- attempts, announced <- notified

(* The scripts keep the promise of JobLifecycle. *)
KeepsPromise == Lifecycle!Spec
=============================================================================
