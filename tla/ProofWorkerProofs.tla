------------------------- MODULE ProofWorkerProofs --------------------------
(***************************************************************************)
(* Theorems about ProofWorker: the loop of the workers stays within what   *)
(* ProofQueue allows, so that every theorem about ProofQueue holds for it, *)
(* and a worker's own deadline never outlives its lease.                   *)
(***************************************************************************)
EXTENDS ProofWorker, ProofQueueProofs

(* A worker uses a claim Redis granted, and rejects it exactly if its      *)
(* payload is no job of its own.                                           *)
Fit(p, c) == c \in claims /\ (p = "rejecting" <=> ~Decodes(c.job))

HeldFit ==
  \A w \in Workers :
    /\ at[w] \in OfHolder \cup {"proving"} => Fit(at[w], held[w])
    /\ at[w] = "claiming" /\ reply[w] = "yes" => held[w] \in claims
    /\ at[w] \in {"starting", "resolving"} => held[w] = NoClaim
    /\ held[w] # NoClaim => held[w].worker = w
    /\ reply[w] # "idle" => at[w] \in Calling

LateFit == \A call \in late : call.at \in OfHolder => Fit(call.at, call.claim)

(* A payload is stored once, before its job can be claimed. *)
Seeded == \A c \in claims : payload[c.job] # "none"

LoopInv == TypeOK /\ WorkerTypeOK /\ HeldFit /\ LateFit /\ Seeded

(* A call that ends a claim was given up only by a worker that had done    *)
(* with the claim.                                                         *)
Spent ==
  \A call \in late : call.at \in OfHolder \ {"beating"} =>
    \A w \in Workers : Working(w) \/ at[w] = "claiming" => held[w] # call.claim

(* The lease of w is in force for another n units at least. *)
Sure(w, n) == n > 0 => Holds(held[w]) /\ state[held[w].job].ttl >= n

(* The deadline, and what will become the deadline when the reply arrives. *)
DeadlineInv ==
  /\ Spent
  /\ \A w \in Workers :
       /\ Working(w) => Sure(w, deadline[w])
       /\ at[w] \in {"claiming", "beating"} /\ reply[w] = "yes" => Sure(w, fresh[w])

-----------------------------------------------------------------------------
LEMMA EffectIsCall ==
  ASSUME NEW p \in OfHolder, NEW c, Fit(p, c), Effect(p, c)
  PROVE  Next
<1>1. Call(c)
  BY DEF Effect, Fit, Call
<1> QED BY <1>1 DEF Fit, Next

(* Every step of a worker, of a late call or of the clocks is a step of    *)
(* ProofQueue, or leaves its variables alone.                              *)
LEMMA StepAllowed == ASSUME LoopInv, [WorkerNext]_workerVars PROVE [Next]_vars
<1>1. CASE Produce /\ UNCHANGED loopVars
  BY <1>1 DEF Next
<1>2. ASSUME NEW w \in Workers, Work(w) PROVE [Next]_vars
  <2>1. CASE ExecuteResolve(w)
    BY <2>1 DEF ExecuteResolve, Next, Resolve
  <2>2. CASE ExecuteClaim(w)
    BY <2>2 DEF ExecuteClaim, Next, Grant
  <2>3. CASE ExecuteHeld(w)
    BY <2>3, EffectIsCall DEF ExecuteHeld, LoopInv, HeldFit
  <2>4. CASE DaemonUp(w) \/ Prove(w) \/ Send(w) \/ Receive(w) \/ CallFails(w) \/ CrashWorker(w)
    BY <2>4 DEF DaemonUp, Prove, Send, Receive, CallFails, CrashWorker
  <2> QED BY <1>2, <2>1, <2>2, <2>3, <2>4 DEF Work, Execute
<1>3. ASSUME NEW call \in late, Late(call) PROVE [Next]_vars
  <2>1. call.by \in Workers
    BY DEF LoopInv, WorkerTypeOK, LateCall
  <2> QED BY <1>3, <2>1, EffectIsCall DEF Late, LoopInv, LateFit, Next, Grant
<1>4. CASE Clock
  BY <1>4 DEF Clock, Next
<1>5. CASE UNCHANGED workerVars
  BY <1>5 DEF workerVars
<1> QED BY <1>1, <1>2, <1>3, <1>4, <1>5 DEF WorkerNext

(* Claims are never forgotten, and the payload of a claimed job stays.     *)
LEMMA ClaimsStay ==
  ASSUME TypeOK, Seeded, [Next]_vars
  PROVE  /\ claims \subseteq claims'
         /\ \A c \in claims : payload'[c.job] = payload[c.job]
         /\ Seeded'
<1>1. ASSUME NEW j \in Jobs, SeedPayload(j)
      PROVE  claims' = claims /\ \A c \in claims : payload'[c.job] = payload[c.job]
  BY <1>1 DEF SeedPayload, callerVars, Seeded, TypeOK
<1>2. ASSUME NEW w \in Workers, NEW i \in DOMAIN queue, ClaimJob(w, i)
      PROVE  claims \subseteq claims' /\ payload' = payload /\ Seeded'
  <2>1. payload[queue[i]] # "none"
    BY <1>2 DEF ClaimJob, FirstClaimable, Claimable
  <2> QED BY <1>2, <2>1 DEF ClaimJob, Seeded
<1>3. ASSUME NEW c \in claims, Call(c) PROVE claims' = claims /\ payload' = payload
  BY <1>3
  DEF Call, Heartbeat, Complete, FinishErrorRetry, FinishErrorFinal, FailInvalidClaim
<1>4. ASSUME NEW j \in Jobs, SeedState(j) \/ Enqueue(j)
      PROVE  claims' = claims /\ payload' = payload
  BY <1>4 DEF SeedState, Enqueue, callerVars
<1>5. CASE ClaimNothing \/ Resolve \/ Tick \/ UNCHANGED vars
  <2>1. claims' = claims /\ payload' = payload
    BY <1>5 DEF ClaimNothing, Resolve, RequeueExpired, Tick, vars, redisVars, callerVars
  <2> QED BY <2>1 DEF Seeded
<1> QED BY <1>1, <1>2, <1>3, <1>4, <1>5 DEF Next, Produce, Grant, Seeded
-----------------------------------------------------------------------------
(* What a failed call, a crash or a reply does to the worker's variables,  *)
(* as far as its types go.                                                 *)
LEMMA MoveTyping ==
  ASSUME WorkerTypeOK, NEW w \in Workers
  PROVE  /\ \A p \in Place : GoTo(w, p) \/ Leave(w, p) =>
              /\ at' \in [Workers -> Place]
              /\ held' \in [Workers -> Claim \cup {NoClaim}]
              /\ deadline' \in [Workers -> 0..Lease]
         /\ NewDeadline(w) => deadline' \in [Workers -> 0..Lease]
         /\ AfterFailure(w) \in Place
         /\ at[w] \in Calling /\ Abandon(w) => late' \in SUBSET LateCall
<1>1. 0 \in 0..Lease
  BY BoundsAssumption
<1>2. ASSUME NEW p \in Place, GoTo(w, p) \/ Leave(w, p)
      PROVE  /\ at' \in [Workers -> Place]
             /\ held' \in [Workers -> Claim \cup {NoClaim}]
             /\ deadline' \in [Workers -> 0..Lease]
  BY <1>1, <1>2 DEF WorkerTypeOK, GoTo, Leave
<1>3. NewDeadline(w) => deadline' \in [Workers -> 0..Lease]
  BY DEF WorkerTypeOK, NewDeadline
<1>4. AfterFailure(w) \in Place
  BY DEF AfterFailure, Place, Calling
<1>5. ASSUME at[w] \in Calling, Abandon(w) PROVE late' \in SUBSET LateCall
  <2>1. [by |-> w, at |-> at[w], claim |-> held[w]] \in LateCall
    BY <1>5 DEF WorkerTypeOK, LateCall
  <2> QED BY <1>5, <2>1 DEF Abandon, WorkerTypeOK
<1> QED BY <1>2, <1>3, <1>4, <1>5

LEMMA WorkerTypeNext ==
  ASSUME LoopInv, [WorkerNext]_workerVars
  PROVE  WorkerTypeOK'
<1> USE DEF LoopInv
<1>1. Lease \in Nat /\ MaxCrashes \in Nat
  BY BoundsAssumption, LoopBoundsAssumption
<1>2. ASSUME NEW w \in Workers, Work(w) PROVE WorkerTypeOK'
  <2>1. CASE DaemonUp(w)
    BY <2>1, MoveTyping DEF DaemonUp, WorkerTypeOK, Place, Calling
  <2>2. CASE Prove(w)
    BY <2>2, MoveTyping DEF Prove, WorkerTypeOK, Place, Calling, OfHolder
  <2>3. CASE Send(w)
    BY <1>1, <2>3 DEF Send, WorkerTypeOK
  <2>4. CASE ExecuteResolve(w)
    BY <2>4 DEF ExecuteResolve, Answer, WorkerTypeOK
  <2>5. CASE ExecuteClaim(w)
    <3>1. held' \in [Workers -> Claim \cup {NoClaim}]
      <4>1. CASE UNCHANGED held
        BY <4>1 DEF WorkerTypeOK
      <4>2. ASSUME NEW i \in DOMAIN queue,
                   held' = [held EXCEPT ![w] =
                     [job |-> queue[i], worker |-> w, lease |-> lastLease + 1]]
            PROVE  held' \in [Workers -> Claim \cup {NoClaim}]
        <5>1. [job |-> queue[i], worker |-> w, lease |-> lastLease + 1] \in Claim
          BY QueueTyping DEF TypeOK, Claim
        <5> QED BY <4>2, <5>1 DEF WorkerTypeOK
      <4> QED BY <2>5, <4>1, <4>2 DEF ExecuteClaim
    <3> QED BY <2>5, <3>1 DEF ExecuteClaim, Answer, WorkerTypeOK
  <2>6. CASE ExecuteHeld(w)
    BY <2>6 DEF ExecuteHeld, Answer, WorkerTypeOK
  <2>7. CASE Receive(w)
    <3>1. /\ at' \in [Workers -> Place]
          /\ held' \in [Workers -> Claim \cup {NoClaim}]
          /\ deadline' \in [Workers -> 0..Lease]
      <4>1. "resolving" \in Place /\ "claiming" \in Place /\ "proving" \in Place
            /\ "retrying" \in Place /\ "rejecting" \in Place
        BY DEF Place, Calling, OfHolder
      <4>2. CASE ReceiveClaim(w)
        BY <4>1, <4>2, MoveTyping DEF ReceiveClaim, Outcome, WorkerTypeOK
      <4>3. CASE ReceiveBeat(w)
        BY <4>1, <4>3, MoveTyping DEF ReceiveBeat, WorkerTypeOK
      <4> QED BY <2>7, <4>1, <4>2, <4>3, MoveTyping DEF Receive
    <3>2. fresh' \in [Workers -> 0..Lease]
          /\ reply' \in [Workers -> {"idle", "sent", "yes", "no", "error"}]
      BY <1>1, <2>7 DEF Receive, WorkerTypeOK
    <3>3. late' = late /\ crashes' = crashes
      BY <2>7 DEF Receive
    <3> QED BY <3>1, <3>2, <3>3 DEF WorkerTypeOK
  <2>8. CASE CallFails(w)
    <3>1. /\ at' \in [Workers -> Place]
          /\ held' \in [Workers -> Claim \cup {NoClaim}]
          /\ deadline' \in [Workers -> 0..Lease]
          /\ at[w] \in Calling
      <4>1. "resolving" \in Place /\ "retrying" \in Place
        BY DEF Place, Calling, OfHolder
      <4>2. at[w] \in Calling
        BY <2>8 DEF CallFails, AfterFailedCall, Calling, OfHolder
      <4> QED BY <2>8, <4>1, <4>2, MoveTyping DEF CallFails, AfterFailedCall, WorkerTypeOK
    <3>2. fresh' \in [Workers -> 0..Lease]
          /\ reply' \in [Workers -> {"idle", "sent", "yes", "no", "error"}]
      BY <1>1, <2>8 DEF CallFails, WorkerTypeOK
    <3>3. late' \in SUBSET LateCall /\ crashes' = crashes
      BY <2>8, <3>1, MoveTyping DEF CallFails
    <3> QED BY <3>1, <3>2, <3>3 DEF WorkerTypeOK
  <2>9. CASE CrashWorker(w)
    <3>1. late' \in SUBSET LateCall
      <4>1. CASE at[w] \in Calling
        BY <2>9, <4>1, MoveTyping DEF CrashWorker
      <4>2. CASE at[w] \notin Calling
        <5>1. reply[w] = "idle"
          BY <4>2 DEF HeldFit
        <5> QED BY <2>9, <5>1 DEF CrashWorker, Abandon, WorkerTypeOK
      <4> QED BY <4>1, <4>2
    <3>2. crashes' \in 0..MaxCrashes
      BY <1>1, <2>9 DEF CrashWorker, WorkerTypeOK
    <3>3. "starting" \in Place
      BY DEF Place
    <3> QED BY <1>1, <2>9, <3>1, <3>2, <3>3, MoveTyping DEF CrashWorker, WorkerTypeOK
  <2> QED BY <1>2, <2>1, <2>2, <2>3, <2>4, <2>5, <2>6, <2>7, <2>8, <2>9 DEF Work, Execute
<1>3. ASSUME NEW call \in late, Late(call) PROVE WorkerTypeOK'
  BY <1>3 DEF Late, WorkerTypeOK
<1>4. CASE Clock
  <2>1. \A n \in 0..Lease : Down(n) \in 0..Lease
    BY <1>1 DEF Down
  <2> QED BY <1>4, <2>1 DEF Clock, WorkerTypeOK
<1>5. CASE UNCHANGED loopVars
  BY <1>5 DEF loopVars, WorkerTypeOK
<1> QED BY <1>2, <1>3, <1>4, <1>5 DEF WorkerNext, workerVars
-----------------------------------------------------------------------------
(* HeldFit, for one worker. *)
FitFor(w) ==
  /\ at[w] \in OfHolder \cup {"proving"} => Fit(at[w], held[w])
  /\ at[w] = "claiming" /\ reply[w] = "yes" => held[w] \in claims
  /\ at[w] \in {"starting", "resolving"} => held[w] = NoClaim
  /\ held[w] # NoClaim => held[w].worker = w
  /\ reply[w] # "idle" => at[w] \in Calling

(* A worker that does not move keeps a claim that fits. *)
LEMMA FitKept ==
  ASSUME LoopInv, [Next]_vars, NEW w \in Workers,
         at'[w] = at[w], held'[w] = held[w], reply'[w] = reply[w]
  PROVE  FitFor(w)'
<1>1. claims \subseteq claims' /\ \A c \in claims : payload'[c.job] = payload[c.job]
  BY ClaimsStay DEF LoopInv
<1>2. FitFor(w)
  BY DEF LoopInv, HeldFit, FitFor
<1> QED BY <1>1, <1>2 DEF FitFor, Fit, Decodes

(* A step of w itself. *)
LEMMA FitOfMover ==
  ASSUME LoopInv, NEW w \in Workers, Work(w), [Next]_vars
  PROVE  FitFor(w)'
<1>1. /\ FitFor(w)
      /\ at \in [Workers -> Place] /\ held \in [Workers -> Claim \cup {NoClaim}]
      /\ reply \in [Workers -> {"idle", "sent", "yes", "no", "error"}]
  BY DEF LoopInv, HeldFit, FitFor, WorkerTypeOK
<1>2. claims \subseteq claims' /\ \A c \in claims : payload'[c.job] = payload[c.job]
  BY ClaimsStay DEF LoopInv
<1>3. CASE DaemonUp(w)
  BY <1>1, <1>3 DEF DaemonUp, GoTo, FitFor, OfHolder, Calling
<1>4. CASE Prove(w)
  BY <1>1, <1>2, <1>4 DEF Prove, GoTo, FitFor, OfHolder, Calling, Fit, Decodes
<1>5. CASE Send(w)
  BY <1>1, <1>2, <1>5 DEF Send, FitFor, Fit, Decodes
<1>6. CASE ExecuteResolve(w)
  BY <1>1, <1>2, <1>6 DEF ExecuteResolve, Answer, FitFor, OfHolder, Calling
<1>7. CASE ExecuteClaim(w)
  <2>1. at[w] = "claiming" /\ at' = at
    BY <1>7 DEF ExecuteClaim
  <2>2. CASE UNCHANGED held /\ Answer(w, "no")
    BY <1>1, <2>1, <2>2 DEF Answer, FitFor, OfHolder, Calling
  <2>3. ASSUME NEW i \in DOMAIN queue, ClaimJob(w, i), Answer(w, "yes"),
               held' = [held EXCEPT ![w] =
                 [job |-> queue[i], worker |-> w, lease |-> lastLease + 1]]
        PROVE  FitFor(w)'
    <3>1. held'[w] = [job |-> queue[i], worker |-> w, lease |-> lastLease + 1]
      BY <1>1, <2>3
    <3>2. held'[w] \in claims' /\ held'[w].worker = w
      BY <2>3, <3>1 DEF ClaimJob
    <3> QED BY <2>1, <3>2 DEF FitFor, OfHolder, Calling
  <2> QED BY <1>7, <2>2, <2>3 DEF ExecuteClaim
<1>8. CASE ExecuteHeld(w)
  BY <1>1, <1>2, <1>8 DEF ExecuteHeld, Answer, FitFor, Fit, Decodes, OfHolder, Calling
<1>9. CASE Receive(w)
  <2>1. reply'[w] = "idle"
    BY <1>1, <1>9 DEF Receive
  <2>2. CASE at[w] = "resolving" /\ GoTo(w, "claiming")
    BY <1>1, <2>1, <2>2 DEF GoTo, FitFor, OfHolder
  <2>3. CASE ReceiveClaim(w)
    <3>1. CASE reply[w] = "yes"
      <4>1. at'[w] = Outcome(held[w].job) /\ held' = held /\ held[w] \in claims
        BY <1>1, <2>3, <3>1 DEF ReceiveClaim, FitFor
      <4>2. Fit(at[w], held[w])' /\ at'[w] \in {"proving", "rejecting"}
        BY <1>2, <4>1 DEF Outcome, Fit, Decodes
      <4> QED BY <1>1, <2>1, <4>1, <4>2 DEF FitFor
    <3>2. CASE reply[w] # "yes"
      BY <1>1, <2>1, <2>3, <3>2 DEF ReceiveClaim, Leave, FitFor, OfHolder
    <3> QED BY <3>1, <3>2
  <2>4. CASE ReceiveBeat(w)
    BY <1>1, <1>2, <2>1, <2>4 DEF ReceiveBeat, GoTo, FitFor, OfHolder, Fit, Decodes
  <2>5. CASE Leave(w, AfterFailure(w))
    BY <1>1, <2>1, <2>5 DEF Leave, AfterFailure, FitFor, OfHolder
  <2> QED BY <1>9, <2>2, <2>3, <2>4, <2>5 DEF Receive
<1>10. CASE CallFails(w)
  <2>1. reply'[w] = "idle"
    BY <1>1, <1>10 DEF CallFails
  <2>2. CASE Leave(w, "resolving") \/ Leave(w, AfterFailure(w))
    BY <1>1, <2>1, <2>2 DEF Leave, AfterFailure, FitFor, OfHolder
  <2>3. CASE UNCHANGED <<at, held, deadline>>
    BY <1>1, <1>2, <2>1, <2>3 DEF FitFor, Fit, Decodes
  <2>4. CASE at[w] = "beating" /\ GoTo(w, "retrying")
    BY <1>1, <1>2, <2>1, <2>4 DEF GoTo, FitFor, OfHolder, Fit, Decodes
  <2> QED BY <1>10, <2>2, <2>3, <2>4 DEF CallFails, AfterFailedCall
<1>11. CASE CrashWorker(w)
  BY <1>1, <1>11 DEF CrashWorker, Leave, FitFor, OfHolder
<1> QED BY <1>3, <1>4, <1>5, <1>6, <1>7, <1>8, <1>9, <1>10, <1>11 DEF Work, Execute

(* A step of w leaves the other workers where they are. *)
LEMMA OtherWorkers ==
  ASSUME WorkerTypeOK, NEW w \in Workers, Work(w), NEW v \in Workers, v # w
  PROVE  /\ at'[v] = at[v] /\ held'[v] = held[v] /\ reply'[v] = reply[v]
         /\ deadline'[v] = deadline[v] /\ fresh'[v] = fresh[v]
<1> USE DEF WorkerTypeOK
<1>1. CASE DaemonUp(w) \/ Prove(w) \/ Send(w)
  BY <1>1 DEF DaemonUp, Prove, Send, GoTo
<1>2. CASE Execute(w)
  BY <1>2 DEF Execute, ExecuteResolve, ExecuteClaim, ExecuteHeld, Answer
<1>3. CASE Receive(w)
  BY <1>3 DEF Receive, ReceiveClaim, ReceiveBeat, GoTo, Leave, NewDeadline
<1>4. CASE CallFails(w)
  BY <1>4 DEF CallFails, AfterFailedCall, GoTo, Leave
<1>5. CASE CrashWorker(w)
  BY <1>5 DEF CrashWorker, Leave
<1> QED BY <1>1, <1>2, <1>3, <1>4, <1>5 DEF Work

(* A step of w adds at most its present call to the late ones. *)
LEMMA LateGrowth ==
  ASSUME NEW w \in Workers, Work(w)
  PROVE  \/ late' = late
         \/ /\ late' = late \cup {[by |-> w, at |-> at[w], claim |-> held[w]]}
            /\ reply[w] = "sent" /\ (CallFails(w) \/ CrashWorker(w))
<1>1. CASE CallFails(w) \/ CrashWorker(w)
  BY <1>1 DEF CallFails, CrashWorker, Abandon
<1>2. CASE ~(CallFails(w) \/ CrashWorker(w))
  BY <1>2 DEF Work, Execute, ExecuteResolve, ExecuteClaim, ExecuteHeld, DaemonUp, Prove, Send, Receive
<1> QED BY <1>1, <1>2

LEMMA LoopInvNext == ASSUME LoopInv, [WorkerNext]_workerVars PROVE LoopInv'
<1>1. [Next]_vars /\ WorkerTypeOK'
  BY StepAllowed, WorkerTypeNext
<1>2. TypeOK'
  BY <1>1, TypeNext DEF LoopInv
<1>3. /\ claims \subseteq claims'
      /\ \A c \in claims : payload'[c.job] = payload[c.job]
      /\ Seeded'
  BY <1>1, ClaimsStay DEF LoopInv
<1>4. \A v \in Workers :
        at'[v] = at[v] /\ held'[v] = held[v] /\ reply'[v] = reply[v] => FitFor(v)'
  BY <1>1, FitKept
<1>5. ASSUME NEW w \in Workers, Work(w) PROVE HeldFit' /\ LateFit'
  <2>1. ASSUME NEW v \in Workers PROVE FitFor(v)'
    <3>1. CASE v = w
      BY <1>1, <1>5, <3>1, FitOfMover
    <3>2. CASE v # w
      BY <1>4, <1>5, <3>2, OtherWorkers DEF LoopInv
    <3> QED BY <3>1, <3>2
  <2>2. ASSUME NEW call \in late', call.at \in OfHolder PROVE Fit(call.at, call.claim)'
    <3>1. CASE call \in late
      BY <1>3, <2>2, <3>1 DEF LoopInv, LateFit, Fit, Decodes
    <3>2. CASE call = [by |-> w, at |-> at[w], claim |-> held[w]]
      BY <1>3, <2>2, <3>2 DEF LoopInv, HeldFit, Fit, Decodes
    <3> QED BY <1>5, <2>2, <3>1, <3>2, LateGrowth
  <2> QED BY <2>1, <2>2 DEF HeldFit, LateFit, FitFor
<1>6. CASE UNCHANGED <<at, held, reply>> /\ late' \subseteq late
  <2>1. HeldFit'
    BY <1>4, <1>6 DEF HeldFit, FitFor
  <2>2. LateFit'
    BY <1>3, <1>6 DEF LoopInv, LateFit, Fit, Decodes
  <2> QED BY <1>1, <1>2, <1>3, <2>1, <2>2 DEF LoopInv
<1>7. ASSUME ~(\E w \in Workers : Work(w)) PROVE UNCHANGED <<at, held, reply>> /\ late' \subseteq late
  BY <1>7 DEF WorkerNext, Late, Clock, loopVars, workerVars
<1> QED BY <1>1, <1>2, <1>3, <1>5, <1>6, <1>7 DEF LoopInv

LEMMA LoopInvInit == WorkerInit => LoopInv
<1> SUFFICES ASSUME WorkerInit PROVE LoopInv
  OBVIOUS
<1>1. TypeOK
  BY TypeInit DEF WorkerInit
<1>2. WorkerTypeOK
  BY BoundsAssumption, LoopBoundsAssumption DEF WorkerInit, WorkerTypeOK, Place
<1>3. HeldFit
  BY DEF WorkerInit, HeldFit, OfHolder
<1>4. claims = {} /\ late = {}
  BY DEF WorkerInit, Init
<1> QED BY <1>1, <1>2, <1>3, <1>4 DEF LoopInv, LateFit, Seeded

LEMMA LoopInvCorrect == WorkerSpec => []LoopInv
<1>1. WorkerInit => LoopInv
  BY LoopInvInit
<1>2. LoopInv /\ [WorkerNext]_workerVars => LoopInv'
  BY LoopInvNext
<1> QED BY <1>1, <1>2, PTL DEF WorkerSpec

(* The variables of the loop stay in their types (WorkerTypeOK).           *)
THEOREM WorkerTypeCorrect == WorkerSpec => []WorkerTypeOK
<1>1. LoopInv => WorkerTypeOK
  BY DEF LoopInv
<1> QED BY <1>1, LoopInvCorrect, PTL

(* The workers' loop, with lost replies, calls executed late and crashes,  *)
(* implements ProofQueue (ImplementsQueue): all that is proved of          *)
(* ProofQueue holds for it.                                                *)
THEOREM QueueImplemented == WorkerSpec => ImplementsQueue
<1>1. WorkerInit => Init
  BY DEF WorkerInit
<1>2. LoopInv /\ [WorkerNext]_workerVars => [Next]_vars
  BY StepAllowed
<1> QED BY <1>1, <1>2, LoopInvCorrect, PTL DEF WorkerSpec, ImplementsQueue, Spec

(* Through both refinements: the workers' loops, with all that may happen  *)
(* to their calls and to themselves, move each job as JobLifecycle says    *)
(* (KeepsPromise).                                                         *)
THEOREM LoopKeepsPromise == WorkerSpec => KeepsPromise
BY QueueImplemented, PromiseKept, PTL DEF ImplementsQueue

(* What the queue guarantees to any callers it guarantees to these: no job *)
(* waits unseen, gets stuck, gets more attempts than it may, ends twice or *)
(* otherwise than its last holder was told, loses a lease that is in       *)
(* force, or goes round for ever (NothingLost, NoJobIsStuck,               *)
(* AttemptsBounded, EndIsConsistent, LastHolderEnds, EndIsFinal,           *)
(* LeaseIsRespected, WorkRunsOut).                                         *)
THEOREM LoopKeepsQueueSafe ==
  WorkerSpec =>
    /\ [](NothingLost /\ NoJobIsStuck /\ AttemptsBounded /\ EndIsConsistent /\ LastHolderEnds)
    /\ EndIsFinal /\ LeaseIsRespected /\ WorkRunsOut
<1>1. Spec =>
        [](NothingLost /\ NoJobIsStuck /\ AttemptsBounded /\ EndIsConsistent /\ LastHolderEnds)
  BY NothingLostCorrect, NeverStuck, AttemptsCorrect, EndConsistent, FencingCorrect, PTL
<1>2. Spec => EndIsFinal /\ LeaseIsRespected /\ WorkRunsOut
  BY EndFinal, LeaseRespected, StatesRunOut
<1> QED BY <1>1, <1>2, QueueImplemented, PTL DEF ImplementsQueue
-----------------------------------------------------------------------------
(* A lease in force is ended by its own holder's calls and by the clock,   *)
(* and by nothing else.                                                    *)
LEMMA LeaseKept ==
  ASSUME TypeOK, NEW c \in claims, Holds(c),
         \/ Produce \/ Grant \/ Resolve \/ UNCHANGED vars
         \/ \E d \in claims, p \in OfHolder : Effect(p, d) /\ (d # c \/ p = "beating")
  PROVE  /\ Holds(c)'
         /\ \A n \in 0..Lease : state[c.job].ttl >= n => state'[c.job].ttl >= n
<1> DEFINE j == c.job
<1>1. /\ j \in Jobs /\ state[j] \in StateValue /\ state \in [Jobs -> StateValue]
      /\ state[j].ttl \in 0..Lease /\ Lease \in Nat
      /\ state[j].status = "Claimed" /\ state[j].ttl > 0
  BY BoundsAssumption DEF TypeOK, Claim, StateValue, Holds
<1>2. SUFFICES \/ state'[j] = state[j]
               \/ state'[j] = [state[j] EXCEPT !.ttl = Lease]
  BY <1>1 DEF Holds, StateValue
<1>3. ASSUME NEW k \in Jobs, SeedPayload(k) \/ SeedState(k) \/ Enqueue(k)
      PROVE  state'[j] = state[j]
  BY <1>1, <1>3 DEF SeedPayload, SeedState, Enqueue
<1>4. ASSUME NEW w \in Workers, NEW i \in DOMAIN queue, ClaimJob(w, i)
      PROVE  state'[j] = state[j]
  BY <1>1, <1>4 DEF ClaimJob, FirstClaimable, Claimable
<1>5. ASSUME NEW B \in SUBSET Jobs, RequeueExpired(B) PROVE state'[j] = state[j]
  BY <1>1, <1>5 DEF RequeueExpired, Requeues, Fails, Exhausted, Overdue
<1>6. CASE ClaimNothing \/ UNCHANGED vars
  BY <1>6 DEF ClaimNothing, vars, redisVars
<1>7. ASSUME NEW d \in claims, NEW p \in OfHolder, Effect(p, d), d # c \/ p = "beating"
      PROVE  state'[j] = state[j] \/ state'[j] = [state[j] EXCEPT !.ttl = Lease]
  <2>1. Holds(d) /\ d.job \in Jobs
    BY <1>7 DEF Effect, Heartbeat, Complete, FinishErrorRetry, FinishErrorFinal,
                FailInvalidClaim, TypeOK, Claim
  <2>2. CASE d.job # j
    BY <1>1, <1>7, <2>1, <2>2
    DEF Effect, Heartbeat, Renew, Complete, FinishErrorRetry, FinishErrorFinal, FailInvalidClaim
  <2>3. CASE d.job = j
    <3>1. /\ c = [job |-> c.job, worker |-> c.worker, lease |-> c.lease]
          /\ d = [job |-> d.job, worker |-> d.worker, lease |-> d.lease]
      BY DEF TypeOK, Claim
    <3>2. c.worker = d.worker /\ c.lease = d.lease
      BY <2>1, <2>3 DEF Holds
    <3>3. d = c
      BY <2>3, <3>1, <3>2
    <3>4. Heartbeat(c)
      BY <1>7, <3>3 DEF Effect
    <3> QED BY <1>1, <3>4 DEF Heartbeat, Renew
  <2> QED BY <2>2, <2>3
<1> QED BY <1>3, <1>4, <1>5, <1>6, <1>7 DEF Produce, Grant, Resolve

(* DeadlineInv, for one worker. *)
SureFor(w) ==
  /\ Working(w) => Sure(w, deadline[w])
  /\ at[w] \in {"claiming", "beating"} /\ reply[w] = "yes" => Sure(w, fresh[w])

(* A worker that does not move keeps its lease. *)
LEMMA SureKept ==
  ASSUME LoopInv, NEW v \in Workers, SureFor(v),
         at'[v] = at[v], held'[v] = held[v], reply'[v] = reply[v],
         deadline'[v] = deadline[v], fresh'[v] = fresh[v],
         \/ Produce \/ Grant \/ Resolve \/ UNCHANGED vars
         \/ \E d \in claims, p \in OfHolder :
              Effect(p, d) /\ (Working(v) \/ at[v] = "claiming" => d # held[v] \/ p = "beating")
  PROVE  SureFor(v)'
<1>1. SUFFICES ASSUME NEW n \in 0..Lease, Sure(v, n), held[v] \in claims,
                      Working(v) \/ at[v] = "claiming"
               PROVE  n > 0 => Holds(held[v])' /\ state'[held[v].job].ttl >= n
  <2>1. deadline[v] \in 0..Lease /\ fresh[v] \in 0..Lease
    BY DEF LoopInv, WorkerTypeOK
  <2>2. Working(v) \/ (at[v] \in {"claiming", "beating"} /\ reply[v] = "yes") => held[v] \in claims
    BY DEF LoopInv, HeldFit, Fit, Working, OfHolder
  <2>3. Working(v)' = Working(v)
    BY DEF Working
  <2> QED BY <1>1, <2>1, <2>2, <2>3 DEF SureFor, Sure, Working, Holds
<1>2. SUFFICES ASSUME n > 0 PROVE Holds(held[v])' /\ state'[held[v].job].ttl >= n
  OBVIOUS
<1>3. Holds(held[v]) /\ state[held[v].job].ttl >= n
  BY <1>1, <1>2 DEF Sure
<1> QED BY <1>1, <1>3, LeaseKept DEF LoopInv

(* A step of w itself. *)
LEMMA SureOfMover ==
  ASSUME LoopInv, NEW w \in Workers, SureFor(w), Work(w)
  PROVE  SureFor(w)'
<1>1. /\ at \in [Workers -> Place] /\ held \in [Workers -> Claim \cup {NoClaim}]
      /\ reply \in [Workers -> {"idle", "sent", "yes", "no", "error"}]
      /\ deadline \in [Workers -> 0..Lease] /\ fresh \in [Workers -> 0..Lease]
      /\ state \in [Jobs -> StateValue] /\ Lease \in Nat \ {0}
      /\ reply[w] # "idle" => at[w] \in Calling
  BY BoundsAssumption DEF LoopInv, WorkerTypeOK, TypeOK, HeldFit
<1>2. CASE DaemonUp(w)
  BY <1>1, <1>2 DEF DaemonUp, GoTo, SureFor, Working
<1>3. CASE Prove(w)
  <2>1. /\ at'[w] \in {"publishing", "failing", "retrying", "beating"} /\ reply'[w] = "idle"
        /\ held' = held /\ deadline' = deadline /\ state' = state /\ Working(w)
    BY <1>1, <1>3 DEF Prove, GoTo, Calling, OfHolder, Working, vars, redisVars
  <2> QED BY <2>1 DEF SureFor, Working, Sure, Holds
<1>4. CASE Send(w)
  BY <1>1, <1>4 DEF Send, SureFor, Working, Sure, Holds, vars, redisVars
<1>5. CASE ExecuteResolve(w)
  BY <1>5 DEF ExecuteResolve, SureFor, Working
<1>6. CASE ExecuteClaim(w)
  <2>1. at'[w] = "claiming" /\ fresh' = fresh
    BY <1>6 DEF ExecuteClaim
  <2>2. CASE Answer(w, "no")
    BY <1>1, <2>1, <2>2 DEF Answer, SureFor, Working
  <2>3. ASSUME NEW i \in DOMAIN queue, ClaimJob(w, i),
               held' = [held EXCEPT ![w] =
                 [job |-> queue[i], worker |-> w, lease |-> lastLease + 1]]
        PROVE  SureFor(w)'
    <3>1. queue[i] \in Jobs
      BY QueueTyping DEF LoopInv, TypeOK
    <3>2. /\ held'[w] = [job |-> queue[i], worker |-> w, lease |-> lastLease + 1]
          /\ state'[queue[i]] = Claimed(w, lastLease + 1, attempts[queue[i]] + 1)
      BY <1>1, <2>3, <3>1 DEF ClaimJob
    <3>3. Holds(held[w])' /\ state'[held'[w].job].ttl = Lease
      BY <1>1, <3>2 DEF Holds, Claimed
    <3>4. fresh'[w] \in 0..Lease
      BY <1>1, <2>1
    <3> QED BY <1>1, <2>1, <3>3, <3>4 DEF SureFor, Sure, Working
  <2> QED BY <1>6, <2>2, <2>3 DEF ExecuteClaim
<1>7. CASE ExecuteHeld(w)
  <2>1. at' = at /\ held' = held /\ deadline' = deadline /\ fresh' = fresh /\ at[w] \in OfHolder
    BY <1>7 DEF ExecuteHeld
  <2>2. CASE at[w] # "beating"
    BY <2>1, <2>2 DEF SureFor, Working, OfHolder
  <2>3. CASE at[w] = "beating" /\ Heartbeat(held[w])
    <3>1. held[w].job \in Jobs /\ Holds(held[w])
      BY <2>3 DEF LoopInv, HeldFit, Fit, OfHolder, TypeOK, Claim, Heartbeat
    <3>2. state'[held[w].job] = [state[held[w].job] EXCEPT !.ttl = Lease]
      BY <1>1, <2>3, <3>1 DEF Heartbeat, Renew
    <3>3. Holds(held[w])' /\ state'[held'[w].job].ttl = Lease
      BY <1>1, <2>1, <3>1, <3>2 DEF Holds, StateValue
    <3> QED BY <1>1, <2>1, <3>3 DEF SureFor, Sure
  <2>4. CASE UNCHANGED vars /\ Answer(w, "no")
    BY <1>1, <2>1, <2>4 DEF Answer, SureFor, Sure, Working, Holds, vars, redisVars
  <2> QED BY <1>7, <2>1, <2>2, <2>3, <2>4 DEF ExecuteHeld, Effect
<1>8. CASE Receive(w)
  <2>1. reply'[w] = "idle" /\ state' = state
    BY <1>1, <1>8 DEF Receive, vars, redisVars
  <2>2. CASE ReceiveClaim(w) /\ reply[w] = "yes"
    <3>1. deadline'[w] = fresh[w] /\ held' = held /\ Sure(w, fresh[w])
      BY <1>1, <2>2 DEF ReceiveClaim, NewDeadline, SureFor
    <3> QED BY <2>1, <3>1 DEF SureFor, Sure, Holds
  <2>3. CASE ReceiveBeat(w) /\ reply[w] = "yes"
    <3>1. deadline'[w] = fresh[w] /\ held' = held /\ Sure(w, fresh[w])
      BY <1>1, <2>3 DEF ReceiveBeat, NewDeadline, SureFor
    <3> QED BY <2>1, <3>1 DEF SureFor, Sure, Holds
  <2>4. CASE ~(reply[w] = "yes" /\ (ReceiveClaim(w) \/ ReceiveBeat(w)))
    <3>1. at'[w] \in {"starting", "resolving", "claiming", "retrying"}
      BY <1>1, <1>8, <2>4
      DEF Receive, ReceiveClaim, ReceiveBeat, GoTo, Leave, AfterFailure
    <3> QED BY <2>1, <3>1 DEF SureFor, Working
  <2> QED BY <2>2, <2>3, <2>4
<1>9. CASE CallFails(w)
  <2>1. reply'[w] = "idle" /\ state' = state
    BY <1>1, <1>9 DEF CallFails, vars, redisVars
  <2>2. CASE UNCHANGED <<at, held, deadline>>
    BY <2>1, <2>2 DEF SureFor, Sure, Working, Holds
  <2>3. CASE at'[w] \in {"starting", "resolving", "retrying"}
    BY <2>1, <2>3 DEF SureFor, Working
  <2> QED BY <1>1, <1>9, <2>2, <2>3 DEF CallFails, AfterFailedCall, GoTo, Leave, AfterFailure
<1>10. CASE CrashWorker(w)
  BY <1>1, <1>10 DEF CrashWorker, Leave, SureFor, Working
<1> QED BY <1>2, <1>3, <1>4, <1>5, <1>6, <1>7, <1>8, <1>9, <1>10 DEF Work, Execute

(* Both clocks run at the same rate. *)
LEMMA SureClock ==
  ASSUME LoopInv, NEW w \in Workers, SureFor(w), Clock
  PROVE  SureFor(w)'
<1>1. at' = at /\ held' = held /\ reply' = reply
  BY DEF Clock
<1>2. /\ deadline[w] \in 0..Lease /\ deadline'[w] = Down(deadline[w])
      /\ fresh[w] \in 0..Lease /\ fresh'[w] = Down(fresh[w])
      /\ Lease \in Nat
  BY BoundsAssumption DEF Clock, LoopInv, WorkerTypeOK
<1>3. ASSUME NEW n \in 0..Lease, Sure(w, n), held[w] \in claims, Down(n) > 0
      PROVE  Holds(held[w])' /\ state'[held[w].job].ttl >= Down(n)
  <2> DEFINE j == held[w].job
  <2>1. n > 1 /\ Down(n) = n - 1
    BY <1>2, <1>3 DEF Down
  <2>2. Holds(held[w]) /\ state[j].ttl >= n
    BY <1>2, <1>3, <2>1 DEF Sure
  <2>3. j \in Jobs /\ state[j] \in StateValue /\ state[j].ttl \in 0..Lease
    BY <1>3 DEF LoopInv, TypeOK, Claim, StateValue
  <2>4. Tick
    BY <1>2, <2>1, <2>2, <2>3 DEF Clock
  <2>5. state'[j] = [state[j] EXCEPT !.ttl = IF @ > 0 THEN @ - 1 ELSE 0]
    BY <2>3, <2>4 DEF Tick
  <2>6. state'[j].ttl = state[j].ttl - 1
    BY <1>2, <2>1, <2>2, <2>3, <2>5 DEF StateValue
  <2>7. Holds(held[w])'
    BY <1>1, <1>2, <2>1, <2>2, <2>3, <2>5, <2>6 DEF Holds, StateValue
  <2> QED BY <1>2, <2>1, <2>2, <2>3, <2>6, <2>7
<1>4. Working(w) \/ (at[w] \in {"claiming", "beating"} /\ reply[w] = "yes") => held[w] \in claims
  BY DEF LoopInv, HeldFit, Fit, Working, OfHolder
<1> QED BY <1>1, <1>2, <1>3, <1>4 DEF SureFor, Sure, Working, Holds

(* Where the claim comes from that w works on after its step. *)
LEMMA HeldOrigin ==
  ASSUME LoopInv, NEW w \in Workers, Work(w), Working(w)' \/ at'[w] = "claiming"
  PROVE  \/ (Working(w) \/ at[w] = "claiming") /\ held'[w] = held[w]
         \/ held'[w] = NoClaim
         \/ held'[w].lease = lastLease + 1
<1>1. /\ at \in [Workers -> Place] /\ held \in [Workers -> Claim \cup {NoClaim}]
      /\ at[w] \in {"starting", "resolving"} => held[w] = NoClaim
  BY DEF LoopInv, WorkerTypeOK, HeldFit
<1>2. CASE DaemonUp(w)
  BY <1>1, <1>2 DEF DaemonUp, GoTo
<1>3. CASE Prove(w)
  BY <1>1, <1>3 DEF Prove, GoTo, Working
<1>4. CASE Send(w) \/ ExecuteResolve(w) \/ ExecuteHeld(w)
  BY <1>4 DEF Send, ExecuteResolve, ExecuteHeld, Working
<1>5. CASE ExecuteClaim(w)
  BY <1>1, <1>5 DEF ExecuteClaim, Working
<1>6. CASE Receive(w)
  BY <1>1, <1>6 DEF Receive, ReceiveClaim, ReceiveBeat, GoTo, Leave, AfterFailure, Working
<1>7. CASE CallFails(w)
  BY <1>1, <1>7 DEF CallFails, AfterFailedCall, GoTo, Leave, AfterFailure, Working
<1>8. CASE CrashWorker(w)
  BY <1>1, <1>8 DEF CrashWorker, Leave
<1> QED BY <1>2, <1>3, <1>4, <1>5, <1>6, <1>7, <1>8 DEF Work, Execute

LEMMA SpentNext ==
  ASSUME LoopInv, LeaseInv, Spent, NEW w \in Workers, Work(w)
  PROVE  Spent'
<1> SUFFICES ASSUME NEW call \in late', call.at \in OfHolder \ {"beating"},
                    NEW v \in Workers, Working(v)' \/ at'[v] = "claiming"
             PROVE  held'[v] # call.claim
  BY DEF Spent
<1>1. v # w => at'[v] = at[v] /\ held'[v] = held[v]
  BY OtherWorkers DEF LoopInv
<1>2. ASSUME NEW c \in claims PROVE c # NoClaim /\ c.lease # lastLease + 1
  <2>1. c \in Claim /\ c.lease \in Nat /\ lastLease \in Nat /\ c.lease <= lastLease
    BY DEF LoopInv, TypeOK, Claim, LeaseInv
  <2> QED BY <2>1, NoClaimAssumption
<1>3. CASE call \in late
  <2>1. call.claim \in claims
    BY <1>3 DEF LoopInv, LateFit, Fit
  <2>2. Working(v) \/ at[v] = "claiming" => held[v] # call.claim
    BY <1>3 DEF Spent
  <2>3. CASE v # w
    BY <1>1, <2>2, <2>3 DEF Working
  <2>4. CASE v = w
    BY <1>2, <2>1, <2>2, <2>4, HeldOrigin
  <2> QED BY <2>3, <2>4
<1>4. CASE call \notin late
  <2>1. call = [by |-> w, at |-> at[w], claim |-> held[w]] /\ (CallFails(w) \/ CrashWorker(w))
    BY <1>4, LateGrowth
  <2>2. at[w] \in OfHolder \ {"beating"} /\ held[w] \in claims /\ call.claim = held[w]
    BY <2>1 DEF LoopInv, HeldFit, Fit
  <2>3. held[w].worker = w
    BY <1>2, <2>2 DEF LoopInv, HeldFit
  <2>4. CASE v # w
    BY <1>1, <1>2, <2>2, <2>3, <2>4 DEF LoopInv, HeldFit
  <2>5. CASE v = w
    <3>1. at \in [Workers -> Place]
      BY DEF LoopInv, WorkerTypeOK
    <3>2. at'[w] \in {"starting", "resolving", at[w]}
      BY <2>1, <2>2, <3>1
      DEF CallFails, AfterFailedCall, CrashWorker, Leave, AfterFailure, OfHolder
    <3> QED BY <2>2, <2>5, <3>2 DEF Working, OfHolder
  <2> QED BY <2>4, <2>5
<1> QED BY <1>3, <1>4

LEMMA DeadlineInvNext ==
  ASSUME LoopInv, LeaseInv, DeadlineInv, [WorkerNext]_workerVars
  PROVE  DeadlineInv'
<1>1. Spent /\ \A v \in Workers : SureFor(v)
  BY DEF DeadlineInv, SureFor
<1>2. SUFFICES Spent' /\ \A v \in Workers : SureFor(v)'
  BY DEF DeadlineInv, SureFor
<1>3. ASSUME NEW w \in Workers, Work(w) PROVE Spent' /\ \A v \in Workers : SureFor(v)'
  <2>1. ASSUME NEW v \in Workers, v # w PROVE SureFor(v)'
    <3>1. /\ at'[v] = at[v] /\ held'[v] = held[v] /\ reply'[v] = reply[v]
          /\ deadline'[v] = deadline[v] /\ fresh'[v] = fresh[v]
      BY <1>3, <2>1, OtherWorkers DEF LoopInv
    <3>2. \/ Grant \/ Resolve \/ UNCHANGED vars
          \/ \E d \in claims, p \in OfHolder :
               Effect(p, d) /\ (Working(v) \/ at[v] = "claiming" => d # held[v] \/ p = "beating")
      <4>1. CASE ExecuteHeld(w)
        <5>1. at[w] \in OfHolder /\ held[w] \in claims /\ held[w] # NoClaim
          BY <4>1, NoClaimAssumption DEF ExecuteHeld, LoopInv, HeldFit, Fit, TypeOK
        <5>2. held[w] # held[v]
          BY <2>1, <5>1 DEF LoopInv, HeldFit
        <5> QED BY <4>1, <5>1, <5>2 DEF ExecuteHeld
      <4>2. CASE ExecuteResolve(w)
        BY <4>2 DEF ExecuteResolve, Resolve
      <4>3. CASE ExecuteClaim(w)
        BY <4>3 DEF ExecuteClaim, Grant
      <4>4. CASE ~Execute(w)
        BY <1>3, <4>4 DEF Work, DaemonUp, Prove, Send, Receive, CallFails, CrashWorker
      <4> QED BY <4>1, <4>2, <4>3, <4>4 DEF Execute
    <3> QED BY <1>1, <3>1, <3>2, SureKept
  <2> QED BY <1>1, <1>3, <2>1, SpentNext, SureOfMover
<1>4. ASSUME UNCHANGED <<at, held, reply, deadline, fresh>>, late' \subseteq late,
             \/ Produce \/ Grant \/ Resolve \/ UNCHANGED vars
             \/ \E call \in late : call.at \in OfHolder /\ Effect(call.at, call.claim)
      PROVE  Spent' /\ \A v \in Workers : SureFor(v)'
  <2>1. Spent'
    BY <1>1, <1>4 DEF Spent, Working
  <2>2. ASSUME NEW v \in Workers PROVE SureFor(v)'
    <3>1. ASSUME NEW call \in late, call.at \in OfHolder, Effect(call.at, call.claim)
          PROVE  \E d \in claims, p \in OfHolder :
                   Effect(p, d) /\ (Working(v) \/ at[v] = "claiming" => d # held[v] \/ p = "beating")
      <4>1. call.claim \in claims
        BY <3>1 DEF LoopInv, LateFit, Fit
      <4>2. Working(v) \/ at[v] = "claiming" => call.claim # held[v] \/ call.at = "beating"
        BY <1>1, <3>1 DEF Spent
      <4> QED BY <3>1, <4>1, <4>2
    <3> QED BY <1>1, <1>4, <3>1, SureKept
  <2> QED BY <2>1, <2>2
<1>5. ASSUME NEW call \in late, Late(call) PROVE Spent' /\ \A v \in Workers : SureFor(v)'
  <2>1. call.by \in Workers
    BY DEF LoopInv, WorkerTypeOK, LateCall
  <2> QED BY <1>4, <1>5, <2>1 DEF Late, Grant
<1>6. CASE Clock
  <2>1. Spent'
    BY <1>1, <1>6 DEF Clock, Spent, Working
  <2> QED BY <1>1, <1>6, <2>1, SureClock
<1>7. CASE (Produce /\ UNCHANGED loopVars) \/ UNCHANGED workerVars
  BY <1>4, <1>7 DEF loopVars, workerVars
<1> QED BY <1>3, <1>5, <1>6, <1>7 DEF WorkerNext

LEMMA DeadlineInvCorrect == WorkerSpec => []DeadlineInv
<1>1. WorkerInit => DeadlineInv
  BY DEF WorkerInit, DeadlineInv, Spent, Working
<1>2. LoopInv /\ LeaseInv /\ DeadlineInv /\ [WorkerNext]_workerVars => DeadlineInv'
  BY DeadlineInvNext
<1>3. WorkerSpec => []LeaseInv
  BY QueueImplemented, LeaseInvCorrect, PTL DEF ImplementsQueue
<1> QED BY <1>1, <1>2, <1>3, LoopInvCorrect, PTL DEF WorkerSpec

(* As long as a worker's own deadline has not come, its lease is in force  *)
(* and lasts at least until then (LocalDeadlineSafe).                      *)
THEOREM DeadlineSafe == WorkerSpec => []LocalDeadlineSafe
<1>1. DeadlineInv => LocalDeadlineSafe
  BY DEF DeadlineInv, Sure, LocalDeadlineSafe
<1> QED BY <1>1, DeadlineInvCorrect, PTL

(* No two workers prove the same job within their deadlines (OneProver).   *)
THEOREM SoleProver == WorkerSpec => []OneProver
<1>1. ASSUME LoopInv, LocalDeadlineSafe PROVE OneProver
  <2> SUFFICES ASSUME NEW v \in Workers, NEW w \in Workers, Working(v), Working(w),
                      deadline[v] > 0, deadline[w] > 0, held[v].job = held[w].job
               PROVE  v = w
    BY DEF OneProver
  <2>1. Holds(held[v]) /\ Holds(held[w])
    BY <1>1 DEF LocalDeadlineSafe
  <2>2. held[v] # NoClaim /\ held[w] # NoClaim
    BY <1>1, NoClaimAssumption
    DEF LoopInv, HeldFit, Fit, Working, OfHolder, TypeOK
  <2> QED BY <1>1, <2>1, <2>2 DEF LoopInv, HeldFit, Holds
<1>2. LoopInv /\ LocalDeadlineSafe => OneProver
  BY <1>1
<1> QED BY <1>2, LoopInvCorrect, DeadlineSafe, PTL
=============================================================================
