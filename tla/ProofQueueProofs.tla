-------------------------- MODULE ProofQueueProofs --------------------------
(***************************************************************************)
(* Theorems about ProofQueue for any finite set of jobs, any workers and   *)
(* any bounds.                                                             *)
(***************************************************************************)
EXTENDS ProofQueue, FiniteSetTheorems, SequenceTheorems, TLAPS

(* The queue keeps its type under the three ways a script changes it.      *)
LEMMA QueueTyping ==
  ASSUME NEW q \in Seq(Jobs)
  PROVE  /\ \A j \in Jobs : Append(q, j) \in Seq(Jobs)
         /\ \A i \in DOMAIN q : q[i] \in Jobs /\ SubSeq(q, i + 1, Len(q)) \in Seq(Jobs)
         /\ \A S \in SUBSET Jobs : \A s \in Orders(S) : s \in Seq(Jobs) /\ q \o s \in Seq(Jobs)
<1>1. \A j \in Jobs : Append(q, j) \in Seq(Jobs)
  BY AppendProperties
<1>2. ASSUME NEW i \in DOMAIN q
      PROVE  q[i] \in Jobs /\ SubSeq(q, i + 1, Len(q)) \in Seq(Jobs)
  <2>1. i \in 1..Len(q) /\ Len(q) \in Nat
    BY LenProperties
  <2>2. q[i] \in Jobs
    BY <2>1, ElementOfSeq
  <2>3. SubSeq(q, i + 1, Len(q)) \in Seq(Jobs)
    BY <2>1, SubSeqProperties
  <2> QED BY <2>2, <2>3
<1>3. ASSUME NEW S \in SUBSET Jobs, NEW s \in Orders(S)
      PROVE  s \in Seq(Jobs) /\ q \o s \in Seq(Jobs)
  <2>1. IsFiniteSet(S)
    BY JobsAssumption, FS_Subset
  <2>2. Cardinality(S) \in Nat
    BY <2>1, FS_CardinalityType
  <2>3. s \in [1..Cardinality(S) -> Jobs]
    BY DEF Orders
  <2>4. s \in Seq(Jobs)
    BY <2>2, <2>3, SeqDef
  <2>5. q \o s \in Seq(Jobs)
    BY <2>4, ConcatProperties
  <2> QED BY <2>4, <2>5
<1> QED BY <1>1, <1>2, <1>3
(* What a script stores under a state key is a state value.                *)
LEMMA StateTyping ==
  /\ \A status \in Status : \A n \in Nat : Blank(status, n) \in StateValue
  /\ \A w \in Workers : \A l \in Nat : \A n \in Nat : Claimed(w, l, n) \in StateValue
<1> QED BY BoundsAssumption DEF Blank, Claimed, StateValue, Status

(* Only the expiry of a stored state changes under a heartbeat or a tick.  *)
LEMMA TtlTyping ==
  ASSUME NEW s \in StateValue
  PROVE  /\ [s EXCEPT !.ttl = Lease] \in StateValue
         /\ [s EXCEPT !.ttl = IF @ > 0 THEN @ - 1 ELSE 0] \in StateValue
<1>1. Lease \in 0..Lease /\ (IF s.ttl > 0 THEN s.ttl - 1 ELSE 0) \in 0..Lease
  BY BoundsAssumption DEF StateValue
<1> QED BY <1>1 DEF StateValue

-----------------------------------------------------------------------------
(* Each script, and the clock, keeps every key at its type.                *)
LEMMA TypeNext == ASSUME TypeOK, [Next]_vars PROVE TypeOK'
<1> USE BoundsAssumption DEF TypeOK
<1>1. ASSUME NEW j \in Jobs, SeedPayload(j) PROVE TypeOK'
  BY <1>1, KindsAssumption DEF SeedPayload, callerVars
<1>2. ASSUME NEW j \in Jobs, SeedState(j) PROVE TypeOK'
  BY <1>2, StateTyping DEF SeedState, callerVars, Status
<1>3. ASSUME NEW j \in Jobs, Enqueue(j) PROVE TypeOK'
  BY <1>3, QueueTyping DEF Enqueue, callerVars
<1>4. ASSUME ClaimNothing PROVE TypeOK'
  BY <1>4, EmptySeq DEF ClaimNothing, callerVars
<1>5. ASSUME NEW w \in Workers, NEW i \in DOMAIN queue, ClaimJob(w, i) PROVE TypeOK'
  <2>1. queue[i] \in Jobs /\ queue' \in Seq(Jobs)
    BY <1>5, QueueTyping DEF ClaimJob
  <2>2. state' \in [Jobs -> StateValue]
    BY <1>5, <2>1, StateTyping DEF ClaimJob
  <2>3. [job |-> queue[i], worker |-> w, lease |-> lastLease + 1] \in Claim
    BY <2>1 DEF Claim
  <2>4. claims' \in SUBSET Claim
    BY <1>5, <2>3 DEF ClaimJob
  <2>5. attempts' \in [Jobs -> Nat]
    <3>1. attempts' = [attempts EXCEPT ![queue[i]] = @ + 1]
      BY <1>5 DEF ClaimJob
    <3>2. attempts[queue[i]] + 1 \in Nat
      BY <2>1
    <3> QED BY <3>1, <3>2
  <2>7. score' \in [Jobs -> {NoScore} \cup 0..Lease]
    BY <1>5, <2>1 DEF ClaimJob
  <2>6. renewals' \in [Jobs -> 0..MaxRenewals] /\ lastLease' \in Nat
    BY <1>5, <2>1 DEF ClaimJob
  <2> QED BY <1>5, <2>1, <2>2, <2>4, <2>5, <2>6, <2>7 DEF ClaimJob
<1>6. ASSUME NEW c \in claims, Call(c) PROVE TypeOK'
  <2> DEFINE j == c.job
  <2>1. j \in Jobs /\ c.lease \in Nat /\ state[j] \in StateValue
    BY DEF Claim
  <2>2. state[j].attempt \in Nat
    BY <2>1 DEF StateValue
  <2>3. \A v \in Verdict : Accept(c, v) => accepted' \in SUBSET Acceptance
    BY <2>1 DEF Accept, Acceptance
  <2>4. ASSUME NEW s \in StateValue PROVE [state EXCEPT ![j] = s] \in [Jobs -> StateValue]
    BY <2>1
  <2>5. CASE Heartbeat(c)
    <3>1. [state[j] EXCEPT !.ttl = Lease] \in StateValue
      BY <2>1, TtlTyping
    <3>2. state' = [state EXCEPT ![j] = [state[j] EXCEPT !.ttl = Lease]]
      BY <2>5 DEF Heartbeat, Renew
    <3>3. state' \in [Jobs -> StateValue]
      BY <2>4, <3>1, <3>2
    <3>4. /\ score' \in [Jobs -> {NoScore} \cup 0..Lease]
          /\ renewals' \in [Jobs -> 0..MaxRenewals]
      BY <2>1, <2>5 DEF Heartbeat, Renew
    <3> QED BY <2>5, <3>3, <3>4 DEF Heartbeat
  <2>6. CASE Complete(c)
    <3>1. Blank("Completed", state[j].attempt) \in StateValue /\ "Success" \in ResultValue
      BY <2>2, StateTyping DEF Status, ResultValue
    <3>2. accepted' \in SUBSET Acceptance
      BY <2>3, <2>6 DEF Complete, Verdict
    <3>3. state' \in [Jobs -> StateValue]
      BY <2>4, <2>6, <3>1 DEF Complete
    <3>4. result' \in [Jobs -> ResultValue] /\ score' \in [Jobs -> {NoScore} \cup 0..Lease]
      BY <2>1, <2>6, <3>1 DEF Complete
    <3>5. notified' \in [Jobs -> Nat]
      BY <2>1, <2>6 DEF Complete
    <3> QED BY <2>6, <3>2, <3>3, <3>4, <3>5 DEF Complete
  <2>7. CASE FinishErrorRetry(c)
    <3>1. accepted' \in SUBSET Acceptance /\ queue' \in Seq(Jobs)
      BY <2>1, <2>3, <2>7, QueueTyping DEF FinishErrorRetry, PushBack, Verdict
    <3>2. state' \in [Jobs -> StateValue]
      <4>1. Blank("Queued", 0) \in StateValue
        BY StateTyping DEF Status
      <4> QED BY <2>4, <2>7, <4>1 DEF FinishErrorRetry
    <3>3. score' \in [Jobs -> {NoScore} \cup 0..Lease]
      BY <2>1, <2>7 DEF FinishErrorRetry
    <3> QED BY <2>7, <3>1, <3>2, <3>3 DEF FinishErrorRetry
  <2>8. CASE FinishErrorFinal(c)
    <3>1. accepted' \in SUBSET Acceptance
      BY <2>3, <2>8 DEF FinishErrorFinal, Verdict
    <3>2. state' \in [Jobs -> StateValue]
      <4>1. Blank("Failed", state[j].attempt) \in StateValue
        BY <2>2, StateTyping DEF Status
      <4> QED BY <2>4, <2>8, <4>1 DEF FinishErrorFinal
    <3>3. result' \in [Jobs -> ResultValue]
      BY <2>1, <2>8 DEF FinishErrorFinal, WriteError, ResultValue
    <3>4. score' \in [Jobs -> {NoScore} \cup 0..Lease] /\ notified' \in [Jobs -> Nat]
      BY <2>1, <2>8 DEF FinishErrorFinal
    <3> QED BY <2>8, <3>1, <3>2, <3>3, <3>4 DEF FinishErrorFinal
  <2>9. CASE FailInvalidClaim(c)
    BY <2>1, <2>2, <2>3, <2>9, StateTyping DEF FailInvalidClaim, Verdict, Status
  <2> QED BY <1>6, <2>5, <2>6, <2>7, <2>8, <2>9 DEF Call
<1>7. ASSUME NEW B \in SUBSET Jobs, RequeueExpired(B) PROVE TypeOK'
  <2>1. queue' \in Seq(Jobs)
    <3> DEFINE Back == {j \in B : Requeues(j)}
    <3>1. PICK order \in Orders(Back) : queue' = queue \o order
      BY <1>7 DEF RequeueExpired
    <3>2. Back \in SUBSET Jobs
      OBVIOUS
    <3> HIDE DEF Back
    <3> QED BY <3>1, <3>2, QueueTyping
  <2>2. \A j \in Jobs : UsedAttempts(j) \in Nat
    BY DEF UsedAttempts, Larger, StateValue
  <2>3. state' \in [Jobs -> StateValue]
    BY <1>7, <2>2, StateTyping DEF RequeueExpired, Status
  <2>4. result' \in [Jobs -> ResultValue]
    BY <1>7 DEF RequeueExpired, ExpiredResult, ResultValue
  <2>5. notified' \in [Jobs -> Nat] /\ score' \in [Jobs -> {NoScore} \cup 0..Lease]
    BY <1>7 DEF RequeueExpired
  <2> QED BY <1>7, <2>1, <2>3, <2>4, <2>5 DEF RequeueExpired, callerVars
<1>8. ASSUME Tick PROVE TypeOK'
  <2>1. ASSUME NEW j \in Jobs
        PROVE  [state[j] EXCEPT !.ttl = IF @ > 0 THEN @ - 1 ELSE 0] \in StateValue
    BY TtlTyping
  <2>2. state' \in [Jobs -> StateValue]
    BY <1>8, <2>1 DEF Tick
  <2>3. score' \in [Jobs -> {NoScore} \cup 0..Lease]
    <3>1. score' = [j \in Jobs |-> IF score[j] > 0 THEN score[j] - 1 ELSE score[j]]
      BY <1>8 DEF Tick
    <3>2. ASSUME NEW x \in {NoScore} \cup 0..Lease
          PROVE  (IF x > 0 THEN x - 1 ELSE x) \in {NoScore} \cup 0..Lease
      BY DEF NoScore
    <3> QED BY <3>1, <3>2
  <2> QED BY <1>8, <2>2, <2>3 DEF Tick, callerVars
<1>9. ASSUME UNCHANGED vars PROVE TypeOK'
  BY <1>9 DEF vars, redisVars, producerVars, callerVars
<1> QED BY <1>1, <1>2, <1>3, <1>4, <1>5, <1>6, <1>7, <1>8, <1>9
        DEF Next, Produce, Grant, Resolve

LEMMA TypeInit == Init => TypeOK
<1> SUFFICES ASSUME Init PROVE TypeOK
  OBVIOUS
<1>1. state \in [Jobs -> StateValue]
  BY StateTyping DEF Init, Status
<1>2. queue \in Seq(Jobs)
  BY EmptySeq DEF Init
<1> QED BY <1>1, <1>2, BoundsAssumption
        DEF Init, TypeOK, PayloadKind, ResultValue, NoScore

(* Every key always holds a value of its type (TypeOK).                    *)
THEOREM TypeCorrect == Spec => []TypeOK
<1>1. Init => TypeOK
  BY TypeInit
<1>2. TypeOK /\ [Next]_vars => TypeOK'
  BY TypeNext
<1> QED BY <1>1, <1>2, PTL DEF Spec
-----------------------------------------------------------------------------
(***************************************************************************)
(* The keys of one job agree with each other.  Beside LeasesMatchStates    *)
(* and EndIsConsistent this says how the counter, the producer's progress  *)
(* and the state are tied, without which neither is inductive: a Queued    *)
(* job has an attempt left, and only a job whose producer never got to its *)
(* state has never been counted.                                           *)
(***************************************************************************)
Accounted(j) ==
  /\ state[j].status # "Absent" => payload[j] # "none"
  /\ pushes[j] > 0 => state[j].status # "Absent"
  /\ attempts[j] <= MaxAttempts
  /\ state[j].status = "Absent" => attempts[j] = 0
  /\ state[j].status = "Queued" => attempts[j] < MaxAttempts
  /\ state[j].status = "Claimed" => state[j].attempt = attempts[j]
  /\ state[j].status # "Claimed" => score[j] = NoScore /\ state[j].ttl = 0
  /\ state[j].status = "Claimed" /\ score[j] # NoScore => score[j] = state[j].ttl
  /\ state[j].status = "Claimed" /\ score[j] = NoScore =>
       state[j].ttl = 0 /\ attempts[j] = MaxAttempts /\ payload[j] = "unparsable"

Ended(j) ==
  /\ notified[j] = IF Terminal(j) THEN 1 ELSE 0
  /\ ~Terminal(j) => result[j] = "none"
  /\ state[j].status = "Completed" <=> result[j] = "Success"
  /\ Terminal(j) /\ Decodes(j) => result[j] \in {"Success", "Error"}

JobInv == \A j \in Jobs : Accounted(j) /\ Ended(j)

(* What JobInv says of a job depends on the job's own keys only.           *)
LEMMA OtherJobs ==
  ASSUME NEW j \in Jobs, Accounted(j), Ended(j),
         payload'[j] = payload[j], state'[j] = state[j], attempts'[j] = attempts[j],
         result'[j] = result[j], score'[j] = score[j], notified'[j] = notified[j],
         pushes'[j] = pushes[j]
  PROVE  Accounted(j)' /\ Ended(j)'
<1> QED BY DEF Accounted, Ended, Terminal, Decodes

LEMMA JobInvInit == Init => JobInv
<1> QED BY BoundsAssumption DEF Init, JobInv, Accounted, Ended, Terminal, Blank

LEMMA JobInvProduce ==
  ASSUME TypeOK, JobInv, NEW j \in Jobs, SeedPayload(j) \/ SeedState(j) \/ Enqueue(j)
  PROVE  JobInv'
<1> SUFFICES ASSUME NEW k \in Jobs PROVE Accounted(k)' /\ Ended(k)'
  BY DEF JobInv
<1>1. Accounted(k) /\ Ended(k)
  BY DEF JobInv
<1>2. CASE SeedPayload(j)
  <2>1. state[j].status = "Absent" /\ state'[j] = state[j] /\ state'[k] = state[k]
    BY <1>2 DEF SeedPayload, JobInv, Accounted
  <2>2. CASE k = j
    BY <1>1, <1>2, <2>1, <2>2 DEF SeedPayload, Accounted, Ended, Terminal, callerVars
  <2>3. CASE k # j
    BY <1>1, <1>2, <2>3, OtherJobs DEF SeedPayload, TypeOK
  <2> QED BY <2>2, <2>3
<1>3. CASE SeedState(j)
  <2>1. CASE k = j
    <3>1. state'[j] = Blank("Queued", 0)
      BY <1>3 DEF SeedState, TypeOK
    <3> QED BY <1>1, <1>3, <2>1, <3>1, BoundsAssumption
            DEF SeedState, Accounted, Ended, Terminal, Decodes, Blank
  <2>2. CASE k # j
    BY <1>1, <1>3, <2>2, OtherJobs DEF SeedState, TypeOK
  <2> QED BY <2>1, <2>2
<1>4. CASE Enqueue(j)
  BY <1>1, <1>4 DEF Enqueue, TypeOK, Accounted, Ended, Terminal, Decodes
<1> QED BY <1>2, <1>3, <1>4

LEMMA JobInvClaim ==
  ASSUME TypeOK, JobInv, NEW w \in Workers, NEW i \in DOMAIN queue, ClaimJob(w, i)
  PROVE  JobInv'
<1> DEFINE j == queue[i]
<1> SUFFICES ASSUME NEW k \in Jobs PROVE Accounted(k)' /\ Ended(k)'
  BY DEF JobInv
<1>1. Accounted(k) /\ Ended(k)
  BY DEF JobInv
<1>2. j \in Jobs /\ payload[j] # "none" /\ state[j].status = "Queued"
  BY QueueTyping DEF TypeOK, ClaimJob, FirstClaimable, Claimable
<1>3. /\ state' = [state EXCEPT ![j] = Claimed(w, lastLease + 1, attempts[j] + 1)]
      /\ score' = [score EXCEPT ![j] = Lease]
      /\ attempts' = [attempts EXCEPT ![j] = @ + 1]
      /\ UNCHANGED <<payload, result, notified, pushes>>
  BY DEF ClaimJob
<1>4. CASE k = j
  <2>1. /\ state'[k] = Claimed(w, lastLease + 1, attempts[k] + 1)
        /\ score'[k] = Lease
        /\ attempts'[k] = attempts[k] + 1
    BY <1>3, <1>4 DEF TypeOK
  <2>2. attempts[k] \in Nat
    BY DEF TypeOK
  <2> QED BY <1>1, <1>2, <1>3, <1>4, <2>1, <2>2, BoundsAssumption
          DEF Accounted, Ended, Terminal, Decodes, Claimed, NoScore
<1>5. CASE k # j
  BY <1>1, <1>3, <1>5, OtherJobs DEF TypeOK
<1> QED BY <1>4, <1>5

LEMMA JobInvCall ==
  ASSUME TypeOK, JobInv, NEW c \in claims, Call(c)
  PROVE  JobInv'
<1> DEFINE j == c.job
<1> SUFFICES ASSUME NEW k \in Jobs PROVE Accounted(k)' /\ Ended(k)'
  BY DEF JobInv
<1>1. Accounted(k) /\ Ended(k) /\ j \in Jobs
  BY DEF JobInv, TypeOK, Claim
<1>2. state[j].status = "Claimed" /\ state[j].ttl > 0
  BY DEF Call, Heartbeat, Complete, FinishErrorRetry, FinishErrorFinal, FailInvalidClaim, Holds
<1>3. CASE k # j
  <2>1. /\ payload'[k] = payload[k] /\ state'[k] = state[k] /\ attempts'[k] = attempts[k]
        /\ result'[k] = result[k] /\ score'[k] = score[k] /\ notified'[k] = notified[k]
        /\ pushes'[k] = pushes[k]
    BY <1>1, <1>3
    DEF TypeOK, Call, Heartbeat, Renew, Complete, FinishErrorRetry, FinishErrorFinal,
        WriteError, FailInvalidClaim
  <2> QED BY <1>1, <2>1, OtherJobs
<1>4. CASE k = j /\ Heartbeat(c)
  <2>1. state'[k] = [state[k] EXCEPT !.ttl = Lease] /\ score'[k] = Lease
    BY <1>4 DEF Heartbeat, Renew, TypeOK
  <2>2. state[k] \in StateValue
    BY DEF TypeOK
  <2>3. /\ state'[k].status = "Claimed" /\ state'[k].ttl = Lease
        /\ state'[k].attempt = state[k].attempt
    BY <1>2, <1>4, <2>1, <2>2 DEF StateValue
  <2> QED BY <1>1, <1>2, <1>4, <2>1, <2>3, BoundsAssumption
          DEF Heartbeat, Accounted, Ended, Terminal, Decodes, NoScore
<1>5. CASE k = j /\ Complete(c)
  <2>1. /\ state'[k] = Blank("Completed", state[k].attempt) /\ score'[k] = NoScore
        /\ result'[k] = "Success" /\ notified'[k] = notified[k] + 1
    BY <1>5 DEF Complete, TypeOK
  <2> QED BY <1>1, <1>2, <1>5, <2>1
          DEF Complete, Accounted, Ended, Terminal, Decodes, Blank
<1>6. CASE k = j /\ FinishErrorRetry(c)
  <2>1. state'[k] = Blank("Queued", 0) /\ score'[k] = NoScore
    BY <1>6 DEF FinishErrorRetry, TypeOK
  <2> QED BY <1>1, <1>2, <1>6, <2>1
          DEF FinishErrorRetry, MayRetry, Accounted, Ended, Terminal, Decodes, Blank
<1>7. CASE k = j /\ FinishErrorFinal(c)
  <2>1. /\ state'[k] = Blank("Failed", state[k].attempt) /\ score'[k] = NoScore
        /\ result'[k] = "Error" /\ notified'[k] = notified[k] + 1
    BY <1>7 DEF FinishErrorFinal, WriteError, TypeOK
  <2> QED BY <1>1, <1>2, <1>7, <2>1
          DEF FinishErrorFinal, Accounted, Ended, Terminal, Decodes, Blank
<1>8. CASE k = j /\ ~Decodes(j) /\ FailInvalidClaim(c)
  <2>1. /\ state'[k] = Blank("Failed", state[k].attempt) /\ score'[k] = NoScore
        /\ notified'[k] = notified[k] + 1
    BY <1>8 DEF FailInvalidClaim, TypeOK
  <2> QED BY <1>1, <1>2, <1>8, <2>1
          DEF FailInvalidClaim, Accounted, Ended, Terminal, Decodes, Blank
<1> QED BY <1>3, <1>4, <1>5, <1>6, <1>7, <1>8 DEF Call

LEMMA JobInvResolve ==
  ASSUME TypeOK, JobInv, NEW B \in SUBSET Jobs, RequeueExpired(B)
  PROVE  JobInv'
<1> SUFFICES ASSUME NEW k \in Jobs PROVE Accounted(k)' /\ Ended(k)'
  BY DEF JobInv
<1>1. Accounted(k) /\ Ended(k)
  BY DEF JobInv
<1>2. /\ UNCHANGED <<payload, attempts, pushes>>
      /\ k \in B /\ Requeues(k) => state'[k] = Blank("Queued", 0)
      /\ k \in B /\ ~Requeues(k) /\ Fails(k) =>
           /\ state'[k] = Blank("Failed", UsedAttempts(k))
           /\ result'[k] = ExpiredResult(k)
           /\ notified'[k] = notified[k] + 1
      /\ k \notin B \/ (~Requeues(k) /\ ~Fails(k)) => state'[k] = state[k]
      /\ k \notin B \/ ~Fails(k) => result'[k] = result[k] /\ notified'[k] = notified[k]
      /\ k \in B => score'[k] = NoScore
      /\ k \notin B => score'[k] = score[k]
  BY DEF RequeueExpired
<1>3. k \in B => score[k] = 0
  BY DEF RequeueExpired, Resolvable, Expired
<1>4. UsedAttempts(k) \in Nat /\ (state[k].status = "Claimed" => UsedAttempts(k) = attempts[k])
  BY <1>1 DEF TypeOK, StateValue, UsedAttempts, Larger, Accounted
<1>5. CASE k \in B /\ Requeues(k)
  <2>1. ~Fails(k)
    BY <1>4, <1>5, BoundsAssumption DEF Requeues, Fails, Exhausted
  <2> QED BY <1>1, <1>2, <1>4, <1>5, <2>1
          DEF Requeues, Overdue, Accounted, Ended, Terminal, Decodes, Blank
<1>6. CASE k \in B /\ ~Requeues(k) /\ Fails(k)
  <2>1. /\ state'[k].status = "Failed" /\ state'[k].ttl = 0 /\ score'[k] = NoScore
        /\ notified'[k] = notified[k] + 1 /\ result'[k] = ExpiredResult(k)
    BY <1>2, <1>6 DEF Blank
  <2>2. state[k].status = "Claimed"
    BY <1>6 DEF Fails, Exhausted, Overdue
  <2> QED BY <1>1, <1>2, <2>1, <2>2
          DEF ExpiredResult, Accounted, Ended, Terminal, Decodes
<1>7. CASE k \in B /\ ~Requeues(k) /\ ~Fails(k)
  (* The zset entry goes and the state stays: the lease that is forgotten. *)
  <2>1. state[k].status = "Claimed" /\ state[k].ttl = 0 /\ attempts[k] \in Nat
    BY <1>1, <1>3, <1>7 DEF Accounted, NoScore, TypeOK
  <2>2. attempts[k] = MaxAttempts
    BY <1>1, <1>4, <1>7, <2>1, BoundsAssumption DEF Requeues, Overdue, Accounted
  <2>3. payload[k] = "unparsable"
    BY <1>1, <1>4, <1>7, <2>1, <2>2, BoundsAssumption
    DEF Fails, Exhausted, Overdue, Accounted
  <2> QED BY <1>1, <1>2, <1>7, <2>1, <2>2, <2>3
          DEF Accounted, Ended, Terminal, Decodes
<1>8. CASE k \notin B
  BY <1>1, <1>2, <1>8, OtherJobs
<1> QED BY <1>5, <1>6, <1>7, <1>8

LEMMA JobInvTick == ASSUME TypeOK, JobInv, Tick PROVE JobInv'
<1> SUFFICES ASSUME NEW k \in Jobs PROVE Accounted(k)' /\ Ended(k)'
  BY DEF JobInv
<1>1. Accounted(k) /\ Ended(k)
  BY DEF JobInv
<1>2. state[k] \in StateValue /\ score[k] \in {NoScore} \cup 0..Lease
  BY DEF TypeOK
<1>3. state'[k] = [state[k] EXCEPT !.ttl = IF @ > 0 THEN @ - 1 ELSE 0]
  BY DEF Tick
<1>4. /\ state'[k].status = state[k].status /\ state'[k].attempt = state[k].attempt
      /\ state'[k].ttl = IF state[k].ttl > 0 THEN state[k].ttl - 1 ELSE 0
  BY <1>2, <1>3 DEF StateValue
<1>5. score'[k] = IF score[k] > 0 THEN score[k] - 1 ELSE score[k]
  BY DEF Tick
<1>6. state[k].ttl \in Nat
  BY <1>2, BoundsAssumption DEF StateValue
<1> QED BY <1>1, <1>2, <1>4, <1>5, <1>6, BoundsAssumption
        DEF Tick, Accounted, Ended, Terminal, Decodes, NoScore

LEMMA JobInvNext == ASSUME TypeOK, JobInv, [Next]_vars PROVE JobInv'
<1>1. CASE ClaimNothing \/ UNCHANGED vars
  <2> SUFFICES ASSUME NEW k \in Jobs PROVE Accounted(k)' /\ Ended(k)'
    BY DEF JobInv
  <2> QED BY <1>1, OtherJobs
          DEF ClaimNothing, vars, redisVars, producerVars, callerVars, JobInv
<1> QED BY <1>1, JobInvProduce, JobInvClaim, JobInvCall, JobInvResolve, JobInvTick
        DEF Next, Produce, Grant, Resolve

(* The keys of a job always agree.                                         *)
THEOREM JobInvCorrect == Spec => []JobInv
<1>1. TypeOK /\ JobInv /\ [Next]_vars => JobInv'
  BY JobInvNext
<1> QED BY <1>1, JobInvInit, TypeCorrect, PTL DEF Spec

(* Only a job out of attempts with an unreadable payload is Claimed        *)
(* without being in the leases sorted set (LeasesMatchStates).             *)
THEOREM LeasesCorrect == Spec => []LeasesMatchStates
<1>1. TypeOK /\ JobInv => LeasesMatchStates
  BY DEF JobInv, Accounted, LeasesMatchStates
<1> QED BY <1>1, TypeCorrect, JobInvCorrect, PTL

(* State, result and announcement of a job agree (EndIsConsistent).        *)
THEOREM EndConsistent == Spec => []EndIsConsistent
<1>1. JobInv => EndIsConsistent
  BY DEF JobInv, Ended, EndIsConsistent
<1> QED BY <1>1, JobInvCorrect, PTL
-----------------------------------------------------------------------------
(* Which ids are in the queue after each of the ways a script changes it.  *)
LEMMA QueueMembers ==
  ASSUME queue \in Seq(Jobs), NEW k \in Jobs
  PROVE  /\ \A j \in Jobs : queue' = Append(queue, j) => (InQueue(k) \/ k = j => InQueue(k)')
         /\ \A i \in DOMAIN queue, m \in DOMAIN queue :
              queue' = SubSeq(queue, i + 1, Len(queue)) /\ m > i /\ queue[m] = k => InQueue(k)'
         /\ \A S \in SUBSET Jobs : \A s \in Orders(S) :
              queue' = queue \o s => (InQueue(k) \/ k \in S => InQueue(k)')
<1> USE DEF InQueue
<1>0. Len(queue) \in Nat /\ DOMAIN queue = 1..Len(queue)
  BY LenProperties
<1>1. ASSUME NEW j \in Jobs, queue' = Append(queue, j), InQueue(k) \/ k = j
      PROVE  InQueue(k)'
  <2>1. /\ DOMAIN queue' = 1..(Len(queue) + 1)
        /\ \A i \in 1..Len(queue) : queue'[i] = queue[i]
        /\ queue'[Len(queue) + 1] = j
    BY <1>1, AppendProperties, LenProperties
  <2> QED BY <1>0, <1>1, <2>1
<1>2. ASSUME NEW i \in DOMAIN queue, NEW m \in DOMAIN queue,
             queue' = SubSeq(queue, i + 1, Len(queue)), m > i, queue[m] = k
      PROVE  InQueue(k)'
  <2>1. \A n \in (i + 1)..Len(queue) : queue[n] \in Jobs
    BY <1>0, ElementOfSeq
  <2>2. /\ SubSeq(queue, i + 1, Len(queue)) \in Seq(Jobs)
        /\ Len(SubSeq(queue, i + 1, Len(queue))) =
             IF i + 1 <= Len(queue) THEN Len(queue) - (i + 1) + 1 ELSE 0
        /\ \A n \in 1..(Len(queue) - (i + 1) + 1) :
             SubSeq(queue, i + 1, Len(queue))[n] = queue[(i + 1) + n - 1]
    BY <1>0, <2>1, SubSeqProperties
  <2>3. i \in Nat /\ m \in Nat /\ m <= Len(queue)
    BY <1>0
  <2>4. Len(queue') = Len(queue) - i /\ DOMAIN queue' = 1..(Len(queue) - i)
    BY <1>0, <1>2, <2>2, <2>3, LenProperties
  <2>5. m - i \in 1..(Len(queue) - i) /\ (i + 1) + (m - i) - 1 = m
    BY <1>0, <1>2, <2>3
  <2>6. queue'[m - i] = queue[m]
    <3>1. queue'[m - i] = queue[(i + 1) + (m - i) - 1]
      <4>1. m - i \in 1..(Len(queue) - (i + 1) + 1)
        BY <1>0, <2>3, <2>5
      <4> QED BY <1>2, <2>2, <4>1
    <3> QED BY <2>5, <3>1
  <2> QED BY <1>2, <2>4, <2>5, <2>6
<1>3. ASSUME NEW S \in SUBSET Jobs, NEW s \in Orders(S), queue' = queue \o s,
             InQueue(k) \/ k \in S
      PROVE  InQueue(k)'
  <2>1. s \in Seq(Jobs) /\ Len(s) \in Nat /\ DOMAIN s = 1..Len(s)
    BY QueueTyping, LenProperties
  <2>2. /\ DOMAIN queue' = 1..(Len(queue) + Len(s))
        /\ \A i \in 1..(Len(queue) + Len(s)) :
             queue'[i] = IF i <= Len(queue) THEN queue[i] ELSE s[i - Len(queue)]
    BY <1>3, <2>1, ConcatProperties, LenProperties
  <2>3. CASE InQueue(k)
    BY <1>0, <2>1, <2>2, <2>3
  <2>4. CASE k \in S
    <3>1. PICK i \in 1..Len(s) : s[i] = k
      BY <2>1, <2>4 DEF Orders
    <3>2. Len(queue) + i \in 1..(Len(queue) + Len(s)) /\ (Len(queue) + i) - Len(queue) = i
      BY <1>0, <2>1
    <3>3. queue'[Len(queue) + i] = k
      BY <1>0, <2>2, <3>1, <3>2
    <3> QED BY <2>2, <3>2, <3>3
  <2> QED BY <1>3, <2>3, <2>4
<1> QED BY <1>1, <1>2, <1>3

(* A waiting job that was enqueued is in the queue (NothingLost): the ids  *)
(* a claim drops in front of the one it takes cannot be claimed, and every *)
(* script that makes a job Queued again also pushes its id.                *)
THEOREM NothingLostCorrect == Spec => []NothingLost
<1>1. Init => NothingLost
  BY DEF Init, NothingLost
<1>2. TypeOK /\ JobInv /\ NothingLost /\ [Next]_vars => NothingLost'
  <2> SUFFICES ASSUME TypeOK, JobInv, NothingLost, [Next]_vars,
                      NEW k \in Jobs, state'[k].status = "Queued", pushes'[k] > 0
               PROVE  InQueue(k)'
    BY DEF NothingLost
  <2>0. /\ queue \in Seq(Jobs)
        /\ state[k].status = "Queued" /\ pushes[k] > 0 => InQueue(k) /\ Claimable(k)
    BY DEF TypeOK, NothingLost, JobInv, Accounted, Claimable
  <2>1. ASSUME NEW j \in Jobs, SeedPayload(j) PROVE InQueue(k)'
    BY <2>0, <2>1 DEF SeedPayload, InQueue
  <2>2. ASSUME NEW j \in Jobs, SeedState(j) PROVE InQueue(k)'
    <3>1. k # j /\ pushes' = pushes
      BY <2>2 DEF SeedState, JobInv, Accounted
    <3> QED BY <2>0, <2>2, <3>1 DEF SeedState, TypeOK, InQueue
  <2>3. ASSUME NEW j \in Jobs, Enqueue(j) PROVE InQueue(k)'
    <3>1. queue' = Append(queue, j) /\ state' = state /\ (k # j => pushes'[k] = pushes[k])
      BY <2>3 DEF Enqueue, TypeOK
    <3> QED BY <2>0, <3>1, QueueMembers
  <2>4. ASSUME ClaimNothing PROVE InQueue(k)'
    <3>1. InQueue(k) /\ Claimable(k)
      BY <2>0, <2>4 DEF ClaimNothing
    <3> QED BY <2>4, <3>1 DEF ClaimNothing, InQueue
  <2>5. ASSUME NEW w \in Workers, NEW i \in DOMAIN queue, ClaimJob(w, i) PROVE InQueue(k)'
    <3>1. queue[i] \in Jobs
      BY <2>0, QueueTyping
    <3>2. state'[queue[i]].status = "Claimed"
      BY <2>5, <3>1 DEF ClaimJob, TypeOK, Claimed
    <3>3. k # queue[i]
      BY <3>2
    <3>4. state'[k] = state[k] /\ pushes' = pushes
      BY <2>5, <3>1, <3>3 DEF ClaimJob, TypeOK
    <3>5. PICK m \in DOMAIN queue : queue[m] = k
      BY <2>0, <3>4 DEF InQueue
    <3>6. m \in Nat /\ i \in Nat /\ m >= 1
      BY <2>0, LenProperties
    <3>7. ~(m \in 1..(i - 1))
      BY <2>0, <2>5, <3>4, <3>5 DEF ClaimJob, FirstClaimable
    <3>8. m > i
      BY <3>3, <3>5, <3>6, <3>7
    <3>9. queue' = SubSeq(queue, i + 1, Len(queue))
      BY <2>5 DEF ClaimJob
    <3> QED BY <2>0, <3>5, <3>8, <3>9, QueueMembers
  <2>6. ASSUME NEW c \in claims, Call(c) PROVE InQueue(k)'
    <3>1. c.job \in Jobs /\ state[c.job] \in StateValue
      BY DEF TypeOK, Claim
    <3>2. CASE Heartbeat(c)
      <4>1. state'[k].status = state[k].status
        BY <3>1, <3>2 DEF Heartbeat, Renew, TypeOK, StateValue
      <4> QED BY <2>0, <3>2, <4>1 DEF Heartbeat, InQueue
    <3>3. CASE FinishErrorRetry(c)
      <4>1. queue' = Append(queue, c.job) /\ pushes' = pushes
            /\ (k # c.job => state'[k] = state[k])
        BY <3>1, <3>3 DEF FinishErrorRetry, PushBack, TypeOK
      <4> QED BY <2>0, <3>1, <4>1, QueueMembers
    <3>4. CASE Complete(c) \/ FinishErrorFinal(c) \/ FailInvalidClaim(c)
      <4>1. queue' = queue /\ pushes' = pushes /\ state'[c.job].status # "Queued"
            /\ (k # c.job => state'[k] = state[k])
        BY <3>1, <3>4 DEF Complete, FinishErrorFinal, FailInvalidClaim, TypeOK, Blank
      <4> QED BY <2>0, <4>1 DEF InQueue
    <3> QED BY <2>6, <3>2, <3>3, <3>4 DEF Call
  <2>7. ASSUME NEW B \in SUBSET Jobs, RequeueExpired(B) PROVE InQueue(k)'
    <3> DEFINE Back == {j \in B : Requeues(j)}
    <3>1. PICK order \in Orders(Back) : queue' = queue \o order
      BY <2>7 DEF RequeueExpired
    <3>2. k \in Back \/ (state[k].status = "Queued" /\ pushes[k] > 0)
      BY <2>7 DEF RequeueExpired, Blank
    <3>3. Back \in SUBSET Jobs
      OBVIOUS
    <3> QED BY <2>0, <3>1, <3>2, <3>3, QueueMembers
  <2>8. ASSUME Tick PROVE InQueue(k)'
    <3>1. state'[k].status = state[k].status
      BY <2>8 DEF Tick, TypeOK, StateValue
    <3> QED BY <2>0, <2>8, <3>1 DEF Tick, InQueue
  <2>9. ASSUME UNCHANGED vars PROVE InQueue(k)'
    BY <2>0, <2>9 DEF vars, redisVars, producerVars, InQueue
  <2> QED BY <2>1, <2>2, <2>3, <2>4, <2>5, <2>6, <2>7, <2>8, <2>9
          DEF Next, Produce, Grant, Resolve
<1> QED BY <1>1, <1>2, TypeCorrect, JobInvCorrect, PTL DEF Spec
-----------------------------------------------------------------------------
(***************************************************************************)
(* Fencing.  LastHolderEnds becomes inductive once the lease of a Claimed  *)
(* job is known to be the youngest one of that job, and younger than every *)
(* lease a call was already accepted from.                                 *)
(***************************************************************************)
YoungestLease(j) ==
  /\ state[j].lease <= lastLease
  /\ \A c \in claims : c.job = j => c.lease <= state[j].lease
  /\ \A a \in accepted : a.job = j => a.lease < state[j].lease

LeaseInv ==
  /\ LastHolderEnds
  /\ \A c \in claims : c.lease <= lastLease
  /\ \A a \in accepted : a.lease <= lastLease
  /\ \A j \in Jobs : state[j].status = "Claimed" => YoungestLease(j)

(* A step that neither grants nor accepts keeps LeaseInv, if it leaves     *)
(* ended jobs alone, completes none, and claims none.                      *)
LEMMA LeaseInvQuiet ==
  ASSUME TypeOK, LeaseInv, UNCHANGED <<lastLease, claims, accepted>>,
         \A j \in Jobs :
           /\ Terminal(j) => state'[j].status = state[j].status
           /\ state'[j].status = "Completed" => state[j].status = "Completed"
           /\ state'[j].status = "Claimed" =>
                state[j].status = "Claimed" /\ state'[j].lease = state[j].lease
  PROVE  LeaseInv'
<1>1. LastHolderEnds'
  <2>1. ASSUME NEW a \in accepted, a.verdict \in Final
        PROVE  state'[a.job].status = IF a.verdict = "completed" THEN "Completed" ELSE "Failed"
    <3>1. a.job \in Jobs
      BY DEF TypeOK, Acceptance
    <3>2. state[a.job].status = IF a.verdict = "completed" THEN "Completed" ELSE "Failed"
      BY <2>1 DEF LeaseInv, LastHolderEnds
    <3> QED BY <3>1, <3>2 DEF Terminal
  <2> QED BY <2>1 DEF LeaseInv, LastHolderEnds
<1> QED BY <1>1 DEF LeaseInv, YoungestLease

LEMMA LeaseInvClaim ==
  ASSUME TypeOK, LeaseInv, NEW w \in Workers, NEW i \in DOMAIN queue, ClaimJob(w, i)
  PROVE  LeaseInv'
<1> DEFINE j == queue[i]
           new == [job |-> j, worker |-> w, lease |-> lastLease + 1]
<1>1. j \in Jobs /\ state[j].status = "Queued"
  BY QueueTyping DEF TypeOK, ClaimJob, FirstClaimable, Claimable
<1>2. /\ claims' = claims \cup {new} /\ lastLease' = lastLease + 1
      /\ accepted' = accepted
      /\ state' = [state EXCEPT ![j] = Claimed(w, lastLease + 1, attempts[j] + 1)]
  BY DEF ClaimJob
<1>3. /\ state'[j].status = "Claimed" /\ state'[j].lease = lastLease + 1
      /\ \A k \in Jobs : k # j => state'[k] = state[k]
  BY <1>1, <1>2 DEF TypeOK, Claimed
<1>4. lastLease \in Nat
  BY DEF TypeOK
<1>5. \A c \in claims : c.lease \in Nat /\ c.job \in Jobs
  BY DEF TypeOK, Claim
<1>6. \A a \in accepted : a.lease \in Nat /\ a.job \in Jobs
  BY DEF TypeOK, Acceptance
<1>7. \A a \in accepted : a.verdict \in Final => a.job # j
  BY <1>1 DEF LeaseInv, LastHolderEnds
<1>8. LastHolderEnds'
  <2>1. ASSUME NEW a \in accepted, a.verdict \in Final
        PROVE  /\ \A c \in claims' : c.job = a.job => c.lease <= a.lease
               /\ state'[a.job].status = IF a.verdict = "completed" THEN "Completed" ELSE "Failed"
    BY <1>2, <1>3, <1>6, <1>7, <2>1 DEF LeaseInv, LastHolderEnds
  <2>2. ASSUME NEW k \in Jobs, state'[k].status = "Completed"
        PROVE  \E a \in accepted : a.job = k /\ a.verdict = "completed"
    BY <1>3, <2>2 DEF LeaseInv, LastHolderEnds
  <2> QED BY <1>2, <2>1, <2>2 DEF LeaseInv, LastHolderEnds
<1>9. \A c \in claims' : c.lease <= lastLease'
  BY <1>2, <1>4, <1>5 DEF LeaseInv
<1>10. \A a \in accepted' : a.lease <= lastLease'
  BY <1>2, <1>4, <1>6 DEF LeaseInv
<1>11. ASSUME NEW k \in Jobs, state'[k].status = "Claimed" PROVE YoungestLease(k)'
  <2>1. CASE k = j
    BY <1>2, <1>3, <1>4, <1>5, <1>6, <2>1 DEF LeaseInv, YoungestLease
  <2>2. CASE k # j
    <3>1. state'[k] = state[k] /\ YoungestLease(k)
      BY <1>3, <1>11, <2>2 DEF LeaseInv
    <3>2. state[k].lease \in Nat
      BY DEF TypeOK, StateValue
    <3> QED BY <1>2, <1>4, <2>2, <3>1, <3>2 DEF YoungestLease
  <2> QED BY <2>1, <2>2
<1> QED BY <1>8, <1>9, <1>10, <1>11 DEF LeaseInv

(* An accepted call other than a heartbeat ends the present claim of its   *)
(* job: the job is not Claimed afterwards, and Completed just when told so.*)
LEMMA LeaseInvAccept ==
  ASSUME TypeOK, LeaseInv, NEW c \in claims, NEW v \in Verdict, Holds(c), Accept(c, v),
         UNCHANGED <<lastLease, claims>>,
         \A k \in Jobs : k # c.job => state'[k] = state[k],
         state'[c.job].status = IF v = "completed" THEN "Completed"
                                ELSE IF v = "requeued" THEN "Queued" ELSE "Failed"
  PROVE  LeaseInv'
<1> DEFINE j == c.job
           new == [job |-> j, lease |-> c.lease, verdict |-> v]
<1>1. j \in Jobs /\ c.lease \in Nat
  BY DEF TypeOK, Claim
<1>2. state[j].status = "Claimed" /\ state[j].lease = c.lease /\ YoungestLease(j)
  BY <1>1 DEF Holds, LeaseInv
<1>3. accepted' = accepted \cup {new}
  BY DEF Accept
<1>4. \A a \in accepted : a.lease \in Nat /\ a.job \in Jobs
  BY DEF TypeOK, Acceptance
<1>5. \A a \in accepted : a.job = j => a.lease < c.lease /\ a.verdict \notin Final
  BY <1>2 DEF YoungestLease, LeaseInv, LastHolderEnds
<1>6. \A a, b \in accepted' : a.job = b.job /\ a.lease = b.lease => a = b
  BY <1>1, <1>3, <1>4, <1>5 DEF LeaseInv, LastHolderEnds
<1>7. ASSUME NEW a \in accepted', a.verdict \in Final
      PROVE  /\ \A d \in claims : d.job = a.job => d.lease <= a.lease
             /\ state'[a.job].status = IF a.verdict = "completed" THEN "Completed" ELSE "Failed"
  <2>1. CASE a = new
    <3>1. v # "requeued"
      BY <1>7, <2>1 DEF Final
    <3> QED BY <1>2, <2>1, <3>1 DEF YoungestLease
  <2>2. CASE a \in accepted
    BY <1>4, <1>5, <1>7, <2>2 DEF LeaseInv, LastHolderEnds
  <2> QED BY <1>3, <2>1, <2>2
<1>8. ASSUME NEW k \in Jobs, state'[k].status = "Completed"
      PROVE  \E a \in accepted' : a.job = k /\ a.verdict = "completed"
  <2>1. CASE k = j
    <3>1. v = "completed"
      BY <1>8, <2>1
    <3>2. new \in accepted' /\ new.job = k /\ new.verdict = "completed"
      BY <1>3, <2>1, <3>1
    <3> QED BY <3>2
  <2>2. CASE k # j
    BY <1>3, <1>8, <2>2 DEF LeaseInv, LastHolderEnds
  <2> QED BY <2>1, <2>2
<1>9. LastHolderEnds'
  BY <1>6, <1>7, <1>8 DEF LastHolderEnds
<1>10. \A a \in accepted' : a.lease <= lastLease
  BY <1>3 DEF LeaseInv
<1>11. ASSUME NEW k \in Jobs, state'[k].status = "Claimed" PROVE YoungestLease(k)'
  <2>1. k # j
    BY <1>11
  <2>2. state'[k] = state[k] /\ YoungestLease(k)
    BY <1>11, <2>1 DEF LeaseInv
  <2> QED BY <1>3, <2>1, <2>2 DEF YoungestLease
<1> QED BY <1>9, <1>10, <1>11 DEF LeaseInv

LEMMA LeaseInvNext == ASSUME TypeOK, LeaseInv, [Next]_vars PROVE LeaseInv'
<1>1. ASSUME NEW j \in Jobs, SeedPayload(j) \/ Enqueue(j) PROVE LeaseInv'
  BY <1>1, LeaseInvQuiet DEF SeedPayload, Enqueue, callerVars
<1>2. ASSUME NEW j \in Jobs, SeedState(j) PROVE LeaseInv'
  <2>1. state[j].status = "Absent" /\ state' = [state EXCEPT ![j] = Blank("Queued", 0)]
    BY <1>2 DEF SeedState
  <2>2. state'[j].status = "Queued" /\ \A k \in Jobs : k # j => state'[k] = state[k]
    BY <2>1 DEF TypeOK, Blank
  <2> QED BY <1>2, <2>1, <2>2, LeaseInvQuiet DEF SeedState, callerVars, Terminal
<1>3. ASSUME ClaimNothing PROVE LeaseInv'
  BY <1>3, LeaseInvQuiet DEF ClaimNothing, callerVars
<1>4. ASSUME NEW c \in claims, Call(c) PROVE LeaseInv'
  <2>1. c.job \in Jobs /\ state[c.job] \in StateValue
    BY DEF TypeOK, Claim
  <2>2. CASE Heartbeat(c)
    <3>1. \A k \in Jobs : state'[k].status = state[k].status /\ state'[k].lease = state[k].lease
      BY <2>1, <2>2 DEF Heartbeat, Renew, TypeOK, StateValue
    <3> QED BY <2>2, <3>1, LeaseInvQuiet DEF Heartbeat
  <2>3. CASE Complete(c)
    <3>1. "completed" \in Verdict /\ state'[c.job].status = "Completed"
      BY <2>1, <2>3 DEF Complete, TypeOK, Blank, Verdict
    <3>2. \A k \in Jobs : k # c.job => state'[k] = state[k]
      BY <2>3 DEF Complete, TypeOK
    <3> QED BY <2>3, <3>1, <3>2, LeaseInvAccept DEF Complete
  <2>4. CASE FinishErrorRetry(c)
    <3>1. "requeued" \in Verdict /\ state'[c.job].status = "Queued"
      BY <2>1, <2>4 DEF FinishErrorRetry, TypeOK, Blank, Verdict
    <3>2. \A k \in Jobs : k # c.job => state'[k] = state[k]
      BY <2>4 DEF FinishErrorRetry, TypeOK
    <3> QED BY <2>4, <3>1, <3>2, LeaseInvAccept DEF FinishErrorRetry
  <2>5. CASE FinishErrorFinal(c)
    <3>1. "failed" \in Verdict /\ state'[c.job].status = "Failed"
      BY <2>1, <2>5 DEF FinishErrorFinal, TypeOK, Blank, Verdict
    <3>2. \A k \in Jobs : k # c.job => state'[k] = state[k]
      BY <2>5 DEF FinishErrorFinal, TypeOK
    <3> QED BY <2>5, <3>1, <3>2, LeaseInvAccept DEF FinishErrorFinal
  <2>6. CASE FailInvalidClaim(c)
    <3>1. "invalid" \in Verdict /\ state'[c.job].status = "Failed"
      BY <2>1, <2>6 DEF FailInvalidClaim, TypeOK, Blank, Verdict
    <3>2. \A k \in Jobs : k # c.job => state'[k] = state[k]
      BY <2>6 DEF FailInvalidClaim, TypeOK
    <3> QED BY <2>6, <3>1, <3>2, LeaseInvAccept DEF FailInvalidClaim
  <2> QED BY <1>4, <2>2, <2>3, <2>4, <2>5, <2>6 DEF Call
<1>5. ASSUME NEW B \in SUBSET Jobs, RequeueExpired(B) PROVE LeaseInv'
  <2>1. ASSUME NEW j \in Jobs
        PROVE  \/ state'[j] = state[j]
               \/ /\ state[j].status = "Claimed"
                  /\ state'[j].status \in {"Queued", "Failed"}
    BY <1>5 DEF RequeueExpired, Requeues, Fails, Exhausted, Overdue, Blank
  <2> QED BY <1>5, <2>1, LeaseInvQuiet DEF RequeueExpired, callerVars, Terminal
<1>6. ASSUME Tick PROVE LeaseInv'
  <2>1. \A k \in Jobs : state'[k].status = state[k].status /\ state'[k].lease = state[k].lease
    BY <1>6 DEF Tick, TypeOK, StateValue
  <2> QED BY <1>6, <2>1, LeaseInvQuiet DEF Tick, callerVars
<1>7. ASSUME UNCHANGED vars PROVE LeaseInv'
  BY <1>7, LeaseInvQuiet DEF vars, redisVars, callerVars
<1> QED BY <1>1, <1>2, <1>3, <1>4, <1>5, <1>6, <1>7, LeaseInvClaim
        DEF Next, Produce, Grant, Resolve

LEMMA LeaseInvCorrect == Spec => []LeaseInv
<1>1. Init => LeaseInv
  BY DEF Init, LeaseInv, LastHolderEnds, Blank
<1>2. TypeOK /\ LeaseInv /\ [Next]_vars => LeaseInv'
  BY LeaseInvNext
<1> QED BY <1>1, <1>2, TypeCorrect, PTL DEF Spec

(* Only the last holder of a job is ever told that it ended the job, and   *)
(* the job ended as that holder was told (LastHolderEnds).                 *)
THEOREM FencingCorrect == Spec => []LastHolderEnds
<1>1. LeaseInv => LastHolderEnds
  BY DEF LeaseInv
<1> QED BY <1>1, LeaseInvCorrect, PTL
-----------------------------------------------------------------------------
(***************************************************************************)
(* The attempt counter counts the claims: INCR runs exactly when a claim   *)
(* is granted, under a lease id no claim had before.                       *)
(***************************************************************************)
Counted ==
  /\ IsFiniteSet(claims)
  /\ \A c \in claims : c.lease <= lastLease
  /\ \A j \in Jobs : Cardinality(ClaimsOf(j)) = attempts[j]

LEMMA CountedNext == ASSUME TypeOK, Counted, [Next]_vars PROVE Counted'
<1>1. ASSUME UNCHANGED <<claims, lastLease, attempts>> PROVE Counted'
  BY <1>1 DEF Counted, ClaimsOf
<1>2. ASSUME NEW w \in Workers, NEW i \in DOMAIN queue, ClaimJob(w, i) PROVE Counted'
  <2> DEFINE j == queue[i]
             new == [job |-> j, worker |-> w, lease |-> lastLease + 1]
  <2>1. /\ claims' = claims \cup {new} /\ lastLease' = lastLease + 1
        /\ attempts' = [attempts EXCEPT ![j] = @ + 1]
    BY <1>2 DEF ClaimJob
  <2>2. j \in Jobs /\ lastLease \in Nat
    BY QueueTyping DEF TypeOK
  <2>3. \A c \in claims : c.lease \in Nat
    BY DEF TypeOK, Claim
  <2>4. new \notin claims
    BY <2>2, <2>3 DEF Counted
  <2>5. IsFiniteSet(claims')
    BY <2>1, FS_AddElement DEF Counted
  <2>6. \A c \in claims' : c.lease <= lastLease'
    BY <2>1, <2>2, <2>3 DEF Counted
  <2>7. ASSUME NEW k \in Jobs PROVE Cardinality(ClaimsOf(k)') = attempts'[k]
    <3>1. IsFiniteSet(ClaimsOf(k)) /\ new \notin ClaimsOf(k)
      BY <2>4, FS_Subset DEF Counted, ClaimsOf
    <3>2. CASE k = j
      <4>1. ClaimsOf(k)' = ClaimsOf(k) \cup {new}
        BY <2>1, <3>2 DEF ClaimsOf
      <4>2. Cardinality(ClaimsOf(k)') = Cardinality(ClaimsOf(k)) + 1
        BY <3>1, <4>1, FS_AddElement
      <4>3. attempts'[k] = attempts[k] + 1
        BY <2>1, <2>2, <3>2 DEF TypeOK
      <4> QED BY <4>2, <4>3 DEF Counted
    <3>3. CASE k # j
      <4>1. ClaimsOf(k)' = ClaimsOf(k)
        BY <2>1, <3>3 DEF ClaimsOf
      <4>2. attempts'[k] = attempts[k]
        BY <2>1, <3>3 DEF TypeOK
      <4> QED BY <4>1, <4>2 DEF Counted
    <3> QED BY <3>2, <3>3
  <2> QED BY <2>5, <2>6, <2>7 DEF Counted
<1>3. ASSUME NEW c \in claims, Call(c) PROVE Counted'
  BY <1>1, <1>3
  DEF Call, Heartbeat, Complete, FinishErrorRetry, FinishErrorFinal, FailInvalidClaim
<1>4. CASE Produce \/ ClaimNothing \/ Resolve \/ Tick \/ UNCHANGED vars
  BY <1>1, <1>4
  DEF Produce, SeedPayload, SeedState, Enqueue, ClaimNothing, Resolve, RequeueExpired, Tick,
      vars, redisVars, callerVars
<1> QED BY <1>2, <1>3, <1>4 DEF Next, Grant

(* No job is ever handed out more than MaxAttempts times, for any number   *)
(* of workers, retries, expired leases and repeated enqueues               *)
(* (AttemptsBounded).                                                      *)
THEOREM AttemptsCorrect == Spec => []AttemptsBounded
<1>1. Init => Counted
  <2> SUFFICES ASSUME Init PROVE Counted
    OBVIOUS
  <2>1. claims = {} /\ \A j \in Jobs : ClaimsOf(j) = {} /\ attempts[j] = 0
    BY DEF Init, ClaimsOf
  <2> QED BY <2>1, FS_EmptySet DEF Counted
<1>2. TypeOK /\ Counted /\ [Next]_vars => Counted'
  BY CountedNext
<1>3. JobInv /\ Counted => AttemptsBounded
  BY DEF JobInv, Accounted, Counted, AttemptsBounded
<1> QED BY <1>1, <1>2, <1>3, TypeCorrect, JobInvCorrect, PTL DEF Spec
-----------------------------------------------------------------------------
(* No step changes the state, the result or the announcement of a job that *)
(* has ended (EndIsFinal).                                                 *)
THEOREM EndFinal == Spec => EndIsFinal
<1>1. ASSUME TypeOK, JobInv, [Next]_vars, NEW j \in Jobs, Terminal(j)
      PROVE  state'[j] = state[j] /\ result'[j] = result[j] /\ notified'[j] = notified[j]
  <2>0. /\ state[j].status \in {"Completed", "Failed"}
        /\ score[j] = NoScore /\ state[j].ttl = 0
    BY <1>1 DEF Terminal, JobInv, Accounted
  <2>1. ASSUME NEW k \in Jobs, SeedPayload(k) \/ SeedState(k) \/ Enqueue(k)
        PROVE  UNCHANGED <<state[j], result[j], notified[j]>>
    BY <1>1, <2>0, <2>1 DEF SeedPayload, SeedState, Enqueue, TypeOK
  <2>2. ASSUME NEW w \in Workers, NEW i \in DOMAIN queue, ClaimJob(w, i)
        PROVE  UNCHANGED <<state[j], result[j], notified[j]>>
    <3>1. queue[i] # j
      BY <2>0, <2>2 DEF ClaimJob, FirstClaimable, Claimable
    <3> QED BY <1>1, <2>2, <3>1 DEF ClaimJob, TypeOK
  <2>3. ASSUME NEW c \in claims, Call(c)
        PROVE  UNCHANGED <<state[j], result[j], notified[j]>>
    <3>1. c.job # j
      BY <2>0, <2>3
      DEF Call, Heartbeat, Complete, FinishErrorRetry, FinishErrorFinal, FailInvalidClaim, Holds
    <3> QED BY <1>1, <2>3, <3>1
            DEF Call, Heartbeat, Renew, Complete, FinishErrorRetry, FinishErrorFinal,
                WriteError, FailInvalidClaim, TypeOK
  <2>4. ASSUME NEW B \in SUBSET Jobs, RequeueExpired(B)
        PROVE  UNCHANGED <<state[j], result[j], notified[j]>>
    BY <2>0, <2>4 DEF RequeueExpired, Requeues, Fails, Exhausted, Overdue
  <2>5. ASSUME Tick PROVE UNCHANGED <<state[j], result[j], notified[j]>>
    <3>1. state[j] \in StateValue
      BY <1>1 DEF TypeOK
    <3>2. state'[j] = [state[j] EXCEPT !.ttl = IF @ > 0 THEN @ - 1 ELSE 0]
      BY <2>5 DEF Tick
    <3>3. state'[j] = state[j]
      BY <2>0, <3>1, <3>2 DEF StateValue
    <3> QED BY <2>5, <3>3 DEF Tick
  <2>6. ASSUME ClaimNothing \/ UNCHANGED vars
        PROVE  UNCHANGED <<state[j], result[j], notified[j]>>
    BY <2>6 DEF ClaimNothing, vars, redisVars
  <2> QED BY <1>1, <2>1, <2>2, <2>3, <2>4, <2>5, <2>6
          DEF Next, Produce, Grant, Resolve
<1>2. TypeOK /\ JobInv /\ [Next]_vars =>
        [\A j \in Jobs : Terminal(j) =>
           state'[j] = state[j] /\ result'[j] = result[j] /\ notified'[j] = notified[j]]_vars
  BY <1>1
<1> QED BY <1>2, TypeCorrect, JobInvCorrect, PTL DEF Spec, EndIsFinal

(* While a lease runs only its holder ends it, and no call made after the  *)
(* lease is accepted (LeaseIsRespected).                                   *)
THEOREM LeaseRespected == Spec => LeaseIsRespected
<1> DEFINE Ends(j) == state'[j].status # "Claimed" \/ state'[j].lease # state[j].lease
           Live(j) == state[j].status = "Claimed" /\ state[j].ttl > 0
           Told(j) == \E a \in accepted' \ accepted : a.job = j /\ a.lease = state[j].lease
           OnlyLive == \A a \in accepted' \ accepted :
                         /\ state[a.job].status = "Claimed" /\ state[a.job].ttl > 0
                         /\ state[a.job].lease = a.lease
<1>1. ASSUME TypeOK, LeaseInv, NEW c \in claims, NEW v \in Verdict, Holds(c), Accept(c, v)
      PROVE  Told(c.job) /\ OnlyLive
  <2> DEFINE new == [job |-> c.job, lease |-> c.lease, verdict |-> v]
  <2>1. c.job \in Jobs /\ c.lease \in Nat
    BY <1>1 DEF TypeOK, Claim
  <2>2. accepted' = accepted \cup {new} /\ Live(c.job) /\ state[c.job].lease = c.lease
    BY <1>1 DEF Accept, Holds
  <2>3. new \notin accepted
    BY <1>1, <2>1, <2>2 DEF LeaseInv, YoungestLease
  <2> QED BY <2>2, <2>3
<1>2. ASSUME TypeOK, LeaseInv, [Next]_vars
      PROVE  (\A j \in Jobs : Live(j) /\ Ends(j) => Told(j)) /\ OnlyLive
  <2>1. ASSUME UNCHANGED accepted, \A j \in Jobs : Live(j) => ~Ends(j)
        PROVE  (\A j \in Jobs : Live(j) /\ Ends(j) => Told(j)) /\ OnlyLive
    BY <2>1
  <2>2. ASSUME NEW k \in Jobs, SeedPayload(k) \/ SeedState(k) \/ Enqueue(k)
        PROVE  UNCHANGED accepted /\ \A j \in Jobs : Live(j) => ~Ends(j)
    BY <1>2, <2>2 DEF SeedPayload, SeedState, Enqueue, callerVars, TypeOK
  <2>3. ASSUME NEW w \in Workers, NEW i \in DOMAIN queue, ClaimJob(w, i)
        PROVE  UNCHANGED accepted /\ \A j \in Jobs : Live(j) => ~Ends(j)
    <3>1. state[queue[i]].status = "Queued"
      BY <2>3 DEF ClaimJob, FirstClaimable, Claimable
    <3> QED BY <1>2, <2>3, <3>1 DEF ClaimJob, TypeOK
  <2>4. ASSUME NEW c \in claims, Heartbeat(c)
        PROVE  UNCHANGED accepted /\ \A j \in Jobs : Live(j) => ~Ends(j)
    <3>1. c.job \in Jobs /\ state[c.job] \in StateValue
      BY <1>2 DEF TypeOK, Claim
    <3> QED BY <1>2, <2>4, <3>1 DEF Heartbeat, Renew, TypeOK, StateValue
  <2>5. ASSUME NEW B \in SUBSET Jobs, RequeueExpired(B)
        PROVE  UNCHANGED accepted /\ \A j \in Jobs : Live(j) => ~Ends(j)
    BY <2>5 DEF RequeueExpired, Requeues, Fails, Exhausted, Overdue, callerVars
  <2>6. ASSUME Tick
        PROVE  UNCHANGED accepted /\ \A j \in Jobs : Live(j) => ~Ends(j)
    <3>1. \A k \in Jobs : state'[k].status = state[k].status /\ state'[k].lease = state[k].lease
      BY <1>2, <2>6 DEF Tick, TypeOK, StateValue
    <3> QED BY <2>6, <3>1 DEF Tick, callerVars
  <2>7. ASSUME ClaimNothing \/ UNCHANGED vars
        PROVE  UNCHANGED accepted /\ \A j \in Jobs : Live(j) => ~Ends(j)
    BY <2>7 DEF ClaimNothing, vars, redisVars, callerVars
  <2>8. ASSUME NEW c \in claims,
               Complete(c) \/ FinishErrorRetry(c) \/ FinishErrorFinal(c) \/ FailInvalidClaim(c)
        PROVE  (\A j \in Jobs : Live(j) /\ Ends(j) => Told(j)) /\ OnlyLive
    <3>1. PICK v \in Verdict : Holds(c) /\ Accept(c, v)
      BY <2>8 DEF Complete, FinishErrorRetry, FinishErrorFinal, FailInvalidClaim, Verdict
    <3>2. \A j \in Jobs : j # c.job => state'[j] = state[j]
      BY <1>2, <2>8
      DEF Complete, FinishErrorRetry, FinishErrorFinal, FailInvalidClaim, TypeOK
    <3>3. Told(c.job) /\ OnlyLive
      BY <1>1, <1>2, <3>1
    <3> QED BY <3>2, <3>3
  <2> QED BY <1>2, <2>1, <2>2, <2>3, <2>4, <2>5, <2>6, <2>7, <2>8
          DEF Next, Produce, Grant, Resolve, Call
<1>3. TypeOK /\ LeaseInv /\ [Next]_vars => [LeaseRespectedStep]_vars
  BY <1>2 DEF LeaseRespectedStep
<1> QED BY <1>3, TypeCorrect, LeaseInvCorrect, PTL DEF Spec, LeaseIsRespected
-----------------------------------------------------------------------------
(***************************************************************************)
(* The scripts implement JobLifecycle.  Every step moves each job by at    *)
(* most one step of its life; that a job waiting for work has an attempt   *)
(* left, and that no job in work has been announced, comes from JobInv.    *)
(***************************************************************************)
LEMMA PhaseOfStatus ==
  ASSUME NEW j \in Jobs
  PROVE  /\ state[j].status = "Absent"    => PhaseOf(j) = "new"
         /\ state[j].status = "Queued"    => PhaseOf(j) = "waiting"
         /\ state[j].status = "Claimed"   => PhaseOf(j) = "working"
         /\ state[j].status = "Completed" => PhaseOf(j) = "proved"
         /\ state[j].status = "Failed"    => PhaseOf(j) = "failed"
<1> QED BY DEF PhaseOf

(* What a step of ProofQueue may do to the keys of one job.                *)
Moves(j) ==
  \/ /\ state'[j].status = state[j].status
     /\ attempts'[j] = attempts[j] /\ notified'[j] = notified[j]
  \/ /\ state[j].status = "Absent" /\ state'[j].status = "Queued"
     /\ attempts'[j] = attempts[j] /\ notified'[j] = notified[j]
  \/ /\ state[j].status = "Queued" /\ state'[j].status = "Claimed"
     /\ attempts'[j] = attempts[j] + 1 /\ notified'[j] = notified[j]
  \/ /\ state[j].status = "Claimed" /\ state'[j].status = "Queued"
     /\ attempts'[j] = attempts[j] /\ notified'[j] = notified[j]
  \/ /\ state[j].status = "Claimed" /\ state'[j].status \in {"Completed", "Failed"}
     /\ attempts'[j] = attempts[j] /\ notified'[j] = notified[j] + 1

LEMMA NextMoves == ASSUME TypeOK, [Next]_vars, NEW j \in Jobs PROVE Moves(j)
<1> USE DEF Moves
<1>1. ASSUME NEW k \in Jobs, SeedPayload(k) \/ Enqueue(k) PROVE Moves(j)
  BY <1>1 DEF SeedPayload, Enqueue
<1>2. ASSUME NEW k \in Jobs, SeedState(k) PROVE Moves(j)
  BY <1>2 DEF SeedState, TypeOK, Blank
<1>3. ASSUME NEW w \in Workers, NEW i \in DOMAIN queue, ClaimJob(w, i) PROVE Moves(j)
  <2>1. queue[i] \in Jobs /\ state[queue[i]].status = "Queued"
    BY <1>3, QueueTyping DEF TypeOK, ClaimJob, FirstClaimable, Claimable
  <2>2. /\ state' = [state EXCEPT ![queue[i]] = Claimed(w, lastLease + 1, attempts[queue[i]] + 1)]
        /\ attempts' = [attempts EXCEPT ![queue[i]] = @ + 1] /\ notified' = notified
    BY <1>3 DEF ClaimJob
  <2>3. CASE j = queue[i]
    BY <2>1, <2>2, <2>3 DEF TypeOK, Claimed
  <2>4. CASE j # queue[i]
    BY <2>2, <2>4 DEF TypeOK
  <2> QED BY <2>3, <2>4
<1>4. ASSUME NEW c \in claims, Call(c) PROVE Moves(j)
  <2>1. c.job \in Jobs /\ state[c.job] \in StateValue
    BY DEF TypeOK, Claim
  <2>2. CASE j # c.job
    BY <1>4, <2>1, <2>2
    DEF TypeOK, Call, Heartbeat, Renew, Complete, FinishErrorRetry, FinishErrorFinal,
        FailInvalidClaim
  <2>3. CASE j = c.job /\ Heartbeat(c)
    BY <2>1, <2>3 DEF Heartbeat, Renew, TypeOK, StateValue
  <2>4. CASE j = c.job /\ FinishErrorRetry(c)
    BY <2>4 DEF FinishErrorRetry, Holds, TypeOK, Blank
  <2>5. CASE j = c.job /\ (Complete(c) \/ FinishErrorFinal(c) \/ FailInvalidClaim(c))
    BY <2>5 DEF Complete, FinishErrorFinal, FailInvalidClaim, Holds, TypeOK, Blank
  <2> QED BY <1>4, <2>2, <2>3, <2>4, <2>5 DEF Call
<1>5. ASSUME NEW B \in SUBSET Jobs, RequeueExpired(B) PROVE Moves(j)
  <2>1. UsedAttempts(j) \in Nat
    BY DEF TypeOK, StateValue, UsedAttempts, Larger
  <2>2. ~(Requeues(j) /\ Fails(j))
    BY <2>1, BoundsAssumption DEF Requeues, Fails, Exhausted
  <2>3. CASE j \in B /\ Requeues(j)
    BY <1>5, <2>2, <2>3 DEF RequeueExpired, Requeues, Overdue, Blank
  <2>4. CASE j \in B /\ ~Requeues(j) /\ Fails(j)
    BY <1>5, <2>4 DEF RequeueExpired, Fails, Exhausted, Overdue, Blank
  <2>5. CASE j \notin B \/ (~Requeues(j) /\ ~Fails(j))
    BY <1>5, <2>5 DEF RequeueExpired
  <2> QED BY <2>3, <2>4, <2>5
<1>6. ASSUME Tick PROVE Moves(j)
  BY <1>6 DEF Tick, TypeOK, StateValue
<1>7. ASSUME ClaimNothing \/ UNCHANGED vars PROVE Moves(j)
  BY <1>7 DEF ClaimNothing, vars, redisVars
<1> QED BY <1>1, <1>2, <1>3, <1>4, <1>5, <1>6, <1>7 DEF Next, Produce, Grant, Resolve

(* ProofQueue implements JobLifecycle (KeepsPromise).                      *)
THEOREM PromiseKept == Spec => KeepsPromise
<1>1. Init => Lifecycle!Init
  BY DEF Init, Lifecycle!Init, PhaseOf, Blank
<1>2. ASSUME TypeOK, TypeOK', JobInv, JobInv', [Next]_vars
      PROVE  [Lifecycle!Next]_(Lifecycle!jobVars)
  <2>1. ASSUME NEW j \in Jobs PROVE Lifecycle!JobStep(j) \/ Lifecycle!Idle(j)
    <3>1. Moves(j) /\ Accounted(j) /\ Accounted(j)'
      BY <1>2, NextMoves DEF JobInv
    <3>2. /\ state[j].status = "Absent"    => PhaseOf(j) = "new"
          /\ state[j].status = "Queued"    => PhaseOf(j) = "waiting"
          /\ state[j].status = "Claimed"   => PhaseOf(j) = "working"
          /\ state[j].status = "Completed" => PhaseOf(j) = "proved"
          /\ state[j].status = "Failed"    => PhaseOf(j) = "failed"
      BY PhaseOfStatus
    <3>3. /\ state'[j].status = "Queued"    => PhaseOf(j)' = "waiting"
          /\ state'[j].status = "Claimed"   => PhaseOf(j)' = "working"
          /\ state'[j].status = "Completed" => PhaseOf(j)' = "proved"
          /\ state'[j].status = "Failed"    => PhaseOf(j)' = "failed"
      BY DEF PhaseOf
    <3>4. state'[j].status = state[j].status => PhaseOf(j)' = PhaseOf(j)
      BY DEF PhaseOf
    <3> QED BY <3>1, <3>2, <3>3, <3>4
            DEF Moves, Accounted, Lifecycle!JobStep, Lifecycle!Idle, Lifecycle!Submit,
                Lifecycle!Start, Lifecycle!Retry, Lifecycle!End
  <2>2. [j \in Jobs |-> PhaseOf(j)]' \in [Jobs -> Lifecycle!Phase]
    <3>1. ASSUME NEW j \in Jobs PROVE PhaseOf(j)' \in Lifecycle!Phase
      <4>1. state'[j].status \in Status
        BY <1>2 DEF TypeOK, StateValue
      <4> QED BY <4>1 DEF Status, PhaseOf, Lifecycle!Phase
    <3> QED BY <3>1
  <2>3. attempts' \in [Jobs -> Nat] /\ notified' \in [Jobs -> Nat]
    BY <1>2 DEF TypeOK
  <2> QED BY <2>1, <2>2, <2>3 DEF Lifecycle!Next
<1>3. TypeOK /\ TypeOK' /\ JobInv /\ JobInv' /\ [Next]_vars =>
        [Lifecycle!Next]_(Lifecycle!jobVars)
  BY <1>2
<1> QED BY <1>1, <1>3, TypeCorrect, JobInvCorrect, PTL
        DEF Spec, KeepsPromise, Lifecycle!Spec

-----------------------------------------------------------------------------
(* A step that keeps a job's status keeps its state, or renews its lease,  *)
(* or lets time of the lease pass.                                         *)
Passes(j) ==
  \/ state'[j] = state[j]
  \/ renewals'[j] > renewals[j]
  \/ renewals'[j] = renewals[j] /\ state'[j].ttl < state[j].ttl

LEMMA NextPasses ==
  ASSUME TypeOK, JobInv, [Next]_vars, NEW j \in Jobs, state'[j].status = state[j].status
  PROVE  Passes(j)
<1> USE DEF Passes
<1>1. ASSUME NEW k \in Jobs, SeedPayload(k) \/ SeedState(k) \/ Enqueue(k) PROVE Passes(j)
  <2>1. CASE k # j \/ SeedPayload(k) \/ Enqueue(k)
    BY <1>1, <2>1 DEF SeedPayload, SeedState, Enqueue, TypeOK
  <2>2. CASE k = j /\ SeedState(k)
    BY <2>2 DEF SeedState, TypeOK, Blank
  <2> QED BY <1>1, <2>1, <2>2
<1>2. ASSUME NEW w \in Workers, NEW i \in DOMAIN queue, ClaimJob(w, i) PROVE Passes(j)
  <2>1. queue[i] \in Jobs /\ state[queue[i]].status = "Queued"
    BY <1>2, QueueTyping DEF TypeOK, ClaimJob, FirstClaimable, Claimable
  <2>2. state' = [state EXCEPT ![queue[i]] = Claimed(w, lastLease + 1, attempts[queue[i]] + 1)]
    BY <1>2 DEF ClaimJob
  <2>3. CASE j = queue[i]
    BY <2>1, <2>2, <2>3 DEF TypeOK, Claimed
  <2>4. CASE j # queue[i]
    BY <2>2, <2>4 DEF TypeOK
  <2> QED BY <2>3, <2>4
<1>3. ASSUME NEW c \in claims, Call(c) PROVE Passes(j)
  <2>1. c.job \in Jobs
    BY DEF TypeOK, Claim
  <2>2. CASE j # c.job
    BY <1>3, <2>1, <2>2
    DEF TypeOK, Call, Heartbeat, Renew, Complete, FinishErrorRetry, FinishErrorFinal,
        FailInvalidClaim
  <2>3. CASE j = c.job /\ Heartbeat(c)
    BY <2>1, <2>3 DEF Heartbeat, TypeOK
  <2>4. CASE j = c.job /\ FinishErrorRetry(c)
    BY <2>4 DEF FinishErrorRetry, Holds, TypeOK, Blank
  <2>5. CASE j = c.job /\ (Complete(c) \/ FinishErrorFinal(c) \/ FailInvalidClaim(c))
    BY <2>5 DEF Complete, FinishErrorFinal, FailInvalidClaim, Holds, TypeOK, Blank
  <2> QED BY <1>3, <2>2, <2>3, <2>4, <2>5 DEF Call
<1>4. ASSUME NEW B \in SUBSET Jobs, RequeueExpired(B) PROVE Passes(j)
  <2>1. CASE j \in B /\ Requeues(j)
    BY <1>4, <2>1 DEF RequeueExpired, Requeues, Overdue, Blank
  <2>2. CASE j \in B /\ ~Requeues(j) /\ Fails(j)
    BY <1>4, <2>2 DEF RequeueExpired, Fails, Exhausted, Overdue, Blank
  <2>3. CASE j \notin B \/ (~Requeues(j) /\ ~Fails(j))
    BY <1>4, <2>3 DEF RequeueExpired
  <2> QED BY <2>1, <2>2, <2>3
<1>5. ASSUME Tick PROVE Passes(j)
  <2>1. /\ state'[j] = [state[j] EXCEPT !.ttl = IF @ > 0 THEN @ - 1 ELSE 0]
        /\ renewals' = renewals
    BY <1>5 DEF Tick, TypeOK, callerVars
  <2>2. state[j] \in StateValue /\ state[j].ttl \in 0..Lease
    BY DEF TypeOK, StateValue
  <2>3. CASE state[j].ttl > 0
    <3>1. state'[j].ttl = state[j].ttl - 1 /\ state[j].ttl \in Nat
      BY <2>1, <2>2, <2>3, BoundsAssumption DEF StateValue
    <3> QED BY <2>1, <3>1
  <2>4. CASE ~(state[j].ttl > 0)
    <3>1. state[j].ttl = 0
      BY <2>2, <2>4, BoundsAssumption
    <3>2. state'[j] = [state[j] EXCEPT !.ttl = 0]
      BY <2>1, <3>1
    <3>3. [state[j] EXCEPT !.ttl = 0] = state[j]
      BY <2>2, <3>1 DEF StateValue
    <3> QED BY <3>2, <3>3
  <2> QED BY <2>3, <2>4
<1>6. ASSUME ClaimNothing \/ UNCHANGED vars PROVE Passes(j)
  BY <1>6 DEF ClaimNothing, vars, redisVars
<1> QED BY <1>1, <1>2, <1>3, <1>4, <1>5, <1>6 DEF Next, Produce, Grant, Resolve

LEMMA ChangesLeftIs ==
  ASSUME TypeOK, JobInv, NEW j \in Jobs
  PROVE  /\ attempts[j] \in 0..MaxAttempts /\ state[j].status \in Status
         /\ ChangesLeft(j) \in Nat
         /\ state[j].status \in {"Queued", "Claimed"} => ChangesLeft(j) > 0
<1>1. attempts[j] \in Nat /\ attempts[j] <= MaxAttempts /\ MaxAttempts \in Nat
  BY BoundsAssumption DEF TypeOK, JobInv, Accounted
<1>2. state[j].status \in Status
  BY DEF TypeOK, StateValue
<1> QED BY <1>1, <1>2 DEF ChangesLeft

LEMMA OneLess ==
  ASSUME NEW a \in Int, NEW m \in Int
  PROVE  2 * (m - (a + 1)) + 2 < 2 * (m - a) + 1
OBVIOUS

LEMMA StepUsesUp ==
  ASSUME TypeOK, TypeOK', JobInv, JobInv', [Next]_vars, NEW j \in Jobs
  PROVE  ChangesLeft(j)' \in Nat /\ (state'[j] # state[j] => UsesUp(j))
<1>1. Moves(j) /\ Accounted(j)
  BY NextMoves DEF JobInv
<1>2. /\ attempts[j] \in 0..MaxAttempts /\ ChangesLeft(j) \in Nat
      /\ state[j].status \in {"Queued", "Claimed"} => ChangesLeft(j) > 0
  BY ChangesLeftIs
<1>3. attempts'[j] \in 0..MaxAttempts /\ ChangesLeft(j)' \in Nat
  <2>1. attempts'[j] \in Nat /\ attempts'[j] <= MaxAttempts /\ MaxAttempts \in Nat
    BY BoundsAssumption DEF TypeOK, JobInv, Accounted
  <2> QED BY <2>1 DEF ChangesLeft
<1> USE BoundsAssumption
<1>4. CASE state'[j].status = state[j].status
  <2>1. ChangesLeft(j)' = ChangesLeft(j)
    <3>1. attempts'[j] = attempts[j]
      BY <1>1, <1>4 DEF Moves
    <3> QED BY <1>4, <3>1 DEF ChangesLeft
  <2> QED BY <1>3, <1>4, <2>1, NextPasses DEF Passes, UsesUp
<1>5. CASE state[j].status = "Absent" /\ state'[j].status = "Queued"
  <2>1. attempts'[j] = 0 /\ attempts[j] = 0
    BY <1>1, <1>5 DEF Moves, Accounted
  <2> QED BY <1>3, <1>5, <2>1 DEF ChangesLeft, UsesUp
<1>6. CASE state[j].status = "Queued" /\ state'[j].status = "Claimed"
  <2>1. attempts'[j] = attempts[j] + 1
    BY <1>1, <1>6 DEF Moves
  <2>2. ChangesLeft(j) = 2 * (MaxAttempts - attempts[j]) + 1
    BY <1>6 DEF ChangesLeft
  <2>3. ChangesLeft(j)' = 2 * (MaxAttempts - attempts'[j]) + 2
    BY <1>6 DEF ChangesLeft
  <2>4. 2 * (MaxAttempts - (attempts[j] + 1)) + 2 < 2 * (MaxAttempts - attempts[j]) + 1
    <3>1. attempts[j] \in Int /\ MaxAttempts \in Int
      BY <1>2
    <3> QED BY <3>1, OneLess
  <2>5. ChangesLeft(j)' < ChangesLeft(j)
    BY <2>1, <2>2, <2>3, <2>4
  <2> QED BY <1>3, <2>5 DEF UsesUp
<1>7. CASE state[j].status = "Claimed" /\ state'[j].status = "Queued"
  <2>1. attempts'[j] = attempts[j]
    BY <1>1, <1>7 DEF Moves
  <2> QED BY <1>2, <1>3, <1>7, <2>1 DEF ChangesLeft, UsesUp
<1>8. CASE state[j].status = "Claimed" /\ state'[j].status \in {"Completed", "Failed"}
  <2>1. ChangesLeft(j)' = 0
    BY <1>8 DEF ChangesLeft
  <2> QED BY <1>2, <1>3, <1>8, <2>1 DEF UsesUp
<1> QED BY <1>1, <1>4, <1>5, <1>6, <1>7, <1>8 DEF Moves

(* Every change of a job's state uses up a change of its status, a         *)
(* heartbeat or time of its lease (WorkRunsOut), whatever the numbers of   *)
(* jobs and workers and the limits: the scripts keep no job going round.   *)
THEOREM StatesRunOut == Spec => WorkRunsOut
<1>1. TypeOK /\ TypeOK' /\ JobInv /\ JobInv' /\ [Next]_vars => [WorkRunsOutStep]_vars
  BY StepUsesUp DEF WorkRunsOutStep
<1> QED BY <1>1, TypeCorrect, JobInvCorrect, PTL DEF Spec, WorkRunsOut

-----------------------------------------------------------------------------
(* The least-number principle, from the well-foundedness of <.             *)
LEMMA LeastIndex ==
  ASSUME NEW T \in SUBSET Nat, T # {}
  PROVE  \E i \in T : \A k \in T : i <= k
<1> DEFINE Below == {p \in Nat \X Nat : p[1] < p[2]}
<1>1. IsWellFoundedOn(Below, Nat)
  BY NatLessThanWellFounded DEF OpToRel
<1>2. PICK i \in T : \A k \in T : ~ (<<k, i>> \in Below)
  <2> HIDE DEF Below
  <2> QED BY <1>1, WFMin
<1>3. ASSUME NEW k \in T PROVE i <= k
  <2>1. i \in Nat /\ k \in Nat /\ <<k, i>> \in Nat \X Nat
    OBVIOUS
  <2>2. ~(<<k, i>>[1] < <<k, i>>[2])
    BY <1>2, <2>1
  <2> QED BY <2>1, <2>2
<1> QED BY <1>3

(* A queue with a claimable id has a first one. *)
LEMMA FirstExists ==
  ASSUME queue \in Seq(Jobs), NEW i \in DOMAIN queue, Claimable(queue[i])
  PROVE  \E h \in DOMAIN queue : FirstClaimable(h)
<1> DEFINE T == {k \in DOMAIN queue : Claimable(queue[k])}
<1>1. DOMAIN queue = 1..Len(queue) /\ Len(queue) \in Nat
  OBVIOUS
<1>2. T \in SUBSET Nat /\ T # {}
  BY <1>1
<1>3. PICK h \in T : \A k \in T : h <= k
  <2> HIDE DEF T
  <2> QED BY <1>2, LeastIndex
<1>4. ASSUME NEW k \in 1..(h - 1) PROVE ~Claimable(queue[k])
  <2>1. k \in DOMAIN queue /\ ~(h <= k)
    BY <1>1
  <2> QED BY <1>3, <2>1
<1> QED BY <1>3, <1>4 DEF FirstClaimable

(* The ids of a finite set can be pushed in some order. *)
LEMMA OrdersExist ==
  ASSUME NEW S, IsFiniteSet(S)
  PROVE  Orders(S) # {}
<1>1. PICK f : f \in Bijection(1..Cardinality(S), S)
  BY FS_CardinalityType DEF ExistsBijection
<1>2. f \in [1..Cardinality(S) -> S] /\ \A x \in S : \E i \in 1..Cardinality(S) : f[i] = x
  BY <1>1 DEF Bijection, Surjection
<1> QED BY <1>2 DEF Orders

(* A finite set has a subset of each size up to its own. *)
LEMMA SubsetOfSize ==
  ASSUME NEW S, IsFiniteSet(S), NEW n \in Nat, n <= Cardinality(S)
  PROVE  \E B \in SUBSET S : Cardinality(B) = n
<1>1. PICK f : f \in Bijection(1..Cardinality(S), S)
  BY FS_CardinalityType DEF ExistsBijection
<1>2. /\ Cardinality(S) \in Nat
      /\ f \in [1..Cardinality(S) -> S]
      /\ \A a, b \in 1..Cardinality(S) : f[a] = f[b] => a = b
  BY <1>1, FS_CardinalityType DEF Bijection, Injection, IsInjective
<1> DEFINE B == {f[i] : i \in 1..n}
           g == [i \in 1..n |-> f[i]]
<1>3. 1..n \subseteq 1..Cardinality(S)
  BY <1>2
<1>4. B \in SUBSET S
  BY <1>2, <1>3
<1>5. g \in Bijection(1..n, B)
  <2>1. g \in [1..n -> B]
    OBVIOUS
  <2>2. \A a, b \in 1..n : g[a] = g[b] => a = b
    BY <1>2, <1>3
  <2>3. \A x \in B : \E i \in 1..n : g[i] = x
    OBVIOUS
  <2> QED BY <2>1, <2>2, <2>3 DEF Bijection, Injection, Surjection, IsInjective
<1>6. Cardinality(B) = n
  <2> HIDE DEF B, g
  <2> QED BY <1>5, FS_CountingElements DEF ExistsBijection
<1> QED BY <1>4, <1>6

(* If a lease is over and no member aborts, requeue_expired resolves some. *)
LEMMA BatchExists ==
  ASSUME Expired # {}, \A k \in Expired : ~Aborts(k)
  PROVE  \E B \in SUBSET Jobs :
           B # {} /\ Resolvable(B) /\ Orders({k \in B : Requeues(k)}) # {}
<1>1. Expired \subseteq Jobs /\ IsFiniteSet(Expired)
  BY JobsAssumption, FS_Subset DEF Expired
<1>2. Cardinality(Expired) \in Nat /\ Batch \in Nat \ {0}
  BY <1>1, FS_CardinalityType, BoundsAssumption
<1>3. \E B \in SUBSET Expired : B # {} /\ Resolvable(B)
  <2>1. CASE Cardinality(Expired) <= Batch
    <3>1. Cardinality(Expired) = Batch \/ Cardinality(Expired) < Batch
      BY <1>2, <2>1
    <3> QED BY <3>1 DEF Resolvable
  <2>2. CASE ~(Cardinality(Expired) <= Batch)
    <3>1. PICK B \in SUBSET Expired : Cardinality(B) = Batch
      <4>1. Batch \in Nat /\ Batch <= Cardinality(Expired)
        BY <1>2, <2>2
      <4> QED BY <1>1, <4>1, SubsetOfSize
    <3>2. B # {}
      BY <1>2, <3>1, FS_EmptySet
    <3> QED BY <3>1, <3>2 DEF Resolvable
  <2> QED BY <2>1, <2>2
<1>4. ASSUME NEW B \in SUBSET Expired PROVE Orders({k \in B : Requeues(k)}) # {}
  <2>1. IsFiniteSet({k \in B : Requeues(k)})
    BY <1>1, FS_Subset
  <2> QED BY <2>1, OrdersExist
<1> QED BY <1>1, <1>3, <1>4

(* From each state of a job in progress some script leads on, but for the  *)
(* payloads that are no JSON or abort requeue_expired (NoJobIsStuck),      *)
(* whatever the numbers of jobs and workers, the batch and the limits.     *)
THEOREM NeverStuck == Spec => []NoJobIsStuck
<1>1. ASSUME TypeOK, JobInv, NothingLost PROVE NoJobIsStuck
  <2>1. ASSUME NEW j \in Jobs, state[j].status = "Queued", pushes[j] > 0
        PROVE  \E i \in DOMAIN queue : FirstClaimable(i)
    <3>1. PICK i \in DOMAIN queue : queue[i] = j
      BY <1>1, <2>1 DEF NothingLost, InQueue
    <3>2. queue \in Seq(Jobs) /\ Claimable(queue[i])
      BY <1>1, <2>1, <3>1 DEF TypeOK, JobInv, Accounted, Claimable
    <3> QED BY <3>2, FirstExists
  <2>2. ASSUME NEW j \in Jobs, state[j].status = "Claimed", state[j].ttl = 0, ~LeftBehind(j)
        PROVE  Expired # {}
    <3>1. /\ attempts[j] \in Nat /\ state[j].attempt = attempts[j] /\ MaxAttempts \in Nat
          /\ score[j] # NoScore => score[j] = 0
          /\ score[j] = NoScore => attempts[j] = MaxAttempts /\ payload[j] = "unparsable"
      BY <1>1, <2>2, BoundsAssumption DEF TypeOK, JobInv, Accounted
    <3>2. score[j] # NoScore
      <4> SUFFICES ASSUME score[j] = NoScore PROVE LeftBehind(j)
        BY <2>2
      <4>1. UsedAttempts(j) >= MaxAttempts
        BY <3>1 DEF UsedAttempts, Larger
      <4> QED BY <2>2, <3>1, <4>1 DEF LeftBehind, Exhausted, Overdue
    <3> QED BY <3>1, <3>2 DEF Expired
  <2> QED BY <2>1, <2>2, BatchExists DEF NoJobIsStuck
<1> QED BY <1>1, TypeCorrect, JobInvCorrect, NothingLostCorrect, PTL
=============================================================================
