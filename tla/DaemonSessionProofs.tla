------------------------ MODULE DaemonSessionProofs -------------------------
(***************************************************************************)
(* Theorems about DaemonSession: whatever the daemon does and whenever it  *)
(* dies, the worker takes no answer for another job's, and a process that  *)
(* timed out works on nothing.                                             *)
(***************************************************************************)
EXTENDS DaemonSession, SequenceTheorems, TLAPS

Down == pc = "down" => child = "none"

HasJob == pc \in {"sending", "waiting"} => job \in Jobs

(* Between a line it wrote and the next request it takes. *)
AtRest == {"serving", "leaving", "exit75", "exited"}

(* Without a request under way nothing can arrive. *)
Quiet ==
  stdin = <<>> /\ stdout = <<>> /\ child \in AtRest

Resting == pc \in {"idle", "sending"} => Quiet

(* There is one line at most in the pipe, and its end comes when the daemon *)
(* has done with it.                                                        *)
OneLine ==
  \A i \in 1..Len(stdout) : stdout[i].ends =>
    i = Len(stdout) /\ child \in AtRest

Starting ==
  pc = "starting" =>
    /\ OneLine /\ stdin = <<>> /\ child \notin {"executing", "proving", "none"}
    /\ (child = "setup" => stdout = <<>>)

OfJob == \A i \in 1..Len(stdout) : stdout[i].msg.job = job

Waiting ==
  pc = "waiting" =>
    /\ OneLine /\ OfJob /\ child \notin {"setup", "none"}
    /\ (child \in {"executing", "proving"} => work = job /\ stdin = <<>> /\ stdout = <<>>)
    /\ (child = "writing" => out.job = job /\ stdin = <<>>)
    /\ (stdin # <<>> => stdin = <<job>> /\ stdout = <<>> /\ child \in AtRest)

(* A process that dropped a future reports it and ends. *)
Polluted ==
  polluted =>
    \/ child = "writing" /\ out.kind = "timeout"
    \/ child \in {"leaving", "exit75", "exited"}

Stopping == pc = "stopping" => verdict.kind = "transient"

SessionInv ==
  /\ TypeOK
  /\ Down /\ HasJob /\ Resting /\ Starting /\ Waiting
  /\ Polluted /\ Stopping /\ AnswerIsOwn

-----------------------------------------------------------------------------
LEMMA MessageTypes ==
  /\ Nothing \in Message
  /\ \A form \in VkeyForms : Identity(form) \in Message
  /\ \A kind \in {"proof", "error", "timeout"}, j \in Jobs \cup {NoJob} : Answer(kind, j) \in Message
BY FormsAssumption DEF Nothing, Message, Identity, Answer, VkeyForm

LEMMA PieceTypes ==
  ASSUME NEW m \in Message, NEW s \in Seq(Piece), NEW b \in BOOLEAN
  PROVE  Append(s, [ends |-> b, msg |-> m]) \in Seq(Piece)
BY DEF Piece

LEMMA TypeStep == ASSUME TypeOK, HasJob, [Next]_vars PROVE TypeOK'
<1> USE DEF TypeOK, Running, Gone
<1>1. CASE SetupSucceeds
  BY <1>1, MessageTypes, PieceTypes DEF SetupSucceeds, WriteBegin, workerVars
<1>2. CASE SetupTimesOut \/ SetupFails \/ ExitAfterTimeout \/ Crash
  BY <1>2 DEF SetupTimesOut, SetupFails, ExitAfterTimeout, Crash, workerVars
<1>3. CASE WriteEnd
  BY <1>3, MessageTypes, PieceTypes DEF WriteEnd, AfterWrite, workerVars
<1>4. CASE TakeRequest
  <2>1. Head(stdin) \in Jobs /\ Tail(stdin) \in Seq(Jobs)
    BY <1>4 DEF TakeRequest
  <2> QED BY <1>4, <2>1, MessageTypes, PieceTypes DEF TakeRequest, WriteBegin, workerVars
<1>5. CASE ExecuteEnds \/ ProveEnds
  BY <1>5, MessageTypes, PieceTypes DEF ExecuteEnds, ProveEnds, WriteBegin, workerVars
<1>6. CASE Spawn \/ StartFails \/ StartTimesOut \/ StopDaemon
  <2>1. <<>> \in Seq(Jobs) /\ <<>> \in Seq(Piece)
    OBVIOUS
  <2>2. CASE Spawn
    BY <2>1, <2>2, MessageTypes DEF Spawn
  <2>3. CASE StartFails \/ StartTimesOut
    BY <2>1, <2>3, MessageTypes DEF StartFails, StartTimesOut, NotStarted, Kill
  <2>4. CASE StopDaemon
    BY <2>1, <2>4, MessageTypes DEF StopDaemon, Kill
  <2> QED BY <1>6, <2>2, <2>3, <2>4
<1>7. CASE Started \/ ReadPiece
  <2>1. Head(stdout) \in Piece /\ Tail(stdout) \in Seq(Piece)
    BY <1>7 DEF Started, LineArrives, ReadPiece
  <2> QED BY <1>7, <2>1, MessageTypes DEF Started, ReadPiece, Piece
<1>8. ASSUME NEW j \in Jobs, BeginJob(j) PROVE TypeOK'
  BY <1>8 DEF BeginJob, NoVerdict, Verdict, daemonVars
<1>9. CASE WriteRequest
  <2>1. stdin' \in Seq(Jobs)
    BY <1>9 DEF WriteRequest, Request, HasJob
  <2> QED BY <1>9, <2>1 DEF WriteRequest
<1>10. CASE Heartbeat
  BY <1>10, MessageTypes DEF Heartbeat, daemonVars
<1>11. CASE Answered
  <2>1. Tail(stdout) \in Seq(Piece)
    BY <1>11 DEF Answered, LineArrives
  <2>2. Classify(line) \in {"proof", "transient", "permanent"} /\ line.job \in Jobs \cup {NoJob}
    BY DEF Classify, Message
  <2> QED BY <1>11, <2>1, <2>2, MessageTypes DEF Answered, Return, Verdict
<1>12. CASE Rejected \/ SendFails \/ OutputEnds \/ LeaseGone \/ ResponseTimesOut
  BY <1>12, MessageTypes
     DEF Rejected, SendFails, OutputEnds, LeaseGone, ResponseTimesOut, Return, Verdict, daemonVars
<1>13. CASE UNCHANGED vars
  BY <1>13 DEF vars, workerVars, daemonVars
<1> QED
  BY <1>1, <1>2, <1>3, <1>4, <1>5, <1>6, <1>7, <1>8, <1>9, <1>10, <1>11, <1>12, <1>13
     DEF Next, Daemon, Worker

(* The pieces of a pipe after one was added, or taken out. *)
LEMMA Appended ==
  ASSUME NEW s \in Seq(Piece), NEW p
  PROVE  /\ Len(Append(s, p)) = Len(s) + 1
         /\ \A i \in 1..Len(s) : Append(s, p)[i] = s[i]
         /\ Append(s, p)[Len(s) + 1] = p
OBVIOUS

LEMMA Taken ==
  ASSUME NEW s \in Seq(Piece), s # <<>>
  PROVE  /\ Len(Tail(s)) = Len(s) - 1 /\ Len(s) \in Nat \ {0}
         /\ \A i \in 1..Len(Tail(s)) : Tail(s)[i] = s[i + 1] /\ i + 1 \in 1..Len(s)
         /\ Head(s) = s[1]
OBVIOUS

LEMMA PollutedStep == ASSUME SessionInv, [Next]_vars PROVE Polluted'
<1> USE DEF Polluted
<1>0. TypeOK /\ Polluted
  BY DEF SessionInv
<1>1. CASE SetupSucceeds \/ TakeRequest \/ ExecuteEnds \/ ProveEnds
  <2>1. ~polluted
    BY <1>0, <1>1 DEF SetupSucceeds, TakeRequest, ExecuteEnds, ProveEnds
  <2>2. ASSUME NEW msg, WriteBegin(msg) PROVE Polluted'
    BY <2>1, <2>2 DEF WriteBegin
  <2> QED
    BY <1>1, <2>1, <2>2 DEF SetupSucceeds, TakeRequest, ExecuteEnds, ProveEnds
<1>2. CASE WriteEnd
  BY <1>0, <1>2 DEF WriteEnd, AfterWrite
<1>3. CASE SetupTimesOut \/ SetupFails \/ ExitAfterTimeout \/ Crash
  BY <1>0, <1>3 DEF SetupTimesOut, SetupFails, ExitAfterTimeout, Crash
<1>4. CASE Spawn \/ StartFails \/ StartTimesOut \/ StopDaemon
  BY <1>4 DEF Spawn, StartFails, StartTimesOut, NotStarted, StopDaemon, Kill
<1>5. CASE UNCHANGED <<child, out, polluted>>
  BY <1>0, <1>5
<1> QED
  BY <1>1, <1>2, <1>3, <1>4, <1>5
     DEF Next, Daemon, Worker, Started, ReadPiece, BeginJob, Rejected, WriteRequest, SendFails,
         Heartbeat, Answered, OutputEnds, LeaseGone, ResponseTimesOut, vars, daemonVars

LEMMA StoppingStep == ASSUME SessionInv, [Next]_vars PROVE Stopping'
<1> USE DEF Stopping
<1>0. Stopping
  BY DEF SessionInv
<1>1. CASE UNCHANGED <<pc, verdict>>
  BY <1>0, <1>1
<1>2. CASE pc' \notin {"stopping"}
  BY <1>2
<1>3. ASSUME NEW kind, NEW proof, Return(kind, proof) PROVE Stopping'
  BY <1>3 DEF Return
<1> QED
  BY <1>1, <1>2, <1>3
     DEF Next, Daemon, Worker, SetupSucceeds, SetupTimesOut, SetupFails, WriteEnd, ExitAfterTimeout,
         TakeRequest, ExecuteEnds, ProveEnds, Crash, Spawn, Started, StartFails, StartTimesOut,
         NotStarted, ReadPiece, BeginJob, Rejected, WriteRequest, SendFails, Heartbeat, Answered,
         OutputEnds, LeaseGone, ResponseTimesOut, StopDaemon, vars, workerVars

LEMMA AnswerStep == ASSUME SessionInv, [Next]_vars PROVE AnswerIsOwn'
<1> USE DEF AnswerIsOwn
<1>0. TypeOK /\ AnswerIsOwn /\ Waiting
  BY DEF SessionInv
<1>1. CASE UNCHANGED verdict
  BY <1>0, <1>1
<1>2. ASSUME NEW j \in Jobs, BeginJob(j) PROVE AnswerIsOwn'
  BY <1>2 DEF BeginJob, NoVerdict
<1>3. ASSUME NEW kind \in {"permanent", "transient"}, Return(kind, NoJob) PROVE AnswerIsOwn'
  BY <1>3 DEF Return
<1>4. CASE Answered
  <2>1. CASE ~Whole
    BY <1>3, <1>4, <2>1 DEF Answered
  <2>2. CASE Whole
    <3>1. line.job = job
      BY <1>0, <1>4, <2>2, Taken DEF Answered, LineArrives, Whole, Waiting, OfJob, TypeOK
    <3>2. Return(Classify(line), IF line.kind = "proof" THEN line.job ELSE NoJob)
      BY <1>4, <2>2 DEF Answered
    <3> QED BY <3>1, <3>2 DEF Return, Classify
  <2> QED BY <2>1, <2>2
<1>5. CASE Rejected \/ SendFails \/ OutputEnds \/ LeaseGone \/ ResponseTimesOut
  BY <1>3, <1>5 DEF Rejected, SendFails, OutputEnds, LeaseGone, ResponseTimesOut
<1> QED
  BY <1>1, <1>2, <1>4, <1>5
     DEF Next, Daemon, Worker, SetupSucceeds, SetupTimesOut, SetupFails, WriteEnd, ExitAfterTimeout,
         TakeRequest, ExecuteEnds, ProveEnds, Crash, Spawn, Started, StartFails, StartTimesOut,
         NotStarted, ReadPiece,
         WriteRequest, Heartbeat, StopDaemon, vars, workerVars

LEMMA DownStep == ASSUME SessionInv, [Next]_vars PROVE Down' /\ HasJob'
<1>0. Down /\ HasJob
  BY DEF SessionInv
<1>1. CASE Daemon
  BY <1>0, <1>1
     DEF Down, HasJob, Daemon, SetupSucceeds, SetupTimesOut, SetupFails, WriteEnd, ExitAfterTimeout,
         TakeRequest, ExecuteEnds, ProveEnds, Crash, WriteBegin, workerVars, Running
<1>2. CASE Worker
  BY <1>0, <1>2
     DEF Down, HasJob, Worker, Spawn, Started, StartFails, StartTimesOut,
         NotStarted, Kill, ReadPiece, BeginJob, Rejected,
         WriteRequest, SendFails, Heartbeat, Answered, OutputEnds, LeaseGone, ResponseTimesOut,
         StopDaemon, Return, daemonVars
<1>3. CASE UNCHANGED vars
  BY <1>0, <1>3 DEF Down, HasJob, vars, workerVars, daemonVars
<1> QED BY <1>1, <1>2, <1>3 DEF Next

(* When the end of a line arrives, it is all there is in both pipes. *)
LEMMA EndOfLine ==
  ASSUME TypeOK, OneLine, LineArrives
  PROVE  Tail(stdout) = <<>> /\ child \in AtRest
<1>1. Len(stdout) \in Nat \ {0} /\ stdout[1] = Head(stdout) /\ Len(Tail(stdout)) = Len(stdout) - 1
  BY Taken DEF TypeOK, LineArrives
<1>2. 1 \in 1..Len(stdout) /\ stdout[1].ends
  BY <1>1 DEF LineArrives
<1>3. 1 = Len(stdout) /\ child \in AtRest
  BY <1>2 DEF OneLine
<1>4. stdout \in Seq(Piece) /\ stdout # <<>>
  BY DEF TypeOK, LineArrives
<1>5. Tail(stdout) \in Seq(Piece)
  BY <1>4
<1>6. Len(Tail(stdout)) = 0
  <2>1. Len(Tail(stdout)) = Len(stdout) - 1
    BY <1>4, Taken
  <2>2. Len(stdout) - 1 = 0
    BY <1>3
  <2> QED BY <2>1, <2>2
<1>7. Tail(stdout) # <<>> => Len(Tail(stdout)) \in Nat \ {0}
  BY <1>5, EmptySeq
<1> QED BY <1>3, <1>6, <1>7

LEMMA RestingStep == ASSUME SessionInv, [Next]_vars PROVE Resting'
<1> USE DEF Resting, Quiet, AtRest
<1>0. TypeOK /\ Resting /\ Starting /\ Waiting
  BY DEF SessionInv
<1>1. CASE Daemon
  BY <1>0, <1>1
     DEF Daemon, SetupSucceeds, SetupTimesOut, SetupFails, WriteEnd, ExitAfterTimeout,
         TakeRequest, ExecuteEnds, ProveEnds, Crash, workerVars, Running
<1>2. CASE Started
  BY <1>0, <1>2, EndOfLine DEF Started, Starting
<1>3. CASE Answered
  <2>1. stdout' = <<>> /\ child' \in AtRest
    BY <1>0, <1>3, EndOfLine DEF Answered, Waiting
  <2>2. stdin' = <<>>
    BY <1>0, <1>3 DEF Answered, Waiting, LineArrives
  <2> QED BY <2>1, <2>2
<1>4. CASE \/ Spawn \/ StartFails \/ StartTimesOut \/ ReadPiece
           \/ WriteRequest \/ Heartbeat \/ StopDaemon
  BY <1>4
     DEF Spawn, StartFails, StartTimesOut, NotStarted, ReadPiece, WriteRequest, Heartbeat, StopDaemon
<1>5. CASE SendFails \/ OutputEnds \/ LeaseGone \/ ResponseTimesOut
  BY <1>5 DEF SendFails, OutputEnds, LeaseGone, ResponseTimesOut, Return
<1>6. CASE Rejected \/ \E j \in Jobs : BeginJob(j)
  BY <1>0, <1>6 DEF Rejected, BeginJob, daemonVars
<1>7. CASE UNCHANGED vars
  BY <1>0, <1>7 DEF vars, workerVars, daemonVars
<1> QED BY <1>1, <1>2, <1>3, <1>4, <1>5, <1>6, <1>7 DEF Next, Worker

(* A pipe without an end of a line, after a piece was added. *)
LEMMA OneLineBegun ==
  ASSUME TypeOK, OneLine, NEW msg, WriteBegin(msg), child \notin AtRest \/ stdout = <<>>
  PROVE  OneLine'
<1>1. \A i \in 1..Len(stdout) : ~stdout[i].ends
  BY DEF OneLine
<1>2. stdout' = Append(stdout, [ends |-> FALSE, msg |-> msg]) /\ stdout \in Seq(Piece)
  BY DEF WriteBegin, TypeOK
<1> QED BY <1>1, <1>2, Appended DEF OneLine

LEMMA OneLineEnded ==
  ASSUME TypeOK, OneLine, WriteEnd
  PROVE  OneLine'
<1>1. \A i \in 1..Len(stdout) : ~stdout[i].ends
  BY DEF OneLine, WriteEnd, AtRest
<1>2. stdout' = Append(stdout, [ends |-> TRUE, msg |-> out]) /\ stdout \in Seq(Piece)
  BY DEF WriteEnd, TypeOK
<1>3. child' \in AtRest
  BY DEF WriteEnd, AfterWrite, AtRest
<1> QED BY <1>1, <1>2, <1>3, Appended DEF OneLine

LEMMA OneLineRead ==
  ASSUME TypeOK, OneLine, ReadPiece
  PROVE  OneLine'
<1>1. stdout \in Seq(Piece) /\ stdout # <<>> /\ stdout' = Tail(stdout) /\ child' = child
  BY DEF ReadPiece, TypeOK
<1> QED BY <1>1, Taken DEF OneLine

LEMMA StartingStep == ASSUME SessionInv, [Next]_vars PROVE Starting'
<1> USE DEF Starting
<1>0. TypeOK /\ Starting
  BY DEF SessionInv
<1>1. SUFFICES ASSUME pc' = "starting" PROVE Starting'
  OBVIOUS
<1>2. CASE SetupSucceeds
  <2>1. pc = "starting" /\ OneLine /\ stdin' = <<>> /\ stdout = <<>> /\ child' = "writing"
    BY <1>0, <1>1, <1>2 DEF SetupSucceeds, WriteBegin, workerVars
  <2>2. OneLine'
    BY <1>0, <1>2, <2>1, OneLineBegun DEF SetupSucceeds
  <2> QED BY <2>1, <2>2
<1>3. CASE SetupTimesOut \/ SetupFails \/ ExitAfterTimeout \/ Crash
  <2>1. OneLine /\ child' \in AtRest /\ stdin' = <<>> /\ stdout' = stdout /\ child' # "setup"
    BY <1>0, <1>1, <1>3
       DEF SetupTimesOut, SetupFails, ExitAfterTimeout, Crash, workerVars, AtRest
  <2> QED BY <2>1 DEF OneLine, AtRest
<1>4. CASE WriteEnd
  <2>1. OneLine /\ stdin' = <<>> /\ child' \in {"serving", "leaving"}
    BY <1>0, <1>1, <1>4 DEF WriteEnd, AfterWrite, workerVars
  <2> QED BY <1>0, <1>4, <2>1, OneLineEnded
<1>5. CASE TakeRequest \/ ExecuteEnds \/ ProveEnds
  BY <1>0, <1>1, <1>5 DEF TakeRequest, ExecuteEnds, ProveEnds, workerVars
<1>6. CASE Spawn
  BY <1>6 DEF Spawn, OneLine
<1>7. CASE ReadPiece
  <2>1. OneLine /\ stdin' = <<>> /\ child' = child /\ stdout # <<>> /\ pc = "starting"
    BY <1>0, <1>1, <1>7 DEF ReadPiece
  <2> QED BY <1>0, <1>7, <2>1, OneLineRead
<1>8. CASE UNCHANGED vars
  BY <1>0, <1>8 DEF vars, workerVars, daemonVars, OneLine
<1> QED
  BY <1>1, <1>2, <1>3, <1>4, <1>5, <1>6, <1>7, <1>8
     DEF Next, Daemon, Worker, Started, StartFails, StartTimesOut, NotStarted, BeginJob, Rejected,
         WriteRequest, SendFails,
         Heartbeat, Answered, OutputEnds, LeaseGone, ResponseTimesOut, StopDaemon, Return

LEMMA WaitingBegun ==
  ASSUME TypeOK, OneLine, OfJob, stdin' = <<>>, job' = job, child \notin AtRest \/ stdout = <<>>,
         NEW msg, msg.job = job, WriteBegin(msg)
  PROVE  Waiting'
<1>1. OneLine'
  BY OneLineBegun
<1>2. child' = "writing" /\ out' = msg /\ stdout \in Seq(Piece)
        /\ stdout' = Append(stdout, [ends |-> FALSE, msg |-> msg])
  BY DEF WriteBegin, TypeOK
<1>3. OfJob'
  BY <1>2, Appended DEF OfJob
<1> QED BY <1>1, <1>2, <1>3 DEF Waiting

LEMMA WaitingStep == ASSUME SessionInv, [Next]_vars PROVE Waiting'
<1>0. TypeOK /\ Waiting /\ Resting /\ HasJob
  BY DEF SessionInv
<1>1. SUFFICES ASSUME pc' = "waiting" PROVE Waiting'
  BY DEF Waiting
<1>2. CASE SetupSucceeds
  BY <1>0, <1>1, <1>2 DEF SetupSucceeds, Waiting, workerVars
<1>3. CASE SetupTimesOut \/ SetupFails \/ ExitAfterTimeout \/ Crash
  <2>1. /\ OneLine /\ OfJob /\ child' \in {"exit75", "exited"}
        /\ stdin # <<>> => stdin = <<job>> /\ stdout = <<>>
        /\ UNCHANGED <<job, stdin, stdout>>
    BY <1>0, <1>1, <1>3
       DEF SetupTimesOut, SetupFails, ExitAfterTimeout, Crash, workerVars, Waiting
  <2> QED BY <2>1 DEF OneLine, OfJob, AtRest, Waiting
<1>4. CASE WriteEnd
  <2>1. /\ OneLine /\ OfJob /\ out.job = job /\ stdin' = <<>> /\ job' = job
        /\ child' \in {"serving", "leaving"}
    BY <1>0, <1>1, <1>4 DEF WriteEnd, AfterWrite, workerVars, Waiting
  <2>2. stdout' = Append(stdout, [ends |-> TRUE, msg |-> out]) /\ stdout \in Seq(Piece)
    BY <1>0, <1>4 DEF WriteEnd, TypeOK
  <2>3. OfJob'
    BY <2>1, <2>2, Appended DEF OfJob
  <2>4. OneLine'
    BY <1>0, <1>4, <2>1, OneLineEnded
  <2> QED BY <2>1, <2>3, <2>4 DEF Waiting
<1>5. CASE TakeRequest
  <2>1. /\ OneLine /\ OfJob /\ stdin = <<job>> /\ stdout = <<>> /\ job' = job
    BY <1>0, <1>1, <1>5 DEF TakeRequest, Waiting, workerVars
  <2>2. work' = job /\ stdin' = <<>> /\ Head(stdin) = job
    BY <1>5, <2>1 DEF TakeRequest
  <2>3. CASE child' = "executing" /\ UNCHANGED <<out, stdout, polluted>>
    BY <2>1, <2>2, <2>3 DEF Waiting, OneLine, OfJob
  <2>4. CASE WriteBegin(Answer("error", Head(stdin)))
    <3>1. Answer("error", Head(stdin)).job = job
      BY <2>2 DEF Answer
    <3> QED BY <1>0, <2>1, <2>2, <2>4, <3>1, WaitingBegun
  <2> QED BY <1>5, <2>3, <2>4 DEF TakeRequest
<1>6. CASE ExecuteEnds \/ ProveEnds
  <2>1. /\ OneLine /\ OfJob /\ work = job /\ stdin' = <<>> /\ stdout = <<>> /\ job' = job
        /\ work' = work
    BY <1>0, <1>1, <1>6 DEF ExecuteEnds, ProveEnds, Waiting, workerVars
  <2>2. CASE child' = "proving" /\ UNCHANGED <<out, stdout, polluted>>
    BY <2>1, <2>2 DEF Waiting, OneLine, OfJob
  <2>3. ASSUME NEW kind, WriteBegin(Answer(kind, work)) PROVE Waiting'
    <3>1. Answer(kind, work).job = job
      BY <2>1 DEF Answer
    <3> QED BY <1>0, <2>1, <2>3, <3>1, WaitingBegun
  <2> QED BY <1>6, <2>2, <2>3 DEF ExecuteEnds, ProveEnds
<1>7. CASE ReadPiece
  <2>1. /\ OneLine /\ OfJob /\ stdout \in Seq(Piece) /\ stdout # <<>> /\ stdout' = Tail(stdout)
        /\ UNCHANGED <<job, child, work, out, stdin>> /\ Waiting /\ pc = "waiting"
    BY <1>0, <1>1, <1>7 DEF ReadPiece, Waiting, TypeOK
  <2>2. OfJob'
    BY <2>1, Taken DEF OfJob
  <2>3. OneLine'
    BY <1>0, <1>7, <2>1, OneLineRead
  <2>4. stdin = <<>> /\ child \notin {"executing", "proving"}
    BY <2>1 DEF Waiting
  <2> QED BY <2>1, <2>2, <2>3, <2>4 DEF Waiting
<1>8. CASE WriteRequest
  <2>1. Quiet /\ job \in Jobs /\ stdin' = <<job>> /\ UNCHANGED <<job, child, work, out, stdout>>
    BY <1>0, <1>8 DEF WriteRequest, Request, Resting, Quiet, HasJob
  <2> QED BY <2>1 DEF Quiet, AtRest, Waiting, OneLine, OfJob
<1>9. CASE Heartbeat \/ UNCHANGED vars
  <2>1. UNCHANGED <<pc, job, daemonVars>>
    BY <1>9 DEF Heartbeat, vars, workerVars
  <2> QED BY <1>0, <2>1 DEF Waiting, OneLine, OfJob, daemonVars
<1> QED
  BY <1>1, <1>2, <1>3, <1>4, <1>5, <1>6, <1>7, <1>8, <1>9
     DEF Next, Daemon, Worker, Spawn, Started, StartFails, StartTimesOut, NotStarted, BeginJob,
         Rejected, SendFails, Answered,
         OutputEnds, LeaseGone, ResponseTimesOut, StopDaemon, Return

-----------------------------------------------------------------------------
LEMMA SessionInit == Init => SessionInv
<1> SUFFICES ASSUME Init PROVE SessionInv
  OBVIOUS
<1>1. TypeOK
  <2>1. polluted \in BOOLEAN /\ line \in Message /\ out \in Message
    BY MessageTypes DEF Init
  <2> QED BY <2>1 DEF Init, TypeOK, Verdict, NoVerdict
<1>2. Polluted /\ Stopping
  BY DEF Init, Polluted, Stopping
<1>3. Down /\ HasJob /\ Resting /\ Starting /\ Waiting /\ AnswerIsOwn
  BY DEF Init, NoVerdict, Down, HasJob, Resting, Starting, Waiting, AnswerIsOwn
<1> QED BY <1>1, <1>2, <1>3 DEF SessionInv

LEMMA SessionStep == SessionInv /\ [Next]_vars => SessionInv'
<1> SUFFICES ASSUME SessionInv, [Next]_vars PROVE SessionInv'
  OBVIOUS
<1>1. TypeOK'
  BY TypeStep DEF SessionInv
<1> QED
  BY <1>1, DownStep, RestingStep, StartingStep, WaitingStep, PollutedStep, StoppingStep, AnswerStep
     DEF SessionInv

LEMMA SessionAlways == Spec => []SessionInv
BY SessionInit, SessionStep, PTL DEF Spec

(* The worker's variables, the daemon's and the pipes between them keep    *)
(* their types through every interleaving, death and restart.              *)
THEOREM SessionTypeCorrect == Spec => []TypeOK
<1>1. SessionInv => TypeOK
  BY DEF SessionInv
<1> QED BY <1>1, SessionAlways, PTL

(* A worker that is ready for a job has no request and no piece of a line  *)
(* under way, whatever the last job's answer was and however it came: the  *)
(* daemon may be kept for the next job.                                    *)
THEOREM IdleInSync == Spec => []InSync
<1>1. SessionInv => InSync
  BY DEF SessionInv, InSync, Resting, Quiet, AtRest
<1> QED BY <1>1, SessionAlways, PTL

(* The proof a worker takes for a job's was computed for this very job,    *)
(* although it compares only what two jobs may have in common.             *)
THEOREM ProofIsOwn == Spec => []AnswerIsOwn
<1>1. SessionInv => AnswerIsOwn
  BY DEF SessionInv
<1> QED BY <1>1, SessionAlways, PTL

(* A request sent to a process that has dropped a CUDA future (its worker  *)
(* could not read the line that said so) is never taken and never answered:*)
(* it ends with a transient failure and goes with the pipe.                *)
THEOREM NothingAfterTimeout == Spec => TimeoutIsLast
<1>1. ASSUME SessionInv, [Next]_vars PROVE [TimeoutIsLastStep]_vars
  <2> SUFFICES ASSUME Next, polluted, stdin # <<>>
               PROVE  (stdin' # stdin => pc = "stopping") /\ (pc' # pc => verdict'.kind = "transient")
    BY <1>1 DEF TimeoutIsLastStep
  <2>1. /\ child \notin {"serving", "none"}
        /\ pc \in {"waiting", "stopping"}
        /\ pc = "waiting" => stdout = <<>>
        /\ pc = "stopping" => verdict.kind = "transient"
    <3>1. /\ Polluted /\ Resting /\ Starting /\ Down /\ Waiting /\ Stopping
          /\ pc \in {"down", "starting", "idle", "sending", "waiting", "stopping"}
      BY <1>1 DEF SessionInv, TypeOK
    <3> QED BY <3>1 DEF Polluted, Resting, Quiet, Starting, Down, Waiting, Stopping
  <2>2. CASE Daemon
    BY <2>1, <2>2
       DEF Daemon, SetupSucceeds, SetupTimesOut, SetupFails, WriteEnd, ExitAfterTimeout, TakeRequest,
           ExecuteEnds, ProveEnds, Crash, workerVars
  <2>3. CASE Answered \/ Heartbeat \/ ReadPiece
    BY <2>1, <2>3 DEF Answered, LineArrives, Heartbeat, ReadPiece, daemonVars
  <2>4. CASE OutputEnds \/ LeaseGone \/ ResponseTimesOut
    <3>1. Return("transient", NoJob) /\ stdin' = stdin
      BY <2>4 DEF OutputEnds, LeaseGone, ResponseTimesOut, daemonVars
    <3>2. verdict'.kind = "transient"
      BY <3>1 DEF Return
    <3> QED BY <3>1, <3>2
  <2>5. CASE StopDaemon
    BY <2>1, <2>5 DEF StopDaemon
  <2> QED
    BY <2>1, <2>2, <2>3, <2>4, <2>5
       DEF Next, Worker, Spawn, Started, StartFails, StartTimesOut, NotStarted, BeginJob, Rejected,
           WriteRequest, SendFails
<1> QED BY <1>1, SessionAlways, PTL DEF Spec, TimeoutIsLast

-----------------------------------------------------------------------------
(***************************************************************************)
(* DaemonSession implements ProverService.  The line under way says what   *)
(* came of a request as long as it can be told where that line is: in the  *)
(* daemon's hand until its end is written, and the last one in the pipe.   *)
(***************************************************************************)
Final == {"proof", "error", "timeout"}

(* A daemon that neither writes nor was killed while it wrote holds no line. *)
InHand == child \notin {"writing", "exited"} => out = Nothing

(* The last piece in the pipe is an end just if the line is through. *)
InPipe == stdout # <<>> => (stdout[Len(stdout)].ends <=> out = Nothing)

Settled == pc \in {"idle", "sending"} => out = Nothing

(* The lines between a request and its answer are answers. *)
Answering ==
  pc = "waiting" =>
    /\ out # Nothing => out.kind \in Final
    /\ child = "writing" => out # Nothing
    /\ \A i \in 1..Len(stdout) : stdout[i].msg.kind \in Final

ServiceInv == SessionInv /\ InHand /\ InPipe /\ Settled /\ Answering

LEMMA Begun ==
  ASSUME TypeOK, NEW msg, msg.kind # "nothing", WriteBegin(msg)
  PROVE  /\ out' # Nothing /\ InHand' /\ InPipe'
         /\ stdout' # <<>> /\ stdout'[Len(stdout')].msg = msg
         /\ out' = msg /\ child' = "writing"
<1>1. stdout' = Append(stdout, [ends |-> FALSE, msg |-> msg]) /\ stdout \in Seq(Piece)
  BY DEF WriteBegin, TypeOK
<1>2. Len(stdout) \in Nat /\ Len(stdout') = Len(stdout) + 1
        /\ stdout'[Len(stdout')] = [ends |-> FALSE, msg |-> msg]
  BY <1>1, Appended
<1>3. stdout' # <<>>
  BY <1>1
<1>4. out' = msg /\ out' # Nothing /\ child' = "writing"
  BY DEF WriteBegin, Nothing
<1> QED BY <1>2, <1>3, <1>4 DEF InHand, InPipe

LEMMA Ended ==
  ASSUME TypeOK, WriteEnd
  PROVE  /\ InHand' /\ InPipe'
         /\ stdout' # <<>> /\ stdout'[Len(stdout')].msg = out
<1>1. stdout' = Append(stdout, [ends |-> TRUE, msg |-> out]) /\ stdout \in Seq(Piece)
  BY DEF WriteEnd, TypeOK
<1>2. Len(stdout) \in Nat /\ Len(stdout') = Len(stdout) + 1
        /\ stdout'[Len(stdout')] = [ends |-> TRUE, msg |-> out]
  BY <1>1, Appended
<1>3. stdout' # <<>> /\ out' = Nothing
  BY <1>1 DEF WriteEnd
<1> QED BY <1>2, <1>3 DEF InHand, InPipe

(* Taking a piece out of the pipe leaves its last one, unless it was that. *)
LEMMA LastStays ==
  ASSUME NEW s \in Seq(Piece), s # <<>>, Tail(s) # <<>>
  PROVE  Tail(s)[Len(Tail(s))] = s[Len(s)]
OBVIOUS

LEMMA OnlyPiece ==
  ASSUME NEW s \in Seq(Piece), s # <<>>, Tail(s) = <<>>
  PROVE  s[Len(s)] = Head(s)
<1>1. Len(s) \in Nat \ {0} /\ Len(Tail(s)) = Len(s) - 1 /\ Head(s) = s[1]
  BY Taken
<1>2. Len(s) = 1
  BY <1>1
<1> QED BY <1>1, <1>2

LEMMA HandStep == ASSUME ServiceInv, [Next]_vars PROVE InHand'
<1>0. TypeOK /\ InHand
  BY DEF ServiceInv, SessionInv
<1>1. CASE SetupSucceeds
  BY <1>0, <1>1, Begun DEF SetupSucceeds, Identity
<1>2. CASE TakeRequest \/ ExecuteEnds \/ ProveEnds
  BY <1>0, <1>2, Begun DEF TakeRequest, ExecuteEnds, ProveEnds, Answer, InHand
<1>3. CASE WriteEnd
  BY <1>0, <1>3, Ended
<1>4. CASE SetupTimesOut \/ SetupFails \/ ExitAfterTimeout \/ Crash
  BY <1>0, <1>4 DEF SetupTimesOut, SetupFails, ExitAfterTimeout, Crash, InHand
<1>5. CASE Spawn \/ StartFails \/ StartTimesOut \/ StopDaemon
  BY <1>5 DEF Spawn, StartFails, StartTimesOut, NotStarted, StopDaemon, Kill, InHand
<1>6. CASE UNCHANGED <<child, out>>
  BY <1>0, <1>6 DEF InHand
<1> QED
  BY <1>1, <1>2, <1>3, <1>4, <1>5, <1>6
     DEF Next, Daemon, Worker, Started, ReadPiece, BeginJob, Rejected, WriteRequest, SendFails,
         Heartbeat, Answered, OutputEnds, LeaseGone, ResponseTimesOut, vars, daemonVars

LEMMA PipeStep == ASSUME ServiceInv, [Next]_vars PROVE InPipe'
<1>0. TypeOK /\ InPipe
  BY DEF ServiceInv, SessionInv
<1>1. CASE SetupSucceeds
  BY <1>0, <1>1, Begun DEF SetupSucceeds, Identity
<1>2. CASE TakeRequest \/ ExecuteEnds \/ ProveEnds
  BY <1>0, <1>2, Begun DEF TakeRequest, ExecuteEnds, ProveEnds, Answer, InPipe
<1>3. CASE WriteEnd
  BY <1>0, <1>3, Ended
<1>4. CASE Spawn \/ StartFails \/ StartTimesOut \/ StopDaemon
  BY <1>4 DEF Spawn, StartFails, StartTimesOut, NotStarted, StopDaemon, Kill, InPipe
<1>5. CASE Started \/ ReadPiece \/ Answered
  <2>1. stdout # <<>> /\ stdout' = Tail(stdout) /\ out' = out /\ stdout \in Seq(Piece)
    BY <1>0, <1>5 DEF Started, ReadPiece, Answered, LineArrives, TypeOK
  <2> QED BY <1>0, <2>1, LastStays DEF InPipe
<1>6. CASE UNCHANGED <<out, stdout>>
  BY <1>0, <1>6 DEF InPipe
<1> QED
  BY <1>1, <1>2, <1>3, <1>4, <1>5, <1>6
     DEF Next, Daemon, Worker, SetupTimesOut, SetupFails, ExitAfterTimeout, Crash, BeginJob,
         Rejected, WriteRequest, SendFails, Heartbeat, OutputEnds, LeaseGone, ResponseTimesOut,
         vars, daemonVars

(* When the end of a line arrives, the daemon has nothing in hand. *)
LEMMA EndInHand ==
  ASSUME TypeOK, OneLine, InPipe, LineArrives
  PROVE  out = Nothing /\ stdout[Len(stdout)] = Head(stdout)
<1>1. stdout \in Seq(Piece) /\ stdout # <<>> /\ Head(stdout).ends
  BY DEF TypeOK, LineArrives
<1>2. stdout[Len(stdout)] = Head(stdout)
  BY <1>1, EndOfLine, OnlyPiece
<1> QED BY <1>1, <1>2 DEF InPipe

LEMMA SettledStep == ASSUME ServiceInv, [Next]_vars PROVE Settled'
<1> USE DEF Settled
<1>0. TypeOK /\ Settled /\ InPipe /\ Resting /\ Starting /\ Waiting
  BY DEF ServiceInv, SessionInv
<1>1. CASE Daemon
  BY <1>0, <1>1
     DEF Daemon, SetupSucceeds, SetupTimesOut, SetupFails, WriteEnd, ExitAfterTimeout, TakeRequest,
         ExecuteEnds, ProveEnds, Crash, workerVars, Resting, Quiet, AtRest
<1>2. CASE Started
  BY <1>0, <1>2, EndInHand DEF Started, Starting
<1>3. CASE Answered
  BY <1>0, <1>3, EndInHand DEF Answered, Waiting
<1>4. CASE \/ Spawn \/ StartFails \/ StartTimesOut \/ ReadPiece
           \/ WriteRequest \/ Heartbeat \/ StopDaemon
  BY <1>4
     DEF Spawn, StartFails, StartTimesOut, NotStarted, ReadPiece, WriteRequest, Heartbeat, StopDaemon
<1>5. CASE SendFails \/ OutputEnds \/ LeaseGone \/ ResponseTimesOut
  BY <1>5 DEF SendFails, OutputEnds, LeaseGone, ResponseTimesOut, Return
<1>6. CASE Rejected \/ \E j \in Jobs : BeginJob(j)
  BY <1>0, <1>6 DEF Rejected, BeginJob, daemonVars
<1>7. CASE UNCHANGED vars
  BY <1>0, <1>7 DEF vars, workerVars, daemonVars
<1> QED BY <1>1, <1>2, <1>3, <1>4, <1>5, <1>6, <1>7 DEF Next, Worker

LEMMA AnsweringStep == ASSUME ServiceInv, [Next]_vars PROVE Answering'
<1>0. TypeOK /\ Answering /\ Waiting /\ Resting /\ Settled
  BY DEF ServiceInv, SessionInv
<1> DEFINE Finals(s) == \A i \in 1..Len(s) : s[i].msg.kind \in Final
<1>1. SUFFICES ASSUME pc' = "waiting" PROVE Answering'
  BY DEF Answering
<1>2. ASSUME NEW kind \in Final, NEW j, WriteBegin(Answer(kind, j)), Finals(stdout) PROVE Answering'
  <2> DEFINE msg == Answer(kind, j)
  <2>1. msg.kind \in Final /\ msg.kind # "nothing"
    BY DEF Final, Answer
  <2> HIDE DEF msg
  <2>2. stdout' = Append(stdout, [ends |-> FALSE, msg |-> msg]) /\ stdout \in Seq(Piece)
    BY <1>0, <1>2 DEF WriteBegin, TypeOK, msg
  <2>3. Finals(stdout')
    BY <1>2, <2>1, <2>2, Appended
  <2>4. out' = msg /\ out' # Nothing
    BY <1>0, <1>2, <2>1, Begun DEF msg
  <2> QED BY <2>1, <2>3, <2>4 DEF Answering
<1>3. CASE SetupSucceeds
  BY <1>0, <1>1, <1>3 DEF SetupSucceeds, Waiting, workerVars
<1>4. CASE TakeRequest \/ ExecuteEnds \/ ProveEnds
  <2>1. Finals(stdout) /\ pc = "waiting" /\ (out # Nothing => out.kind \in Final)
    BY <1>0, <1>1, <1>4 DEF TakeRequest, ExecuteEnds, ProveEnds, Answering, workerVars
  <2>2. CASE child' # "writing" /\ UNCHANGED <<out, stdout>>
    BY <2>1, <2>2 DEF Answering
  <2> QED BY <1>2, <1>4, <2>1, <2>2 DEF TakeRequest, ExecuteEnds, ProveEnds, Final
<1>5. CASE WriteEnd
  <2>1. out.kind \in Final /\ Finals(stdout) /\ stdout \in Seq(Piece)
    BY <1>0, <1>1, <1>5 DEF WriteEnd, Answering, workerVars, TypeOK
  <2>2. stdout' = Append(stdout, [ends |-> TRUE, msg |-> out])
    BY <1>5 DEF WriteEnd
  <2>3. Finals(stdout')
    BY <2>1, <2>2, Appended
  <2>4. child' # "writing" /\ out' = Nothing
    BY <1>5 DEF WriteEnd, AfterWrite
  <2> QED BY <2>3, <2>4 DEF Answering
<1>6. CASE SetupTimesOut \/ SetupFails \/ ExitAfterTimeout \/ Crash
  BY <1>0, <1>1, <1>6
     DEF SetupTimesOut, SetupFails, ExitAfterTimeout, Crash, Answering, workerVars
<1>7. CASE ReadPiece
  <2>1. /\ stdout # <<>> /\ stdout' = Tail(stdout) /\ UNCHANGED <<child, out>> /\ stdout \in Seq(Piece)
        /\ Finals(stdout) /\ Answering /\ pc = "waiting"
    BY <1>0, <1>1, <1>7 DEF ReadPiece, TypeOK, Answering
  <2>2. Finals(stdout')
    BY <2>1, Taken
  <2> QED BY <2>1, <2>2 DEF Answering
<1>8. CASE WriteRequest
  <2>1. stdout' = <<>> /\ out' = Nothing /\ child' # "writing"
    BY <1>0, <1>8 DEF WriteRequest, Resting, Quiet, AtRest, Settled
  <2> QED BY <2>1 DEF Answering
<1>9. CASE UNCHANGED <<pc, child, out, stdout>>
  BY <1>0, <1>9 DEF Answering
<1> QED
  BY <1>1, <1>3, <1>4, <1>5, <1>6, <1>7, <1>8, <1>9
     DEF Next, Daemon, Worker, Spawn, Started, StartFails, StartTimesOut, NotStarted, BeginJob,
         Rejected, SendFails, Heartbeat,
         Answered, OutputEnds, LeaseGone, ResponseTimesOut, StopDaemon, Return, vars, workerVars,
         daemonVars

LEMMA ServiceInvInit == Init => ServiceInv
BY SessionInit
   DEF Init, ServiceInv, InHand, InPipe, Settled, Answering

LEMMA ServiceInvStep == ServiceInv /\ [Next]_vars => ServiceInv'
<1> SUFFICES ASSUME ServiceInv, [Next]_vars PROVE ServiceInv'
  OBVIOUS
<1>1. SessionInv'
  BY SessionStep DEF ServiceInv
<1> QED BY <1>1, HandStep, PipeStep, SettledStep, AnsweringStep DEF ServiceInv

(* What a request that was taken came to is the kind of the pending line. *)
Come(kind) ==
  CASE kind = "proof"   -> "proved"
    [] kind = "error"   -> "refused"
    [] kind = "timeout" -> "timed_out"
    [] OTHER            -> "computing"

LEMMA RequestTaken == pc = "waiting" /\ stdin = <<>> => RequestSoFar = Come(Pending.kind)
BY DEF RequestSoFar, Come

LEMMA RequestNone == pc # "waiting" => RequestSoFar = "none"
BY DEF RequestSoFar

LEMMA RequestQueued == pc = "waiting" /\ stdin # <<>> => RequestSoFar = "queued"
BY DEF RequestSoFar

LEMMA Stutters ==
  ASSUME UNCHANGED <<pc, job, verdict>>, RequestSoFar' = RequestSoFar, Healthy' = Healthy
  PROVE  UNCHANGED Service!serviceVars
BY DEF ServicePhase, Service!serviceVars

LEMMA Dies ==
  ASSUME UNCHANGED <<pc, job, verdict>>, RequestSoFar' = RequestSoFar, Healthy' = FALSE
  PROVE  [Service!Next]_(Service!serviceVars)
<1>1. CASE Healthy
  BY <1>1 DEF ServicePhase, Service!Next, Service!Die
<1>2. CASE ~Healthy
  <2>1. Healthy' = Healthy
    BY <1>2 DEF Healthy
  <2> QED BY <2>1, Stutters
<1> QED BY <1>1, <1>2

(* The steps of the daemon while the worker waits for an answer. *)
LEMMA ComputingStep ==
  ASSUME ServiceInv, pc = "waiting", UNCHANGED workerVars,
         TakeRequest \/ ExecuteEnds \/ ProveEnds
  PROVE  [Service!Next]_(Service!serviceVars)
<1>0. /\ TypeOK /\ InHand /\ Waiting /\ UNCHANGED <<pc, job, verdict>>
      /\ UNCHANGED ServicePhase
  BY DEF ServiceInv, SessionInv, workerVars, ServicePhase
<1>1. Healthy /\ out = Nothing /\ stdout = <<>>
  BY <1>0 DEF TakeRequest, ExecuteEnds, ProveEnds, Healthy, InHand, Waiting
<1>2. stdin' = <<>>
  BY <1>0 DEF TakeRequest, ExecuteEnds, ProveEnds, Waiting
<1>3. RequestSoFar' = Come(Pending'.kind)
  BY <1>0, <1>2 DEF RequestSoFar, Come
<1>4. ASSUME NEW kind \in Final, NEW j, WriteBegin(Answer(kind, j))
      PROVE  RequestSoFar' = Come(kind) /\ Healthy' = (kind # "timeout")
  <2>1. out' # Nothing /\ out' = Answer(kind, j) /\ child' = "writing"
    BY <1>0, <1>4, Begun DEF Final, Answer
  <2>2. Pending'.kind = kind
    BY <2>1 DEF Pending, Answer
  <2>3. Healthy' = (kind # "timeout")
    BY <1>0, <2>1 DEF Healthy, Answer
  <2> QED BY <1>3, <2>2, <2>3
<1>5. CASE TakeRequest
  <2>1. RequestSoFar = "queued"
    BY <1>5 DEF RequestSoFar, TakeRequest
  <2>2. CASE child' = "executing" /\ UNCHANGED <<out, stdout, polluted>>
    <3>1. Pending'.kind = "nothing"
      BY <1>1, <2>2 DEF Pending, Nothing
    <3>2. RequestSoFar' = "computing" /\ Healthy' = TRUE
      BY <1>0, <1>3, <2>2, <3>1 DEF Come, Healthy
    <3> QED BY <1>0, <1>1, <2>1, <3>2 DEF Service!Next, Service!Take, Healthy
  <2>3. CASE WriteBegin(Answer("error", Head(stdin)))
    <3>1. RequestSoFar' = "refused" /\ Healthy' = TRUE
      BY <1>4, <2>3 DEF Final, Come
    <3> QED BY <1>0, <1>1, <2>1, <3>1 DEF Service!Next, Service!Take, Healthy
  <2> QED BY <1>5, <2>2, <2>3 DEF TakeRequest
<1>6. CASE ExecuteEnds \/ ProveEnds
  <2>1. RequestSoFar = "computing"
    <3>1. stdin = <<>> /\ Pending.kind = "nothing"
      BY <1>0, <1>1, <1>6 DEF Waiting, ExecuteEnds, ProveEnds, Pending, Nothing
    <3> QED BY <3>1, RequestTaken DEF Come
  <2>2. CASE child' = "proving" /\ UNCHANGED <<out, stdout, polluted>>
    <3>1. Pending'.kind = "nothing"
      BY <1>1, <2>2 DEF Pending, Nothing
    <3>2. RequestSoFar' = RequestSoFar /\ Healthy' = Healthy
      BY <1>0, <1>1, <1>3, <2>1, <2>2, <3>1 DEF Come, Healthy
    <3> QED BY <1>0, <3>2, Stutters
  <2>3. ASSUME NEW kind \in Final, WriteBegin(Answer(kind, work))
        PROVE  [Service!Next]_(Service!serviceVars)
    <3>1. RequestSoFar' = Come(kind) /\ Healthy' = (kind # "timeout")
      BY <1>4, <2>3
    <3>2. /\ RequestSoFar' \in {"proved", "refused", "timed_out"}
          /\ Healthy' = (RequestSoFar' # "timed_out")
      BY <3>1 DEF Final, Come
    <3> QED BY <1>0, <1>1, <2>1, <3>2 DEF Service!Next, Service!Finish
  <2> QED BY <1>6, <2>2, <2>3 DEF ExecuteEnds, ProveEnds, Final
<1> QED BY <1>5, <1>6

LEMMA DaemonRefines ==
  ASSUME ServiceInv, Daemon
  PROVE  [Service!Next]_(Service!serviceVars)
<1>0. /\ TypeOK /\ InHand /\ InPipe /\ Resting /\ Waiting
      /\ UNCHANGED workerVars /\ UNCHANGED <<pc, job, verdict>>
  BY DEF ServiceInv, SessionInv, Daemon, SetupSucceeds, SetupTimesOut, SetupFails, WriteEnd,
         ExitAfterTimeout, TakeRequest, ExecuteEnds, ProveEnds, Crash, workerVars
<1>1. CASE pc \notin {"idle", "sending", "waiting"}
  <2>1. RequestSoFar' = RequestSoFar
    BY <1>0, <1>1 DEF RequestSoFar
  <2>2. Healthy' = Healthy
    BY <1>0, <1>1 DEF Healthy
  <2> QED BY <1>0, <2>1, <2>2, Stutters
<1>2. CASE SetupTimesOut \/ SetupFails \/ ExitAfterTimeout \/ Crash
  <2>1. RequestSoFar' = RequestSoFar
    BY <1>0, <1>2 DEF SetupTimesOut, SetupFails, ExitAfterTimeout, Crash, RequestSoFar, Pending
  <2>2. Healthy' = FALSE
    BY <1>2 DEF SetupTimesOut, SetupFails, ExitAfterTimeout, Crash, Healthy
  <2> QED BY <1>0, <2>1, <2>2, Dies
<1>3. CASE SetupSucceeds /\ pc \in {"idle", "sending", "waiting"}
  BY <1>0, <1>3 DEF SetupSucceeds, Resting, Quiet, AtRest, Waiting
<1>4. CASE WriteEnd /\ pc \in {"idle", "sending", "waiting"}
  <2>1. pc = "waiting" /\ out # Nothing /\ stdin = <<>> /\ stdin' = <<>>
    BY <1>0, <1>4 DEF WriteEnd, Resting, Quiet, AtRest, ServiceInv, Waiting, Answering
  <2>2. Pending'.kind = Pending.kind
    <3>1. out' = Nothing /\ stdout' # <<>> /\ stdout'[Len(stdout')].msg = out
      BY <1>0, <1>4, Ended DEF WriteEnd
    <3> QED BY <2>1, <3>1 DEF Pending
  <2>3. RequestSoFar' = RequestSoFar
    BY <1>0, <2>1, <2>2 DEF RequestSoFar
  <2>4. Healthy' = Healthy
    BY <1>0, <1>4 DEF WriteEnd, AfterWrite, Healthy
  <2> QED BY <1>0, <2>3, <2>4, Stutters
<1>5. CASE (TakeRequest \/ ExecuteEnds \/ ProveEnds) /\ pc \in {"idle", "sending", "waiting"}
  <2>1. pc = "waiting"
    BY <1>0, <1>5 DEF TakeRequest, ExecuteEnds, ProveEnds, Resting, Quiet, AtRest
  <2> QED BY <1>0, <1>5, <2>1, ComputingStep
<1> QED BY <1>1, <1>2, <1>3, <1>4, <1>5 DEF Daemon

(* prove_claim returns. *)
LEMMA Returns ==
  ASSUME NEW kind, NEW proof, pc \in {"sending", "waiting"}, Return(kind, proof)
  PROVE  /\ ServicePhase = "busy" /\ job' = NoJob /\ RequestSoFar' = "none"
         /\ verdict' = Service!Said(kind, job, proof)
         /\ ServicePhase' = (IF kind = "transient" THEN "spoiled" ELSE "ready")
BY DEF Return, ServicePhase, RequestSoFar, Service!Said

LEMMA GivesUp ==
  ASSUME pc \in {"sending", "waiting"}, Return("transient", NoJob)
  PROVE  Service!Next
<1>1. Healthy' = FALSE
  BY DEF Return, Healthy
<1> QED BY <1>1, Returns DEF Service!Next, Service!GiveUp, Service!Settle

LEMMA AnsweredRefines ==
  ASSUME ServiceInv, Answered
  PROVE  Service!Next
<1>0. /\ TypeOK /\ InHand /\ InPipe /\ Waiting /\ Answering
      /\ pc = "waiting" /\ LineArrives /\ OneLine /\ OfJob
  BY DEF ServiceInv, SessionInv, Answered, Waiting
<1> DEFINE last == Head(stdout).msg
<1>1. out = Nothing /\ stdin = <<>> /\ stdout # <<>> /\ stdout[Len(stdout)] = Head(stdout)
  BY <1>0, EndInHand DEF Waiting, LineArrives
<1>2. last.job = job /\ last.kind \in Final
  <2>1. Head(stdout) = stdout[1] /\ 1 \in 1..Len(stdout)
    BY <1>0, <1>1, Taken DEF TypeOK
  <2> QED BY <1>0, <2>1 DEF OfJob, Answering
<1>3. RequestSoFar = Come(last.kind)
  BY <1>0, <1>1, RequestTaken DEF Pending
<1> HIDE DEF last
<1>4. child \in AtRest /\ child' = child
  BY <1>0, EndOfLine DEF Answered
<1>5. pc' = "idle" => Healthy' = Healthy
  BY <1>0, <1>4 DEF Healthy, AtRest
<1>6. ASSUME Return("permanent", NoJob) PROVE Service!Reject
  <2>1. Healthy' = Healthy
    BY <1>5, <1>6 DEF Return
  <2>2. RequestSoFar \notin {"queued", "computing"}
    BY <1>2, <1>3 DEF Final, Come
  <2> QED BY <1>0, <1>6, <2>1, <2>2, Returns DEF Service!Reject, Service!Settle
<1>7. CASE ~Whole
  BY <1>6, <1>7 DEF Answered, Service!Next
<1>8. CASE Whole
  <2>1. line = last
    BY <1>8 DEF Whole, last
  <2>2. Return(Classify(line), IF line.kind = "proof" THEN line.job ELSE NoJob)
    BY <1>8 DEF Answered
  <2>3. CASE last.kind = "proof"
    <3>1. Return("proof", job)
      BY <1>2, <2>1, <2>2, <2>3 DEF Classify
    <3>2. Healthy' = Healthy
      BY <1>5, <3>1 DEF Return
    <3>3. RequestSoFar = "proved"
      BY <1>3, <2>3 DEF Come
    <3> QED BY <1>0, <3>1, <3>2, <3>3, Returns DEF Service!Next, Service!Deliver, Service!Settle
  <2>4. CASE last.kind = "error"
    <3>1. Return("permanent", NoJob)
      BY <2>1, <2>2, <2>4 DEF Classify
    <3> QED BY <1>6, <3>1 DEF Service!Next
  <2>5. CASE last.kind = "timeout"
    <3>1. Return("transient", NoJob)
      BY <2>1, <2>2, <2>5 DEF Classify
    <3> QED BY <1>0, <3>1, GivesUp
  <2> QED BY <1>2, <2>3, <2>4, <2>5 DEF Final
<1> QED BY <1>7, <1>8

LEMMA WorkerRefines ==
  ASSUME ServiceInv, Worker
  PROVE  [Service!Next]_(Service!serviceVars)
<1>0. TypeOK /\ InPipe /\ Resting /\ Starting /\ Waiting
  BY DEF ServiceInv, SessionInv
<1>1. CASE Spawn \/ StartFails \/ StartTimesOut
  <2>1. UNCHANGED <<ServicePhase, job, RequestSoFar, Healthy, verdict>>
    BY <1>1 DEF Spawn, StartFails, StartTimesOut, NotStarted, ServicePhase, RequestSoFar, Healthy
  <2> QED BY <2>1 DEF Service!serviceVars
<1>2. CASE Started
  <2>1. /\ ServicePhase = "away" /\ ServicePhase' = "ready" /\ UNCHANGED <<job, verdict, RequestSoFar>>
        /\ Healthy' \in BOOLEAN
    BY <1>2 DEF Started, ServicePhase, RequestSoFar, Healthy
  <2> QED BY <2>1 DEF Service!Next, Service!Appear
<1>3. CASE ReadPiece
  <2>1. UNCHANGED <<pc, job, verdict, child, out, stdin>> /\ stdout' = Tail(stdout)
          /\ stdout # <<>> /\ ~Head(stdout).ends /\ stdout \in Seq(Piece)
    BY <1>0, <1>3 DEF ReadPiece, TypeOK
  <2>2. Pending' = Pending
    <3>1. CASE out # Nothing
      BY <2>1, <3>1 DEF Pending
    <3>2. CASE out = Nothing /\ stdout' # <<>>
      BY <2>1, <3>2, LastStays DEF Pending
    <3>3. CASE out = Nothing /\ stdout' = <<>>
      BY <1>0, <2>1, <3>3, OnlyPiece DEF InPipe
    <3> QED BY <3>1, <3>2, <3>3
  <2>3. RequestSoFar' = RequestSoFar /\ Healthy' = Healthy
    BY <2>1, <2>2 DEF RequestSoFar, Healthy
  <2> QED BY <2>1, <2>3, Stutters
<1>4. ASSUME NEW j \in Jobs, BeginJob(j) PROVE Service!Next
  <2>1. /\ ServicePhase = "ready" /\ ServicePhase' = "busy" /\ job' = j
        /\ verdict' = Service!Said("none", NoJob, NoJob)
        /\ UNCHANGED <<RequestSoFar, Healthy>>
    BY <1>4 DEF BeginJob, NoVerdict, ServicePhase, RequestSoFar, Healthy, daemonVars, Service!Said
  <2> QED BY <2>1 DEF Service!Next, Service!Ask
<1>5. CASE Rejected
  <2>1. pc = "sending" /\ Return("permanent", NoJob) /\ RequestSoFar = "none"
    BY <1>5 DEF Rejected, RequestSoFar
  <2>2. Healthy' = Healthy
    BY <1>5 DEF Rejected, Return, Healthy, daemonVars
  <2> QED BY <2>1, <2>2, Returns DEF Service!Next, Service!Reject, Service!Settle
<1>6. CASE WriteRequest
  <2>1. ServicePhase = "busy" /\ ServicePhase' = "busy" /\ RequestSoFar = "none"
          /\ UNCHANGED <<job, verdict, Healthy>>
    BY <1>6 DEF WriteRequest, ServicePhase, RequestSoFar, Healthy
  <2>2. RequestSoFar' = "queued"
    <3>1. pc' = "waiting" /\ stdin' # <<>>
      BY <1>0, <1>6 DEF WriteRequest, Request, Resting, Quiet
    <3> QED BY <3>1 DEF RequestSoFar
  <2> QED BY <2>1, <2>2 DEF Service!Next, Service!Submit
<1>7. CASE Heartbeat
  <2>1. UNCHANGED <<pc, job, verdict, RequestSoFar, Healthy>>
    BY <1>7 DEF Heartbeat, RequestSoFar, Pending, Healthy, daemonVars
  <2> QED BY <2>1, Stutters
<1>8. CASE SendFails \/ OutputEnds \/ LeaseGone \/ ResponseTimesOut
  BY <1>8, GivesUp DEF SendFails, OutputEnds, LeaseGone, ResponseTimesOut
<1>9. CASE StopDaemon
  <2>1. ServicePhase = "spoiled" /\ ServicePhase' = "away"
          /\ UNCHANGED <<job, verdict, RequestSoFar, Healthy>>
    BY <1>9 DEF StopDaemon, ServicePhase, RequestSoFar, Healthy
  <2> QED BY <2>1 DEF Service!Next, Service!Discard
<1> QED
  BY <1>1, <1>2, <1>3, <1>4, <1>5, <1>6, <1>7, <1>8, <1>9, AnsweredRefines DEF Worker

(* DaemonSession implements ProverService (ImplementsService): whatever    *)
(* pieces lines arrive in, whichever side dies, hangs or gives up and when,*)
(* a request is worked on at most once, by a daemon that has no timeout    *)
(* behind it; only a proof worked out for this very request answers it; a  *)
(* daemon is kept only when it is through with its last request.           *)
THEOREM ServiceImplemented == Spec => ImplementsService
<1>1. Init => Service!Init
  BY DEF Init, NoVerdict, ServicePhase, RequestSoFar, Healthy, Service!Init, Service!Said
<1>2. ASSUME ServiceInv, [Next]_vars PROVE [Service!Next]_(Service!serviceVars)
  <2>1. CASE UNCHANGED vars
    <3>1. UNCHANGED <<pc, job, verdict>> /\ RequestSoFar' = RequestSoFar /\ Healthy' = Healthy
      BY <2>1 DEF vars, workerVars, daemonVars, RequestSoFar, Pending, Healthy
    <3> QED BY <3>1, Stutters
  <2> QED BY <1>2, <2>1, DaemonRefines, WorkerRefines DEF Next
<1>3. ServiceInv /\ [Next]_vars => [Service!Next]_(Service!serviceVars)
  BY <1>2
<1> QED BY <1>1, <1>3, ServiceInvInit, ServiceInvStep, PTL DEF Spec, ImplementsService, Service!Spec
=============================================================================
