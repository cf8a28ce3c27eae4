--------------------------- MODULE ProverService ----------------------------
(***************************************************************************)
(* What a worker's loop has of its daemon, with no pipes, pieces of lines  *)
(* or pids: a service that is there or not, that is asked for one job at a *)
(* time, works on it at most once and while it is healthy, and answers it  *)
(* with a proof of this job, with a failure for good, or not at all.       *)
(* DaemonSession is the detailed specification that implements this one.   *)
(***************************************************************************)

CONSTANTS
  Jobs,          \* the jobs
  NoJob          \* no job

VARIABLES
  phase,         \* where worker and service stand
  task,          \* the job that is asked for
  request,       \* what became of the request for it
  healthy,       \* the service can still take and work on requests
  answer         \* what the last request came to

serviceVars == <<phase, task, request, healthy, answer>>

Phase   == {"away", "ready", "busy", "spoiled"}
Request == {"none", "queued", "computing", "proved", "refused", "timed_out"}

Said(kind, of, proof) == [kind |-> kind, of |-> of, proof |-> proof]

Init ==
  /\ phase = "away" /\ task = NoJob /\ request = "none" /\ healthy = FALSE
  /\ answer = Said("none", NoJob, NoJob)

(* It got ready; it may have died since. *)
Appear ==
  /\ phase = "away" /\ phase' = "ready"
  /\ healthy' \in BOOLEAN
  /\ UNCHANGED <<task, request, answer>>

Ask(j) ==
  /\ phase = "ready" /\ phase' = "busy" /\ task' = j
  /\ answer' = Said("none", NoJob, NoJob)
  /\ UNCHANGED <<request, healthy>>

(* The request goes out, whether or not there is anybody to take it. *)
Submit ==
  /\ phase = "busy" /\ request = "none" /\ request' = "queued"
  /\ UNCHANGED <<phase, task, healthy, answer>>

Take ==
  /\ request = "queued" /\ healthy
  /\ request' \in {"computing", "refused"}
  /\ UNCHANGED <<phase, task, healthy, answer>>

(* After a timeout it does nothing any more. *)
Finish ==
  /\ request = "computing" /\ healthy
  /\ request' \in {"proved", "refused", "timed_out"}
  /\ healthy' = (request' # "timed_out")
  /\ UNCHANGED <<phase, task, answer>>

Die ==
  /\ healthy /\ healthy' = FALSE
  /\ UNCHANGED <<phase, task, request, answer>>

Settle(p, said) ==
  /\ phase = "busy" /\ phase' = p /\ answer' = said
  /\ task' = NoJob /\ request' = "none"

(* Only a proof of this job that was worked out answers it. *)
Deliver ==
  /\ request = "proved" /\ Settle("ready", Said("proof", task, task))
  /\ UNCHANGED healthy

(* A failure for good ends the job and keeps the service, so it comes only *)
(* when nothing of the request is left to be done: it was not sent, or the *)
(* service is through with it, and its line could perhaps not be read.     *)
Reject ==
  /\ request \notin {"queued", "computing"}
  /\ Settle("ready", Said("permanent", task, NoJob))
  /\ UNCHANGED healthy

(* The worker gives up at any time; whatever the service still does is not *)
(* looked at any more, and it is discarded before another one appears.     *)
GiveUp == Settle("spoiled", Said("transient", task, NoJob)) /\ healthy' = FALSE

Discard ==
  /\ phase = "spoiled" /\ phase' = "away"
  /\ UNCHANGED <<task, request, healthy, answer>>

Next ==
  \/ Appear \/ (\E j \in Jobs : Ask(j)) \/ Submit
  \/ Take \/ Finish \/ Die
  \/ Deliver \/ Reject \/ GiveUp \/ Discard

Spec == Init /\ [][Next]_serviceVars
=============================================================================
