# A TLA+ model of the SP1 proof queue and its workers

This directory is the verification project of the repository: TLA+ modules
translated from its Rust and Lua code, TLC configurations that check them on
small instances, and TLAPS proofs of what matters most for every instance.
Paths below are relative to the repository.

## 1. The system and its parts

A relayer that wants a Groth16 proof of a Dogecoin block transition stores a
*job* in Redis. Any number of `doge-proof-worker` processes take jobs from
there. Each worker owns one `gen-proof --daemon` child, which holds the CUDA
prover, and talks to it in lines of JSON over two pipes. Inside the prover runs
a *guest* program, which checks the transition and commits one 32-byte hash as
public value.

| Part | Code | State it keeps | Operations |
| --- | --- | --- | --- |
| Proof queue | the six Lua scripts and `ProofQueue` in `script/src/bin/doge_proof_worker.rs`, `QueueKeys`, `ProofJobState`, `ProofResult` in `script/src/proof_protocol.rs` | per job: payload, state, attempt counter, result; one queue list, one leases sorted set, one notify list | claim, heartbeat, complete, finish_error, fail_invalid_claim, requeue_expired; the producer's writes |
| Worker loop | `run`, `prove_claim`, `*_until_resolved` in the same file | the daemon it owns, the claim it works on and that claim's local deadline | start a daemon, resolve expired leases, claim, prove, publish, stop the daemon |
| Worker's end of the daemon protocol | `GenProofDaemon`, `read_protocol_line`, `bounded_shutdown`, `WorkerFailure` | child process, two pipes, the identity line, the stderr buffer | start, send_request, read a line, stop; classify answers and exits |
| Daemon | `run_daemon`, `generate_proof`, `DeadlineConfig` in `script/src/bin/gen_proof.rs` | the proving key; the request it works on | set up, announce its identity, execute, prove, answer, exit 75 after a timeout |
| Job identity | `ProofJob::computed_job_id`, `validate_job` | none | hash a job's identity, compare |
| One-shot `gen-proof`, `--vkey-only` | `main` in `gen_proof.rs` | none | read arguments or files, set up, execute, prove, print |
| Block-transition guests | `program/src/bin/block_transition.rs`, `block_transition_testnet.rs` | none | check a transition and two headers, commit a public value |
| Retained guests | `program/src/bin/manual_claim.rs`, `custodian_transition.rs`, which no host in the repository runs | none | cut an input into values, commit a public value |
| Public inputs | `lib/src/lib.rs` | none | three hash formulas |
| Build script, crate root | `script/build.rs`, `script/src/lib.rs` | none | compile the guests; declare modules |

How they meet: workers and the producer share only Redis, and only through
scripts, each of which Redis runs atomically; everything else about a claim is
a race against the lease. A worker and its daemon share two pipes. `prove_claim`
waits on three things at once (the daemon's answer, the heartbeat timer, the
response deadline), and while it handles one it does not look at the others.

What is hard here, with the code lines in `PROJECT.json` under `hazards`:
late calls of a worker whose lease is over, calls whose reply is lost and that
are repeated, workers that die between any two calls, an attempt limit that two
scripts enforce and a third ignores, a list from which ids are dropped for good,
lines that arrive in pieces while a timer may cancel the read, answers to
requests that were given up, and daemons that hang, die or must not be used
again after a timeout.

What makes each part correct:

* *Proof queue*: one holder at a time, only the holder of a running lease ends
  a job, a job ends once and for good and is announced once with its result, no
  waiting job is lost, attempts are bounded, no job goes round for ever or stops
  where nothing leads on, every job ends.
* *Worker and daemon*: a proof is taken only for the job it was computed for,
  a request is worked on at most once,
  the two are in step between jobs, a timed-out process never serves again, no
  request waits for ever, a dead daemon is replaced.
* *Worker loop*: its local deadline never lies behind the lease in Redis, so
  that it stops before another worker starts; it uses only claims Redis granted
  and proves only what is a job; it gets rid of every claim, even if Redis does
  not answer.
* *Pipes of the daemon*: a read returns exactly the line the stream has at this
  place, however it is cut into chunks, and never collects more than its limit;
  one read goes on where the other ended;
  the stderr buffer returns the end of what was appended since an offset.
* *Job identity*: an id names one job, in every field and in its spelling.
* *gen-proof*: a proof that leaves the process proves what was asked for, each
  value in its own role; host and guest agree; from the drop of a CUDA future on
  a process takes nothing up and ends.
* *Guests and public inputs*: a public value determines what a contract computes
  it from, and two values that meet at a stored header prove transitions that
  meet in every finalized field.
* *From job to result*: a published proof proves the job it is published for.

## 2. Modules

| Module | What it is |
| --- | --- |
| `JobLifecycle` | The promise made to the producer: a job is submitted, worked on at most `MaxAttempts` times, and ends once. No keys, leases, lists or clocks. |
| `ProofQueue` | The Redis keys, one action per script (per branch, for `finish_error`), the producer, the clock. |
| `ProofQueueProofs` | TLAPS proofs about `ProofQueue`, among them that it implements `JobLifecycle`. |
| `MCProofQueue` | TLC instances of `ProofQueue`. |
| `ProofWorker` | The loop of any number of workers on top of `ProofQueue`: calls that are sent, executed and answered in separate steps, fail, or are executed late; each worker's claim and its deadline on its own clock; crashes. |
| `ProofWorkerProofs` | TLAPS proofs about `ProofWorker`, among them that it implements `ProofQueue`. |
| `MCProofWorker` | TLC instances of `ProofWorker`. |
| `ProverService` | What a worker's loop has of its daemon: a service that is asked for one job at a time, works on it at most once, and answers with a proof of it, a failure, or not at all. No pipes, lines or pids. |
| `DaemonSession` | One worker and its daemon, joined by two pipes. |
| `DaemonSessionProofs` | TLAPS proofs about `DaemonSession`, among them that it implements `ProverService`. |
| `MCDaemonSession` | TLC instances of `DaemonSession`. |
| `LineReader` | What a worker has of the daemon's output: the lines of a stream, one read after the other. No pipe, buffer or chunks. |
| `DaemonPipes` | What a worker reads from the daemon's two output pipes, byte by byte: lines out of chunks, with their limit, and the stderr buffer. |
| `DaemonPipesProofs` | TLAPS proofs about `DaemonPipes`, among them that it implements `LineReader`. |
| `MCDaemonPipes` | TLC instance of `DaemonPipes`. |
| `PublicInputs` | The formulas of `lib`. |
| `RetainedGuests` | What the retained guests read and commit; extends `PublicInputs`. |
| `RetainedGuestsProofs` | TLAPS proofs about `RetainedGuests`. |
| `BlockTransitionGuest` | What the block-transition guests assert and commit; extends `PublicInputs`. |
| `GenProof` | One `gen-proof` process in its three modes, with the guest it runs; extends `BlockTransitionGuest`. |
| `GenProofProofs` | What every step of such a process preserves (TLAPS). |
| `JobIdentity` | A job's id and fingerprint, and the comparisons of jobs, daemons and answers; extends `PublicInputs`. |
| `JobIdentityProofs` | TLAPS proof that an id binds the whole job. |
| `ProofPipeline` | From a job to its published result and its committed value: composes `GenProof`, `JobIdentity` and `RetainedGuests`. |
| `ProofPipelineProofs` | TLAPS proofs about `ProofPipeline`. |
| `MCProofPipeline` | TLC instance of `ProofPipeline`. |

How they divide the system: `ProofQueue` and `ProofWorker` have the leases and
calls of any number of workers and reduce a proof to its outcome;
`DaemonSession` has one worker and its daemon and reduces an answer to the job
it is for; `DaemonPipes` has the bytes of its lines; each of these three levels
has a specification of what it promises to the one above it (`JobLifecycle` to
the producer, `ProverService` to the worker loop, `LineReader` to the worker's
end of the daemon protocol) and is shown to implement it; `ProofPipeline` has the
contents of requests, answers and proofs, and one process at a time.

### ProofQueue

`payload`, `state`, `attempts`, `result` are the keys `QueueKeys` names, as
functions of the job id; `queue` is the list (head is popped, `RPUSH` appends),
`score` the leases sorted set, `notified` counts a job's entries in the notify
list. `claims` and `accepted` are not in the program: they record what Redis
handed out and accepted, which is what the callers know.

* **Time.** The scripts compare `lease_expires_ms` with Redis' own clock and
  with nothing else. The model keeps the time that is left, `ttl`, and `Tick`
  takes one unit from every lease; `lease_expires_ms <= now` is `ttl = 0`.
  The clock is assumed not to run backwards. `score` is kept apart from
  `state[j].ttl`, because the code writes the two with two commands.
* **Callers.** A claim that was ever granted may be used with `heartbeat`,
  `complete`, `finish_error` or `fail_invalid_claim` at any time and any number
  of times. This contains every order the worker loop produces, every call that
  is repeated after a lost reply, and every worker that stalls or dies. A call a
  script rejects changes nothing and is a stuttering step.
* **Payloads.** Five kinds are told apart, because the code does: a job of its
  own id, a job of another id, JSON that Lua can index but that is no job, JSON
  that Lua cannot index (it makes `requeue_expired` abort), and no JSON. A
  string is of the third kind, since Lua indexes strings.
* **`requeue_expired`** resolves up to `Batch` expired leases in one step. All
  of them have `ttl = 0` in the model, so their order is left open, which
  contains the order by expiry the sorted set gives.
* **Lease ids** are 32 random bytes hashed with the worker id, the process id
  and a counter (`new_lease_id`); the model draws fresh ones and takes their
  uniqueness for granted. All workers use the same `lease_ms` and
  `max_attempts`, as one deployment does.

### ProofWorker

`at` is where a worker stands in `run`: starting its daemon, in one of the two
calls of an idle worker (`resolving` is `requeue_expired`, `claiming` is
`claim`), proving, or in one of the calls about its claim (`beating`,
`publishing`, `retrying` and `failing` for `finish_error` with a retryable and
a permanent failure, `rejecting` for `fail_invalid_claim`). `held` is the claim,
`reply` the state of the present call.

* **A call** is sent (`Send`), executed by Redis (`ExecuteResolve`,
  `ExecuteClaim`, `ExecuteHeld`: these are the script actions of `ProofQueue`)
  and answered (`Receive`). At any time after it was sent it may fail for its
  worker (`CallFails`), which stands for the response timeout of two seconds, a
  broken connection and an error of the script. If it was not executed yet it
  may join `late`, from where Redis executes it at any later time, once or, if it
  was sent several times, again, or never.
* **Clocks.** `deadline` is what is left until `retry_deadline`. The code
  computes it as the time *before* the call plus `lease_ms`; `fresh` counts that
  down from the moment the call is sent, and `NewDeadline` takes what is left of
  it when the reply says yes. `Clock` moves Redis' clock and every worker's at
  once: the model assumes that they run at the same rate. That they show the
  same time is not assumed, since only differences occur.
* **A failed call about a claim** is repeated until the deadline (`GivesUp`).
  After the deadline a heartbeat becomes a transient failure of the job, and
  the others end the worker's interest in the claim.
* **A crash** loses all the worker knows; it starts again with a new daemon.
* **The daemon** is reduced to what `prove_claim` may return: a proof, a
  permanent failure, a transient one (`Prove`). `DaemonSession` has the rest.
* The 250 ms and one-second sleeps are not modelled: they delay steps that may
  come at any time anyway.

### DaemonSession

`pc` is where the worker stands in `start`, `send_request` and `prove_claim`;
`child` is the daemon process. `stdin` and `stdout` are the pipes, `line` is the
local variable of `read_protocol_line`, `verdict` what `prove_claim` returned
last. `of` and `proof` in it tell for which job a proof was accepted and for
which it was computed; the program cannot see the latter.

* **Lines in pieces.** `write_json_line` serialises into an unbuffered pipe, so
  a line consists of many small writes. The model uses two pieces per line,
  which is enough for a read to be cancelled in the middle. A cancelled read
  loses what it consumed (`Heartbeat`), and the rest is no JSON.
* **A start** ends with an identity line the worker takes, with any other line or
  the end of the output (`StartFails`), or by the startup timer, which covers the
  whole line and may fire at any moment of it (`StartTimesOut`).
* **`polluted`** is a history variable: the process dropped a CUDA future. It is
  set where the timeout line begins, or where the setup runs out of time. A
  request can get into the pipe of such a process: a heartbeat tears the timeout
  line, its rest is a permanent failure, the daemon is kept, and the next job is
  sent before the worker notices that it exits. `TimeoutIsLast` is about this
  request.
* **Request ids** play no part: they come from the producer and two jobs may
  have the same one. What holds here holds without them.
* **Failures.** The daemon may crash in any state, hang in any state, run into
  each deadline; the worker may lose its lease, miss its write deadline and its
  response deadline at any time. Transient failures stop the daemon, permanent
  ones keep it.
* **Left out:** `finish_error` between the failure and the stop is in
  `ProofQueue`, and `StopDaemon` follows in its own step; the size of lines and
  the stderr buffer are in `DaemonPipes`, the comparison of an answer with its
  job in `ProofPipeline`; blank request lines, which the daemon skips.
* **What it implements.** For `ProverService` the worker's place is a phase
  (`ServicePhase`), the daemon is healthy until it hangs, dies or begins a timeout
  line (`Healthy`), and what became of a request is read off the pipes: not taken
  while a piece of it is in `stdin`, and after that whatever answer was begun
  (`RequestSoFar`). `ProverService` says when a failure for good may keep the
  daemon: when its request was not sent or the daemon is through with it. A proof
  whose line was torn by a heartbeat is such a failure.

### DaemonPipes

`stdout` is all the daemon will ever write; `written`, `filled` and `consumed`
say how much of it is in the pipe, went into the `BufReader` and was taken out
of it, so that each byte has one place. `line` is the local vector of
`read_protocol_line_with_limit`, `begin` what was consumed when the read began.

* **A read** takes what `fill_buf` returns (`Fill`, any number of bytes up to
  the size of the buffer), up to the first newline (`Take`), checks the limit
  before it appends (`Consume`), and ends with a line, a line that is not UTF-8,
  one that is too long, the end of the pipe, or an error of it (`ReadFails`).
  `Cancel` is the heartbeat branch of `select!`: the future is dropped with what it collected. A read waits only
  when its buffer is empty, which is where it can be dropped.
* **stderr**: `Drain` is one read of the task that fills `BoundedStderr`, with
  the bytes dropped at the front. `mark` is `prove_claim`'s `stderr_offset`.
* A read that ends a daemon's use (too long, not UTF-8, the end, an error) ends the
  behaviour here: the worker gives the daemon up. UTF-8 is reduced to a byte that
  is none by itself.
* **What it implements.** For `LineReader` a read begins at `begin`, and its line
  shows when it is returned (`Returned`). Everything from `Fill` to `Consume`
  becomes one step that returns a line, or none. A cancelled read is a step that
  loses the front of a line, and never the end of one (`Lose`).

### PublicInputs, guests, GenProof

* **Hashes.** A digest is the record of what was hashed: SHA-256 is taken to be
  free of collisions. `CustodyScriptConfig::hash` is outside the repository and
  taken to be the same with the manager of its network.
* **What a vector says.** A vector of the guest's stdin is its length and its
  value. `IntoStdin` writes eleven of them by position, `ReadVectors` reads
  them by position, and all else goes by name, so that two of them in each
  other's place are noticed.
* **External functions.** `VerifyBlockTransition` and `RecomputeHashes` stand for
  the two calls into `psy_doge_bridge_helper`. They are arbitrary constants: the
  theorems hold for every function. The TLC instance uses a small chain.
* **What the guests do not bind.** The fees, the number of confirmations and the
  state and its witness are not in the public value; the tip state of a header
  is bound by the header's hash only, no assertion looks at it; with an empty
  finalized witness the guest takes the hashes of nothing. The properties say
  what follows and no more.
* **Texts.** A text has what it says as hexadecimal and what a file of its name
  says. One-shot mode takes the file after `@`, and also without `@` if there is
  one (`ReadHex`); a daemon never does (`DecodeInline`).
* **Phases.** `pc` follows `generate_proof`: decode, execute, prove, verify,
  compare. Any CUDA phase may fail or time out; the prover may return a proof
  that does not verify, with any value, or one of another size.
* **After a timeout** the steps of the code are kept apart: the future is dropped
  (`TimeOut`; `SetupTimesOut`), the timeout is reported (`ReportTimeout`), and the
  process exits with 75 (`ExitAfterTimeout`). A daemon that cannot write its line
  returns that error instead, with status 1; a setup that runs out of time is
  only told to stderr. `polluted` is not in the program: it records the drop, so
  that `DropIsLast` can say what may not come between it and the end.
* The widths of the retained guests' values are parameters, since all that
  matters is that the parts do not overlap and leave nothing out.

### JobIdentity, ProofPipeline

* Bytes are hashed as units: a byte of a string, a number of four bytes, a
  digest of 32. Strings have their bytes and their length, requests those of
  their JSON; different ones are taken to be written differently
  (`EncodingAssumption`), which is true of UTF-8 and of `serde_json` with its
  fixed order of fields. The code grows one buffer; the model groups the same
  sequence from the right.
* `VkeyHash` is bare digits, the form in which the SDK's `bytes32` must come for a
  worker to accept its daemon at all; what the `0x` of the README leads to is the
  run `vkey_form`.
* The text of a digest has a form (lower case, upper case, other) and a value.
* `job` is the worker's present job; `accepted`, `published` and `commits` are
  what ever happened, whoever did it. `Accept` and `Refuse` are the checks of
  `prove_claim` before a request, `Answered` those after an answer. `GivenBack`
  is a transient failure, after which the queue hands out the job again: any
  number of workers are the successive ones here, each with the process of its
  own network. Processes follow one another, so that no two are in the middle of
  a phase; they share nothing but Redis and the guest's code, and
  `ProofQueue`/`ProofWorker` have what happens in Redis.

## 3. What TLC checks

| Run | Shows | Bounds |
| --- | --- | --- |
| `proof_queue` | `TypeOK`, `LeasesMatchStates`, `NothingLost`, `NoJobIsStuck`, `AttemptsBounded`, `EndIsConsistent`, `LastHolderEnds`, `EndIsFinal`, `LeaseIsRespected`, `WorkRunsOut`, and `KeepsPromise`: `ProofQueue` implements `JobLifecycle` | 2 jobs, 2 workers, all 5 payload kinds, lease of 2 ticks, 2 attempts, batch of 2, 1 heartbeat per claim, each id enqueued up to twice |
| `proof_queue_liveness` | `EveryJobEnds` | 2 jobs, 1 worker, payloads Lua can index |
| `expired_at_max` | violates `ExpiredAtMaxFails` | a payload that is no JSON |
| `proof_worker` | `WorkerTypeOK`, `LocalDeadlineSafe`, `OneProver`, `ImplementsQueue` | 2 workers, 1 job of its own or a foreign id, lease of 2 ticks, 2 attempts, 1 heartbeat per claim, 1 late call at a time, 1 crash |
| `proof_worker_liveness` | `ClaimsResolve`, `EveryJobEnds` | the same with 1 worker |
| `blocked_workers` | violates `ExhaustedBecomesFailed` | a payload that is a JSON null or number |
| `daemon_session` | `TypeOK`, `InSync`, `AnswerIsOwn`, `TimeoutIsLast`; `ImplementsService`: `DaemonSession` implements `ProverService`; `EveryRequestResolves`, `DaemonComesBack`, `DaemonStarts` | 2 jobs; sessions of any length |
| `torn_timeout` | violates `TimeoutIsRetryable` | 2 jobs |
| `setup_timeout` | violates `Exit75AfterError` | 2 jobs |
| `vkey_form` | violates `DaemonStarts` when the key hash has a prefix | 2 jobs |
| `daemon_pipes` | `TypeOK`, `ReadIsExact`, `SinceIsTail`, `EveryReadEnds`, and `ImplementsReader`: `DaemonPipes` implements `LineReader` | all outputs of up to 4 bytes over a letter, a newline and a byte that is no UTF-8; lines of up to 2 bytes; reads of up to 3; a log of 4 bytes, of which 2 are kept |
| `proof_pipeline` | `PipelineTypeOK`, `ProofMatchesRequest`, `HostGuestAgree`, `DropIsLast`, `SameIdSameWork`, `ResultProvesJob`, `ValuesBindStatements`, `ChainIsContinuous`, `PublishedChain` | two blocks of a chain on one network, one on the other, a fork of the second; about 40 requests and 18 jobs; 2 processes, 3 processes and jobs together; values of one byte in the retained guests |

**Why the bounds suffice.** Two attempts give a first claim, a retry or an
expiry, and a last claim. Two workers and two jobs give a late caller beside a
present one, two ids in the queue in both orders, and a batch smaller or larger
than the set of expired leases. Two ticks separate a lease that just began, one
that runs and one that is over. Enqueuing an id twice gives the duplicate that
`CLAIM_SCRIPT` must drop. Nothing bounds how long or how often late callers call.
The number of lease ids is bounded by attempts and jobs. `MaxRenewals` and
`MaxPushes` are bounds of the model for TLC; the theorems hold for every value
of them. In `ProofWorker` one job is enough for two workers to compete, and its
second claim meets what is left of the first; a lease of two ticks lets a reply
arrive one unit after its call was sent with a unit of the lease to go.
`MaxLate` and `MaxCrashes` bound what TLC explores, not the theorems.
`DaemonSession` has no bound but the number of jobs: its state space
is finite, since a pipe never holds more than one request and the pieces of one
line.
In `DaemonPipes` an output of four bytes has two lines at the limit, a line one
byte longer than it, a line that is never ended, and each of these after a line
that was read; a read may return less than a line, a line and the beginning of
the next, or more than the limit. A buffer of two bytes of a log of four drops
once from what it had and once from the chunk itself.
In `ProofPipeline` the requests are an honest one for each block and others that
deviate from it in one respect each: every field of either header, every size,
each part of the finalized block, fees in each other's place, texts that are
files, no files or no hexadecimal. The jobs deviate likewise in each field; those
of a block and of its two possible successors give results of which one pair
continues a chain and others do not. Two
processes (`MaxStarts`) give two proofs that meet at a header, the same request
in two modes, and a job that is given back and proved by the next process; with
`MaxWork` the two may have one job between them, or one process two jobs, which
is what two results under one id, or two answers in one daemon, take.

**Deadlock** is not checked: the queue has nothing to do once all jobs ended
and the producer's pushes are used up. `DaemonSession` never stops, and is
checked with the same setting for uniformity; its liveness properties say more.
A daemon's pipes and the processes of `ProofPipeline` come to an end.

**Fairness.** `FairSpec` of `ProofQueue` says that time passes and that some
worker keeps going round its loop, which calls `requeue_expired` and then
`claim`. No holder of a claim is obliged to call again: all of them may die.
Without a bound on heartbeats a live worker with a hung daemon would keep its
lease for ever; the response deadline of `prove_claim` is what bounds them.
Payloads that abort `requeue_expired` or that are no JSON are left out of the
liveness run: with the second, `EveryJobEnds` is false (see `expired_at_max`);
with the first, the aborting member stays in the set for ever.
`WorkerFairSpec` of `ProofWorker` says that daemons start, calls are sent and end
in some way (each has a timeout), `prove_claim` returns (its response deadline
is a branch of its `select!`), time passes, and that the two calls of an idle
worker do not fail for ever. It says nothing of the calls about a claim: Redis
may leave all of them unanswered. Crashes are finitely many.
`FairSpec` of `DaemonSession` makes the worker's steps fair (each of its awaits
has a timer, and `select!` polls its branches in random order, so none is
starved), assumes that jobs keep coming, and assumes that a daemon that is
started again and again gets its identity to the worker before the startup timer
at some time (strong fairness of the four steps of that: `SetupSucceeds`,
`WriteEnd`, `ReadPiece` and `Started`, the middle two only during a start). A start
that hangs anywhere, also in the middle of the identity line, is ended by
`StartTimesOut`. The daemon need not answer, need not end a line of an answer and
need not exit.
`FairSpec` of `DaemonPipes` says that the daemon goes on writing to stdout or
ends, and that a read that can go on does; the heartbeat may cancel it each time
it waits. A daemon that neither writes nor ends is in `DaemonSession`, where the
response deadline ends the wait.

**What the violations show.**

1. `ExpiredAtMaxFails` — `requeue_expired` ends a job at its last attempt only
   if its payload decodes, but takes it out of the leases set in any case. A
   worker that dies between a claim and `fail_invalid_claim` can leave a job
   `Claimed` for ever. `LeasesMatchStates` is stated with exactly this
   exception, and it is the only one.
2. `ExhaustedBecomesFailed` — a payload that decodes but cannot be indexed (a
   JSON null or number), with its last lease expired, makes `requeue_expired`
   abort each time. `run` does not go on to `claim` after an error of
   `requeue_expired`, so that this one key keeps every worker from every job.
   It takes a worker that died, or lost its reply, between the claim and
   `fail_invalid_claim`.
3. `TimeoutIsRetryable` — a heartbeat in the middle of the daemon's timeout
   line turns a retryable timeout into a permanent failure of the job. The same
   cancellation turns a finished proof into a permanent failure.
4. `Exit75AfterError` — a setup timeout exits 75 without the structured error
   line the README promises.
5. `DaemonStarts` with a prefixed key hash — the README allows `0x`, the worker
   takes 64 bare digits only, and its daemon then never starts.

## 4. What is proved

`ProofQueueProofs` proves, for any finite set of jobs, any set of workers, any
payload kinds and any positive `Lease`, `MaxAttempts` and `Batch` (the named
assumptions of `ProofQueue`), every property of the run
`proof_queue`.

* `TypeCorrect`: the type invariant, by one step per action. The pieces that
  need care are lemmas (`QueueTyping`, `StateTyping`, `TtlTyping`).
* `JobInvCorrect`: the inductive invariant `JobInv`, which speaks of one job at
  a time: the state's attempt equals the counter while the job is claimed, a
  waiting job has attempts left, the score follows the state, the announcement
  and the result follow the status. None of `LeasesMatchStates`,
  `EndIsConsistent` or `NothingLost` is inductive alone: a retry would not be
  known to have attempts left, a completed job not to have been announced once.
  An action changes one job, or each job by itself (`RequeueExpired`, `Tick`),
  so the step lemma treats the job that is acted on and the lemma `OtherJobs`
  all the others.
* `LeasesCorrect`, `EndConsistent`, `NothingLostCorrect` follow from `JobInv`.
* `FencingCorrect` (`LastHolderEnds`) needs a second invariant, `LeaseInv`: a
  job's present lease is the newest one granted for it, every accepted final
  call belongs to the newest lease, and a lease with an accepted final or
  requeueing call is no longer the present one.
* `AttemptsCorrect` counts claims: `CountedNext` shows that claims of a job
  number as many as its attempt counter, which `JobInv` bounds.
* `EndFinal`, `LeaseRespected` are action properties, from the same invariants.
* `PromiseKept`: the initial state maps to an initial state, and each step maps
  to a step of `JobLifecycle` (`NextMoves`) or leaves it unchanged. A batch
  moves several jobs at once, which is why `JobLifecycle!Next` lets every job
  move.
* `StatesRunOut` (`WorkRunsOut`): a job has `ChangesLeft` changes of status left,
  a number that the moves of `NextMoves` lower. A step that keeps the status keeps
  the state, uses one of the claim's heartbeats, or takes time from its lease
  (`NextPasses`); the last two are ordered, since a heartbeat gives time back.
* `NeverStuck` (`NoJobIsStuck`): a waiting job's id is in the queue, so that there
  is a first claimable one (`FirstExists`, the least-number principle); a claimed
  job whose lease is over is a member, so that `requeue_expired` has a batch to
  resolve (`BatchExists`, which needs a subset of each size and an order of it).
  The two kinds of payload that the violations are about are its only exceptions.

Together the last two are all of `EveryJobEnds` that can be said without
fairness: some step is always there, and there are not infinitely many. That
`FairSpec` makes these steps be taken is checked by TLC.

`ProofWorkerProofs` proves the safety properties of `proof_worker` for any
workers, any bounds and the same assumptions.

* `QueueImplemented` (`ImplementsQueue`): every step of the loop is a step of
  `ProofQueue` or leaves its variables alone (`StepAllowed`). For this the
  invariant `LoopInv` ties places to claims: a worker that heartbeats, publishes
  or finishes has a granted claim whose payload is its job, one that rejects has
  a granted claim whose payload is not, and the same holds of every late call.
  All theorems about `ProofQueue` thereby hold for the loop:
  `LoopKeepsPromise` goes on to `JobLifecycle`, `LoopKeepsQueueSafe` lists the
  rest, and `DeadlineInvCorrect` uses one of them.
* `DeadlineSafe` (`LocalDeadlineSafe`): `DeadlineInv` adds that a reply under way
  is worth what `fresh` says, and that a late call that would end a claim belongs
  to a claim nobody works on any more (`Spent`), because a worker gives such a
  call up only when it gives the claim up. `LeaseKept` shows that a running lease
  is shortened by nothing but its own claim's calls and the clock.
* `SoleProver` (`OneProver`) follows from it: Redis knows one holder.

`DaemonSessionProofs` proves the safety properties of `daemon_session`, for any
jobs. No invariant among them is inductive. The strengthening `SessionInv` relates the two pipes,
the place of the worker and that of the daemon: while the worker waits, the pipes
hold its request, or pieces of at most one line about it, and the daemon works
on no other job (`Waiting`); while it is idle they hold nothing and the daemon
is at rest (`Resting`); a process that dropped a CUDA future is writing its
timeout line, on its way out or gone (`Polluted`); and a worker that stops its
daemon has returned a transient failure (`Stopping`). The last two with `Waiting`
give the action property `TimeoutIsLast` (`NothingAfterTimeout`).

`ServiceImplemented` (`ImplementsService`) needs more, `ServiceInv`: what became of
a request is read off the line the daemon is writing or the last piece in the
pipe, so the two must agree. A daemon holds a line only while it writes it or
after it died in the middle (`InHand`); the last piece in the pipe is an end
exactly if no line is in hand (`InPipe`), and nothing is in hand between jobs
(`Settled`); between a request and its answer there are only answers
(`Answering`). The daemon's steps and the worker's are lemmas of their own
(`DaemonRefines`, `WorkerRefines`), since the two never move together.

`DaemonPipesProofs` proves the invariants of `daemon_pipes`, for every output,
every limit, every buffer and every way to cut.

* `ReadsAreExact`: `Collected` says of the stream what `ReadIsExact` says of the
  line. That a buffer with a newline has a first one (`TakeIs`) is the
  least-number principle, got from the well-foundedness of `<`.
* `ReaderImplemented` (`ImplementsReader`): by the same `Collected`, a line returned
  ends at the first newline behind `begin` (`LineReturned`), one refused has none
  within the limit (`LineRefused`), and what a cancelled read loses has none at
  all (`CollectedIsUnfinished`).
* `TailIsQuoted`: the buffer always is the window of the log that ends at what
  was drained (`LogInv`); windows can be joined and cut (`JoinWindows`,
  `SubWindow`).

`RetainedGuestsProofs` proves that the value a retained guest commits determines
each byte it read, for all widths: the slices cover the input.

`JobIdentityProofs` proves `JobIdBinds`: the hashed sequences of two jobs with
the same id are cut at the same places, one part after another, because each
string is preceded by its length (`PrefixCancels`).

`GenProofProofs` and `ProofPipelineProofs` prove all the properties of
`proof_pipeline`, for every external verification, all requests, jobs and inputs
and any number of processes, from `NothingAssumption`, `StartsAssumption`,
`JobsAssumption`, `EncodingAssumption`, `InputsAssumption` and
`WidthsAssumption`.

* `ProcessInv` is inductive: what is worked on is what was asked for and
  decodes (`Working`), and a proof at hand is one the prover makes for these
  inputs (`Held`). With them `ProofsMatch` and `HostAndGuestAgree`
  are steps of `Compare` and `Execute`. The lemmas `Vectors`, `Sized` and
  `GuestCommits` say that the guest reads what the host wrote and asserts the sizes
  the host demands.
* `NothingAfterDrop` (`DropIsLast`) needs to know where a process stands whose
  future was dropped, and that a daemon which is about to leave with 75, or has
  left, told its worker of the timeout (`Dropped`, kept by `DroppedStep`).
* `StepOfProcess`: no step of the pipeline does to the process what a process
  does not do, so that `ProcessInv` holds in it.
* `IdIsOneJob` follows from `JobIdBinds` and the checks a job passed.
* `ResultsProve` needs that the process still works on the worker's job
  (`Linked`), what the job was compared with (`Compared`), and that inputs a
  daemon decoded are those the job spells out (`DecodedIsSpeltOut`). Then there
  is one possible answer to a job (`ResponseTo`).
* `ValuesBind` and `ContinuousChain` follow from `OnlyCommitted`: a value with a
  proof was committed by its guest on what it read. That two such values meet at
  a header only if the transitions meet is a lemma about any two inputs of the
  guests (`ValuesJoin`).
* `ResultsChain` (`PublishedChain`) puts the last three together for a reader of
  the queue, who sees jobs and results and no process: each value is the one
  possible answer to its job, and `ValuesJoin` applies to what the jobs spell out.

**Only model-checked**: the liveness properties (`EveryJobEnds`,
`ClaimsResolve`, `EveryRequestResolves`, `DaemonComesBack`, `DaemonStarts`,
`EveryReadEnds`), since TLAPS does not do fairness. Every safety property of
every passing run is a theorem.

## 5. What is not modelled

* The verification of the blocks and the recomputation of hashes in
  `psy_doge_bridge_helper`, the SP1 SDK and its proof system, CUDA: they are
  outside this repository. That a proof that verifies has a value its guest
  committed is assumed of SP1 (`ProofsFor`).
* SHA-256 as an algorithm, the coding of hexadecimal, JSON and UTF-8 beyond what
  is rejected and what is injective, command-line parsing, log output and the
  text of messages.
* The build script, which compiles the guests, and the crate root, which
  declares modules: they have no behaviour at run time. That the embedded ELF of
  a network is that network's guest is what `BlockProgram` says and is external.
* How long anything takes: the periods of heartbeats and polls, and that
  heartbeats are shorter than leases (`Args::validate`). A heartbeat may come at
  any time, or be too late, in the model.
* Redis failing over to a replica that lacks the last writes: the code relies on
  one consistent Redis.
* The consumer of the notify list, and the contracts that consume public values:
  they are not in this repository.
* What happens to jobs during an upgrade of the ELF: a worker of the other
  version ends them as permanently failed, by design, and no document says what
  should happen instead.
