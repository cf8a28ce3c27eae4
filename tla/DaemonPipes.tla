---------------------------- MODULE DaemonPipes -----------------------------
(***************************************************************************)
(* What a worker reads from the two output pipes of its gen-proof daemon,  *)
(* byte by byte: protocol lines from stdout (read_protocol_line_with_limit *)
(* of script/src/bin/doge_proof_worker.rs, polled by prove_claim) and the  *)
(* end of its log from stderr (BoundedStderr and the task that fills it).  *)
(*                                                                         *)
(* Bytes arrive in chunks nobody chooses.  A stream is given as all that   *)
(* the daemon will ever write to it, and counters tell how far it has been *)
(* written and read, so that what was read can be compared with what was   *)
(* written whatever the chunks were.                                       *)
(***************************************************************************)
EXTENDS Naturals, Sequences

CONSTANTS
  Byte,               \* the bytes
  Newline, BadByte,   \* the end of a line, a byte that is no UTF-8 by itself
  Streams,            \* what the daemon may write to stdout until it ends
  Log(_),             \* the i-th byte of its stderr
  MaxLog,             \* how many bytes of it the model looks at
  MaxLine,            \* MAX_PROTOCOL_LINE_BYTES
  MaxStderr,          \* MAX_STDERR_BYTES
  Buffer              \* what one read of a pipe returns at most

ASSUME SizesAssumption ==
  /\ MaxLine \in Nat /\ MaxStderr \in Nat \ {0} /\ Buffer \in Nat \ {0}
  /\ MaxLog \in Nat

ASSUME StreamsAssumption == \A s \in Streams : s \in Seq(Byte)

VARIABLES
  stdout,             \* the stream of this daemon
  written,            \* how much of it is written
  filled,             \* how much of it went into the BufReader
  consumed,           \* how much of it was taken out of the BufReader
  line,               \* what the present read has collected
  outcome,            \* what became of that read
  begin,              \* how much was consumed when it began
  logged, drained,    \* how much of stderr was written, and appended
  bytes, start_offset, end_offset,    \* BoundedStderr
  mark                \* prove_claim: stderr_offset

lineVars == <<stdout, written, filled, consumed, line, outcome, begin>>
logVars  == <<logged, drained, bytes, start_offset, end_offset, mark>>
vars     == <<lineVars, logVars>>

Least(a, b)    == IF a <= b THEN a ELSE b
Greatest(a, b) == IF a >= b THEN a ELSE b

(* s from the byte after the first m up to the n-th. *)
Between(s, m, n) == SubSeq(s, m + 1, n)

Outcome == {"reading", "line", "not_utf8", "too_long", "eof", "io_error"}

Init ==
  /\ stdout \in Streams
  /\ written = 0 /\ filled = 0 /\ consumed = 0
  /\ line = <<>> /\ outcome = "reading" /\ begin = 0
  /\ logged = 0 /\ drained = 0
  /\ bytes = <<>> /\ start_offset = 0 /\ end_offset = 0
  /\ mark = 0

-----------------------------------------------------------------------------
(* The daemon *)

WriteStdout ==
  /\ \E n \in written + 1 .. Len(stdout) : written' = n
  /\ UNCHANGED <<stdout, filled, consumed, line, outcome, begin, logVars>>

WriteStderr ==
  /\ logged < MaxLog /\ logged' = logged + 1
  /\ UNCHANGED <<lineVars, drained, bytes, start_offset, end_offset, mark>>

(* It has written all it will ever write. *)
Ended == written = Len(stdout)

-----------------------------------------------------------------------------
(* read_protocol_line_with_limit *)

Buffered == Between(stdout, consumed, filled)

(* fill_buf: an empty buffer waits for bytes of the pipe. *)
Fill ==
  /\ outcome = "reading" /\ consumed = filled
  /\ \E n \in filled + 1 .. Least(written, filled + Buffer) : filled' = n
  /\ UNCHANGED <<stdout, written, consumed, line, outcome, begin, logVars>>

(* [Mutant: the end of the pipe is no reason to stop] *)
EofIgnored == outcome = "reading" /\ UNCHANGED vars

Eof ==
  /\ outcome = "reading" /\ consumed = filled
  /\ filled = written /\ Ended
  /\ outcome' = "eof"
  /\ UNCHANGED <<stdout, written, filled, consumed, line, begin, logVars>>

(* fill_buf fails.  Like the end, it leaves no read after it, and a failed *)
(* daemon is given up; the pipe need not ever do so.                       *)
ReadFails ==
  /\ outcome = "reading" /\ consumed = filled
  /\ outcome' = "io_error"
  /\ UNCHANGED <<stdout, written, filled, consumed, line, begin, logVars>>

HasNewline(s) == \E i \in DOMAIN s : s[i] = Newline

(* Up to the first newline, or the whole buffer. *)
(* [Mutant: what follows the newline is taken, too] *)
TakeWholeBuffer(s) == Len(s)

Take(s) ==
  IF HasNewline(s)
  THEN CHOOSE i \in DOMAIN s : s[i] = Newline /\ \A k \in 1..(i - 1) : s[k] # Newline
  ELSE Len(s)

(* [Mutant: only the line so far is measured] *)
TooLongSoFar(take) == Len(line) > MaxLine

TooLong(take) == Len(line) + take > MaxLine

IsUtf8(s) == \A i \in DOMAIN s : s[i] # BadByte

Consume ==
  /\ outcome = "reading" /\ consumed < filled
  /\ LET take == Take(Buffered)
         new  == line \o SubSeq(Buffered, 1, take)
     IN  IF TooLong(take)
         THEN outcome' = "too_long" /\ UNCHANGED <<line, consumed>>
         ELSE /\ line' = new /\ consumed' = consumed + take
              /\ outcome' = IF new[Len(new)] # Newline THEN "reading"
                            ELSE IF IsUtf8(new) THEN "line" ELSE "not_utf8"
  /\ UNCHANGED <<stdout, written, filled, begin, logVars>>

(* The heartbeat branch of select! wins and the read starts anew. *)
Cancel ==
  /\ outcome = "reading" /\ consumed = filled
  /\ line' = <<>> /\ begin' = consumed
  /\ UNCHANGED <<stdout, written, filled, consumed, outcome, logVars>>

-----------------------------------------------------------------------------
(* BoundedStderr *)

Excess(s) == IF Len(s) > MaxStderr THEN Len(s) - MaxStderr ELSE 0

(* [Mutant: the drained bytes are not counted] *)
StartAfterUncounted(s) == start_offset

StartAfter(s) == start_offset + Excess(s)

(* append, by the task that reads stderr. *)
Drain ==
  /\ \E n \in drained + 1 .. Least(logged, drained + Buffer) :
       LET chunk == [i \in 1..(n - drained) |-> Log(drained + i)]
           all   == bytes \o chunk
       IN  /\ drained' = n
           /\ bytes' = Between(all, Excess(all), Len(all))
           /\ end_offset' = end_offset + Len(chunk)
           /\ start_offset' = StartAfter(all)
  /\ UNCHANGED <<lineVars, logged, mark>>

(* since.  [Mutant: an offset that was dropped selects nothing] *)
SinceKept(offset) ==
  IF offset < start_offset THEN <<>> ELSE Between(bytes, offset - start_offset, Len(bytes))

Since(offset) ==
  LET retained == Least(Greatest(offset, start_offset), end_offset)
  IN  Between(bytes, retained - start_offset, Len(bytes))

(* prove_claim for the next job, with the same daemon: only after a line.  *)
(* In any other case the daemon is given up.                               *)
NextRead ==
  /\ outcome = "line"
  /\ outcome' = "reading" /\ line' = <<>> /\ begin' = consumed
  /\ mark' = end_offset
  /\ UNCHANGED <<stdout, written, filled, consumed,
                 logged, drained, bytes, start_offset, end_offset>>

-----------------------------------------------------------------------------
Next ==
  \/ WriteStdout \/ WriteStderr
  \/ Fill \/ Eof \/ ReadFails \/ Consume \/ Cancel
  \/ Drain \/ NextRead

Spec == Init /\ [][Next]_vars

(* The daemon goes on writing or ends, and a read that can go on does.     *)
(* Heartbeats may cancel it at any time.                                   *)
FairSpec == Spec /\ WF_vars(WriteStdout) /\ WF_vars(Fill) /\ WF_vars(Eof) /\ WF_vars(Consume)
-----------------------------------------------------------------------------
(***************************************************************************)
(* Properties                                                              *)
(***************************************************************************)

TypeOK ==
  /\ stdout \in Streams /\ outcome \in Outcome
  /\ written \in 0..Len(stdout) /\ filled \in 0..written
  /\ consumed \in 0..filled /\ begin \in 0..consumed
  /\ logged \in 0..MaxLog /\ drained \in 0..logged
  /\ start_offset \in 0..drained /\ end_offset = drained
  /\ mark \in 0..drained
  /\ Len(bytes) = end_offset - start_offset

(* A reference definition of a line, which knows nothing of chunks: the    *)
(* bytes of s after the first m, up to and with the first newline.         *)
IsLine(s, m, n) ==
  /\ n \in m + 1 .. Len(s) /\ s[n] = Newline
  /\ \A k \in m + 1 .. n - 1 : s[k] # Newline

(* However the pipe cuts the daemon's output into chunks, a read collects  *)
(* exactly the bytes since it began and stays within the limit; it returns *)
(* the line the stream has there, refuses it exactly if the line is longer *)
(* than the limit, and reports the end only if no line was left.  In       *)
(* particular no byte of the next line is lost with this one.              *)
ReadIsExact ==
  /\ line = Between(stdout, begin, consumed) /\ Len(line) <= MaxLine
  /\ outcome \in {"line", "not_utf8"} =>
       IsLine(stdout, begin, consumed) /\ (outcome = "line" <=> IsUtf8(line))
  /\ outcome \in {"reading", "too_long", "eof", "io_error"} => ~HasNewline(line)
  /\ outcome = "too_long" =>
       /\ Len(stdout) > begin + MaxLine
       /\ \A k \in begin + 1 .. begin + MaxLine : stdout[k] # Newline
  /\ outcome = "eof" => consumed = Len(stdout)

(* What since returns for the stderr of a result, although the task that   *)
(* appends may have dropped bytes in between: of the bytes after the       *)
(* offset the last MaxStderr ones, each at its place.                      *)
TailAfter(offset) ==
  LET from == Greatest(offset, IF drained > MaxStderr THEN drained - MaxStderr ELSE 0)
  IN  [i \in 1..(drained - Least(from, drained)) |-> Log(Least(from, drained) + i)]

SinceIsTail ==
  /\ Len(bytes) = Least(drained, MaxStderr)
  /\ Since(mark) = TailAfter(mark)
  /\ Since(0) = TailAfter(0)

(* A daemon that goes on writing, whatever it writes, or ends keeps no     *)
(* read going for ever, however often heartbeats cancel it.                *)
EveryReadEnds == outcome = "reading" ~> outcome # "reading"

(* The refinement of LineReader: a read begins where the last one ended or *)
(* was stopped, and what it collected shows when it returns a line.        *)
Returned == IF outcome \in {"line", "not_utf8"} THEN line ELSE <<>>

Reader == INSTANCE LineReader
  WITH stream <- stdout, from <- begin, text <- Returned

(* All reads of a daemon together, however its output is cut into chunks,  *)
(* return the lines of its stream in their order, none of them twice, and  *)
(* none is left out; only a heartbeat takes the front off a line.          *)
ImplementsReader == Reader!Spec
=============================================================================
