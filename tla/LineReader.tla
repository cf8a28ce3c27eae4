----------------------------- MODULE LineReader -----------------------------
(***************************************************************************)
(* What prove_claim has of the daemon's output, with no pipe, buffer or    *)
(* chunk: the lines of a stream, one read after the other.  DaemonPipes is *)
(* the detailed specification that implements this one.                    *)
(***************************************************************************)
EXTENDS Naturals, Sequences

CONSTANTS
  Byte,
  Newline, BadByte,   \* the end of a line, a byte that is no UTF-8 by itself
  MaxLine             \* how long a line may be

VARIABLES
  stream,             \* all that the daemon will ever write
  from,               \* how much of it is behind the present read
  outcome,            \* what became of that read
  text                \* the line it returned

readerVars == <<stream, from, outcome, text>>

Outcome == {"reading", "line", "not_utf8", "too_long", "eof", "io_error"}

Init ==
  /\ stream \in Seq(Byte)
  /\ from = 0 /\ outcome = "reading" /\ text = <<>>

(* The first n bytes of the read, as many as it may hold, end no line. *)
Unfinished(n) ==
  /\ n \in 0..MaxLine /\ from + n <= Len(stream)
  /\ \A i \in 1..n : stream[from + i] # Newline

(* Stopped and begun anew, the read loses what it had collected, which is  *)
(* never the end of a line.                                                *)
Lose(n) ==
  /\ outcome = "reading" /\ Unfinished(n)
  /\ from' = from + n
  /\ UNCHANGED <<stream, outcome, text>>

(* The bytes up to and with the next newline. *)
Return(n) ==
  /\ outcome = "reading" /\ n < MaxLine /\ Unfinished(n)
  /\ from + n < Len(stream) /\ stream[from + n + 1] = Newline
  /\ text' = SubSeq(stream, from + 1, from + n + 1)
  /\ outcome' = IF \E i \in from + 1 .. from + n + 1 : stream[i] = BadByte
                THEN "not_utf8" ELSE "line"
  /\ UNCHANGED <<stream, from>>

Refuse ==
  /\ outcome = "reading" /\ Unfinished(MaxLine)
  /\ Len(stream) > from + MaxLine
  /\ outcome' = "too_long"
  /\ UNCHANGED <<stream, from, text>>

(* The rest of the stream is no line any more. *)
End(n) ==
  /\ outcome = "reading" /\ Unfinished(n) /\ from + n = Len(stream)
  /\ outcome' = "eof"
  /\ UNCHANGED <<stream, from, text>>

(* The stream breaks, wherever the read is. *)
Break ==
  /\ outcome = "reading" /\ outcome' = "io_error"
  /\ UNCHANGED <<stream, from, text>>

(* Only after a line is there a next read, and it begins just behind it. *)
NextRead ==
  /\ outcome = "line" /\ outcome' = "reading"
  /\ from' = from + Len(text) /\ text' = <<>>
  /\ UNCHANGED stream

Next ==
  \/ \E n \in 0..MaxLine : Lose(n) \/ Return(n) \/ End(n)
  \/ Refuse \/ Break \/ NextRead

Spec == Init /\ [][Next]_readerVars
=============================================================================
