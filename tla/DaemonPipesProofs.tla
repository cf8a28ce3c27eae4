------------------------- MODULE DaemonPipesProofs --------------------------
(***************************************************************************)
(* Theorems about DaemonPipes, for every output of a daemon, every way to  *)
(* cut it into chunks, and all limits.                                     *)
(***************************************************************************)
EXTENDS DaemonPipes, SequenceTheorems, WellFoundedInduction, TLAPS

(* The least number of a set. *)
LEMMA Smallest ==
  ASSUME NEW T \in SUBSET Nat, T # {}
  PROVE  \E x \in T : \A y \in T : x <= y
<1> DEFINE R == {ss \in Nat \X Nat : ss[1] < ss[2]}
<1>1. IsWellFoundedOn(R, Nat)
  BY NatLessThanWellFounded DEF OpToRel
<1>2. PICK x \in T : \A y \in T : ~ (<<y, x>> \in R)
  <2> HIDE DEF R
  <2> QED BY <1>1, WFMin
<1>3. ASSUME NEW y \in T PROVE x <= y
  <2>1. x \in Nat /\ y \in Nat /\ <<y, x>> \in Nat \X Nat
    OBVIOUS
  <2>2. ~(<<y, x>>[1] < <<y, x>>[2])
    BY <1>2, <2>1
  <2> QED BY <2>1, <2>2
<1> QED BY <1>3

LEMMA BetweenIs ==
  ASSUME NEW S, NEW s \in Seq(S), NEW n \in 0..Len(s), NEW m \in 0..n
  PROVE  /\ Between(s, m, n) \in Seq(S) /\ Len(Between(s, m, n)) = n - m
         /\ \A i \in 1..(n - m) : Between(s, m, n)[i] = s[m + i]
<1>1. \A i \in m + 1 .. n : s[i] \in S
  OBVIOUS
<1>2. m + 1 \in Int /\ n \in Int
  OBVIOUS
<1>3. /\ SubSeq(s, m + 1, n) \in Seq(S)
      /\ Len(SubSeq(s, m + 1, n)) = IF m + 1 <= n THEN n - (m + 1) + 1 ELSE 0
      /\ \A i \in 1 .. n - (m + 1) + 1 : SubSeq(s, m + 1, n)[i] = s[m + 1 + i - 1]
  BY <1>1, <1>2, SubSeqProperties
<1>4. Len(SubSeq(s, m + 1, n)) = n - m
  BY <1>3
<1>5. ASSUME NEW i \in 1..(n - m) PROVE SubSeq(s, m + 1, n)[i] = s[m + i]
  <2>1. i \in 1 .. n - (m + 1) + 1 /\ m + 1 + i - 1 = m + i
    OBVIOUS
  <2> QED BY <1>3, <2>1
<1> QED BY <1>3, <1>4, <1>5 DEF Between

(* What is taken out of the buffer ends at the first newline, if any. *)
LEMMA TakeIs ==
  ASSUME NEW S, NEW s \in Seq(S), s # <<>>
  PROVE  Take(s) \in 1..Len(s) /\ \A k \in 1..(Take(s) - 1) : s[k] # Newline
<1>1. CASE HasNewline(s)
  <2> DEFINE First(i) == s[i] = Newline /\ \A k \in 1..(i - 1) : s[k] # Newline
             T == {i \in DOMAIN s : s[i] = Newline}
  <2>1. DOMAIN s = 1..Len(s)
    OBVIOUS
  <2>2. T \in SUBSET Nat /\ T # {}
    BY <1>1, <2>1 DEF HasNewline
  <2>3. PICK i \in T : \A y \in T : i <= y
    <3> HIDE DEF T
    <3> QED BY <2>2, Smallest
  <2>4. i \in DOMAIN s /\ First(i)
    BY <2>1, <2>3
  <2>5. Take(s) = CHOOSE j \in DOMAIN s : First(j)
    BY <1>1 DEF Take
  <2>6. Take(s) \in DOMAIN s /\ First(Take(s))
    <3> HIDE DEF First
    <3> QED BY <2>4, <2>5
  <2> QED BY <2>1, <2>6
<1>2. CASE ~HasNewline(s)
  <2>1. Take(s) = Len(s) /\ DOMAIN s = 1..Len(s)
    BY <1>2 DEF Take
  <2>2. Len(s) \in Nat /\ Len(s) # 0
    OBVIOUS
  <2> QED BY <1>2, <2>1, <2>2 DEF HasNewline
<1> QED BY <1>1, <1>2

-----------------------------------------------------------------------------
(* stdout *)

Counters ==
  /\ stdout \in Streams /\ stdout \in Seq(Byte) /\ outcome \in Outcome
  /\ written \in 0..Len(stdout) /\ filled \in 0..written
  /\ consumed \in 0..filled /\ begin \in 0..consumed

(* ReadIsExact, about the stream instead of the line. *)
Collected ==
  /\ line = Between(stdout, begin, consumed) /\ consumed - begin <= MaxLine
  /\ IF outcome \in {"line", "not_utf8"}
     THEN IsLine(stdout, begin, consumed) /\ (outcome = "line" <=> IsUtf8(line))
     ELSE \A k \in begin + 1 .. consumed : stdout[k] # Newline
  /\ outcome = "too_long" =>
       /\ Len(stdout) > begin + MaxLine
       /\ \A k \in begin + 1 .. begin + MaxLine : stdout[k] # Newline
  /\ outcome = "eof" => consumed = Len(stdout)

ReadInv == Counters /\ Collected

LEMMA ConsumeStep == ReadInv /\ Consume => ReadInv'
<1> SUFFICES ASSUME ReadInv, Consume PROVE ReadInv'
  OBVIOUS
<1> USE SizesAssumption
<1>1. Counters /\ Collected
  BY DEF ReadInv
<1>2. /\ outcome = "reading" /\ consumed < filled
      /\ UNCHANGED <<stdout, written, filled, begin>>
  BY DEF Consume
<1>3. /\ stdout \in Seq(Byte) /\ Len(stdout) \in Nat /\ written \in Nat /\ filled \in Nat
      /\ consumed \in Nat /\ begin \in Nat
      /\ begin <= consumed /\ filled <= written /\ written <= Len(stdout)
  BY <1>1 DEF Counters
<1> DEFINE take == Take(Buffered)
<1>4. /\ Buffered \in Seq(Byte) /\ Len(Buffered) = filled - consumed
      /\ \A i \in 1..(filled - consumed) : Buffered[i] = stdout[consumed + i]
  <2>1. filled \in 0..Len(stdout) /\ consumed \in 0..filled
    BY <1>2, <1>3
  <2> QED BY <1>3, <2>1, BetweenIs DEF Buffered
<1>5. /\ take \in 1..(filled - consumed)
      /\ \A k \in consumed + 1 .. consumed + take - 1 : stdout[k] # Newline
  <2>1. Buffered # <<>>
    BY <1>2, <1>3, <1>4
  <2>2. take \in 1..Len(Buffered) /\ \A k \in 1..(take - 1) : Buffered[k] # Newline
    BY <1>4, <2>1, TakeIs
  <2>3. take \in 1..(filled - consumed)
    BY <1>4, <2>2
  <2> HIDE DEF take
  <2>4. ASSUME NEW k \in consumed + 1 .. consumed + take - 1 PROVE stdout[k] # Newline
    <3>1. /\ k - consumed \in 1..(take - 1) /\ k - consumed \in 1..(filled - consumed)
          /\ consumed + (k - consumed) = k
      BY <1>3, <2>3
    <3> QED BY <1>4, <2>2, <3>1
  <2> QED BY <2>3, <2>4
<1>6. /\ line = Between(stdout, begin, consumed) /\ Len(line) = consumed - begin
      /\ \A k \in begin + 1 .. consumed : stdout[k] # Newline
  <2>1. line = Between(stdout, begin, consumed)
    BY <1>1 DEF Collected
  <2>2. Len(line) = consumed - begin
    <3>1. consumed \in 0..Len(stdout) /\ begin \in 0..consumed
      BY <1>2, <1>3
    <3> QED BY <1>3, <2>1, <3>1, BetweenIs
  <2> QED BY <1>1, <1>2, <2>1, <2>2 DEF Collected
<1>7. \A k \in begin + 1 .. consumed + take - 1 : stdout[k] # Newline
  <2> HIDE DEF take
  <2> QED BY <1>3, <1>5, <1>6
<1> DEFINE new == line \o SubSeq(Buffered, 1, take)
<1>8. new = Between(stdout, begin, consumed + take)
  <2> HIDE DEF take
  <2>1. SubSeq(Buffered, 1, take) = SubSeq(stdout, consumed + 1, consumed + take)
    <3>1. /\ consumed + 1 \in 1..Len(stdout) /\ filled \in 1..Len(stdout)
          /\ 1 \in 1..(filled - (consumed + 1) + 1) /\ take \in 1..(filled - (consumed + 1) + 1)
      BY <1>2, <1>3, <1>5
    <3>2. SubSeq(SubSeq(stdout, consumed + 1, filled), 1, take)
            = SubSeq(stdout, (consumed + 1) + 1 - 1, (consumed + 1) + take - 1)
      BY <1>3, <3>1, SubSeqOfSubSeq
    <3>3. (consumed + 1) + 1 - 1 = consumed + 1 /\ (consumed + 1) + take - 1 = consumed + take
      BY <1>3, <1>5
    <3> QED BY <3>2, <3>3 DEF Buffered, Between
  <2>2. SubSeq(stdout, begin + 1, consumed) \o SubSeq(stdout, consumed + 1, consumed + take)
          = SubSeq(stdout, begin + 1, consumed + take)
    <3>1. /\ begin + 1 \in 1 .. Len(stdout) + 1 /\ consumed \in (begin + 1) - 1 .. Len(stdout)
          /\ consumed + take \in consumed .. Len(stdout)
      BY <1>2, <1>3, <1>5
    <3> QED BY <1>3, <3>1, ConcatAdjacentSubSeq
  <2> QED BY <1>6, <2>1, <2>2 DEF Between
<1>9. CASE TooLong(take)
  <2>1. outcome' = "too_long" /\ UNCHANGED <<line, consumed>>
    BY <1>9 DEF Consume
  <2> HIDE DEF take
  <2>2. Len(stdout) > begin + MaxLine
    BY <1>3, <1>5, <1>6, <1>9 DEF TooLong
  <2>3. \A k \in begin + 1 .. begin + MaxLine : stdout[k] # Newline
    BY <1>3, <1>5, <1>6, <1>7, <1>9 DEF TooLong
  <2>4. Counters'
    BY <1>1, <1>2, <2>1 DEF Counters, Outcome
  <2>5. Collected'
    BY <1>1, <1>2, <1>6, <2>1, <2>2, <2>3 DEF Collected
  <2> QED BY <2>4, <2>5 DEF ReadInv
<1>10. CASE ~TooLong(take)
  <2> DEFINE end == consumed + take
  <2>1. /\ line' = new /\ consumed' = end
        /\ outcome' = IF new[Len(new)] # Newline THEN "reading"
                      ELSE IF IsUtf8(new) THEN "line" ELSE "not_utf8"
    BY <1>10 DEF Consume
  <2>2. /\ end - begin <= MaxLine /\ end \in 0..Len(stdout) /\ begin \in 0..end
        /\ end \in 0..filled /\ consumed < end
        /\ \A k \in begin + 1 .. end - 1 : stdout[k] # Newline
    <3> HIDE DEF take
    <3> QED BY <1>3, <1>5, <1>6, <1>7, <1>10 DEF TooLong
  <2>3. new = Between(stdout, begin, end)
    BY <1>8
  <2> HIDE DEF take, new, end
  <2>4. Counters'
    BY <1>1, <1>2, <1>3, <2>1, <2>2 DEF Counters, Outcome
  <2>5. new[Len(new)] = stdout[end]
    <3> DEFINE length == end - begin
    <3>1. Len(new) = length /\ \A i \in 1..length : new[i] = stdout[begin + i]
      BY <1>3, <2>2, <2>3, BetweenIs
    <3>2. length \in 1..length /\ begin + length = end
      BY <1>3, <2>2
    <3> HIDE DEF length
    <3> QED BY <3>1, <3>2
  <2>6. /\ line' = Between(stdout', begin', consumed') /\ consumed' - begin' <= MaxLine
        /\ outcome' \notin {"too_long", "eof", "io_error"}
    BY <1>2, <2>1, <2>2, <2>3
  <2>7. CASE stdout[end] # Newline
    <3>1. outcome' = "reading"
      BY <2>1, <2>5, <2>7
    <3>2. \A k \in begin' + 1 .. consumed' : stdout'[k] # Newline
      BY <1>2, <1>3, <2>1, <2>2, <2>7
    <3> QED BY <2>4, <2>6, <3>1, <3>2 DEF Collected, ReadInv
  <2>8. CASE stdout[end] = Newline
    <3>1. outcome' \in {"line", "not_utf8"} /\ (outcome' = "line" <=> IsUtf8(line'))
      BY <2>1, <2>5, <2>8
    <3>2. IsLine(stdout, begin, end)
      BY <1>3, <2>2, <2>8 DEF IsLine
    <3>3. IsLine(stdout', begin', consumed')
      BY <1>2, <2>1, <3>2
    <3> QED BY <2>4, <2>6, <3>1, <3>3 DEF Collected, ReadInv
  <2> QED BY <2>7, <2>8
<1> QED BY <1>9, <1>10

LEMMA EmptyBetween == ASSUME NEW s, NEW n \in Nat PROVE Between(s, n, n) = <<>>
BY SubSeqEmpty DEF Between

LEMMA ReadInvStep == ReadInv /\ [Next]_vars => ReadInv'
<1> SUFFICES ASSUME ReadInv, [Next]_vars PROVE ReadInv'
  OBVIOUS
<1> USE SizesAssumption
<1>1. Counters /\ Collected
  BY DEF ReadInv
<1>2. Len(stdout) \in Nat
  BY <1>1 DEF Counters
<1>3. CASE Consume
  BY <1>3, ConsumeStep
<1>4. CASE WriteStdout \/ Fill
  <2>1. /\ UNCHANGED <<stdout, consumed, line, outcome, begin>>
        /\ written' \in written..Len(stdout) /\ filled' \in filled..written'
    BY <1>1, <1>2, <1>4 DEF WriteStdout, Fill, Least, Counters
  <2>2. Counters'
    BY <1>1, <1>2, <2>1 DEF Counters
  <2>3. Collected'
    BY <1>1, <2>1 DEF Collected
  <2> QED BY <2>2, <2>3 DEF ReadInv
<1>5. CASE Eof
  BY <1>1, <1>2, <1>5 DEF Eof, Ended, Counters, Collected, ReadInv, Outcome
<1>6. CASE Cancel \/ NextRead
  <2>1. /\ line' = <<>> /\ begin' = consumed /\ outcome' = "reading"
        /\ UNCHANGED <<stdout, written, filled, consumed>>
    BY <1>6 DEF Cancel, NextRead
  <2>2. Counters'
    BY <1>1, <1>2, <2>1 DEF Counters, Outcome
  <2>3. consumed \in Nat
    BY <1>1, <1>2 DEF Counters
  <2>4. Collected'
    BY <2>1, <2>3, EmptyBetween DEF Collected
  <2> QED BY <2>2, <2>4 DEF ReadInv
<1>7. CASE UNCHANGED lineVars
  BY <1>1, <1>7 DEF lineVars, Counters, Collected, ReadInv
<1>8. CASE ReadFails
  BY <1>1, <1>2, <1>8 DEF ReadFails, Counters, Collected, ReadInv, Outcome
<1> QED
  BY <1>3, <1>4, <1>5, <1>6, <1>7, <1>8 DEF Next, WriteStderr, Drain, vars

LEMMA ReadInvInit == Init => ReadInv
<1> SUFFICES ASSUME Init PROVE ReadInv
  OBVIOUS
<1>1. Between(stdout, 0, 0) = <<>>
  BY EmptyBetween
<1>2. stdout \in Seq(Byte) /\ Len(stdout) \in Nat
  BY StreamsAssumption DEF Init
<1> QED BY <1>1, <1>2, SizesAssumption DEF Init, ReadInv, Counters, Collected, Outcome

LEMMA ReadAlways == Spec => []ReadInv
BY ReadInvInit, ReadInvStep, PTL DEF Spec

(* Whatever the daemon writes and however the pipe cuts it, each read      *)
(* returns, refuses or ends as the stream itself demands, and no byte is   *)
(* lost or read twice.                                                     *)
THEOREM ReadsAreExact == Spec => []ReadIsExact
<1>1. ReadInv => ReadIsExact
  <2> SUFFICES ASSUME ReadInv PROVE ReadIsExact
    OBVIOUS
  <2>1. Counters /\ Collected
    BY DEF ReadInv
  <2>2. /\ stdout \in Seq(Byte) /\ Len(stdout) \in Nat /\ consumed \in 0..Len(stdout)
        /\ begin \in 0..consumed
    BY <2>1 DEF Counters
  <2>3. /\ line = Between(stdout, begin, consumed) /\ line \in Seq(Byte)
        /\ Len(line) = consumed - begin
        /\ \A i \in 1..(consumed - begin) : line[i] = stdout[begin + i]
    BY <2>1, <2>2, BetweenIs DEF Collected
  <2>4. ASSUME outcome \in {"reading", "too_long", "eof", "io_error"}
       PROVE  ~HasNewline(line)
    <3> SUFFICES ASSUME NEW i \in DOMAIN line, line[i] = Newline PROVE FALSE
      BY DEF HasNewline
    <3>1. i \in 1..(consumed - begin) /\ begin + i \in begin + 1 .. consumed
      BY <2>2, <2>3
    <3>2. stdout[begin + i] # Newline
      BY <2>1, <2>4, <3>1 DEF Collected
    <3> QED BY <2>3, <3>1, <3>2
  <2> QED BY <2>1, <2>3, <2>4 DEF Collected, ReadIsExact
<1> QED BY <1>1, ReadAlways, PTL

-----------------------------------------------------------------------------
(* DaemonPipes implements LineReader. *)

(* Positions of a stream, counted from its front or from where a read began. *)
LEMMA Offsets ==
  ASSUME NEW s, NEW a \in Nat, NEW b \in Nat, a <= b,
         \A k \in a + 1 .. b : s[k] # Newline
  PROVE  b - a \in Nat /\ \A i \in 1..(b - a) : s[a + i] # Newline
<1> SUFFICES ASSUME NEW i \in 1..(b - a) PROVE s[a + i] # Newline
  OBVIOUS
<1>1. a + i \in a + 1 .. b
  OBVIOUS
<1> QED BY <1>1

(* What a read has collected so far is a line that is not finished. *)
LEMMA CollectedIsUnfinished ==
  ASSUME ReadInv, outcome \notin {"line", "not_utf8"}
  PROVE  /\ consumed - begin \in 0..MaxLine /\ begin + (consumed - begin) = consumed
         /\ Reader!Unfinished(consumed - begin)
<1> DEFINE n == consumed - begin
<1>1. /\ consumed \in Nat /\ begin \in Nat /\ begin <= consumed /\ consumed <= Len(stdout)
      /\ Len(stdout) \in Nat
  BY DEF ReadInv, Counters
<1>2. n <= MaxLine /\ \A k \in begin + 1 .. consumed : stdout[k] # Newline
  BY DEF ReadInv, Collected
<1>3. n \in Nat /\ \A i \in 1..n : stdout[begin + i] # Newline
  BY <1>1, <1>2, Offsets
<1>4. n \in 0..MaxLine /\ begin + n = consumed
  BY <1>1, <1>2, <1>3, SizesAssumption
<1> HIDE DEF n
<1>5. Reader!Unfinished(n)
  BY <1>1, <1>3, <1>4 DEF Reader!Unfinished
<1> QED BY <1>4, <1>5 DEF n

LEMMA LineReturned ==
  ASSUME ReadInv, ReadInv', Consume, outcome' \in {"line", "not_utf8"}
  PROVE  \E n \in 0..MaxLine : Reader!Return(n)
<1>1. /\ outcome = "reading" /\ UNCHANGED <<stdout, begin>>
      /\ begin \in Nat /\ Len(stdout) \in Nat /\ stdout \in Seq(Byte)
      /\ consumed' \in Nat /\ consumed' <= Len(stdout)
  BY DEF Consume, ReadInv, Counters
<1>2. /\ line' = Between(stdout, begin, consumed') /\ consumed' - begin <= MaxLine
      /\ IsLine(stdout, begin, consumed') /\ (outcome' = "line" <=> IsUtf8(line'))
  BY <1>1 DEF ReadInv, Collected
<1> DEFINE c == consumed'
           m == c - 1
           n == m - begin
<1>3. /\ stdout[c] = Newline /\ begin < c
      /\ \A k \in begin + 1 .. m : stdout[k] # Newline
  <2>1. /\ c \in begin + 1 .. Len(stdout) /\ stdout[c] = Newline
        /\ \A k \in begin + 1 .. m : stdout[k] # Newline
    BY <1>2 DEF IsLine
  <2>2. c \in begin + 1 .. Len(stdout) /\ c \in Nat /\ begin \in Nat => begin < c
    <3> HIDE DEF c
    <3> QED OBVIOUS
  <2> QED BY <1>1, <2>1, <2>2
<1>4. m \in Nat /\ begin <= m /\ m + 1 = c /\ m < MaxLine + begin /\ m < Len(stdout)
  <2>1. c \in Nat /\ begin \in Nat /\ begin < c /\ c - begin <= MaxLine /\ c <= Len(stdout)
    BY <1>1, <1>2, <1>3
  <2> HIDE DEF c
  <2> QED BY <1>1, <2>1, SizesAssumption
<1>5. n \in Nat /\ \A i \in 1..n : stdout[begin + i] # Newline
  <2> HIDE DEF m
  <2> QED BY <1>1, <1>3, <1>4, Offsets
<1>6. n \in 0..MaxLine /\ n < MaxLine /\ begin + n = m /\ begin + n < Len(stdout) /\ begin + n + 1 = c
  <2> HIDE DEF c, m
  <2>1. begin + n = m /\ n < MaxLine
    BY <1>1, <1>4, SizesAssumption
  <2> QED BY <1>1, <1>4, <1>5, <2>1, SizesAssumption
<1>7. line' = SubSeq(stdout, begin + 1, c)
  BY <1>2 DEF Between
<1>8. (outcome' = "line") <=> ~ \E k \in begin + 1 .. c : stdout[k] = BadByte
  <2>1. c \in 0..Len(stdout) /\ begin \in 0..c
    BY <1>1, <1>3
  <2> HIDE DEF c
  <2>2. /\ line' \in Seq(Byte) /\ Len(line') = c - begin
        /\ \A i \in 1..(c - begin) : line'[i] = stdout[begin + i]
    BY <1>1, <1>2, <2>1, BetweenIs DEF c
  <2>3. DOMAIN line' = 1..(c - begin)
    BY <2>2
  <2>4. ASSUME NEW k \in begin + 1 .. c, stdout[k] = BadByte PROVE ~IsUtf8(line')
    <3>1. k - begin \in 1..(c - begin) /\ begin + (k - begin) = k
      BY <1>1, <2>1
    <3> QED BY <2>2, <2>3, <2>4, <3>1 DEF IsUtf8
  <2>5. ASSUME ~IsUtf8(line') PROVE \E k \in begin + 1 .. c : stdout[k] = BadByte
    <3>1. PICK i \in 1..(c - begin) : line'[i] = BadByte
      BY <2>3, <2>5 DEF IsUtf8
    <3>2. begin + i \in begin + 1 .. c /\ stdout[begin + i] = BadByte
      BY <1>1, <2>1, <2>2, <3>1
    <3> QED BY <3>2
  <2> QED BY <1>2, <2>4, <2>5
<1> HIDE DEF c, m, n
<1>9. Reader!Unfinished(n)
  <2>1. begin + n <= Len(stdout)
    BY <1>1, <1>6
  <2> QED BY <1>5, <1>6, <2>1 DEF Reader!Unfinished
<1>10. stdout[begin + n + 1] = Newline
  BY <1>3, <1>6
<1>11. Returned' = SubSeq(stdout, begin + 1, begin + n + 1)
  BY <1>6, <1>7 DEF Returned
<1>12. outcome' = IF \E i \in begin + 1 .. begin + n + 1 : stdout[i] = BadByte
                  THEN "not_utf8" ELSE "line"
  BY <1>6, <1>8
<1> QED BY <1>1, <1>6, <1>9, <1>10, <1>11, <1>12 DEF Reader!Return

LEMMA LineRefused ==
  ASSUME ReadInv', Consume, outcome' = "too_long"
  PROVE  Reader!Refuse
<1>1. /\ outcome = "reading" /\ UNCHANGED <<stdout, begin>> /\ begin \in Nat /\ Len(stdout) \in Nat
  BY DEF Consume, ReadInv, Counters
<1>2. /\ Len(stdout) > begin + MaxLine
      /\ \A k \in begin + 1 .. begin + MaxLine : stdout[k] # Newline
  BY <1>1 DEF ReadInv, Collected
<1>3. \A i \in 1..MaxLine : begin + i \in begin + 1 .. begin + MaxLine
  BY <1>1, SizesAssumption
<1>4. Reader!Unfinished(MaxLine)
  BY <1>1, <1>2, <1>3, SizesAssumption DEF Reader!Unfinished
<1>5. Returned' = Returned
  BY <1>1 DEF Returned
<1> QED BY <1>1, <1>2, <1>4, <1>5 DEF Reader!Refuse

LEMMA ReaderStep ==
  ASSUME ReadInv, ReadInv', [Next]_vars
  PROVE  [Reader!Next]_(Reader!readerVars)
<1>1. CASE Consume
  <2>1. outcome' \in {"reading", "line", "not_utf8", "too_long"}
    BY <1>1 DEF Consume
  <2>2. CASE outcome' = "reading"
    <3>1. UNCHANGED <<stdout, begin, outcome, Returned>>
      BY <1>1, <2>2 DEF Consume, Returned
    <3> QED BY <3>1 DEF Reader!readerVars
  <2> QED BY <1>1, <2>1, <2>2, LineReturned, LineRefused DEF Reader!Next
<1>2. CASE Eof
  <2>1. /\ outcome = "reading" /\ outcome' = "eof" /\ consumed = Len(stdout)
        /\ UNCHANGED <<stdout, begin, Returned>>
    BY <1>2 DEF Eof, Ended, Returned
  <2>2. consumed - begin \in 0..MaxLine /\ Reader!End(consumed - begin)
    BY <2>1, CollectedIsUnfinished DEF Reader!End
  <2> QED BY <2>2 DEF Reader!Next
<1>3. CASE Cancel
  <2>1. outcome = "reading" /\ begin' = consumed /\ UNCHANGED <<stdout, outcome, Returned>>
    BY <1>3 DEF Cancel, Returned
  <2>2. consumed - begin \in 0..MaxLine /\ Reader!Lose(consumed - begin)
    BY <2>1, CollectedIsUnfinished DEF Reader!Lose
  <2> QED BY <2>2 DEF Reader!Next
<1>4. CASE NextRead
  <2>1. /\ outcome = "line" /\ outcome' = "reading" /\ begin' = consumed /\ stdout' = stdout
        /\ Returned = line /\ Returned' = <<>>
    BY <1>4 DEF NextRead, Returned
  <2>2. begin + Len(line) = consumed
    <3>1. /\ stdout \in Seq(Byte) /\ consumed \in 0..Len(stdout) /\ begin \in 0..consumed
          /\ line = Between(stdout, begin, consumed)
      BY DEF ReadInv, Counters, Collected
    <3>2. Len(line) = consumed - begin
      BY <3>1, BetweenIs
    <3> QED BY <3>1, <3>2
  <2> QED BY <2>1, <2>2 DEF Reader!Next, Reader!NextRead
<1>5. CASE ReadFails
  <2>1. outcome = "reading" /\ outcome' = "io_error" /\ UNCHANGED <<stdout, begin, Returned>>
    BY <1>5 DEF ReadFails, Returned
  <2> QED BY <2>1 DEF Reader!Next, Reader!Break
<1>6. CASE UNCHANGED <<stdout, begin, outcome, line>>
  BY <1>6 DEF Returned, Reader!readerVars
<1> QED
  BY <1>1, <1>2, <1>3, <1>4, <1>5, <1>6
     DEF Next, WriteStdout, WriteStderr, Fill, Drain, vars, lineVars

(* DaemonPipes implements LineReader (ImplementsReader): for every output  *)
(* of a daemon, every way to cut it and every limit, the reads of          *)
(* prove_claim return the lines of the stream one after the other, refuse  *)
(* just those that are too long, and lose nothing but what a heartbeat     *)
(* makes them lose, which never has the end of a line in it.               *)
THEOREM ReaderImplemented == Spec => ImplementsReader
<1>1. Init => Reader!Init
  BY StreamsAssumption DEF Init, Reader!Init, Returned
<1>2. ReadInv /\ ReadInv' /\ [Next]_vars => [Reader!Next]_(Reader!readerVars)
  BY ReaderStep
<1> QED BY <1>1, <1>2, ReadAlways, PTL DEF Spec, ImplementsReader, Reader!Spec

-----------------------------------------------------------------------------
(* stderr *)

LogBytes == {Log(i) : i \in Nat}

(* The n bytes of the log after the first a. *)
Window(a, n) == [i \in 1..n |-> Log(a + i)]

LEMMA WindowIs ==
  ASSUME NEW a \in Nat, NEW n \in Nat
  PROVE  /\ Window(a, n) \in Seq(LogBytes) /\ Len(Window(a, n)) = n
         /\ \A i \in 1..n : Window(a, n)[i] = Log(a + i)
<1>1. \A i \in 1..n : Log(a + i) \in LogBytes
  BY DEF LogBytes
<1> HIDE DEF LogBytes
<1> QED BY <1>1 DEF Window

LEMMA SubWindow ==
  ASSUME NEW a \in Nat, NEW n \in Nat, NEW m \in 0..n
  PROVE  Between(Window(a, n), m, n) = Window(a + m, n - m)
<1> DEFINE w == Window(a, n)
           v == Window(a + m, n - m)
           b == Between(w, m, n)
<1>1. w \in Seq(LogBytes) /\ Len(w) = n /\ \A i \in 1..n : w[i] = Log(a + i)
  BY WindowIs
<1>2. /\ v \in Seq(LogBytes) /\ Len(v) = n - m
      /\ \A i \in 1..(n - m) : v[i] = Log((a + m) + i)
  <2>1. a + m \in Nat /\ n - m \in Nat
    OBVIOUS
  <2> QED BY <2>1, WindowIs
<1> HIDE DEF w, v
<1>3. n \in 0..Len(w)
  BY <1>1
<1>4. b \in Seq(LogBytes) /\ Len(b) = n - m /\ \A i \in 1..(n - m) : b[i] = w[m + i]
  BY <1>1, <1>3, BetweenIs
<1> HIDE DEF b
<1>5. ASSUME NEW i \in 1..(n - m) PROVE b[i] = v[i]
  <2>1. m + i \in 1..n /\ (a + m) + i = a + (m + i)
    OBVIOUS
  <2> QED BY <1>1, <1>2, <1>4, <2>1
<1>6. b = v
  BY <1>2, <1>4, <1>5, SeqEqual
<1> QED BY <1>6 DEF b, v, w

LEMMA JoinWindows ==
  ASSUME NEW a \in Nat, NEW b \in Nat, NEW c \in Nat, a <= b, b <= c
  PROVE  Window(a, b - a) \o Window(b, c - b) = Window(a, c - a)
<1> DEFINE n == b - a
           k == c - b
           m == c - a
           u == Window(a, n)
           v == Window(b, k)
           w == Window(a, m)
<1>0. n \in Nat /\ k \in Nat /\ m \in Nat /\ a + n = b /\ n + k = m
  OBVIOUS
<1> HIDE DEF n, k, m
<1>1. u \in Seq(LogBytes) /\ Len(u) = n /\ \A i \in 1..n : u[i] = Log(a + i)
  BY <1>0, WindowIs
<1>2. v \in Seq(LogBytes) /\ Len(v) = k /\ \A i \in 1..k : v[i] = Log(b + i)
  BY <1>0, WindowIs
<1>3. w \in Seq(LogBytes) /\ Len(w) = m /\ \A i \in 1..m : w[i] = Log(a + i)
  BY <1>0, WindowIs
<1> HIDE DEF u, v, w
<1>4. /\ u \o v \in Seq(LogBytes) /\ Len(u \o v) = m
      /\ \A i \in 1..m : (u \o v)[i] = IF i <= n THEN u[i] ELSE v[i - n]
  <2>1. /\ u \o v \in Seq(LogBytes) /\ Len(u \o v) = Len(u) + Len(v)
        /\ \A i \in 1..(Len(u) + Len(v)) :
             (u \o v)[i] = IF i <= Len(u) THEN u[i] ELSE v[i - Len(u)]
    BY <1>1, <1>2, ConcatProperties
  <2> QED BY <1>0, <1>1, <1>2, <2>1
<1>5. ASSUME NEW i \in 1..m PROVE (u \o v)[i] = w[i]
  <2>1. CASE i <= n
    BY <1>0, <1>1, <1>3, <1>4, <2>1
  <2>2. CASE ~(i <= n)
    <3>1. i - n \in 1..k /\ b + (i - n) = a + i
      BY <1>0, <2>2
    <3>2. v[i - n] = Log(a + i)
      BY <1>2, <3>1
    <3> QED BY <1>3, <1>4, <2>2, <3>2
  <2> QED BY <2>1, <2>2
<1>6. u \o v = w
  BY <1>0, <1>3, <1>4, <1>5, SeqEqual
<1> QED BY <1>6 DEF u, v, w, n, k, m

(* BoundedStderr keeps the last MaxStderr bytes that were drained. *)
StartAt(n) == IF n > MaxStderr THEN n - MaxStderr ELSE 0

LogInv ==
  /\ logged \in 0..MaxLog /\ drained \in 0..logged /\ end_offset = drained
  /\ mark \in 0..drained /\ start_offset = StartAt(drained)
  /\ bytes = Window(start_offset, drained - start_offset)

LEMMA StartAtIs == ASSUME NEW n \in Nat PROVE StartAt(n) \in 0..n
BY SizesAssumption DEF StartAt

LEMMA DrainStep == LogInv /\ Drain => LogInv'
<1> SUFFICES ASSUME LogInv, Drain PROVE LogInv'
  OBVIOUS
<1> USE SizesAssumption
<1>1. PICK n \in drained + 1 .. Least(logged, drained + Buffer) :
        LET chunk == [i \in 1..(n - drained) |-> Log(drained + i)]
            all   == bytes \o chunk
        IN  /\ drained' = n
            /\ bytes' = Between(all, Excess(all), Len(all))
            /\ end_offset' = end_offset + Len(chunk)
            /\ start_offset' = StartAfter(all)
  BY DEF Drain
<1> DEFINE start == StartAt(drained)
           all == Window(start, n - start)
           excess == Excess(all)
<1>2. drained \in Nat /\ n \in Nat /\ drained < n /\ n <= logged
  BY <1>1 DEF LogInv, Least
<1>3. start \in 0..drained /\ start_offset = start
  BY <1>2, StartAtIs DEF LogInv
<1>4. bytes \o Window(drained, n - drained) = all
  <2>1. start \in Nat /\ start <= drained /\ drained <= n
    BY <1>2, <1>3
  <2> HIDE DEF start
  <2>2. bytes = Window(start, drained - start)
    BY <1>3 DEF LogInv
  <2>3. Window(start, drained - start) \o Window(drained, n - drained) = Window(start, n - start)
    BY <1>2, <2>1, JoinWindows
  <2> QED BY <2>2, <2>3
<1>5. Len(Window(drained, n - drained)) = n - drained
  <2>1. n - drained \in Nat
    BY <1>2
  <2> QED BY <1>2, <2>1, WindowIs
<1>6. /\ drained' = n /\ bytes' = Between(all, excess, Len(all))
      /\ end_offset' = end_offset + (n - drained) /\ start_offset' = start_offset + excess
  <2> HIDE DEF all, start
  <2> QED BY <1>1, <1>4, <1>5 DEF Window, StartAfter
<1>7. Len(all) = n - start
  <2> HIDE DEF start
  <2>1. start \in Nat /\ n - start \in Nat
    BY <1>2, <1>3
  <2> QED BY <2>1, WindowIs
<1>8. excess \in 0..(n - start) /\ start + excess = StartAt(n)
  <2> HIDE DEF all
  <2> QED BY <1>2, <1>7 DEF Excess, StartAt
<1>9. bytes' = Window(start + excess, n - (start + excess))
  <2> HIDE DEF all, excess, start
  <2>1. start \in Nat /\ n - start \in Nat
    BY <1>2, <1>3
  <2>2. Between(Window(start, n - start), excess, n - start)
          = Window(start + excess, (n - start) - excess)
    BY <1>8, <2>1, SubWindow
  <2>3. (n - start) - excess = n - (start + excess)
    BY <1>2, <1>3, <1>8
  <2> QED BY <1>6, <1>7, <2>2, <2>3 DEF all
<1> HIDE DEF all, excess, start
<1>10. /\ start_offset' = StartAt(n) /\ end_offset' = n
       /\ bytes' = Window(start_offset', drained' - start_offset')
  <2>1. start_offset' = start + excess
    BY <1>3, <1>6
  <2>2. end_offset' = n
    BY <1>2, <1>6 DEF LogInv
  <2> QED BY <1>6, <1>8, <1>9, <2>1, <2>2
<1>11. logged' \in 0..MaxLog /\ drained' \in 0..logged' /\ mark' \in 0..drained'
  BY <1>2, <1>6 DEF LogInv, Drain
<1> QED BY <1>6, <1>10, <1>11 DEF LogInv

LEMMA LogInvStep == LogInv /\ [Next]_vars => LogInv'
<1> SUFFICES ASSUME LogInv, [Next]_vars PROVE LogInv'
  OBVIOUS
<1> USE SizesAssumption
<1>1. CASE Drain
  BY <1>1, DrainStep
<1>2. CASE WriteStderr
  BY <1>2 DEF WriteStderr, LogInv
<1>3. CASE NextRead
  BY <1>3 DEF NextRead, LogInv
<1>4. CASE UNCHANGED logVars
  BY <1>4 DEF logVars, LogInv
<1> QED BY <1>1, <1>2, <1>3, <1>4 DEF Next, WriteStdout, Fill, Eof, ReadFails, Consume, Cancel, vars

LEMMA LogInvInit == Init => LogInv
<1> SUFFICES ASSUME Init PROVE LogInv
  OBVIOUS
<1>1. StartAt(0) = 0
  BY SizesAssumption DEF StartAt
<1>2. Len(Window(0, 0)) = 0 /\ Window(0, 0) \in Seq(LogBytes)
  BY WindowIs
<1>3. Window(0, 0) = <<>>
  <2> HIDE DEF Window
  <2> QED BY <1>2
<1> QED BY <1>1, <1>3, SizesAssumption DEF Init, LogInv

LEMMA LogAlways == Spec => []LogInv
BY LogInvInit, LogInvStep, PTL DEF Spec

(* Counters and offsets stay in their ranges. *)
THEOREM PipesTypeCorrect == Spec => []TypeOK
<1>1. ReadInv /\ LogInv => TypeOK
  <2> SUFFICES ASSUME ReadInv, LogInv PROVE TypeOK
    OBVIOUS
  <2>1. drained \in Nat
    BY SizesAssumption DEF LogInv
  <2>2. start_offset \in 0..drained
    BY <2>1, StartAtIs DEF LogInv
  <2>3. Len(bytes) = end_offset - start_offset
    <3>1. start_offset \in Nat /\ drained - start_offset \in Nat
      BY <2>1, <2>2
    <3> QED BY <3>1, WindowIs DEF LogInv
  <2> QED BY <2>2, <2>3 DEF ReadInv, Counters, LogInv, TypeOK
<1> QED BY <1>1, ReadAlways, LogAlways, PTL

(* What a result quotes of stderr is the end of what was appended since    *)
(* its request, for all sizes of the buffer and of the chunks.             *)
THEOREM TailIsQuoted == Spec => []SinceIsTail
<1>1. LogInv => SinceIsTail
  <2> SUFFICES ASSUME LogInv PROVE SinceIsTail
    OBVIOUS
  <2> USE SizesAssumption
  <2>1. /\ drained \in Nat /\ start_offset \in 0..drained /\ end_offset = drained
        /\ mark \in 0..drained /\ start_offset = StartAt(drained)
        /\ bytes = Window(start_offset, drained - start_offset)
    <3>1. drained \in Nat
      BY DEF LogInv
    <3> QED BY <3>1, StartAtIs DEF LogInv
  <2>2. Len(bytes) = drained - start_offset
    <3>1. start_offset \in Nat /\ drained - start_offset \in Nat
      BY <2>1
    <3> QED BY <2>1, <3>1, WindowIs
  <2>3. ASSUME NEW offset \in 0..drained PROVE Since(offset) = TailAfter(offset)
    <3> DEFINE from == Greatest(offset, start_offset)
    <3>1. from \in 0..drained /\ start_offset <= from /\ Least(from, drained) = from
      BY <2>1 DEF Greatest, Least
    <3>2. TailAfter(offset) = Window(from, drained - from)
      <4>1. Greatest(offset, IF drained > MaxStderr THEN drained - MaxStderr ELSE 0) = from
        BY <2>1 DEF StartAt
      <4> HIDE DEF from
      <4> QED BY <3>1, <4>1 DEF TailAfter, Window
    <3>3. Since(offset) = Between(bytes, from - start_offset, drained - start_offset)
      <4> HIDE DEF from
      <4>1. Since(offset) = Between(bytes, Least(from, end_offset) - start_offset, Len(bytes))
        BY DEF Since, from
      <4> QED BY <2>1, <2>2, <3>1, <4>1
    <3> HIDE DEF from
    <3>4. Between(Window(start_offset, drained - start_offset), from - start_offset,
                  drained - start_offset)
            = Window(start_offset + (from - start_offset),
                     (drained - start_offset) - (from - start_offset))
      <4>1. /\ start_offset \in Nat /\ drained - start_offset \in Nat
            /\ from - start_offset \in 0..(drained - start_offset)
        BY <2>1, <3>1
      <4> QED BY <4>1, SubWindow
    <3>5. /\ start_offset + (from - start_offset) = from
          /\ (drained - start_offset) - (from - start_offset) = drained - from
      BY <2>1, <3>1
    <3> QED BY <2>1, <3>2, <3>3, <3>4, <3>5
  <2>4. Len(bytes) = Least(drained, MaxStderr)
    BY <2>1, <2>2 DEF StartAt, Least
  <2>5. mark \in 0..drained /\ 0 \in 0..drained
    BY <2>1
  <2> QED BY <2>3, <2>4, <2>5 DEF SinceIsTail
<1> QED BY <1>1, LogAlways, PTL
=============================================================================
