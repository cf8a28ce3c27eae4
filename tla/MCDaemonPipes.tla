--------------------------- MODULE MCDaemonPipes ----------------------------
(* A small instance of DaemonPipes for TLC: all short outputs over a letter, *)
(* a newline and a byte that is no UTF-8, and a log whose bytes all differ.  *)
EXTENDS DaemonPipes

CONSTANT MaxStdout

AllStreams == UNION {[1..n -> Byte] : n \in 0..MaxStdout}

Numbered(i) == i
=============================================================================
