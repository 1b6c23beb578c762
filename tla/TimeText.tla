------------------------------ MODULE TimeText ------------------------------
(***************************************************************************)
(* The text of an instant in the database (internal/repository/util.go):   *)
(* RFC3339Nano drops the trailing zeros of the fraction, and the point     *)
(* with them when none is left, before the Z that ends the text.  SQLite   *)
(* compares such texts byte by byte: run_at of a job with the time of the  *)
(* tick, and the two ends of the windows of the reports.                   *)
(*                                                                         *)
(* Seconds are numbers, in the order of their fixed-width text, and a      *)
(* fraction is its digits from the most significant to the last one.       *)
(***************************************************************************)
EXTENDS Integers

Fractions(digits) == [1..digits -> 0..9]

ZerosFrom(f, i, digits) == \A j \in i..digits : f[j] = 0

\* The i-th character of a fraction: the Z, above every digit, takes the
\* place of the first dropped zero.  The point is below every digit and
\* below Z, and there as long as some digit is: at its place two fractions
\* compare as at their first digit.
Zulu == 10

Character(f, i, digits) == IF ZerosFrom(f, i, digits) THEN Zulu ELSE f[i]

\* The order of the instants, at the first digit where they differ.
EarlierFraction(f, g, digits) ==
    \E i \in 1..digits : f[i] < g[i] /\ \A j \in 1..(i - 1) : f[j] = g[j]

Earlier(s, f, t, g, digits) ==
    s < t \/ (s = t /\ EarlierFraction(f, g, digits))

\* The order of the texts, at the first character where they differ.
TextBefore(s, f, t, g, digits) ==
    \/ s < t
    \/ /\ s = t
       /\ \E i \in 1..digits :
             /\ Character(f, i, digits) < Character(g, i, digits)
             /\ \A j \in 1..(i - 1) : Character(f, j, digits) = Character(g, j, digits)

\* What is left of f once its zeros are dropped begins the digits of g.
BeginsWith(f, g, digits) ==
    \E i \in 1..digits : ZerosFrom(f, i, digits) /\ \A j \in 1..(i - 1) : f[j] = g[j]
=============================================================================
