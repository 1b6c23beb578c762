--------------------------- MODULE ElementRanges ---------------------------
(***************************************************************************)
(* The element check of internal/domain/element.go: the readings of a      *)
(* spectrum report against the element ranges of a grade rule.  It decides *)
(* the Boolean that SubmitSpectrumReport of DailyService takes as input.   *)
(*                                                                         *)
(* Names of elements are any values, "" the empty one; contents are        *)
(* integers, of which only the order matters (JSON has no NaN).            *)
(***************************************************************************)
EXTENDS Integers, Sequences

ElementRange == [element : STRING, min : Int, max : Int]
ElementReading == [element : STRING, value : Int]

Distinct(seq) ==
    \A i, j \in 1..Len(seq) : seq[i].element = seq[j].element => i = j

ValidRanges(ranges) ==
    /\ ranges # <<>>
    /\ Distinct(ranges)
    /\ \A i \in 1..Len(ranges) :
          /\ ranges[i].element # ""
          /\ 0 <= ranges[i].min /\ ranges[i].min <= ranges[i].max /\ ranges[i].max <= 100

ValidReadings(readings) ==
    /\ readings # <<>>
    /\ Distinct(readings)
    /\ \A i \in 1..Len(readings) :
          /\ readings[i].element # ""
          /\ 0 <= readings[i].value /\ readings[i].value <= 100

\* The map byElement: a later reading of the same element overwrites an earlier one.
Measured(readings, element, value) ==
    \E i \in 1..Len(readings) :
        /\ readings[i].element = element
        /\ readings[i].value = value
        /\ \A j \in 1..Len(readings) : readings[j].element = element => j <= i

Reason == {"missing_reading", "below_min", "above_max"}

\* Does the loop body append a violation of this reason for the range rg?
Violates(rg, readings, reason) ==
    \/ /\ reason = "missing_reading"
       /\ \A x \in Int : ~Measured(readings, rg.element, x)
    \/ /\ reason = "below_min"
       /\ \E x \in Int : Measured(readings, rg.element, x) /\ x < rg.min
    \/ /\ reason = "above_max"
       /\ \E x \in Int : Measured(readings, rg.element, x) /\ rg.max < x

\* Positions of the ranges that yield a violation, each with its reason.
CheckReadingsInRange(ranges, readings) ==
    {v \in (1..Len(ranges)) \X Reason : Violates(ranges[v[1]], readings, v[2])}
=============================================================================
