--------------------------- MODULE MCBreakpoints ---------------------------
(***************************************************************************)
(* Breakpoints for TLC: the environments of the runs.                      *)
(***************************************************************************)
EXTENDS Breakpoints

CONSTANTS c1, c2, d1

Uniform == [h \in 1 .. 2 |-> [i \in 0 .. 1 |-> "full"]]

\* An SMP group, any hart of which may be out of reach.
Smp == [rtos |-> FALSE, faults |-> TRUE, kind |-> Uniform]

\* One target for all harts, and an SMP group whose triggers are all different,
\* both always in reach when they do not run.
Rtos == [rtos |-> TRUE, faults |-> FALSE, kind |-> Uniform]
SmpMixed == [rtos |-> FALSE, faults |-> FALSE,
             kind |-> <<[i \in 0 .. 1 |-> IF i = 0 THEN "full" ELSE "exec"],
                        [i \in 0 .. 1 |-> IF i = 0 THEN "data" ELSE "full"]>>]

\* One target for harts whose triggers are not the same.
RtosMixed == [rtos |-> TRUE, faults |-> FALSE,
              kind |-> <<[i \in 0 .. 1 |-> IF i = 0 THEN "data" ELSE "full"],
                         [i \in 0 .. 1 |-> "full"]>>]

Working == {Smp, Rtos, SmpMixed}
Mixed == {RtosMixed}
Refusing == {[RtosMixed EXCEPT !.kind = <<RtosMixed.kind[2], RtosMixed.kind[1]>>]}
OfUnknownType == {[Rtos EXCEPT !.kind = [h \in 1 .. 2 |-> [i \in 0 .. 1 |-> "other"]]]}
OutOfReach == {[Rtos EXCEPT !.faults = TRUE]}
Perfect == {[Smp EXCEPT !.faults = FALSE]}
Code == {c1, c2}
Ram == {c1}
Data == {d1}
=============================================================================
