------------------------------- MODULE MCPoll -------------------------------
(***************************************************************************)
(* Instances of Poll: a condition, a stream fed by a thread and a stream   *)
(* fed by an interrupt.                                                    *)
(***************************************************************************)
EXTENDS Poll, TLC

CONSTANTS p1, p2, s1, s2, cond, pipe, uart

MCLevel == [o \in Objects |-> IF o = uart THEN SCHED ELSE SWITCH]
MCPrio == [s \in Sleepers |-> IF s = s1 THEN 1 ELSE 2]

PollerSymmetry == Permutations(Pollers)

MCAll == <<pipe, uart, Nobody, cond>>
MCTwo == <<Nobody, cond, uart>>
MCOne == <<uart>>
=============================================================================
