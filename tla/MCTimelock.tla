---------------------------- MODULE MCTimelock ----------------------------
(* Instances of Timelock for TLC: a chain of two operations, the first of  *)
(* which calls the one function that can be blocked.                       *)
EXTENDS Timelock

CONSTANTS o1, o2, s1

Chain == [o \in {o1, o2} |-> IF o = o2 THEN o1 ELSE NoPredecessor]
FirstCalls == [o \in {o1, o2} |-> IF o = o1 THEN {s1} ELSE {}]
=============================================================================
