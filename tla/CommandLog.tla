----------------------------- MODULE CommandLog -----------------------------
(***************************************************************************)
(* What the circular buffer promises its user: a log of the most recent    *)
(* commands, oldest first.  Pushing a command onto a log that already      *)
(* holds Capacity of them drops the oldest one.                            *)
(***************************************************************************)
EXTENDS Naturals, Sequences

CONSTANTS
    Capacity,  \* how many commands the log keeps
    Command    \* the commands that can be pushed

VARIABLE log

Init == log = <<>>

Push(c) ==
    log' = IF Len(log) < Capacity
           THEN Append(log, c)
           ELSE Append(Tail(log), c)

Next == \E c \in Command : Push(c)

Spec == Init /\ [][Next]_log
=============================================================================
