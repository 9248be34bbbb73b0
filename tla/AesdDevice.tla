----------------------------- MODULE AesdDevice -----------------------------
(***************************************************************************)
(* /dev/aesdchar as a program that uses it may think of it: the last       *)
(* Capacity newline-terminated commands, the bytes of a command that has   *)
(* no newline yet, and whether the device still answers.  AesdDriver       *)
(* implements this module; AesdSocket uses it.                             *)
(***************************************************************************)
EXTENDS Naturals, Sequences, SequencesExt

CONSTANTS
    Capacity,  \* how many commands the device keeps
    Chunk,     \* what a program may pass to one write: sequences of bytes
    Newline    \* the byte that ends a command

VARIABLES
    log,      \* the commands, oldest first
    partial,  \* the bytes written since the last newline
    jammed    \* a failed seek has left the device locked

vars == <<log, partial, jammed>>

Log == INSTANCE CommandLog WITH Command <- Seq(UNION {ToSet(c) : c \in Chunk})

-----------------------------------------------------------------------------

\* A write takes its data up to and including the first newline; the bytes
\* after it are not taken.
HasNewline(data) == Newline \in ToSet(data)

Taken(data) == IF HasNewline(data)
               THEN SubSeq(data, 1, SelectInSeq(data, LAMBDA b : b = Newline))
               ELSE data

\* All commands end to end: what a reader that starts at 0 and reads until it
\* gets nothing receives.
Contents == FlattenSeq(log)

-----------------------------------------------------------------------------

Init == log = <<>> /\ partial = <<>> /\ jammed = FALSE

WriteLine(data) ==
    /\ ~jammed
    /\ HasNewline(data)
    /\ Log!Push(partial \o Taken(data))
    /\ partial' = <<>>
    /\ UNCHANGED jammed

WritePart(data) ==
    /\ ~jammed
    /\ ~HasNewline(data)
    /\ partial' = partial \o data
    /\ UNCHANGED <<log, jammed>>

\* A write that runs out of memory while it extends a partial command loses
\* what was collected of it.
LosePartial ==
    /\ ~jammed
    /\ partial' = <<>>
    /\ UNCHANGED <<log, jammed>>

\* A seek to a command or an offset that does not exist never gives the
\* device back.
FailSeek ==
    /\ ~jammed
    /\ jammed' = TRUE
    /\ UNCHANGED <<log, partial>>

\* The module is unloaded, and perhaps loaded again.
Reset == log' = <<>> /\ partial' = <<>> /\ jammed' = FALSE

Next ==
    \/ \E data \in Chunk : WriteLine(data) \/ WritePart(data)
    \/ LosePartial
    \/ FailSeek
    \/ Reset

Spec == Init /\ [][Next]_vars
=============================================================================
