----------------------------- MODULE DurableLog -----------------------------
(***************************************************************************)
(* What a partition store promises to the queue: a log that grows at its   *)
(* end, in which a record, once its append was acknowledged, stays at its  *)
(* offset for ever.  A record whose append was not acknowledged may stay   *)
(* or be lost, from the end only.  All this until the disk fails.          *)
(***************************************************************************)
EXTENDS Naturals, Sequences

CONSTANT Message

VARIABLES
    log,   \* the messages stored, in offset order
    kept,  \* the positions of log whose append was acknowledged
    intact \* no call to the disk has failed

Init ==
    /\ log = <<>>
    /\ kept = {}
    /\ intact = TRUE

(* A record reaches the end of the log.                                    *)
Write(m) ==
    /\ log' = Append(log, m)
    /\ UNCHANGED <<kept, intact>>

(* The append of the last record is acknowledged.                          *)
Acknowledge ==
    /\ log # <<>>
    /\ kept' = kept \union {Len(log)}
    /\ UNCHANGED <<log, intact>>

(* A crash loses a suffix that holds nothing acknowledged.                 *)
Lose(n) ==
    /\ \A i \in kept : i <= n
    /\ log' = SubSeq(log, 1, n)
    /\ UNCHANGED <<kept, intact>>

(* A call to the disk fails: from here on nothing is promised.             *)
Break == intact' = FALSE

Next ==
    \/ \E m \in Message : Write(m)
    \/ Acknowledge
    \/ \E n \in 0..Len(log) : Lose(n)
    \/ Break

Spec == Init /\ [][Next]_<<log, kept, intact>>
=============================================================================
