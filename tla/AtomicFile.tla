----------------------------- MODULE AtomicFile -----------------------------
(***************************************************************************)
(* What D10 promises of a file: a reader finds one whole document, a write *)
(* that returned survives a power loss, and a write that did not return    *)
(* leaves the old document or the new one.                                 *)
(***************************************************************************)
EXTENDS Naturals

CONSTANTS Docs, None

VARIABLES
    val,    \* what a reader finds: a document, or None for no file
    safe,   \* what a power loss may leave
    busy,   \* the document being written, or None
    acked   \* the document whose write returned, until the next one begins

vars == <<val, safe, busy, acked>>

Init == val = None /\ safe = {None} /\ busy = None /\ acked = None

Begin(d) ==
    /\ busy = None /\ busy' = d /\ acked' = None
    /\ UNCHANGED <<val, safe>>

Commit ==
    /\ busy # None /\ val' = busy /\ safe' = safe \cup {busy}
    /\ UNCHANGED <<busy, acked>>

Return ==
    /\ busy # None /\ val = busy
    /\ safe' = {val} /\ busy' = None /\ acked' = val
    /\ UNCHANGED val

\* An exception, or the death of the process: the write may have happened.
Abort ==
    /\ busy # None /\ busy' = None
    /\ UNCHANGED <<val, safe, acked>>

PowerLoss ==
    /\ val' \in safe /\ safe' = {val'} /\ busy' = None
    /\ UNCHANGED acked

Next ==
    \/ \E d \in Docs : Begin(d)
    \/ Commit
    \/ Return
    \/ Abort
    \/ PowerLoss

Spec == Init /\ [][Next]_vars

\* What was promised to the caller of a write that returned.
Durable == acked # None => val = acked /\ safe = {acked}

=============================================================================
