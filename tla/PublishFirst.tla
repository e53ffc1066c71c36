---------------------------- MODULE PublishFirst --------------------------
(***************************************************************************)
(* What both programs promise about the three stores, whatever crashes,    *)
(* fails or runs beside them: the database says that work is finished only *)
(* after the sink has the document.  A record or a closed row is what      *)
(* keeps work from being queued again, so the other order would lose a     *)
(* verdict for good (pipeline.flush, db.MarkDone, worker.finish).          *)
(***************************************************************************)
CONSTANTS
    Tasks,   \* (file, scanner) pairs
    Docs,    \* what can be published: the tasks, and the size gate's gaps
    Files

VARIABLES
    published,  \* documents in the sink
    recorded,   \* files recorded as scanned
    closed      \* tasks whose row is done or failed

vars == <<published, recorded, closed>>

Init == published = {} /\ recorded = {} /\ closed = {}

\* The sink takes documents, and never gives one back.
Publish ==
    /\ published' \in SUBSET Docs /\ published \subseteq published'
    /\ UNCHANGED <<recorded, closed>>

\* A file is recorded on the strength of a scanner's document, and in the
\* same step that scanner's task may be closed.
Record(f) ==
    /\ \E t \in Tasks \cap published : t[1] = f
    /\ recorded' = recorded \cup {f}
    /\ \/ UNCHANGED closed
       \/ \E t \in Tasks \cap published : t[1] = f /\ closed' = closed \cup {t}
    /\ UNCHANGED published

Close(t) ==
    /\ t \in published
    /\ closed' = closed \cup {t}
    /\ UNCHANGED <<published, recorded>>

\* A closed task may be scheduled again.
Reopen(t) ==
    /\ closed' = closed \ {t}
    /\ UNCHANGED <<published, recorded>>

Next ==
    \/ Publish
    \/ \E f \in Files : Record(f)
    \/ \E t \in Tasks : Close(t) \/ Reopen(t)

Spec == Init /\ [][Next]_vars
============================================================================
