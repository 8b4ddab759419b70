--------------------------- MODULE SnapshotReads ---------------------------
(***************************************************************************)
(* What SafeBucketContainer promises to the tasks that read it: between    *)
(* acquire_read and release_read a reader sees one frozen content, writes  *)
(* that arrive meanwhile are held back, and a held-back write keeps new    *)
(* readers out (unless the container is being stopped).                    *)
(***************************************************************************)
CONSTANT Readers

VARIABLES
    content,    \* what a reader sees, of no particular type
    active,     \* the readers inside acquire_read .. release_read
    pending,    \* some write is held back
    stopped     \* shutdown was requested

vars == <<content, active, pending, stopped>>

Init ==
    /\ active = {}
    /\ pending = FALSE
    /\ stopped = FALSE

Start(r) ==
    /\ r \notin active
    /\ pending => stopped
    /\ active' = active \cup {r}
    /\ UNCHANGED <<content, pending, stopped>>

Finish(r) ==
    /\ r \in active
    /\ active' = active \ {r}
    /\ UNCHANGED <<content, pending, stopped>>

HoldBack ==
    /\ active # {}
    /\ pending' = TRUE
    /\ UNCHANGED <<content, active, stopped>>

\* The content only changes while nobody reads.
Write ==
    /\ active = {}
    /\ pending' \in BOOLEAN
    /\ pending' => pending
    /\ UNCHANGED <<active, stopped>>

Stop ==
    /\ stopped' = TRUE
    /\ UNCHANGED <<content, active, pending>>

Next ==
    \/ \E r \in Readers : Start(r) \/ Finish(r)
    \/ HoldBack
    \/ Write
    \/ Stop

Spec == Init /\ [][Next]_vars
=============================================================================
