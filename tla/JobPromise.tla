----------------------------- MODULE JobPromise -----------------------------
(***************************************************************************)
(* What core/jobs.py promises about background work, whatever runs it: a   *)
(* job has one key per project, type and input version; the work behind a  *)
(* key starts at most once; what has been recorded as finished stays       *)
(* finished.  JobQueue is shown to implement it.                           *)
(***************************************************************************)
CONSTANTS
    Keys,       \* the idempotency keys
    Starts      \* names for the starts of work

VARIABLES
    recorded,   \* keys with a task
    started,    \* pairs of a key and a start of its work
    finished    \* keys whose task has an outcome

jvars == <<recorded, started, finished>>

JobTypeOK ==
    /\ recorded \subseteq Keys
    /\ started \subseteq Keys \X Starts
    /\ finished \subseteq recorded

JobInit == recorded = {} /\ started = {} /\ finished = {}

RecordJob(k) ==
    /\ k \notin recorded
    /\ recorded' = recorded \cup {k}
    /\ UNCHANGED <<started, finished>>

StartJob(k, s) ==
    /\ k \in recorded
    /\ \A r \in Starts : <<k, r>> \notin started
    /\ started' = started \cup {<<k, s>>}
    /\ UNCHANGED <<recorded, finished>>

FinishJob(k) ==
    /\ k \in recorded \ finished
    /\ finished' = finished \cup {k}
    /\ UNCHANGED <<recorded, started>>

JobNext ==
    \E k \in Keys :
        \/ RecordJob(k)
        \/ \E s \in Starts : StartJob(k, s)
        \/ FinishJob(k)

JobSpec == JobInit /\ [][JobNext]_jvars

=============================================================================
