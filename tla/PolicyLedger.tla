---------------------------- MODULE PolicyLedger ----------------------------
(***************************************************************************)
(* What publishing policy means, whatever stores it: a published proposal  *)
(* is the next version and stays it, no proposal is published twice, and   *)
(* the event of a version is acknowledged once.  A person decides each     *)
(* proposal once where the store has transactions; elsewhere a proposal    *)
(* may be turned down although it has been published, and a publication    *)
(* may bring back some that have been turned down.  PolicyLoop is shown to *)
(* implement it.                                                           *)
(***************************************************************************)
EXTENDS Naturals, Sequences

CONSTANT Proposals

VARIABLES
    transactional,  \* whether the store has transactions
    ledger,         \* the published proposals, in the order of their versions
    discarded,      \* the proposals turned down
    acknowledged    \* positions of the ledger whose event has been sent

lvars == <<transactional, ledger, discarded, acknowledged>>

LedgerInit ==
    /\ transactional \in BOOLEAN
    /\ ledger = << >> /\ discarded = {} /\ acknowledged = {}

Unpublished(r) == \A i \in DOMAIN ledger : ledger[i] # r

RecordPublication(r) ==
    /\ Unpublished(r)
    /\ ledger' = Append(ledger, r)
    /\ IF transactional
       THEN r \notin discarded /\ UNCHANGED discarded
       ELSE discarded' \in SUBSET discarded
    /\ UNCHANGED <<transactional, acknowledged>>

RecordDiscard(r) ==
    /\ r \notin discarded
    /\ transactional => Unpublished(r)
    /\ discarded' = discarded \cup {r}
    /\ UNCHANGED <<transactional, ledger, acknowledged>>

Acknowledge(i) ==
    /\ i \in DOMAIN ledger /\ i \notin acknowledged
    /\ acknowledged' = acknowledged \cup {i}
    /\ UNCHANGED <<transactional, ledger, discarded>>

LedgerNext ==
    \/ \E r \in Proposals : RecordPublication(r) \/ RecordDiscard(r)
    \/ \E i \in DOMAIN ledger : Acknowledge(i)

LedgerSpec == LedgerInit /\ [][LedgerNext]_lvars

=============================================================================
