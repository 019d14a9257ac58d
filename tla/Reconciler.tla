----------------------------- MODULE Reconciler -----------------------------
(***************************************************************************)
(* What a load-balancer backend promises: it owns a set of items in the    *)
(* kernel, is told again and again what that set should be, and repairs    *)
(* the difference.  It may be disturbed a bounded number of times (calls   *)
(* that fail, a crash, somebody else changing the kernel), but it never    *)
(* removes an item that is wanted nor adds one that is not, and in the end *)
(* the difference is gone.                                                 *)
(***************************************************************************)
EXTENDS Naturals

CONSTANTS
    Items,         \* everything the backend can own
    Targets,       \* the sets it can be told to own
    Disturbances,  \* how often it may be disturbed
    Changes        \* how often it may be told something new

VARIABLES desired, actual, disturbed, changed

vars == <<desired, actual, disturbed, changed>>

Init ==
    /\ desired \in Targets
    /\ actual \in SUBSET Items
    /\ disturbed = 0
    /\ changed = 0

Retarget ==
    /\ changed < Changes
    /\ changed' = changed + 1
    /\ desired' \in Targets
    /\ UNCHANGED <<actual, disturbed>>

Add == \E i \in desired \ actual : actual' = actual \cup {i}

\* Deleting a virtual server takes its real servers along.
Remove == \E U \in SUBSET (actual \ desired) : U # {} /\ actual' = actual \ U

Repair == (Add \/ Remove) /\ UNCHANGED <<desired, disturbed, changed>>

Disturb ==
    /\ disturbed < Disturbances
    /\ disturbed' = disturbed + 1
    /\ actual' \in SUBSET Items
    /\ UNCHANGED <<desired, changed>>

Next == Retarget \/ Repair \/ Disturb

Spec == Init /\ [][Next]_vars /\ WF_vars(Repair)

-----------------------------------------------------------------------------
\* Build's promise to the sync loop: after the last disturbance and the last
\* change of services or endpoints the kernel comes to hold what is wanted,
\* and keeps it.
Settles == <>[](actual = desired)
=============================================================================
