------------------------- MODULE DeploymentPromise -------------------------
(***************************************************************************)
(* What adapter governance promises of the adapter a department answers    *)
(* with: the pointer moves one explicit step at a time, the adapter it     *)
(* leaves is kept for a rollback until somebody releases it, and an        *)
(* adapter is withdrawn for good only when nothing points at it or keeps   *)
(* it.                                                                     *)
(***************************************************************************)
CONSTANTS Adapters, Base

VARIABLES
    pointer,        \* the adapter that is deployed, or Base
    kept,           \* the adapters kept for a rollback
    withdrawn       \* the adapters given to purge

promiseVars == <<pointer, kept, withdrawn>>

PromiseInit ==
    /\ pointer = Base
    /\ kept = {}
    /\ withdrawn = {}

\* What is kept once the pointer leaves its target.
KeptWithOutgoing == kept \union ({pointer} \ {Base})

Promote(a) ==
    /\ a # pointer
    /\ a \notin withdrawn
    /\ pointer' = a
    /\ kept' = KeptWithOutgoing
    /\ UNCHANGED withdrawn

RollBackToAdapter(a) ==
    /\ a # pointer
    /\ a \in kept
    /\ pointer' = a
    /\ kept' = KeptWithOutgoing \ {a}
    /\ UNCHANGED withdrawn

RollBackToBase ==
    /\ pointer # Base
    /\ pointer' = Base
    /\ kept' = KeptWithOutgoing
    /\ UNCHANGED withdrawn

Release(a) ==
    /\ a \in kept
    /\ a # pointer
    /\ kept' = kept \ {a}
    /\ UNCHANGED <<pointer, withdrawn>>

Withdraw(a) ==
    /\ a \notin withdrawn
    /\ a \notin kept \union {pointer}
    /\ withdrawn' = withdrawn \union {a}
    /\ UNCHANGED <<pointer, kept>>

PromiseNext ==
    \/ RollBackToBase
    \/ \E a \in Adapters :
          Promote(a) \/ RollBackToAdapter(a) \/ Release(a) \/ Withdraw(a)

PromiseSpec == PromiseInit /\ [][PromiseNext]_promiseVars
=============================================================================
