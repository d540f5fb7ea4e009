------------------------- MODULE BundlePublication -------------------------
(***************************************************************************)
(* What the training-job queue promises to review, execution and registry: *)
(* of the attempts of a job at most one succeeds, its bundle appears whole *)
(* in the same step, and neither the outcome nor the bundle changes after  *)
(* that.  How stages, renames, leases and two stores bring this about is   *)
(* the business of TrainingPublication, which implements it.               *)
(***************************************************************************)
EXTENDS Naturals

VARIABLES
    status,         \* of the job
    attempt,        \* its attempt number
    bundle          \* the attempt whose bundle can be relied on, 0 for none

promise == <<status, attempt, bundle>>

Init == status = "absent" /\ attempt = 0 /\ bundle = 0

Enqueue ==
    /\ status = "absent"
    /\ status' = "queued"
    /\ attempt' = 1
    /\ UNCHANGED bundle

\* A claim; of a running job it is a reclaim and has a new number.
Start ==
    /\ \/ status = "queued" /\ attempt' = attempt
       \/ status = "running" /\ attempt' = attempt + 1
    /\ status' = "running"
    /\ UNCHANGED bundle

Publish ==
    /\ status = "running"
    /\ status' = "succeeded"
    /\ bundle' = attempt
    /\ UNCHANGED attempt

\* Failure and cancellation; a refused claim leaves a failed attempt behind,
\* with a number of its own.
GiveUp ==
    /\ status \in {"queued", "running"}
    /\ status' \in {"failed", "cancelled"}
    /\ attempt' \in {attempt, attempt + 1}
    /\ UNCHANGED bundle

Next == Enqueue \/ Start \/ Publish \/ GiveUp

Spec == Init /\ [][Next]_promise
=============================================================================
