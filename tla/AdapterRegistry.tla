-------------------------- MODULE AdapterRegistry --------------------------
(***************************************************************************)
(* Phase 12.1B-D: a committed source is claimed for an adapter of one      *)
(* training job and one dataset; workers make the registry bundle.  A      *)
(* worker renews a lease; when it lapses the attempt is reclaimed and      *)
(* another made, of another worker: a process is known by its attempt.     *)
(*                                                                         *)
(* The job and the dataset are left out: an adapter depends on them from   *)
(* its row on, and SftBuild has the other side of that.  That they are     *)
(* still approved is a look of every checkpoint, which may fail.  The      *)
(* department may cease to be active and be active again between any two   *)
(* transactions: every transaction but one is of an active department, and *)
(* FailClaim of one that is not; a requester who lost the membership is as *)
(* an archived job, for whom no claim is live.                             *)
(***************************************************************************)
EXTENDS AdapterSource

VARIABLES
    adapter,     \* Adapter: its status and its current attempt
    lapsed       \* the lease of the running attempt has passed

registryVars == <<adapter, lapsed>>
adapterVars == <<sourceVars, registryVars>>

Registry == 1 .. MaxAttempts

AdapterStatus == {"none", "queued", "running", "validated", "failed"}

RegistryInit ==
    /\ adapter = [status |-> "none", attempt |-> 0]
    /\ lapsed = FALSE

\* _require_source_authority
SourceCommitted == source = "committed" /\ att[Import] = "committed"

Terminal(a) == att[a] \in {"failed", "reclaimed", "abandoned"}

(***************************************************************************)
(* Time.                                                                   *)
(***************************************************************************)

LapseLease ==
    /\ adapter.status = "running" /\ ~lapsed
    /\ lapsed' = TRUE
    /\ UNCHANGED <<sourceVars, adapter>>

(***************************************************************************)
(* enqueue_adapter_registry                                                *)
(***************************************************************************)

\* Mutant: attempts are counted from zero.
EnqueueAdapterFromZero ==
    /\ adapter.status = "none"
    /\ SourceCommitted
    /\ adapter' = [status |-> "queued", attempt |-> 0]
    /\ att' = [att EXCEPT ![Import] = "registered"]
    /\ source' = "claimed"
    /\ UNCHANGED <<manifest, dir, writer, lapsed>>

EnqueueAdapter ==
    /\ adapter.status = "none"
    /\ SourceCommitted
    /\ adapter' = [status |-> "queued", attempt |-> 1]
    /\ att' = [att EXCEPT ![1] = "registered"]
    /\ source' = "claimed"
    /\ UNCHANGED <<manifest, dir, writer, lapsed>>

(***************************************************************************)
(* claim_next_adapter                                                      *)
(***************************************************************************)

Claimable == adapter.status = "queued" \/ (adapter.status = "running" /\ lapsed)

\* The attempt that is at a running adapter is reclaimed, and keeps its
\* manifest.
Reclaims(a) == adapter.status = "running" /\ a = adapter.attempt

\* Neither the job, the dataset nor the requester is looked at.
ClaimAdapter ==
    /\ Claimable
    /\ source = "claimed"
    /\ LET next == adapter.attempt + (IF Reclaims(adapter.attempt) THEN 1 ELSE 0)
       IN  /\ next \in Registry
           /\ att' = [a \in Attempts |-> IF a = next THEN "running"
                                          ELSE IF Reclaims(a) THEN "reclaimed" ELSE att[a]]
           /\ adapter' = [status |-> "running", attempt |-> next]
           /\ Goto(next, "open")
    /\ lapsed' = FALSE
    /\ UNCHANGED <<source, manifest, dir>>

\* An attempt that fails before it is staged has no manifest.
Fail(a) ==
    /\ att' = [att EXCEPT ![a] = "failed"]
    /\ adapter' = [adapter EXCEPT !.status = "failed"]
    /\ lapsed' = FALSE

\* _terminal_claim_failure, in the transaction of the claim.
FailClaim ==
    /\ Claimable
    /\ Fail(adapter.attempt)
    /\ UNCHANGED <<source, manifest, dir, writer>>

(***************************************************************************)
(* process_adapter_registry                                                *)
(***************************************************************************)

\* The adapter as the worker of attempt n remembers it.
ClaimOf(n) == [status |-> "running", attempt |-> n]

\* _adapter_snapshot_matches
AdapterMatches(n) == adapter = ClaimOf(n)

\* _source_snapshot_matches
SourceMatches == source = "claimed" /\ att[Import] = "committed"

\* _verify_current_authority
AuthorityCurrent(n) == AdapterMatches(n) /\ SourceMatches

\* _live_claim
Live(n) == AuthorityCurrent(n) /\ ~lapsed

\* A step of a worker behind a checkpoint, or of a transaction of its own.
\* A worker that cannot take its step fails.  A checkpoint no action of its
\* own follows, as the one before publish_registry, is left out.
Checked(n, step, next) ==
    /\ writer[n] = step
    /\ Live(n)
    /\ Goto(n, next)

\* The bundles of the source and of the job are opened, and held.
OpenBundles(n) ==
    /\ Checked(n, "open", "mkdir")
    /\ WholeFinal(Import)
    /\ UNCHANGED <<source, att, manifest, dir, registryVars>>

\* prepare_registry_stage, then the files of the child.
StageRegistry(n) ==
    /\ CreateStage(n) \/ WriteFile(n)
    /\ UNCHANGED <<source, att, manifest, registryVars>>

MarkStaged(n) ==
    /\ Checked(n, "record", "unmark")
    /\ att' = [att EXCEPT ![n] = "staged"]
    /\ manifest' = manifest \cup {n}
    /\ UNCHANGED <<source, dir, registryVars>>

PublishRegistry(n) ==
    /\ RemoveMarker(n) \/ RenameToFinal(n)
    /\ UNCHANGED <<source, att, manifest, registryVars>>

\* With verify_registry_final before it.
MarkPublished(n) ==
    /\ Checked(n, "mark", "commit")
    /\ WholeFinal(n)
    /\ att' = [att EXCEPT ![n] = "published"]
    /\ UNCHANGED <<source, manifest, dir, registryVars>>

\* The directories held open are looked at once more in the transaction.
FinishSuccess(n) ==
    /\ Checked(n, "commit", "done")
    /\ WholeFinal(Import) /\ WholeFinal(n)
    /\ att[n] = "published"
    /\ adapter' = [adapter EXCEPT !.status = "validated"]
    /\ att' = [att EXCEPT ![n] = "succeeded"]
    /\ source' = "consumed"
    /\ UNCHANGED <<manifest, dir, lapsed>>

\* _record_failure: any error at any step; without a live claim nothing is
\* recorded, as when the process dies.
RecordFailure(n) ==
    /\ writer[n] \notin {"idle", "done"}
    /\ Live(n)
    /\ Fail(n)
    /\ Goto(n, "done")
    /\ UNCHANGED <<source, manifest, dir>>

RegistryNext ==
    \/ LapseLease
    \/ EnqueueAdapter \/ ClaimAdapter \/ FailClaim
    \/ \E n \in Registry :
          \/ OpenBundles(n) \/ StageRegistry(n) \/ MarkStaged(n)
          \/ PublishRegistry(n) \/ MarkPublished(n)
          \/ FinishSuccess(n) \/ RecordFailure(n)
=============================================================================
