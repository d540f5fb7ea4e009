--------------------------- MODULE VectorIndexing ---------------------------
(***************************************************************************)
(* Phase 6: the chunks of a succeeded extraction become points in Qdrant.  *)
(* Qdrant knows nothing of claims: every mutation of an index worker is    *)
(* preceded by a check of its claim in PostgreSQL, and may be late.  A     *)
(* point has the identity of its chunk, so that writing it replaces the    *)
(* point of any other attempt.                                             *)
(*                                                                         *)
(* Abstractions: a batch is one chunk; vectors, scores and the contract of *)
(* versions are left out; the retries of a delete are one attempt at it.   *)
(***************************************************************************)
EXTENDS DocumentExtraction

CONSTANTS
    MaxIndexings,  \* bound: indexings of the extraction
    MaxRows,       \* bound: extractions and indexings together
    NChunks        \* number of chunks of the extraction

ASSUME IndexingAssumption ==
    /\ MaxIndexings \in Nat \ {0}
    /\ MaxRows \in Nat
    /\ NChunks \in Nat \ {0}

VARIABLES
    index,   \* the index rows; the claim is also the vector attempt
    points,  \* the point of each chunk in Qdrant
    late     \* history: published points that were overwritten without a claim
             \* since an indexing last succeeded

indexVars == <<index, points, late>>

Indexings == 1 .. MaxIndexings
Chunks == 1 .. NChunks

\* An index row: its columns of status and lease are those of an extraction.
Indexing == Extraction

\* The attempt a point is of, and whether it is published.
NoVectorAttempt == <<0, 0>>
NoPoint == [attempt |-> NoVectorAttempt, published |-> FALSE]
Point == [attempt : (0 .. MaxIndexings) \X (0 .. MaxClaims), published : BOOLEAN]
Attempt(p) == <<proc[p].row, proc[p].token>>

IndexingInit ==
    /\ index = [n \in Indexings |-> NoRow]
    /\ points = [c \in Chunks |-> NoPoint]
    /\ late = {}

\* delete_document, which cancels what is queued.
DeleteDocument ==
    /\ document = "stored"
    /\ ~DepartmentLocked
    /\ document' = "deleted"
    /\ extraction' = CancelQueued(extraction)
    /\ index' = CancelQueued(index)
    /\ UNCHANGED <<source, staging, final, proc, points, late, faults>>

Extracted == \E n \in Extractions : extraction[n].status = "succeeded"

RowsLeft ==
    Cardinality({n \in Extractions : extraction[n].status # "none"})
      + Cardinality({n \in Indexings : index[n].status # "none"}) < MaxRows

EnqueueIndexing ==
    /\ document = "stored" /\ Extracted
    /\ ~DepartmentLocked
    /\ ~Conflict(index)
    /\ RowsLeft
    /\ index' \in WithQueued(index)
    /\ UNCHANGED <<documentVars, extractionVars, proc, points, late, faults>>

\* retry_indexing: a new row for a failed one.
RetryIndexing(n) ==
    /\ document = "stored" /\ Extracted
    /\ ~DepartmentLocked
    /\ index[n].status = "failed"
    /\ ~Conflict(index)
    /\ RowsLeft
    /\ index' \in WithQueued(index)
    /\ UNCHANGED <<documentVars, extractionVars, proc, points, late, faults>>

\* claim_next, which skips a row that is locked.
ClaimIndexing(p) ==
    /\ proc[p].phase = "idle"
    /\ \E n \in Indexings :
          /\ RowClaimable(index[n])
          /\ ~\E q \in Processes : proc[q].phase = "activated" /\ proc[q].row = n
          /\ index[n].claims < MaxClaims
          /\ index' = [index EXCEPT ![n] = Claimed(@)]
          /\ LET stale == IF index[n].status = "running" THEN index[n].token ELSE 0
             IN  proc' = [proc EXCEPT ![p] = [IdleProcess EXCEPT
                    !.phase = IF stale = 0 THEN "index.load" ELSE "index.stale",
                    !.row = n, !.token = index[n].claims + 1, !.stale = stale]]
    /\ UNCHANGED <<documentVars, extractionVars, points, late, faults>>

\* On to _cleanup_current; no batch is at hand any more.
GoCleanUp(p, stop) ==
    proc' = [proc EXCEPT ![p].phase = "index.clean", ![p].chunk = 0, ![p].stop = stop]

\* renew_lease and require_live_claim, before a mutation of Qdrant.
CheckClaim(p, from, to) ==
    /\ proc[p].phase = from
    /\ IF Owns(p, index) THEN Goto(p, to) ELSE GoCleanUp(p, FALSE)
    /\ UNCHANGED <<documentVars, extractionVars, indexVars, faults>>

\* Any error of the runtime, of the artifacts, of Qdrant or the database,
\* and a request to stop, which is looked for between the two clean-ups of
\* the stale attempt only: _cleanup_current is next.
IndexingFails(p) ==
    /\ proc[p].phase \in {"index.stale", "index.load", "index.batch",
                          "index.stale2", "index.activate"}
    /\ \E stop \in BOOLEAN :
          /\ stop => \/ proc[p].phase \in {"index.load", "index.batch", "index.stale2"}
                     \/ proc[p].phase = "index.activate" /\ proc[p].stale = 0
          /\ GoCleanUp(p, stop)
    /\ UNCHANGED <<documentVars, extractionVars, indexVars, faults>>

\* delete_attempt
WithoutAttempt(attempt) ==
    [c \in Chunks |-> IF points[c].attempt = attempt THEN NoPoint ELSE points[c]]

\* _cleanup_stale_attempt, before the first batch and after the last.
DeleteStaleAttempt(p) ==
    /\ proc[p].phase \in {"index.deleteStale", "index.deleteStale2"}
    /\ points' = WithoutAttempt(<<proc[p].row, proc[p].stale>>)
    /\ Goto(p, IF proc[p].phase = "index.deleteStale" THEN "index.load" ELSE "index.activate")
    /\ UNCHANGED <<documentVars, extractionVars, index, late, faults>>

\* load_artifact_expectation, Phase5ArtifactReader
LoadArtifacts(p) ==
    /\ proc[p].phase = "index.load"
    /\ IF /\ document = "stored"
          /\ \E n \in Extractions : extraction[n].status = "succeeded" /\ final[n] = "whole"
       THEN proc' = [proc EXCEPT ![p].phase = "index.batch", ![p].chunk = 1]
       ELSE Goto(p, "index.clean")
    /\ UNCHANGED <<documentVars, extractionVars, indexVars, faults>>

\* upsert_staging
UpsertStaging(p) ==
    /\ proc[p].phase = "index.upsert"
    /\ points' = [points EXCEPT ![proc[p].chunk] =
                    [attempt |-> Attempt(p), published |-> FALSE]]
    /\ late' = IF points[proc[p].chunk].published /\ ~Owns(p, index)
               THEN late \union {proc[p].chunk} ELSE late
    /\ proc' = [proc EXCEPT
          ![p].wrote = TRUE,
          ![p].chunk = IF @ < NChunks THEN @ + 1 ELSE 0,
          ![p].phase = IF proc[p].chunk < NChunks THEN "index.batch"
                       ELSE IF proc[p].stale # 0 THEN "index.stale2" ELSE "index.activate"]
    /\ UNCHANGED <<documentVars, extractionVars, index, faults>>

\* Mutant: the points are not counted.
AttemptCompleteUnseen(p, published) == TRUE

\* count_attempt and inspect_attempt: every chunk, and nothing else.
AttemptComplete(p, published) ==
    \A c \in Chunks : points[c] = [attempt |-> Attempt(p), published |-> published]

\* finalize_success up to activate_attempt, which publishes the points of
\* the attempt that are not; its locks stay.
ActivateAttempt(p) ==
    /\ proc[p].phase = "index.activate"
    /\ ~DepartmentLocked
    /\ IF document = "stored" /\ Extracted /\ Owns(p, index) /\ AttemptComplete(p, FALSE)
       THEN /\ points' = [c \in Chunks |->
                   IF points[c].attempt = Attempt(p) THEN [points[c] EXCEPT !.published = TRUE]
                   ELSE points[c]]
            /\ Goto(p, "activated")
       ELSE Goto(p, "index.clean") /\ UNCHANGED points
    /\ UNCHANGED <<documentVars, extractionVars, index, late, faults>>

\* finalize_success from there to its commit.
FinalizeIndexing(p) ==
    /\ proc[p].phase = "activated"
    /\ index[proc[p].row].live
    /\ AttemptComplete(p, TRUE)
    /\ late' = {}
    /\ index' = [index EXCEPT ![proc[p].row].status = "succeeded",
                              ![proc[p].row].live = FALSE]
    /\ End(p)
    /\ UNCHANGED <<documentVars, extractionVars, points, faults>>

\* A count that differs, a lease that lapsed, an error: the points stay as
\* they are until _cleanup_current.
ActivationFails(p) ==
    /\ proc[p].phase = "activated"
    /\ Goto(p, "index.clean")
    /\ UNCHANGED <<documentVars, extractionVars, indexVars, faults>>

\* _cleanup_current: nothing written or no claim any more, nothing deleted.
CheckCleanup(p) ==
    /\ proc[p].phase = "index.clean"
    /\ Goto(p, IF proc[p].wrote /\ Owns(p, index) THEN "index.delete" ELSE "index.end")
    /\ UNCHANGED <<documentVars, extractionVars, indexVars, faults>>

\* delete_attempt of the own attempt; if it fails the row is failed, also
\* when the worker was asked to stop.
DeleteAttempt(p) ==
    /\ proc[p].phase = "index.delete"
    /\ \/ points' = WithoutAttempt(Attempt(p)) /\ Goto(p, "index.end") /\ UNCHANGED faults
       \/ /\ UNCHANGED points
          /\ Fault
          /\ proc' = [proc EXCEPT ![p].stop = FALSE, ![p].phase = "index.end"]
    /\ UNCHANGED <<documentVars, extractionVars, index, late>>

\* requeue_owned or fail_owned
EndIndexing(p) ==
    /\ proc[p].phase = "index.end"
    /\ index' = Released(p, index)
    /\ End(p)
    /\ UNCHANGED <<documentVars, extractionVars, points, late, faults>>

IndexingLapses ==
    /\ \E n \in Indexings :
          /\ index[n].status = "running" /\ index[n].live
          /\ index' = [index EXCEPT ![n].live = FALSE]
    /\ Fault
    /\ UNCHANGED <<documentVars, extractionVars, proc, points, late>>

IndexingPhases == {"index.stale", "index.deleteStale", "index.load", "index.batch",
                   "index.upsert", "index.stale2", "index.deleteStale2",
                   "index.activate", "activated", "index.clean", "index.delete",
                   "index.end"}

CrashInIndexing(p) ==
    /\ proc[p].phase \in IndexingPhases
    /\ End(p)
    /\ Fault
    /\ UNCHANGED <<documentVars, extractionVars, indexVars>>

IndexingNext ==
    \/ DeleteDocument \/ EnqueueIndexing \/ IndexingLapses
    \/ \E n \in Indexings : RetryIndexing(n)
    \/ \E p \in Processes :
          \/ ClaimIndexing(p) \/ IndexingFails(p)
          \/ CheckClaim(p, "index.stale", "index.deleteStale")
          \/ CheckClaim(p, "index.batch", "index.upsert")
          \/ CheckClaim(p, "index.stale2", "index.deleteStale2")
          \/ DeleteStaleAttempt(p) \/ LoadArtifacts(p) \/ UpsertStaging(p)
          \/ ActivateAttempt(p) \/ FinalizeIndexing(p) \/ ActivationFails(p)
          \/ CheckCleanup(p) \/ DeleteAttempt(p) \/ EndIndexing(p) \/ CrashInIndexing(p)

\* What a succeeded index row promises is in Qdrant, published and of its
\* attempt, for every chunk, whatever earlier attempts left there; the one
\* exception is a point that was published and that a worker overwrote, after
\* the row had succeeded, with a claim that was gone.
SucceededPoints ==
    \A n \in Indexings : index[n].status = "succeeded" =>
        \A c \in Chunks \ late :
            points[c] = [attempt |-> <<n, index[n].token>>, published |-> TRUE]
=============================================================================
