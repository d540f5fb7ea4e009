------------------------- MODULE DocumentExtraction -------------------------
(***************************************************************************)
(* Phases 4 and 5: the upload of a document, and the queue that extracts   *)
(* its text.  The row of an extraction is the authority, its final         *)
(* directory has the bytes; the final is published inside the last         *)
(* transaction of the worker, and taken back outside of it.                *)
(*                                                                         *)
(* Abstractions: one department, active, with its quota; one document and  *)
(* one version of the pipeline, so that a succeeded extraction is current; *)
(* a lease is live or has lapsed; a commit that fails has not happened;    *)
(* what heartbeat, parser and chunking do between two steps is one step.   *)
(***************************************************************************)
EXTENDS Naturals, FiniteSets

CONSTANTS
    Processes,       \* requests and workers, each at one thing at a time
    MaxExtractions,  \* bound: extractions of the document
    MaxClaims,       \* bound: claims of one row
    MaxFaults        \* bound: leases that lapse, processes that end, failed
                     \* commits and failed clean-ups

ASSUME ExtractionAssumption ==
    /\ MaxExtractions \in Nat \ {0}
    /\ MaxClaims \in Nat \ {0}
    /\ MaxFaults \in Nat

VARIABLES
    document,    \* the status of the document row
    source,      \* its bytes under uploads/
    extraction,  \* the extraction rows
    staging,     \* the claim directories that exist, as <<row, token>>
    final,       \* the final directory of each extraction
    proc,        \* the memory of each process
    faults       \* how much of MaxFaults is used

documentVars == <<document, source>>
extractionVars == <<extraction, staging, final>>

Extractions == 1 .. MaxExtractions

\* A leased row: token is its claim, claims counts the tokens given out.
QueueStatus == {"none", "queued", "running", "succeeded", "failed", "cancelled"}
Extraction == [status : QueueStatus, token : 0 .. MaxClaims, live : BOOLEAN,
               claims : 0 .. MaxClaims]
NoRow == [status |-> "none", token |-> 0, live |-> FALSE, claims |-> 0]

\* Memory of a process: the row and claim it works on, the claim it found
\* there, the chunk it is at or 0, whether it may have written points,
\* whether it was asked to stop, and the hits of a search.
IdleProcess == [phase |-> "idle", row |-> 0, token |-> 0, stale |-> 0, chunk |-> 0,
                wrote |-> FALSE, stop |-> FALSE, hits |-> {}]

ExtractionInit ==
    /\ document = "none"
    /\ source = "none"
    /\ extraction = [n \in Extractions |-> NoRow]
    /\ staging = {}
    /\ final = [n \in Extractions |-> "none"]
    /\ proc = [p \in Processes |-> IdleProcess]
    /\ faults = 0

Fault == faults < MaxFaults /\ faults' = faults + 1

Goto(p, phase) == proc' = [proc EXCEPT ![p].phase = phase]
End(p) == proc' = [proc EXCEPT ![p] = IdleProcess]

\* The transaction that activates an index (finalize_success of the index
\* queue) holds department, document, extraction and index row until it
\* commits, while it talks to Qdrant.  Whoever authorizes under the lock of
\* the department (authorize_transaction), or ends an extraction, waits.
DepartmentLocked == \E q \in Processes : proc[q].phase = "activated"

(***************************************************************************)
(* Leased rows, of extractions and of indexes.                             *)
(***************************************************************************)

RowClaimable(row) == row.status = "queued" \/ (row.status = "running" /\ ~row.live)

Claimed(row) == [row EXCEPT !.status = "running", !.token = row.claims + 1,
                            !.live = TRUE, !.claims = @ + 1]

\* What a process finds of its claim: the exact claim, and a live lease.
Owns(p, rows) ==
    /\ rows[proc[p].row].status = "running"
    /\ rows[proc[p].row].token = proc[p].token
    /\ rows[proc[p].row].live

\* Mutant: the claim stays in the row.
RequeuedWithClaim(row) == [row EXCEPT !.status = "queued", !.live = FALSE]

Requeued(row) == [row EXCEPT !.status = "queued", !.live = FALSE, !.token = 0]

\* How a process that gives up leaves its row: untouched without its claim.
Released(p, rows) ==
    IF ~Owns(p, rows) THEN rows
    ELSE [rows EXCEPT ![proc[p].row] =
            IF proc[p].stop THEN Requeued(@)
            ELSE [@ EXCEPT !.status = "failed", !.live = FALSE]]

\* Queued or running, or succeeded under the current versions.
Conflict(rows) ==
    \E n \in DOMAIN rows : rows[n].status \in {"queued", "running", "succeeded"}

\* The rows with a new one queued.
WithQueued(rows) ==
    {[rows EXCEPT ![n].status = "queued"] :
        n \in {k \in DOMAIN rows :
                 rows[k].status = "none" /\ \A m \in 1 .. k - 1 : rows[m].status # "none"}}

CancelQueued(rows) ==
    [n \in DOMAIN rows |->
        IF rows[n].status = "queued" THEN [rows[n] EXCEPT !.status = "cancelled"]
        ELSE rows[n]]

(***************************************************************************)
(* Documents.                                                              *)
(***************************************************************************)

\* admit_document_upload and stream_upload into the .part of the upload.
AdmitUpload(p) ==
    /\ proc[p].phase = "idle"
    /\ document = "none" /\ source = "none"
    /\ \A q \in Processes : proc[q].phase # "upload"
    /\ Goto(p, "upload")
    /\ UNCHANGED <<documentVars, extractionVars, faults>>

\* finalize_document_upload: rename, row and commit.
FinalizeUpload(p) ==
    /\ proc[p].phase = "upload"
    /\ document' = "stored"
    /\ source' = "whole"
    /\ End(p)
    /\ UNCHANGED <<extractionVars, faults>>

\* Its refusals and errors, the rename taken back: no trace is left.
UploadRefused(p) ==
    /\ proc[p].phase = "upload"
    /\ End(p)
    /\ UNCHANGED <<documentVars, extractionVars, faults>>

(***************************************************************************)
(* Extractions.                                                            *)
(***************************************************************************)

EnqueueExtraction ==
    /\ document = "stored"
    /\ ~DepartmentLocked
    /\ ~Conflict(extraction)
    /\ extraction' \in WithQueued(extraction)
    /\ UNCHANGED <<documentVars, staging, final, proc, faults>>

\* retry_extraction: a new row for a failed one.
RetryExtraction(n) ==
    /\ document = "stored"
    /\ ~DepartmentLocked
    /\ extraction[n].status = "failed"
    /\ ~Conflict(extraction)
    /\ extraction' \in WithQueued(extraction)
    /\ UNCHANGED <<documentVars, staging, final, proc, faults>>

\* claim_next
ClaimExtraction(p) ==
    /\ proc[p].phase = "idle"
    /\ \E n \in Extractions :
          /\ RowClaimable(extraction[n])
          /\ extraction[n].claims < MaxClaims
          /\ extraction' = [extraction EXCEPT ![n] = Claimed(@)]
          /\ proc' = [proc EXCEPT ![p] = [IdleProcess EXCEPT
                !.phase = "extract.claimed", !.row = n, !.token = extraction[n].claims + 1,
                !.stale = IF extraction[n].status = "running" THEN extraction[n].token ELSE 0]]
    /\ UNCHANGED <<documentVars, staging, final, faults>>

\* _cleanup_stale_claim, then should_stop.
CleanStaleClaim(p) ==
    /\ proc[p].phase = "extract.claimed"
    /\ staging' = staging \ {<<proc[p].row, proc[p].stale>>}
    /\ \E stop \in BOOLEAN :
          proc' = [proc EXCEPT ![p].stop = stop,
                               ![p].phase = IF stop THEN "extract.end" ELSE "extract.stage"]
    /\ UNCHANGED <<documentVars, extraction, final, faults>>

\* _load_media_type, create_staging and the verified snapshot.
StageExtraction(p) ==
    /\ proc[p].phase = "extract.stage"
    /\ IF document = "stored"
       THEN /\ staging' = staging \union {<<proc[p].row, proc[p].token>>}
            /\ Goto(p, "extract.run")
       ELSE Goto(p, "extract.end") /\ UNCHANGED staging
    /\ UNCHANGED <<documentVars, extraction, final, faults>>

\* create_verified_snapshot and verify_canonical
SourceVerified == source = "whole"

\* run_extractor, chunking and prepare_publication, with their heartbeats:
\* an error, a lost claim or a request to stop ends the job.
RunExtractor(p) ==
    /\ proc[p].phase = "extract.run"
    /\ \/ Owns(p, extraction) /\ SourceVerified /\ Goto(p, "extract.publish")
       \/ \E stop \in BOOLEAN :
             proc' = [proc EXCEPT ![p].stop = stop, ![p].phase = "extract.end"]
    /\ UNCHANGED <<documentVars, extractionVars, faults>>

\* Mutant: a final that is there already is taken for published.
PlaceFreeOrThere(n) == TRUE

\* mkdir of the final directory.
PlaceFree(n) == final[n] = "none"

\* The checks of finalize_success under its locks, and of publish.
MayPublish(p) ==
    /\ document = "stored"
    /\ Owns(p, extraction)
    /\ <<proc[p].row, proc[p].token>> \in staging
    /\ PlaceFree(proc[p].row)

Published(p) ==
    /\ final' = [final EXCEPT ![proc[p].row] = "whole"]
    /\ staging' = staging \ {<<proc[p].row, proc[p].token>>}

\* finalize_success
FinalizeExtraction(p) ==
    /\ proc[p].phase = "extract.publish"
    /\ ~DepartmentLocked
    /\ MayPublish(p)
    /\ Published(p)
    /\ extraction' = [extraction EXCEPT ![proc[p].row].status = "succeeded",
                                        ![proc[p].row].live = FALSE]
    /\ End(p)
    /\ UNCHANGED <<documentVars, faults>>

\* Its refusals before the final exists, the quota among them.
FinalizeRefused(p) ==
    /\ proc[p].phase = "extract.publish"
    /\ ~DepartmentLocked
    /\ Goto(p, "extract.end")
    /\ UNCHANGED <<documentVars, extractionVars, faults>>

\* The final exists, but the lease lapsed with it or the commit fails: the
\* transaction is gone when the final is taken back.
FinalizeRolledBack(p) ==
    /\ proc[p].phase = "extract.publish"
    /\ ~DepartmentLocked
    /\ MayPublish(p)
    /\ Published(p)
    /\ \E lapsed \in BOOLEAN :
          extraction' = [extraction EXCEPT ![proc[p].row].live = ~lapsed]
    /\ Goto(p, "extract.compensate")
    /\ Fault
    /\ UNCHANGED documentVars

\* compensate_final, only of the very files it published; it may fail.
CompensateFinal(p) ==
    /\ proc[p].phase = "extract.compensate"
    /\ \/ final' = [final EXCEPT ![proc[p].row] = "none"] /\ UNCHANGED faults
       \/ UNCHANGED final /\ Fault
    /\ Goto(p, "extract.end")
    /\ UNCHANGED <<documentVars, extraction, staging>>

\* cleanup of the staging, then requeue_owned or fail_owned.
EndExtraction(p) ==
    /\ proc[p].phase = "extract.end"
    /\ staging' = staging \ {<<proc[p].row, proc[p].token>>}
    /\ extraction' = Released(p, extraction)
    /\ End(p)
    /\ UNCHANGED <<documentVars, final, faults>>

ExtractionLapses ==
    /\ \E n \in Extractions :
          /\ extraction[n].status = "running" /\ extraction[n].live
          /\ extraction' = [extraction EXCEPT ![n].live = FALSE]
    /\ Fault
    /\ UNCHANGED <<documentVars, staging, final, proc>>

\* The process ends: an upload may have its file in place and no row, a
\* publication its final, or a part of it, and no success.
CrashInUpload(p) ==
    /\ proc[p].phase = "upload"
    /\ source' \in {"none", "whole"}
    /\ End(p)
    /\ Fault
    /\ UNCHANGED <<document, extractionVars>>

CrashInExtraction(p) ==
    /\ proc[p].phase \in {"extract.claimed", "extract.stage", "extract.run",
                          "extract.publish", "extract.compensate", "extract.end"}
    /\ \/ UNCHANGED final
       \/ /\ proc[p].phase = "extract.publish" /\ ~DepartmentLocked /\ MayPublish(p)
          /\ final' \in {[final EXCEPT ![proc[p].row] = f] : f \in {"partial", "whole"}}
       \/ /\ proc[p].phase = "extract.compensate"
          /\ final' = [final EXCEPT ![proc[p].row] = "partial"]
    /\ End(p)
    /\ Fault
    /\ UNCHANGED <<documentVars, extraction, staging>>

ExtractionNext ==
    \/ EnqueueExtraction \/ ExtractionLapses
    \/ \E n \in Extractions : RetryExtraction(n)
    \/ \E p \in Processes :
          \/ AdmitUpload(p) \/ FinalizeUpload(p) \/ UploadRefused(p)
          \/ ClaimExtraction(p) \/ CleanStaleClaim(p) \/ StageExtraction(p)
          \/ RunExtractor(p) \/ FinalizeExtraction(p) \/ FinalizeRefused(p)
          \/ FinalizeRolledBack(p) \/ CompensateFinal(p) \/ EndExtraction(p)
          \/ CrashInUpload(p) \/ CrashInExtraction(p)

\* A row never promises bytes that are gone: a document that was stored has
\* its source, a succeeded extraction its whole final, although finals are
\* taken back by processes that hold no lock and no claim any more, and
\* crashed ones leave finals that nobody promises.
ExtractedBytes ==
    /\ document # "none" => source = "whole"
    /\ \A n \in Extractions : extraction[n].status = "succeeded" => final[n] = "whole"
=============================================================================
