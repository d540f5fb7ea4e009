-------------------------- MODULE RagAnswers_proofs --------------------------
(***************************************************************************)
(* That rows of the knowledge base promise only what is there: the bytes   *)
(* of a document and of an extraction, the points of an index, the sources *)
(* of an answer; for any processes, rows, claims and chunks, whichever     *)
(* processes crash or stall.                                               *)
(***************************************************************************)
EXTENDS RagAnswers, TLAPS

ExtractionPhases == {"extract.claimed", "extract.stage", "extract.run",
                     "extract.publish", "extract.compensate", "extract.end"}
AnswerPhases == {"answer.search", "answer.authorize", "answer.load",
                 "answer.generate", "answer.finalize"}

(***************************************************************************)
(* The invariant.  Types first: what a leased row and the memory of a      *)
(* process may look like.                                                  *)
(***************************************************************************)

\* A row has the last claim given out, or none.
RowFits(r) ==
    /\ r \in Extraction
    /\ r.status \in {"none", "queued", "cancelled"} => r.token = 0
    /\ r.status \in {"running", "succeeded", "failed"} => r.token = r.claims /\ r.token # 0
    /\ r.live => r.status = "running"

ExtractionsFit == extraction \in [Extractions -> Extraction]
                  /\ \A n \in Extractions : RowFits(extraction[n])
IndexingsFit == index \in [Indexings -> Indexing]
                /\ \A n \in Indexings : RowFits(index[n])

Memory == [phase : Phases, row : Nat, token : 0 .. MaxClaims, stale : 0 .. MaxClaims,
           chunk : Nat, wrote : BOOLEAN, stop : BOOLEAN, hits : SUBSET Hit]

\* A process at work names a row and a claim that was given out; an index
\* worker cleans up behind an earlier one.
MemoryFits(p) ==
    /\ proc[p].phase \in ExtractionPhases =>
          proc[p].row \in Extractions /\ proc[p].token \in 1 .. MaxClaims
    /\ proc[p].phase \in IndexingPhases =>
          /\ proc[p].row \in Indexings
          /\ proc[p].token \in 1 .. index[proc[p].row].claims
          /\ proc[p].stale \in 0 .. proc[p].token - 1
    /\ proc[p].phase \in AnswerPhases => proc[p].row \in Answers
    /\ proc[p].phase \in {"index.batch", "index.upsert"} => proc[p].chunk \in Chunks

ProcessesFit == proc \in [Processes -> Memory] /\ \A p \in Processes : MemoryFits(p)

DocumentFits == document \in {"none", "stored", "deleted"} /\ source \in {"none", "whole"}
FilesFit == /\ staging \in SUBSET (Extractions \X (1 .. MaxClaims))
            /\ final \in [Extractions -> {"none", "partial", "whole"}]

\* A published point is of an attempt that was made.
PointsFit == /\ points \in [Chunks -> Point]
             /\ late \in SUBSET Chunks
             /\ \A c \in Chunks : points[c].published =>
                   points[c].attempt \in Indexings \X (1 .. MaxClaims)

Typed ==
    /\ DocumentFits /\ ExtractionsFit /\ FilesFit /\ ProcessesFit /\ IndexingsFit
    /\ PointsFit /\ answer \in [Answers -> Answer] /\ faults \in 0 .. MaxFaults

(***************************************************************************)
(* Leased rows.                                                            *)
(***************************************************************************)

\* What a step may do to a row: a succeeded one stays as it is, and no claim
\* is given out twice.
RowStep(r, s) ==
    /\ RowFits(s)
    /\ s.claims >= r.claims
    /\ r.status = "succeeded" => s = r

LEMMA RowRests ==
    ASSUME NEW r, RowFits(r)
    PROVE  RowStep(r, r)
BY DEF RowStep, RowFits, Extraction

LEMMA ClaimedFits ==
    ASSUME NEW r, RowFits(r), RowClaimable(r), r.claims < MaxClaims
    PROVE  /\ RowStep(r, Claimed(r))
           /\ Claimed(r).claims = r.claims + 1
           /\ Claimed(r).token = r.claims + 1
           /\ Claimed(r).status = "running"
<1> DEFINE s == Claimed(r)
<1>1. r \in Extraction /\ r.claims \in Nat /\ r.claims + 1 \in 0 .. MaxClaims
  BY ExtractionAssumption DEF RowFits, Extraction
<1>2. s.status = "running" /\ s.live = TRUE
  BY <1>1 DEF Claimed, Extraction
<1>3. s.token = r.claims + 1 /\ s.claims = r.claims + 1
  BY <1>1 DEF Claimed, Extraction
<1>4. s \in Extraction
  BY <1>1 DEF Claimed, Extraction, QueueStatus
<1>5. r.status # "succeeded"
  BY DEF RowClaimable
<1> HIDE DEF s
<1>6. RowStep(r, s)
  BY <1>1, <1>2, <1>3, <1>4, <1>5 DEF RowStep, RowFits
<1>7. QED  BY <1>2, <1>3, <1>6 DEF s

LEMMA RequeuedFits ==
    ASSUME NEW r, RowFits(r), r.status = "running"
    PROVE  RowStep(r, Requeued(r))
<1> DEFINE s == Requeued(r)
<1>1. r \in Extraction /\ r.claims \in Nat /\ 0 \in 0 .. MaxClaims
  BY ExtractionAssumption DEF RowFits, Extraction
<1>2. s.status = "queued" /\ s.live = FALSE /\ s.token = 0 /\ s.claims = r.claims
  BY <1>1 DEF Requeued, Extraction
<1>3. s \in Extraction
  BY <1>1 DEF Requeued, Extraction, QueueStatus
<1> HIDE DEF s
<1>4. RowStep(r, s)
  BY <1>1, <1>2, <1>3 DEF RowStep, RowFits
<1>5. QED  BY <1>4 DEF s

LEMMA EndedFits ==
    ASSUME NEW r, RowFits(r), r.status = "running", NEW status \in {"succeeded", "failed"}
    PROVE  LET s == [r EXCEPT !.status = status, !.live = FALSE]
           IN  RowStep(r, s) /\ s.status = status /\ s.token = r.token
<1> DEFINE s == [r EXCEPT !.status = status, !.live = FALSE]
<1>1. r \in Extraction /\ r.claims \in Nat
  BY ExtractionAssumption DEF RowFits, Extraction
<1>2. s.status = status /\ s.live = FALSE /\ s.token = r.token /\ s.claims = r.claims
  BY <1>1 DEF Extraction
<1>3. s \in Extraction
  BY <1>1 DEF Extraction, QueueStatus
<1>4. r.token = r.claims /\ r.token # 0
  BY DEF RowFits
<1> HIDE DEF s
<1>5. RowStep(r, s)
  BY <1>1, <1>2, <1>3, <1>4 DEF RowStep, RowFits
<1>6. QED  BY <1>2, <1>5 DEF s

LEMMA LeaseFits ==
    ASSUME NEW r, RowFits(r), r.status = "running", NEW b \in BOOLEAN
    PROVE  RowStep(r, [r EXCEPT !.live = b])
BY ExtractionAssumption DEF RowStep, RowFits, Extraction, QueueStatus

LEMMA QueuedFits ==
    ASSUME NEW r, RowFits(r), r.status = "none"
    PROVE  RowStep(r, [r EXCEPT !.status = "queued"])
BY ExtractionAssumption DEF RowStep, RowFits, Extraction, QueueStatus

LEMMA CancelledFits ==
    ASSUME NEW r, RowFits(r), r.status = "queued"
    PROVE  RowStep(r, [r EXCEPT !.status = "cancelled"])
BY ExtractionAssumption DEF RowStep, RowFits, Extraction, QueueStatus

\* A process that gives up changes only a row that is running under its own
\* claim.
LEMMA ReleasedFits ==
    ASSUME NEW N, NEW rows \in [N -> Extraction], \A n \in N : RowFits(rows[n]),
           NEW p \in Processes, proc[p].row \in N
    PROVE  /\ Released(p, rows) \in [N -> Extraction]
           /\ \A n \in N : RowStep(rows[n], Released(p, rows)[n])
           /\ \A n \in N :
                 \/ Released(p, rows)[n] = rows[n]
                 \/ /\ n = proc[p].row
                    /\ rows[n].status = "running" /\ rows[n].token = proc[p].token
                    /\ Released(p, rows)[n].status # "succeeded"
<1>1. CASE ~Owns(p, rows)
  BY <1>1, RowRests DEF Released
<1>2. CASE Owns(p, rows)
  <2> DEFINE n0 == proc[p].row
             new == IF proc[p].stop THEN Requeued(rows[n0])
                    ELSE [rows[n0] EXCEPT !.status = "failed", !.live = FALSE]
  <2>1. rows[n0].status = "running" /\ rows[n0].token = proc[p].token
    BY <1>2 DEF Owns
  <2>2. RowStep(rows[n0], new)
    BY <2>1, RequeuedFits, EndedFits
  <2>3. new \in Extraction
    BY <2>2 DEF RowStep, RowFits
  <2>4. new.status # "succeeded"
    BY DEF Requeued, Extraction
  <2>5. Released(p, rows) = [rows EXCEPT ![n0] = new]
    BY <1>2 DEF Released
  <2> HIDE DEF new
  <2>6. QED  BY <2>1, <2>2, <2>3, <2>4, <2>5, RowRests
<1>3. QED  BY <1>1, <1>2

LEMMA WithQueuedFits ==
    ASSUME NEW N, NEW rows \in [N -> Extraction], \A n \in N : RowFits(rows[n]),
           NEW new \in WithQueued(rows)
    PROVE  /\ new \in [N -> Extraction]
           /\ \A n \in N : RowStep(rows[n], new[n])
           /\ \A n \in N : new[n].status = "succeeded" => new[n] = rows[n]
           /\ \A n \in N : rows[n].status = "running" => new[n] = rows[n]
<1>1. PICK k \in N : rows[k].status = "none" /\ new = [rows EXCEPT ![k].status = "queued"]
  BY DEF WithQueued
<1> DEFINE row == [rows[k] EXCEPT !.status = "queued"]
<1>2. RowStep(rows[k], row)
  BY <1>1, QueuedFits
<1>3. row \in Extraction /\ row.status = "queued"
  BY <1>2 DEF RowStep, RowFits, Extraction
<1>4. new = [rows EXCEPT ![k] = row]
  BY <1>1
<1> HIDE DEF row
<1>5. QED  BY <1>1, <1>2, <1>3, <1>4, RowRests

LEMMA CancelQueuedFits ==
    ASSUME NEW N, NEW rows \in [N -> Extraction], \A n \in N : RowFits(rows[n])
    PROVE  /\ CancelQueued(rows) \in [N -> Extraction]
           /\ \A n \in N : RowStep(rows[n], CancelQueued(rows)[n])
           /\ \A n \in N : CancelQueued(rows)[n].status = "succeeded" =>
                              CancelQueued(rows)[n] = rows[n]
           /\ \A n \in N : rows[n].status = "running" => CancelQueued(rows)[n] = rows[n]
<1> SUFFICES ASSUME NEW n \in N
             PROVE  /\ CancelQueued(rows)[n] \in Extraction
                    /\ RowStep(rows[n], CancelQueued(rows)[n])
                    /\ CancelQueued(rows)[n].status = "succeeded" =>
                          CancelQueued(rows)[n] = rows[n]
                    /\ rows[n].status = "running" => CancelQueued(rows)[n] = rows[n]
  BY DEF CancelQueued
<1>1. CASE rows[n].status = "queued"
  <2>1. CancelQueued(rows)[n] = [rows[n] EXCEPT !.status = "cancelled"]
    BY <1>1 DEF CancelQueued
  <2>2. RowStep(rows[n], CancelQueued(rows)[n])
    BY <1>1, <2>1, CancelledFits
  <2>3. QED  BY <1>1, <2>1, <2>2 DEF RowStep, RowFits, Extraction
<1>2. CASE rows[n].status # "queued"
  <2>1. CancelQueued(rows)[n] = rows[n]
    BY <1>2 DEF CancelQueued
  <2>2. QED  BY <2>1, RowRests
<1>3. QED  BY <1>1, <1>2
(***************************************************************************)
(* The memory of the processes.                                            *)
(***************************************************************************)

\* A process goes on with the row and the claim it has.
Continues(m, new) ==
    /\ new \in Memory
    /\ new.row = m.row /\ new.token = m.token /\ new.stale = m.stale
    /\ \/ m.phase \in ExtractionPhases /\ new.phase \in ExtractionPhases
       \/ m.phase \in IndexingPhases /\ new.phase \in IndexingPhases
       \/ m.phase \in AnswerPhases /\ new.phase \in AnswerPhases
    /\ new.phase \in {"index.batch", "index.upsert"} => new.chunk \in Chunks

\* What a step does to a process: nothing, it ends, goes on, or starts; three
\* phases are entered by one action only.
ProcessStep(q) ==
    \/ proc'[q] = proc[q]
    \/ proc'[q] = IdleProcess
    \/ /\ Continues(proc[q], proc'[q])
       /\ proc'[q].phase = "activated" => ActivateAttempt(q)
       /\ proc'[q].phase = "extract.compensate" => FinalizeRolledBack(q)
    \/ AdmitUpload(q) \/ ClaimExtraction(q) \/ ClaimIndexing(q) \/ StartRun(q)

ProcessSteps ==
    /\ proc' = [q \in Processes |-> proc'[q]]
    /\ \A q \in Processes : ProcessStep(q)

LEMMA ProcessesRest ==
    ASSUME ProcessesFit, UNCHANGED proc
    PROVE  ProcessSteps
BY DEF ProcessesFit, ProcessSteps, ProcessStep

LEMMA ProcessEnds ==
    ASSUME ProcessesFit, NEW p \in Processes, End(p)
    PROVE  ProcessSteps
BY DEF ProcessesFit, ProcessSteps, ProcessStep, End

LEMMA ProcessContinues ==
    ASSUME ProcessesFit, NEW p \in Processes, NEW m,
           proc' = [proc EXCEPT ![p] = m], Continues(proc[p], m),
           m.phase = "activated" => ActivateAttempt(p),
           m.phase = "extract.compensate" => FinalizeRolledBack(p)
    PROVE  ProcessSteps
BY DEF ProcessesFit, ProcessSteps, ProcessStep

LEMMA ProcessStarts ==
    ASSUME ProcessesFit, NEW p \in Processes, NEW m,
           proc' = [proc EXCEPT ![p] = m],
           AdmitUpload(p) \/ ClaimExtraction(p) \/ ClaimIndexing(p) \/ StartRun(p)
    PROVE  ProcessSteps
BY DEF ProcessesFit, ProcessSteps, ProcessStep

\* The three kinds of a process that goes on to phase x.
SameKind(p, x) ==
    \/ proc[p].phase \in ExtractionPhases /\ x \in ExtractionPhases
    \/ proc[p].phase \in IndexingPhases /\ x \in IndexingPhases
    \/ proc[p].phase \in AnswerPhases /\ x \in AnswerPhases

LEMMA KindsArePhases ==
    ASSUME NEW p, NEW x, SameKind(p, x)
    PROVE  x \in Phases
BY DEF SameKind, Phases, ExtractionPhases, AnswerPhases

LEMMA GotoContinues ==
    ASSUME ProcessesFit, NEW p \in Processes, NEW x, SameKind(p, x), Goto(p, x),
           x \notin {"index.batch", "extract.compensate", "activated"},
           x = "index.upsert" => proc[p].phase = "index.batch"
    PROVE  ProcessSteps
<1> DEFINE m == [proc[p] EXCEPT !.phase = x]
<1>1. proc[p] \in Memory /\ x \in Phases
  BY KindsArePhases DEF ProcessesFit
<1>2. /\ m \in Memory /\ m.phase = x /\ m.row = proc[p].row /\ m.token = proc[p].token
      /\ m.stale = proc[p].stale /\ m.chunk = proc[p].chunk
  BY <1>1 DEF Memory
<1>3. proc' = [proc EXCEPT ![p] = m]
  BY DEF Goto
<1>4. x = "index.upsert" => m.chunk \in Chunks
  BY <1>2 DEF ProcessesFit, MemoryFits
<1> HIDE DEF m
<1>5. Continues(proc[p], m)
  BY <1>2, <1>4 DEF Continues, SameKind
<1>6. QED  BY <1>2, <1>3, <1>5, ProcessContinues

LEMMA StopContinues ==
    ASSUME ProcessesFit, NEW p \in Processes, NEW x, NEW stop \in BOOLEAN, SameKind(p, x),
           x \notin {"index.batch", "index.upsert", "extract.compensate", "activated"},
           proc' = [proc EXCEPT ![p].stop = stop, ![p].phase = x]
    PROVE  ProcessSteps
<1> DEFINE m == [proc[p] EXCEPT !.stop = stop, !.phase = x]
<1>1. proc[p] \in Memory /\ x \in Phases
  BY KindsArePhases DEF ProcessesFit
<1>2. m \in Memory /\ m.phase = x
  BY <1>1 DEF Memory
<1>3. m.row = proc[p].row /\ m.token = proc[p].token /\ m.stale = proc[p].stale
  BY <1>1 DEF Memory
<1>4. proc' = [proc EXCEPT ![p] = m]
  BY DEF ProcessesFit
<1> HIDE DEF m
<1>5. Continues(proc[p], m)
  BY <1>2, <1>3 DEF Continues, SameKind
<1>6. QED  BY <1>2, <1>4, <1>5, ProcessContinues
LEMMA CompensationContinues ==
    ASSUME ProcessesFit, NEW p \in Processes, FinalizeRolledBack(p)
    PROVE  ProcessSteps
<1> DEFINE m == [proc[p] EXCEPT !.phase = "extract.compensate"]
<1>1. proc[p] \in Memory /\ proc[p].phase = "extract.publish"
  BY DEF ProcessesFit, FinalizeRolledBack
<1>2. /\ m \in Memory /\ m.phase = "extract.compensate" /\ m.row = proc[p].row
      /\ m.token = proc[p].token /\ m.stale = proc[p].stale
  BY <1>1 DEF Memory, Phases
<1>3. proc' = [proc EXCEPT ![p] = m]
  BY DEF Goto, FinalizeRolledBack
<1> HIDE DEF m
<1>4. Continues(proc[p], m)
  BY <1>1, <1>2 DEF Continues, ExtractionPhases
<1>5. QED  BY <1>2, <1>3, <1>4, ProcessContinues

LEMMA ActivationContinues ==
    ASSUME ProcessesFit, NEW p \in Processes, ActivateAttempt(p), Goto(p, "activated")
    PROVE  ProcessSteps
<1> DEFINE m == [proc[p] EXCEPT !.phase = "activated"]
<1>1. proc[p] \in Memory /\ proc[p].phase = "index.activate"
  BY DEF ProcessesFit, ActivateAttempt
<1>2. /\ m \in Memory /\ m.phase = "activated" /\ m.row = proc[p].row
      /\ m.token = proc[p].token /\ m.stale = proc[p].stale
  BY <1>1 DEF Memory, Phases, IndexingPhases
<1>3. proc' = [proc EXCEPT ![p] = m]
  BY DEF Goto
<1> HIDE DEF m
<1>4. Continues(proc[p], m)
  BY <1>1, <1>2 DEF Continues, IndexingPhases
<1>5. QED  BY <1>2, <1>3, <1>4, ProcessContinues

LEMMA ExtractionProcesses ==
    ASSUME ProcessesFit, ExtractionNext
    PROVE  ProcessSteps
<1> USE DEF ExtractionPhases, SameKind
<1>1. CASE EnqueueExtraction \/ ExtractionLapses \/ \E n \in Extractions : RetryExtraction(n)
  BY <1>1, ProcessesRest DEF EnqueueExtraction, ExtractionLapses, RetryExtraction
<1>2. ASSUME NEW p \in Processes, AdmitUpload(p)
      PROVE  ProcessSteps
  BY <1>2, ProcessStarts DEF AdmitUpload, Goto
<1>3. ASSUME NEW p \in Processes, FinalizeUpload(p) \/ UploadRefused(p) \/ CrashInUpload(p)
      PROVE  ProcessSteps
  BY <1>3, ProcessEnds DEF FinalizeUpload, UploadRefused, CrashInUpload
<1>4. ASSUME NEW p \in Processes, ClaimExtraction(p)
      PROVE  ProcessSteps
  BY <1>4, ProcessStarts DEF ClaimExtraction
<1>5. ASSUME NEW p \in Processes, CleanStaleClaim(p)
      PROVE  ProcessSteps
  <2>1. PICK stop \in BOOLEAN : proc' = [proc EXCEPT ![p].stop = stop,
                    ![p].phase = IF stop THEN "extract.end" ELSE "extract.stage"]
    BY <1>5 DEF CleanStaleClaim
  <2> DEFINE x == IF stop THEN "extract.end" ELSE "extract.stage"
  <2>2. SameKind(p, x)
    BY <1>5 DEF CleanStaleClaim
  <2>3. x \notin {"index.batch", "index.upsert", "extract.compensate", "activated"}
    OBVIOUS
  <2>4. proc' = [proc EXCEPT ![p].stop = stop, ![p].phase = x]
    BY <2>1
  <2> HIDE DEF x
  <2>5. QED  BY <2>2, <2>3, <2>4, StopContinues
<1>6. ASSUME NEW p \in Processes, StageExtraction(p)
      PROVE  ProcessSteps
  <2>1. PICK x \in {"extract.run", "extract.end"} : Goto(p, x)
    BY <1>6 DEF StageExtraction
  <2>2. SameKind(p, x)
    BY <1>6 DEF StageExtraction
  <2>3. QED  BY <2>1, <2>2, GotoContinues
<1>7. ASSUME NEW p \in Processes, RunExtractor(p)
      PROVE  ProcessSteps
  <2>1. SameKind(p, "extract.publish") /\ SameKind(p, "extract.end")
    BY <1>7 DEF RunExtractor
  <2>2. CASE Goto(p, "extract.publish")
    BY <2>1, <2>2, GotoContinues
  <2>3. CASE ~Goto(p, "extract.publish")
    <3>1. PICK stop \in BOOLEAN :
             proc' = [proc EXCEPT ![p].stop = stop, ![p].phase = "extract.end"]
      BY <1>7, <2>3 DEF RunExtractor
    <3>2. "extract.end" \notin {"index.batch", "index.upsert", "extract.compensate", "activated"}
      OBVIOUS
    <3>3. QED  BY <2>1, <3>1, <3>2, StopContinues
  <2>4. QED  BY <2>2, <2>3
<1>8. ASSUME NEW p \in Processes, FinalizeRefused(p) \/ CompensateFinal(p)
      PROVE  ProcessSteps
  <2>1. SameKind(p, "extract.end") /\ Goto(p, "extract.end")
    BY <1>8 DEF FinalizeRefused, CompensateFinal
  <2>2. QED  BY <2>1, GotoContinues
<1>9. ASSUME NEW p \in Processes,
             FinalizeExtraction(p) \/ EndExtraction(p) \/ CrashInExtraction(p)
      PROVE  ProcessSteps
  BY <1>9, ProcessEnds DEF FinalizeExtraction, EndExtraction, CrashInExtraction
<1>10. QED
  BY <1>1, <1>2, <1>3, <1>4, <1>5, <1>6, <1>7, <1>8, <1>9, CompensationContinues
     DEF ExtractionNext

LEMMA CleanUpContinues ==
    ASSUME ProcessesFit, NEW p \in Processes, NEW stop \in BOOLEAN,
           SameKind(p, "index.clean"), GoCleanUp(p, stop)
    PROVE  ProcessSteps
<1> DEFINE m == [proc[p] EXCEPT !.phase = "index.clean", !.chunk = 0, !.stop = stop]
<1>1. proc[p] \in Memory /\ "index.clean" \in Phases
  BY KindsArePhases DEF ProcessesFit
<1>2. m \in Memory /\ m.phase = "index.clean"
  BY <1>1 DEF Memory
<1>3. m.row = proc[p].row /\ m.token = proc[p].token /\ m.stale = proc[p].stale
  BY <1>1 DEF Memory
<1>4. proc' = [proc EXCEPT ![p] = m]
  BY DEF ProcessesFit, GoCleanUp
<1> HIDE DEF m
<1>5. Continues(proc[p], m)
  BY <1>2, <1>3 DEF Continues, SameKind
<1>6. QED  BY <1>2, <1>4, <1>5, ProcessContinues

LEMMA CheckClaimContinues ==
    ASSUME ProcessesFit, NEW p \in Processes, NEW from, NEW to, CheckClaim(p, from, to),
           from \in {"index.stale", "index.batch", "index.stale2"},
           to \in {"index.deleteStale", "index.upsert", "index.deleteStale2"},
           to = "index.upsert" => from = "index.batch"
    PROVE  ProcessSteps
<1>1. Goto(p, to) \/ GoCleanUp(p, FALSE)
  BY DEF CheckClaim
<1>2. SameKind(p, to) /\ SameKind(p, "index.clean")
  BY DEF SameKind, CheckClaim, IndexingPhases
<1>3. to = "index.upsert" => proc[p].phase = "index.batch"
  BY DEF CheckClaim
<1>4. to \notin {"index.batch", "extract.compensate", "activated"}
  OBVIOUS
<1>5. QED  BY <1>1, <1>2, <1>3, <1>4, GotoContinues, CleanUpContinues

LEMMA LoadContinues ==
    ASSUME ProcessesFit, NEW p \in Processes, LoadArtifacts(p)
    PROVE  ProcessSteps
<1>1. SameKind(p, "index.clean")
  BY DEF LoadArtifacts, SameKind, IndexingPhases
<1>2. CASE Goto(p, "index.clean")
  BY <1>1, <1>2, GotoContinues
<1>3. CASE proc' = [proc EXCEPT ![p].phase = "index.batch", ![p].chunk = 1]
  <2> DEFINE m == [proc[p] EXCEPT !.phase = "index.batch", !.chunk = 1]
  <2>1. proc[p] \in Memory /\ proc[p].phase = "index.load"
    BY DEF ProcessesFit, LoadArtifacts
  <2>2. m \in Memory /\ m.phase = "index.batch" /\ m.chunk = 1
    BY <2>1 DEF Memory, Phases, IndexingPhases
  <2>3. m.row = proc[p].row /\ m.token = proc[p].token /\ m.stale = proc[p].stale
    BY <2>1 DEF Memory
  <2>4. proc' = [proc EXCEPT ![p] = m]
    BY <1>3 DEF ProcessesFit
  <2>5. 1 \in Chunks
    BY IndexingAssumption DEF Chunks
  <2> HIDE DEF m
  <2>6. Continues(proc[p], m)
    BY <2>1, <2>2, <2>3, <2>5 DEF Continues, IndexingPhases
  <2>7. QED  BY <2>2, <2>4, <2>6, ProcessContinues
<1>4. QED  BY <1>2, <1>3 DEF LoadArtifacts

LEMMA UpsertContinues ==
    ASSUME ProcessesFit, NEW p \in Processes, UpsertStaging(p)
    PROVE  ProcessSteps
<1> DEFINE x == IF proc[p].chunk < NChunks THEN "index.batch"
                ELSE IF proc[p].stale # 0 THEN "index.stale2" ELSE "index.activate"
           next == IF proc[p].chunk < NChunks THEN proc[p].chunk + 1 ELSE 0
           m == [proc[p] EXCEPT !.wrote = TRUE, !.chunk = next, !.phase = x]
<1>1. /\ proc[p] \in Memory /\ proc[p].phase = "index.upsert"
      /\ proc[p].chunk \in Chunks
  BY DEF ProcessesFit, MemoryFits, UpsertStaging
<1>2. x \in {"index.batch", "index.stale2", "index.activate"}
  OBVIOUS
<1>3. next \in Nat /\ (x = "index.batch" => next \in Chunks)
  BY <1>1, IndexingAssumption DEF Chunks
<1>4. proc' = [proc EXCEPT ![p].wrote = TRUE,
                           ![p].chunk = IF @ < NChunks THEN @ + 1 ELSE 0, ![p].phase = x]
  BY DEF UpsertStaging
<1>5. proc' = [proc EXCEPT ![p] = m]
  BY <1>4 DEF ProcessesFit
<1> HIDE DEF x, next
<1>6. m \in Memory /\ m.phase = x /\ m.chunk = next
  <2>1. x \in Phases
    BY <1>2 DEF Phases, IndexingPhases
  <2>2. QED  BY <1>1, <1>3, <2>1 DEF Memory
<1>7. m.row = proc[p].row /\ m.token = proc[p].token /\ m.stale = proc[p].stale
  BY <1>1 DEF Memory
<1> HIDE DEF m
<1>8. Continues(proc[p], m)
  BY <1>1, <1>2, <1>3, <1>6, <1>7 DEF Continues, IndexingPhases
<1>9. QED  BY <1>2, <1>5, <1>6, <1>8, ProcessContinues

LEMMA IndexingProcesses ==
    ASSUME ProcessesFit, IndexingNext
    PROVE  ProcessSteps
<1> USE DEF IndexingPhases, SameKind
<1>1. CASE \/ DeleteDocument \/ EnqueueIndexing \/ IndexingLapses
           \/ \E n \in Indexings : RetryIndexing(n)
  BY <1>1, ProcessesRest DEF DeleteDocument, EnqueueIndexing, IndexingLapses, RetryIndexing
<1>2. ASSUME NEW p \in Processes, ClaimIndexing(p)
      PROVE  ProcessSteps
  BY <1>2, ProcessStarts DEF ClaimIndexing
<1>3. ASSUME NEW p \in Processes, IndexingFails(p)
      PROVE  ProcessSteps
  <2>1. PICK stop \in BOOLEAN : GoCleanUp(p, stop)
    BY <1>3 DEF IndexingFails
  <2>2. SameKind(p, "index.clean")
    BY <1>3 DEF IndexingFails
  <2>3. QED  BY <2>1, <2>2, CleanUpContinues
<1>4. ASSUME NEW p \in Processes, DeleteStaleAttempt(p)
      PROVE  ProcessSteps
  <2>1. PICK x \in {"index.load", "index.activate"} : Goto(p, x)
    BY <1>4 DEF DeleteStaleAttempt
  <2>2. SameKind(p, x)
    BY <1>4 DEF DeleteStaleAttempt
  <2>3. QED  BY <2>1, <2>2, GotoContinues
<1>5. ASSUME NEW p \in Processes, ActivateAttempt(p)
      PROVE  ProcessSteps
  <2>1. SameKind(p, "index.clean")
    BY <1>5 DEF ActivateAttempt
  <2>2. CASE Goto(p, "index.clean")
    BY <2>1, <2>2, GotoContinues
  <2>3. QED  BY <1>5, <2>2, ActivationContinues DEF ActivateAttempt
<1>6. ASSUME NEW p \in Processes, ActivationFails(p)
      PROVE  ProcessSteps
  <2>1. SameKind(p, "index.clean") /\ Goto(p, "index.clean")
    BY <1>6 DEF ActivationFails
  <2>2. QED  BY <2>1, GotoContinues
<1>7. ASSUME NEW p \in Processes, CheckCleanup(p)
      PROVE  ProcessSteps
  <2>1. PICK x \in {"index.delete", "index.end"} : Goto(p, x)
    BY <1>7 DEF CheckCleanup
  <2>2. SameKind(p, x)
    BY <1>7 DEF CheckCleanup
  <2>3. QED  BY <2>1, <2>2, GotoContinues
<1>8. ASSUME NEW p \in Processes, DeleteAttempt(p)
      PROVE  ProcessSteps
  <2>1. SameKind(p, "index.end")
    BY <1>8 DEF DeleteAttempt
  <2>2. CASE Goto(p, "index.end")
    BY <2>1, <2>2, GotoContinues
  <2>3. CASE proc' = [proc EXCEPT ![p].stop = FALSE, ![p].phase = "index.end"]
    <3>1. "index.end" \notin {"index.batch", "index.upsert", "extract.compensate", "activated"}
      OBVIOUS
    <3>2. FALSE \in BOOLEAN
      OBVIOUS
    <3>3. QED  BY <2>1, <2>3, <3>1, <3>2, StopContinues
  <2>4. QED  BY <1>8, <2>2, <2>3 DEF DeleteAttempt
<1>9. ASSUME NEW p \in Processes,
             FinalizeIndexing(p) \/ EndIndexing(p) \/ CrashInIndexing(p)
      PROVE  ProcessSteps
  BY <1>9, ProcessEnds DEF FinalizeIndexing, EndIndexing, CrashInIndexing
<1>10. QED
  BY <1>1, <1>2, <1>3, <1>4, <1>5, <1>6, <1>7, <1>8, <1>9, CheckClaimContinues,
     LoadContinues, UpsertContinues DEF IndexingNext
\* An answer goes on to phase x with the hits it found or kept.
HitsMove(p, x, hits) ==
    /\ x \in {"answer.authorize", "answer.load", "answer.finalize"}
    /\ hits \subseteq Hit
    /\ proc[p].phase \in AnswerPhases
    /\ proc' = [proc EXCEPT ![p].hits = hits, ![p].phase = x]

LEMMA HitsContinue ==
    ASSUME ProcessesFit, NEW p \in Processes, NEW x, NEW hits, HitsMove(p, x, hits)
    PROVE  ProcessSteps
<1> DEFINE m == [proc[p] EXCEPT !.hits = hits, !.phase = x]
<1>1. proc[p] \in Memory /\ x \in Phases /\ x \in AnswerPhases
  BY DEF ProcessesFit, Phases, AnswerPhases, HitsMove
<1>2. m \in Memory /\ m.phase = x
  BY <1>1 DEF Memory, HitsMove
<1>3. m.row = proc[p].row /\ m.token = proc[p].token /\ m.stale = proc[p].stale
  BY <1>1 DEF Memory
<1>4. proc' = [proc EXCEPT ![p] = m]
  BY DEF ProcessesFit, HitsMove
<1> HIDE DEF m
<1>5. Continues(proc[p], m)
  BY <1>1, <1>2, <1>3 DEF Continues, HitsMove
<1>6. m.phase # "activated" /\ m.phase # "extract.compensate"
  BY <1>2 DEF HitsMove
<1>7. QED  BY <1>4, <1>5, <1>6, ProcessContinues

LEMMA AnswerProcesses ==
    ASSUME ProcessesFit, PointsFit, AnswersNext
    PROVE  ProcessSteps
<1>1. ASSUME NEW p \in Processes, StartRun(p)
      PROVE  ProcessSteps
  BY <1>1, ProcessStarts DEF StartRun
<1>2. ASSUME NEW p \in Processes,
             FailRun(p) \/ FinalizeAnswered(p) \/ FinalizeInsufficient(p) \/ CrashInAnswer(p)
      PROVE  ProcessSteps
  BY <1>2, ProcessEnds DEF FailRun, FinalizeAnswered, FinalizeInsufficient, CrashInAnswer
<1>3. ASSUME NEW p \in Processes, LoadEvidence(p)
      PROVE  ProcessSteps
  <2>1. PICK x \in {"answer.generate", "answer.finalize"} : Goto(p, x)
    BY <1>3 DEF LoadEvidence
  <2>2. SameKind(p, x)
    BY <1>3 DEF LoadEvidence, SameKind, AnswerPhases
  <2>3. QED  BY <2>1, <2>2, GotoContinues
<1>4. ASSUME NEW p \in Processes, SearchPublished(p)
      PROVE  ProcessSteps
  <2>1. PICK found \in SUBSET {c \in Chunks : points[c].published} :
           proc' = [proc EXCEPT ![p].hits = {<<c, points[c].attempt>> : c \in found},
                                ![p].phase = "answer.authorize"]
    BY <1>4 DEF SearchPublished
  <2> DEFINE hits == {<<c, points[c].attempt>> : c \in found}
  <2>2. hits \subseteq Hit
    BY DEF PointsFit, Hit
  <2>3. proc[p].phase \in AnswerPhases
    BY <1>4 DEF SearchPublished, AnswerPhases
  <2>4. proc' = [proc EXCEPT ![p].hits = hits, ![p].phase = "answer.authorize"]
    BY <2>1
  <2> HIDE DEF hits
  <2>5. HitsMove(p, "answer.authorize", hits)
    BY <2>2, <2>3, <2>4 DEF HitsMove
  <2>6. QED  BY <2>5, HitsContinue
<1>5. ASSUME NEW p \in Processes, AuthorizeHits(p)
      PROVE  ProcessSteps
  <2>1. PICK selected \in {proc[p].hits, {}} :
           proc' = [proc EXCEPT ![p].hits = selected,
                      ![p].phase = IF selected = {} THEN "answer.finalize" ELSE "answer.load"]
    BY <1>5 DEF AuthorizeHits
  <2>2. selected \subseteq Hit
    BY DEF ProcessesFit, Memory
  <2>3. proc[p].phase \in AnswerPhases
    BY <1>5 DEF AuthorizeHits, AnswerPhases
  <2> DEFINE x == IF selected = {} THEN "answer.finalize" ELSE "answer.load"
  <2>4. x \in {"answer.authorize", "answer.load", "answer.finalize"}
    OBVIOUS
  <2>5. proc' = [proc EXCEPT ![p].hits = selected, ![p].phase = x]
    BY <2>1
  <2> HIDE DEF x
  <2>6. HitsMove(p, x, selected)
    BY <2>2, <2>3, <2>4, <2>5 DEF HitsMove
  <2>7. QED  BY <2>6, HitsContinue
<1>6. QED  BY <1>1, <1>2, <1>3, <1>4, <1>5 DEF AnswersNext

LEMMA ProcessesStep ==
    ASSUME ProcessesFit, PointsFit, [RagNext]_ragVars
    PROVE  ProcessSteps
BY ExtractionProcesses, IndexingProcesses, AnswerProcesses, ProcessesRest DEF RagNext, ragVars

(***************************************************************************)
(* The rows.                                                               *)
(***************************************************************************)

\* What a step does to the extractions: nothing, no new success, or one.
ExtractionStep ==
    /\ extraction' \in [Extractions -> Extraction]
    /\ \A n \in Extractions : RowStep(extraction[n], extraction'[n])
    /\ \/ \E p \in Processes : FinalizeExtraction(p)
       \/ \A n \in Extractions :
             extraction'[n].status = "succeeded" => extraction[n].status = "succeeded"

LEMMA ExtractionRowSet ==
    ASSUME ExtractionsFit, NEW n \in Extractions, NEW row,
           RowStep(extraction[n], row), extraction' = [extraction EXCEPT ![n] = row],
           (\E p \in Processes : FinalizeExtraction(p)) \/ row.status # "succeeded"
    PROVE  ExtractionStep
<1>1. row \in Extraction
  BY DEF RowStep, RowFits
<1>2. QED  BY <1>1, RowRests DEF ExtractionStep, ExtractionsFit

LEMMA ExtractionsRest ==
    ASSUME ExtractionsFit, UNCHANGED extraction
    PROVE  ExtractionStep
BY RowRests DEF ExtractionStep, ExtractionsFit

LEMMA ExtractionsQueued ==
    ASSUME ExtractionsFit, extraction' \in WithQueued(extraction)
    PROVE  ExtractionStep
BY WithQueuedFits DEF ExtractionStep, ExtractionsFit

LEMMA ExtractionRows ==
    ASSUME ExtractionsFit, ProcessesFit, [RagNext]_ragVars
    PROVE  ExtractionStep
<1>1. CASE EnqueueExtraction \/ \E n \in Extractions : RetryExtraction(n)
  BY <1>1, ExtractionsQueued DEF EnqueueExtraction, RetryExtraction
<1>2. ASSUME NEW p \in Processes, ClaimExtraction(p)
      PROVE  ExtractionStep
  <2>1. PICK n \in Extractions : /\ RowClaimable(extraction[n])
                                 /\ extraction[n].claims < MaxClaims
                                 /\ extraction' = [extraction EXCEPT ![n] = Claimed(@)]
    BY <1>2 DEF ClaimExtraction
  <2>2. /\ RowStep(extraction[n], Claimed(extraction[n]))
        /\ Claimed(extraction[n]).status # "succeeded"
    BY <2>1, ClaimedFits DEF ExtractionsFit
  <2>3. QED  BY <2>1, <2>2, ExtractionRowSet
<1>3. ASSUME NEW p \in Processes, FinalizeExtraction(p)
      PROVE  ExtractionStep
  <2> DEFINE n == proc[p].row
             row == [extraction[n] EXCEPT !.status = "succeeded", !.live = FALSE]
  <2>1. n \in Extractions /\ extraction[n].status = "running"
    BY <1>3 DEF FinalizeExtraction, MayPublish, Owns, ProcessesFit, MemoryFits,
                ExtractionPhases
  <2>2. RowStep(extraction[n], row)
    BY <2>1, EndedFits DEF ExtractionsFit
  <2>3. extraction' = [extraction EXCEPT ![n] = row]
    BY <1>3 DEF FinalizeExtraction, ExtractionsFit
  <2> HIDE DEF row
  <2>4. QED  BY <1>3, <2>1, <2>2, <2>3, ExtractionRowSet
<1>4. ASSUME NEW p \in Processes, FinalizeRolledBack(p)
      PROVE  ExtractionStep
  <2>1. PICK lapsed \in BOOLEAN :
           extraction' = [extraction EXCEPT ![proc[p].row].live = ~lapsed]
    BY <1>4 DEF FinalizeRolledBack
  <2> DEFINE n == proc[p].row
             row == [extraction[n] EXCEPT !.live = ~lapsed]
  <2>2. n \in Extractions /\ extraction[n].status = "running"
    BY <1>4 DEF FinalizeRolledBack, MayPublish, Owns, ProcessesFit, MemoryFits,
                ExtractionPhases
  <2>3. RowStep(extraction[n], row)
    BY <2>2, LeaseFits DEF ExtractionsFit
  <2>4. row.status # "succeeded"
    BY <2>2 DEF ExtractionsFit, Extraction
  <2>5. extraction' = [extraction EXCEPT ![n] = row]
    BY <2>1
  <2> HIDE DEF row
  <2>6. QED  BY <2>2, <2>3, <2>4, <2>5, ExtractionRowSet
<1>5. ASSUME NEW p \in Processes, EndExtraction(p)
      PROVE  ExtractionStep
  <2>1. proc[p].row \in Extractions
    BY <1>5 DEF EndExtraction, ProcessesFit, MemoryFits, ExtractionPhases
  <2>2. extraction' = Released(p, extraction)
    BY <1>5 DEF EndExtraction
  <2>3. QED  BY <2>1, <2>2, ReleasedFits DEF ExtractionStep, ExtractionsFit
<1>6. CASE ExtractionLapses
  <2>1. PICK n \in Extractions : /\ extraction[n].status = "running"
                                 /\ extraction' = [extraction EXCEPT ![n].live = FALSE]
    BY <1>6 DEF ExtractionLapses
  <2> DEFINE row == [extraction[n] EXCEPT !.live = FALSE]
  <2>2. RowStep(extraction[n], row)
    BY <2>1, LeaseFits DEF ExtractionsFit
  <2>3. row.status # "succeeded"
    BY <2>1 DEF ExtractionsFit, Extraction
  <2>4. extraction' = [extraction EXCEPT ![n] = row]
    BY <2>1
  <2> HIDE DEF row
  <2>5. QED  BY <2>2, <2>3, <2>4, ExtractionRowSet
<1>7. CASE DeleteDocument
  BY <1>7, CancelQueuedFits DEF DeleteDocument, ExtractionStep, ExtractionsFit
<1>8. CASE \E p \in Processes :
              \/ AdmitUpload(p) \/ FinalizeUpload(p) \/ UploadRefused(p)
              \/ CleanStaleClaim(p) \/ StageExtraction(p) \/ RunExtractor(p)
              \/ FinalizeRefused(p) \/ CompensateFinal(p) \/ CrashInUpload(p)
              \/ CrashInExtraction(p)
  BY <1>8, ExtractionsRest
     DEF AdmitUpload, FinalizeUpload, UploadRefused, CleanStaleClaim, StageExtraction,
         RunExtractor, FinalizeRefused, CompensateFinal, CrashInUpload, CrashInExtraction,
         extractionVars
<1>9. CASE \/ EnqueueIndexing \/ IndexingLapses \/ \E n \in Indexings : RetryIndexing(n)
           \/ \E p \in Processes :
                 \/ ClaimIndexing(p) \/ IndexingFails(p)
                 \/ CheckClaim(p, "index.stale", "index.deleteStale")
                 \/ CheckClaim(p, "index.batch", "index.upsert")
                 \/ CheckClaim(p, "index.stale2", "index.deleteStale2")
                 \/ DeleteStaleAttempt(p) \/ LoadArtifacts(p) \/ UpsertStaging(p)
                 \/ ActivateAttempt(p) \/ FinalizeIndexing(p) \/ ActivationFails(p)
                 \/ CheckCleanup(p) \/ DeleteAttempt(p) \/ EndIndexing(p)
                 \/ CrashInIndexing(p)
  BY <1>9, ExtractionsRest
     DEF EnqueueIndexing, IndexingLapses, RetryIndexing, ClaimIndexing, IndexingFails,
         CheckClaim, DeleteStaleAttempt, LoadArtifacts, UpsertStaging, ActivateAttempt,
         FinalizeIndexing, ActivationFails, CheckCleanup, DeleteAttempt, EndIndexing,
         CrashInIndexing, extractionVars
<1>10. CASE AnswersNext \/ UNCHANGED ragVars
  BY <1>10, ExtractionsRest
     DEF AnswersNext, StartRun, FailRun, SearchPublished, AuthorizeHits, LoadEvidence,
         FinalizeAnswered, FinalizeInsufficient, CrashInAnswer, extractionVars, ragVars
<1>11. QED
  BY <1>1, <1>2, <1>3, <1>4, <1>5, <1>6, <1>7, <1>8, <1>9, <1>10
     DEF RagNext, ExtractionNext, IndexingNext
\* A step which ends no claim on an index row and gives none out.
Quiet ==
    \A n \in Indexings :
        /\ index'[n].status = "succeeded" => index[n].status = "succeeded"
        /\ index[n].status = "running" =>
              index'[n].status = "running" /\ index'[n].token = index[n].token

\* What a step does to the indexings: a claim, one that ends, or neither.
IndexingStep ==
    /\ index' \in [Indexings -> Indexing]
    /\ \A n \in Indexings : RowStep(index[n], index'[n])
    /\ \/ Quiet
       \/ \E p \in Processes : ClaimIndexing(p) \/ FinalizeIndexing(p) \/ EndIndexing(p)

LEMMA IndexingRowSet ==
    ASSUME IndexingsFit, NEW n \in Indexings, NEW row,
           RowStep(index[n], row), index' = [index EXCEPT ![n] = row]
    PROVE  /\ index' \in [Indexings -> Indexing]
           /\ \A k \in Indexings : RowStep(index[k], index'[k])
<1>1. row \in Indexing
  BY DEF RowStep, RowFits, Indexing
<1>2. QED  BY <1>1, RowRests DEF IndexingsFit

LEMMA IndexingsRest ==
    ASSUME IndexingsFit, UNCHANGED index
    PROVE  IndexingStep
BY RowRests DEF IndexingStep, IndexingsFit, Quiet

LEMMA IndexingsQueued ==
    ASSUME IndexingsFit, index' \in WithQueued(index)
    PROVE  IndexingStep
<1>1. /\ index \in [Indexings -> Extraction]
      /\ \A n \in Indexings : RowFits(index[n])
  BY DEF IndexingsFit, Indexing
<1>2. /\ index' \in [Indexings -> Extraction]
      /\ \A n \in Indexings : RowStep(index[n], index'[n])
      /\ \A n \in Indexings : index'[n].status = "succeeded" => index'[n] = index[n]
      /\ \A n \in Indexings : index[n].status = "running" => index'[n] = index[n]
  BY <1>1, WithQueuedFits
<1>3. Quiet
  BY <1>2 DEF Quiet
<1>4. QED  BY <1>2, <1>3 DEF IndexingStep, Indexing

LEMMA IndexingRows ==
    ASSUME IndexingsFit, ProcessesFit, [RagNext]_ragVars
    PROVE  IndexingStep
<1>1. CASE EnqueueIndexing \/ \E n \in Indexings : RetryIndexing(n)
  BY <1>1, IndexingsQueued DEF EnqueueIndexing, RetryIndexing
<1>2. ASSUME NEW p \in Processes, ClaimIndexing(p)
      PROVE  IndexingStep
  <2>1. PICK n \in Indexings : /\ RowClaimable(index[n])
                               /\ index[n].claims < MaxClaims
                               /\ index' = [index EXCEPT ![n] = Claimed(@)]
    BY <1>2 DEF ClaimIndexing
  <2>2. RowStep(index[n], Claimed(index[n]))
    BY <2>1, ClaimedFits DEF IndexingsFit
  <2>3. QED  BY <1>2, <2>1, <2>2, IndexingRowSet DEF IndexingStep
<1>3. ASSUME NEW p \in Processes, FinalizeIndexing(p)
      PROVE  IndexingStep
  <2> DEFINE n == proc[p].row
             row == [index[n] EXCEPT !.status = "succeeded", !.live = FALSE]
  <2>1. n \in Indexings /\ index[n].live
    BY <1>3 DEF FinalizeIndexing, ProcessesFit, MemoryFits, IndexingPhases
  <2>2. RowFits(index[n]) /\ index[n].status = "running"
    BY <2>1 DEF IndexingsFit, RowFits
  <2>3. RowStep(index[n], row)
    BY <2>2, EndedFits
  <2>4. index' = [index EXCEPT ![n] = row]
    BY <1>3 DEF FinalizeIndexing, IndexingsFit
  <2> HIDE DEF row
  <2>5. QED  BY <1>3, <2>1, <2>3, <2>4, IndexingRowSet DEF IndexingStep
<1>4. ASSUME NEW p \in Processes, EndIndexing(p)
      PROVE  IndexingStep
  <2>1. proc[p].row \in Indexings
    BY <1>4 DEF EndIndexing, ProcessesFit, MemoryFits, IndexingPhases
  <2>2. index' = Released(p, index)
    BY <1>4 DEF EndIndexing
  <2>3. QED  BY <1>4, <2>1, <2>2, ReleasedFits DEF IndexingStep, IndexingsFit, Indexing
<1>5. CASE IndexingLapses
  <2>1. PICK n \in Indexings : /\ index[n].status = "running"
                               /\ index' = [index EXCEPT ![n].live = FALSE]
    BY <1>5 DEF IndexingLapses
  <2> DEFINE row == [index[n] EXCEPT !.live = FALSE]
  <2>2. RowStep(index[n], row)
    BY <2>1, LeaseFits DEF IndexingsFit
  <2>3. row.status = "running" /\ row.token = index[n].token
    BY <2>1 DEF IndexingsFit, Indexing, Extraction
  <2>4. index' = [index EXCEPT ![n] = row]
    BY <2>1
  <2> HIDE DEF row
  <2>5. Quiet
    BY <2>1, <2>3, <2>4 DEF Quiet, IndexingsFit
  <2>6. QED  BY <2>2, <2>4, <2>5, IndexingRowSet DEF IndexingStep
<1>6. CASE DeleteDocument
  <2>1. index' = CancelQueued(index)
    BY <1>6 DEF DeleteDocument
  <2>2. /\ index \in [Indexings -> Extraction]
        /\ \A n \in Indexings : RowFits(index[n])
    BY DEF IndexingsFit, Indexing
  <2>3. /\ index' \in [Indexings -> Extraction]
        /\ \A n \in Indexings : RowStep(index[n], index'[n])
        /\ \A n \in Indexings : index'[n].status = "succeeded" => index'[n] = index[n]
        /\ \A n \in Indexings : index[n].status = "running" => index'[n] = index[n]
    BY <2>1, <2>2, CancelQueuedFits
  <2>4. Quiet
    BY <2>3 DEF Quiet
  <2>5. QED  BY <2>3, <2>4 DEF IndexingStep, Indexing
<1>7. CASE \E p \in Processes :
              \/ IndexingFails(p)
              \/ CheckClaim(p, "index.stale", "index.deleteStale")
              \/ CheckClaim(p, "index.batch", "index.upsert")
              \/ CheckClaim(p, "index.stale2", "index.deleteStale2")
              \/ DeleteStaleAttempt(p) \/ LoadArtifacts(p) \/ UpsertStaging(p)
              \/ ActivateAttempt(p) \/ ActivationFails(p)
              \/ CheckCleanup(p) \/ DeleteAttempt(p) \/ CrashInIndexing(p)
  BY <1>7, IndexingsRest
     DEF IndexingFails, CheckClaim, DeleteStaleAttempt, LoadArtifacts, UpsertStaging,
         ActivateAttempt, ActivationFails, CheckCleanup, DeleteAttempt, CrashInIndexing,
         indexVars
<1>8. CASE AnswersNext \/ UNCHANGED ragVars
  BY <1>8, IndexingsRest
     DEF AnswersNext, StartRun, FailRun, SearchPublished, AuthorizeHits, LoadEvidence,
         FinalizeAnswered, FinalizeInsufficient, CrashInAnswer, indexVars, ragVars
<1>9. CASE ExtractionNext /\ UNCHANGED index
  BY <1>9, IndexingsRest
<1>10. QED
  BY <1>1, <1>2, <1>3, <1>4, <1>5, <1>6, <1>7, <1>8, <1>9 DEF RagNext, IndexingNext

(***************************************************************************)
(* The memory fits the rows it names.                                      *)
(***************************************************************************)

LEMMA ProcessesTyped ==
    ASSUME Typed, [RagNext]_ragVars
    PROVE  ProcessesFit'
<1>1. ProcessSteps /\ IndexingStep
  BY ProcessesStep, IndexingRows DEF Typed
<1>2. ProcessesFit /\ IndexingsFit /\ ExtractionsFit
  BY DEF Typed
<1>3. ASSUME NEW q \in Processes
      PROVE  proc'[q] \in Memory /\ MemoryFits(q)'
  <2> USE DEF ExtractionPhases, IndexingPhases, AnswerPhases
  <2>1. proc[q] \in Memory /\ MemoryFits(q)
    BY <1>2 DEF ProcessesFit
  <2>2. \A n \in Indexings : /\ index[n].claims \in 0 .. MaxClaims
                             /\ index'[n].claims \in 0 .. MaxClaims
                             /\ index'[n].claims >= index[n].claims
    BY <1>1, <1>2 DEF IndexingStep, IndexingsFit, RowStep, RowFits, Extraction
  <2>3. ProcessStep(q)
    BY <1>1 DEF ProcessSteps
  <2>4. CASE proc'[q] = proc[q]
    BY <2>1, <2>2, <2>4, ExtractionAssumption DEF MemoryFits, Memory
  <2>5. CASE proc'[q] = IdleProcess
    BY <2>5, ExtractionAssumption DEF MemoryFits, Memory, IdleProcess, Phases
  <2>6. CASE Continues(proc[q], proc'[q])
    BY <2>1, <2>2, <2>6, ExtractionAssumption DEF MemoryFits, Continues, Memory
  <2>7. CASE AdmitUpload(q)
    <3> DEFINE m == [proc[q] EXCEPT !.phase = "upload"]
    <3>1. proc'[q] = m
      BY <1>2, <2>7 DEF AdmitUpload, Goto, ProcessesFit
    <3>2. m \in Memory /\ m.phase = "upload"
      BY <2>1 DEF Memory, Phases
    <3> HIDE DEF m
    <3>3. QED  BY <3>1, <3>2 DEF MemoryFits
  <2>8. CASE ClaimExtraction(q)
    <3>1. PICK n \in Extractions :
             /\ extraction[n].claims < MaxClaims
             /\ proc' = [proc EXCEPT ![q] = [IdleProcess EXCEPT
                  !.phase = "extract.claimed", !.row = n,
                  !.token = extraction[n].claims + 1,
                  !.stale = IF extraction[n].status = "running" THEN extraction[n].token
                            ELSE 0]]
      BY <2>8 DEF ClaimExtraction
    <3>2. /\ extraction[n].token \in 0 .. MaxClaims
          /\ extraction[n].claims + 1 \in 1 .. MaxClaims
      BY <1>2, <3>1, ExtractionAssumption DEF ExtractionsFit, Extraction
    <3> DEFINE stale == IF extraction[n].status = "running" THEN extraction[n].token ELSE 0
    <3>3. stale \in 0 .. MaxClaims /\ n \in Nat
      BY <3>2, ExtractionAssumption DEF Extractions
    <3>4. proc'[q] = [phase |-> "extract.claimed", row |-> n,
                      token |-> extraction[n].claims + 1, stale |-> stale, chunk |-> 0,
                      wrote |-> FALSE, stop |-> FALSE, hits |-> {}]
      BY <1>2, <3>1 DEF IdleProcess, ProcessesFit
    <3> HIDE DEF stale
    <3>5. QED  BY <3>2, <3>3, <3>4, ExtractionAssumption DEF MemoryFits, Memory, Phases
  <2>9. CASE ClaimIndexing(q)
    <3>1. PICK n \in Indexings :
             /\ index[n].claims < MaxClaims
             /\ index' = [index EXCEPT ![n] = Claimed(@)]
             /\ LET stale == IF index[n].status = "running" THEN index[n].token ELSE 0
                IN  proc' = [proc EXCEPT ![q] = [IdleProcess EXCEPT
                       !.phase = IF stale = 0 THEN "index.load" ELSE "index.stale",
                       !.row = n, !.token = index[n].claims + 1, !.stale = stale]]
      BY <2>9 DEF ClaimIndexing
    <3> DEFINE stale == IF index[n].status = "running" THEN index[n].token ELSE 0
               token == index[n].claims + 1
               phase == IF stale = 0 THEN "index.load" ELSE "index.stale"
    <3>2. index[n].claims \in 0 .. MaxClaims /\ stale \in 0 .. index[n].claims
      BY <1>2, ExtractionAssumption DEF IndexingsFit, Indexing, Extraction, RowFits
    <3>3. token \in 1 .. MaxClaims /\ stale \in 0 .. token - 1 /\ n \in Nat
      BY <3>1, <3>2, ExtractionAssumption DEF Indexings
    <3>4. index'[n].claims = token
      <4>1. index'[n] = Claimed(index[n])
        BY <1>2, <3>1 DEF IndexingsFit
      <4>2. QED  BY <1>2, <2>9, <4>1 DEF Claimed, IndexingsFit, Indexing, Extraction
    <3>5. phase \in {"index.load", "index.stale"}
      OBVIOUS
    <3>6. proc'[q] = [phase |-> phase, row |-> n, token |-> token, stale |-> stale,
                      chunk |-> 0, wrote |-> FALSE, stop |-> FALSE, hits |-> {}]
      BY <1>2, <3>1 DEF IdleProcess, ProcessesFit
    <3> HIDE DEF stale, token, phase
    <3>7. proc'[q] \in Memory
      BY <3>3, <3>5, <3>6, ExtractionAssumption DEF Memory, Phases
    <3>8. QED  BY <3>3, <3>4, <3>5, <3>6, <3>7, ExtractionAssumption DEF MemoryFits
  <2>10. CASE StartRun(q)
    <3>1. PICK a \in Answers : proc' = [proc EXCEPT ![q] = [IdleProcess EXCEPT
                                           !.phase = "answer.search", !.row = a]]
      BY <2>10 DEF StartRun
    <3>2. proc'[q] = [phase |-> "answer.search", row |-> a, token |-> 0, stale |-> 0,
                      chunk |-> 0, wrote |-> FALSE, stop |-> FALSE, hits |-> {}]
      BY <1>2, <3>1 DEF IdleProcess, ProcessesFit
    <3>3. QED  BY <3>2, ExtractionAssumption, AnswersAssumption
               DEF MemoryFits, Memory, Phases, Answers
  <2>11. QED  BY <2>3, <2>4, <2>5, <2>6, <2>7, <2>8, <2>9, <2>10 DEF ProcessStep
<1>4. QED  BY <1>1, <1>3 DEF ProcessSteps, ProcessesFit
(***************************************************************************)
(* Type correctness.                                                       *)
(***************************************************************************)

LEMMA FaultFits ==
    ASSUME faults \in 0 .. MaxFaults, Fault
    PROVE  faults' \in 0 .. MaxFaults
BY ExtractionAssumption DEF Fault

LEMMA ExtractionFilesTyped ==
    ASSUME Typed, ExtractionNext
    PROVE  DocumentFits' /\ FilesFit' /\ faults' \in 0 .. MaxFaults
<1> DEFINE Goal == DocumentFits' /\ FilesFit' /\ faults' \in 0 .. MaxFaults
<1>1. DocumentFits /\ FilesFit /\ faults \in 0 .. MaxFaults
  BY DEF Typed
<1>2. CASE EnqueueExtraction \/ \E n \in Extractions : RetryExtraction(n)
  BY <1>1, <1>2
     DEF EnqueueExtraction, RetryExtraction, documentVars, DocumentFits, FilesFit
<1>3. CASE ExtractionLapses
  BY <1>1, <1>3, FaultFits DEF ExtractionLapses, documentVars, DocumentFits, FilesFit
<1>4. ASSUME NEW p \in Processes,
             \/ AdmitUpload(p) \/ FinalizeUpload(p) \/ UploadRefused(p)
             \/ ClaimExtraction(p) \/ RunExtractor(p) \/ FinalizeRefused(p)
      PROVE  Goal
  BY <1>1, <1>4 DEF AdmitUpload, FinalizeUpload, UploadRefused, ClaimExtraction,
     RunExtractor, FinalizeRefused, documentVars, extractionVars, DocumentFits, FilesFit
<1>5. ASSUME NEW p \in Processes, proc[p].phase \in ExtractionPhases
      PROVE  <<proc[p].row, proc[p].token>> \in Extractions \X (1 .. MaxClaims)
  BY <1>5 DEF Typed, ProcessesFit, MemoryFits
<1>6. ASSUME NEW p \in Processes, CleanStaleClaim(p) \/ EndExtraction(p)
      PROVE  Goal
  BY <1>1, <1>6 DEF CleanStaleClaim, EndExtraction, documentVars, DocumentFits, FilesFit
<1>7. ASSUME NEW p \in Processes, StageExtraction(p)
      PROVE  Goal
  <2>1. proc[p].phase \in ExtractionPhases
    BY <1>7 DEF StageExtraction, ExtractionPhases
  <2>2. QED  BY <1>1, <1>5, <1>7, <2>1 DEF StageExtraction, documentVars, DocumentFits, FilesFit
<1>8. ASSUME NEW p \in Processes, FinalizeExtraction(p) \/ FinalizeRolledBack(p)
      PROVE  Goal
  BY <1>1, <1>8, FaultFits DEF FinalizeExtraction, FinalizeRolledBack, Published,
     documentVars, DocumentFits, FilesFit
<1>9. ASSUME NEW p \in Processes, CompensateFinal(p)
      PROVE  Goal
  BY <1>1, <1>9, FaultFits DEF CompensateFinal, documentVars, DocumentFits, FilesFit
<1>10. ASSUME NEW p \in Processes, CrashInUpload(p)
       PROVE  Goal
  BY <1>1, <1>10, FaultFits DEF CrashInUpload, extractionVars, DocumentFits, FilesFit
<1>11. ASSUME NEW p \in Processes, CrashInExtraction(p)
       PROVE  Goal
  <2>1. UNCHANGED <<document, source, staging>> /\ Fault
    BY <1>11 DEF CrashInExtraction, documentVars
  <2>2. final' = final \/ \E f \in {"partial", "whole"} :
                             final' = [final EXCEPT ![proc[p].row] = f]
    BY <1>11 DEF CrashInExtraction
  <2>3. QED  BY <1>1, <2>1, <2>2, FaultFits DEF DocumentFits, FilesFit
<1>12. QED
  BY <1>2, <1>3, <1>4, <1>6, <1>7, <1>8, <1>9, <1>10, <1>11 DEF ExtractionNext

LEMMA IndexingFilesTyped ==
    ASSUME Typed, IndexingNext
    PROVE  DocumentFits' /\ FilesFit' /\ faults' \in 0 .. MaxFaults
<1> DEFINE Goal == DocumentFits' /\ FilesFit' /\ faults' \in 0 .. MaxFaults
<1>1. DocumentFits /\ FilesFit /\ faults \in 0 .. MaxFaults
  BY DEF Typed
<1> USE DEF documentVars, extractionVars, DocumentFits, FilesFit
<1>2. CASE DeleteDocument \/ EnqueueIndexing \/ \E n \in Indexings : RetryIndexing(n)
  BY <1>1, <1>2 DEF DeleteDocument, EnqueueIndexing, RetryIndexing
<1>3. CASE IndexingLapses
  BY <1>1, <1>3, FaultFits DEF IndexingLapses
<1>4. ASSUME NEW p \in Processes,
             \/ ClaimIndexing(p) \/ IndexingFails(p)
             \/ CheckClaim(p, "index.stale", "index.deleteStale")
             \/ CheckClaim(p, "index.batch", "index.upsert")
             \/ CheckClaim(p, "index.stale2", "index.deleteStale2")
             \/ DeleteStaleAttempt(p) \/ LoadArtifacts(p) \/ UpsertStaging(p)
             \/ ActivateAttempt(p) \/ FinalizeIndexing(p) \/ ActivationFails(p)
             \/ CheckCleanup(p) \/ EndIndexing(p)
      PROVE  Goal
  BY <1>1, <1>4 DEF ClaimIndexing, IndexingFails, CheckClaim, DeleteStaleAttempt,
     LoadArtifacts, UpsertStaging, ActivateAttempt, FinalizeIndexing, ActivationFails,
     CheckCleanup, EndIndexing
<1>5. ASSUME NEW p \in Processes, DeleteAttempt(p)
      PROVE  Goal
  BY <1>1, <1>5, FaultFits DEF DeleteAttempt
<1>6. ASSUME NEW p \in Processes, CrashInIndexing(p)
      PROVE  Goal
  BY <1>1, <1>6, FaultFits DEF CrashInIndexing
<1>7. QED  BY <1>2, <1>3, <1>4, <1>5, <1>6 DEF IndexingNext

LEMMA AnswersFilesTyped ==
    ASSUME Typed, AnswersNext \/ UNCHANGED ragVars
    PROVE  /\ DocumentFits' /\ FilesFit' /\ faults' \in 0 .. MaxFaults
           /\ UNCHANGED <<points, late>>
<1>1. DocumentFits /\ FilesFit /\ faults \in 0 .. MaxFaults
  BY DEF Typed
<1> USE DEF documentVars, extractionVars, indexVars, DocumentFits, FilesFit
<1>2. CASE UNCHANGED ragVars
  BY <1>1, <1>2 DEF ragVars
<1>3. ASSUME NEW p \in Processes,
             \/ StartRun(p) \/ FailRun(p) \/ SearchPublished(p) \/ AuthorizeHits(p)
             \/ LoadEvidence(p) \/ FinalizeAnswered(p) \/ FinalizeInsufficient(p)
      PROVE  /\ DocumentFits' /\ FilesFit' /\ faults' \in 0 .. MaxFaults
             /\ UNCHANGED <<points, late>>
  BY <1>1, <1>3 DEF StartRun, FailRun, SearchPublished, AuthorizeHits, LoadEvidence,
     FinalizeAnswered, FinalizeInsufficient
<1>4. ASSUME NEW p \in Processes, CrashInAnswer(p)
      PROVE  /\ DocumentFits' /\ FilesFit' /\ faults' \in 0 .. MaxFaults
             /\ UNCHANGED <<points, late>>
  BY <1>1, <1>4, FaultFits DEF CrashInAnswer
<1>5. QED  BY <1>2, <1>3, <1>4 DEF AnswersNext

(***************************************************************************)
(* The points.                                                             *)
(***************************************************************************)

LEMMA PointTypes ==
    /\ NoPoint \in Point
    /\ NoPoint.published = FALSE
    /\ NoPoint.attempt = NoVectorAttempt
BY ExtractionAssumption, IndexingAssumption DEF NoPoint, Point, NoVectorAttempt

LEMMA AttemptTyped ==
    ASSUME Typed, NEW p \in Processes, proc[p].phase \in IndexingPhases
    PROVE  /\ Attempt(p) \in Indexings \X (1 .. MaxClaims)
           /\ proc[p].row \in Indexings
           /\ proc[p].token \in 1 .. index[proc[p].row].claims
           /\ proc[p].stale \in 0 .. proc[p].token - 1
<1>1. /\ proc[p].row \in Indexings
      /\ proc[p].token \in 1 .. index[proc[p].row].claims
      /\ proc[p].stale \in 0 .. proc[p].token - 1
  BY DEF Typed, ProcessesFit, MemoryFits
<1>2. index[proc[p].row].claims \in 0 .. MaxClaims
  BY <1>1 DEF Typed, IndexingsFit, Indexing, Extraction
<1>3. proc[p].token \in 1 .. MaxClaims
  BY <1>1, <1>2, ExtractionAssumption
<1>4. QED  BY <1>1, <1>3 DEF Attempt

LEMMA AttemptsArePoints ==
    ASSUME NEW attempt \in Indexings \X (1 .. MaxClaims), NEW published \in BOOLEAN
    PROVE  [attempt |-> attempt, published |-> published] \in Point
BY ExtractionAssumption, IndexingAssumption DEF Point, Indexings

\* What a step does to the points: three kinds of writes.
PointStep ==
    \/ UNCHANGED <<points, late>>
    \/ \E p \in Processes : FinalizeIndexing(p)
    \/ \E p \in Processes : UpsertStaging(p) \/ DeleteAttempt(p) \/ DeleteStaleAttempt(p)
    \/ \E p \in Processes : ActivateAttempt(p) /\ Goto(p, "activated")

LEMMA PointSteps ==
    ASSUME Typed, [RagNext]_ragVars
    PROVE  PointStep
<1>1. CASE ExtractionNext /\ UNCHANGED <<index, points, late, answer>>
  BY <1>1 DEF PointStep
<1>2. CASE AnswersNext \/ UNCHANGED ragVars
  BY <1>2, AnswersFilesTyped DEF PointStep
<1>3. CASE \/ DeleteDocument \/ EnqueueIndexing \/ IndexingLapses
           \/ \E n \in Indexings : RetryIndexing(n)
           \/ \E p \in Processes :
                 \/ ClaimIndexing(p) \/ IndexingFails(p)
                 \/ CheckClaim(p, "index.stale", "index.deleteStale")
                 \/ CheckClaim(p, "index.batch", "index.upsert")
                 \/ CheckClaim(p, "index.stale2", "index.deleteStale2")
                 \/ LoadArtifacts(p) \/ ActivationFails(p)
                 \/ CheckCleanup(p) \/ EndIndexing(p) \/ CrashInIndexing(p)
  <2>1. UNCHANGED <<points, late>>
    BY <1>3 DEF DeleteDocument, EnqueueIndexing, IndexingLapses, RetryIndexing,
       ClaimIndexing, IndexingFails, CheckClaim, LoadArtifacts,
       ActivationFails, CheckCleanup, EndIndexing, CrashInIndexing, indexVars
  <2>2. QED  BY <2>1 DEF PointStep
<1>4. ASSUME NEW p \in Processes, ActivateAttempt(p)
      PROVE  PointStep
  <2>1. (Goto(p, "activated") \/ UNCHANGED points) /\ UNCHANGED late
    BY <1>4 DEF ActivateAttempt
  <2>2. QED  BY <1>4, <2>1 DEF PointStep
<1>5. ASSUME NEW p \in Processes,
             \/ FinalizeIndexing(p)
             \/ UpsertStaging(p) \/ DeleteAttempt(p) \/ DeleteStaleAttempt(p)
      PROVE  PointStep
  BY <1>5 DEF PointStep
<1>6. QED  BY <1>1, <1>2, <1>3, <1>4, <1>5 DEF RagNext, IndexingNext

\* Deleting the points of an attempt leaves all others.
LEMMA WithoutAttemptFits ==
    ASSUME PointsFit, NEW attempt
    PROVE  /\ WithoutAttempt(attempt) \in [Chunks -> Point]
           /\ \A c \in Chunks : WithoutAttempt(attempt)[c].published =>
                 /\ points[c].published
                 /\ WithoutAttempt(attempt)[c] = points[c]
           /\ \A c \in Chunks : points[c].attempt # attempt =>
                 WithoutAttempt(attempt)[c] = points[c]
BY PointTypes DEF WithoutAttempt, PointsFit

\* Publishing the points of an attempt leaves what is published.
LEMMA ActivatedFits ==
    ASSUME Typed, NEW p \in Processes, ActivateAttempt(p), Goto(p, "activated")
    PROVE  /\ points' \in [Chunks -> Point]
           /\ \A c \in Chunks : points[c].published => points'[c] = points[c]
           /\ \A c \in Chunks : points'[c].published =>
                 points'[c].attempt \in Indexings \X (1 .. MaxClaims)
           /\ Owns(p, index)
<1>1. proc[p] \in Memory /\ PointsFit /\ proc \in [Processes -> Memory]
  BY DEF Typed, ProcessesFit
<1>2. ~Goto(p, "index.clean")
  BY <1>1 DEF Goto, Memory
<1>3. /\ Owns(p, index)
      /\ points' = [c \in Chunks |->
                       IF points[c].attempt = Attempt(p)
                       THEN [points[c] EXCEPT !.published = TRUE] ELSE points[c]]
  BY <1>2 DEF ActivateAttempt
<1>4. Attempt(p) \in Indexings \X (1 .. MaxClaims)
  BY AttemptTyped DEF ActivateAttempt, IndexingPhases
<1>5. ASSUME NEW c \in Chunks
      PROVE  /\ points'[c] \in Point
             /\ points[c].published => points'[c] = points[c]
             /\ points'[c].published => points'[c].attempt \in Indexings \X (1 .. MaxClaims)
  <2>1. points[c] \in Point
    BY <1>1 DEF PointsFit
  <2>2. CASE points[c].attempt = Attempt(p)
    <3>1. points'[c] = [points[c] EXCEPT !.published = TRUE]
      BY <1>3, <2>2
    <3>2. QED  BY <1>4, <2>1, <2>2, <3>1 DEF Point
  <2>3. CASE points[c].attempt # Attempt(p)
    BY <1>1, <1>3, <2>1, <2>3 DEF PointsFit
  <2>4. QED  BY <2>2, <2>3
<1>6. QED  BY <1>3, <1>5

LEMMA PointsTyped ==
    ASSUME Typed, [RagNext]_ragVars
    PROVE  PointsFit'
<1>1. PointStep /\ PointsFit
  BY PointSteps DEF Typed
<1>2. CASE UNCHANGED <<points, late>>
  BY <1>1, <1>2 DEF PointsFit
<1>3. ASSUME NEW p \in Processes, UpsertStaging(p)
      PROVE  PointsFit'
  <2> DEFINE new == [attempt |-> Attempt(p), published |-> FALSE]
  <2>1. proc[p].chunk \in Chunks
    BY <1>3 DEF UpsertStaging, Typed, ProcessesFit, MemoryFits
  <2>2. new \in Point /\ new.published = FALSE
    BY <1>3, AttemptTyped, AttemptsArePoints DEF UpsertStaging, IndexingPhases
  <2>3. points' = [points EXCEPT ![proc[p].chunk] = new]
    BY <1>3 DEF UpsertStaging
  <2>4. late' \in SUBSET Chunks
    BY <1>1, <1>3, <2>1 DEF UpsertStaging, PointsFit
  <2> HIDE DEF new
  <2>5. QED  BY <1>1, <2>1, <2>2, <2>3, <2>4 DEF PointsFit
<1>4. ASSUME NEW p \in Processes, DeleteAttempt(p) \/ DeleteStaleAttempt(p)
      PROVE  PointsFit'
  <2>1. late' = late /\ (points' = points \/ \E attempt : points' = WithoutAttempt(attempt))
    BY <1>4 DEF DeleteAttempt, DeleteStaleAttempt
  <2>2. QED  BY <1>1, <2>1, WithoutAttemptFits DEF PointsFit
<1>5. ASSUME NEW p \in Processes, ActivateAttempt(p), Goto(p, "activated")
      PROVE  PointsFit'
  BY <1>1, <1>5, ActivatedFits DEF PointsFit, ActivateAttempt
<1>6. ASSUME NEW p \in Processes, FinalizeIndexing(p)
      PROVE  PointsFit'
  BY <1>1, <1>6 DEF PointsFit, FinalizeIndexing
<1>7. QED  BY <1>1, <1>2, <1>3, <1>4, <1>5, <1>6 DEF PointStep
\* What a step does to the runs: one is answered, or none that was not.
AnswerStep ==
    /\ answer' \in [Answers -> Answer]
    /\ \/ \E p \in Processes : FinalizeAnswered(p)
       \/ \A a \in Answers : answer'[a].status = "answered" => answer'[a] = answer[a]

LEMMA RunSet ==
    ASSUME Typed, NEW p \in Processes, NEW status, NEW cited, SetRun(p, status, cited),
           status \in {"answered", "insufficient_information", "failed"}, cited \subseteq Hit,
           status = "answered" => FinalizeAnswered(p)
    PROVE  AnswerStep
<1> DEFINE run == [status |-> status, cited |-> cited]
<1>1. run \in Answer /\ run.status = status
  BY DEF Answer
<1>2. answer' = [answer EXCEPT ![proc[p].row] = run] /\ answer \in [Answers -> Answer]
  BY DEF SetRun, Typed
<1> HIDE DEF run
<1>3. QED  BY <1>1, <1>2 DEF AnswerStep

LEMMA AnswerSteps ==
    ASSUME Typed, [RagNext]_ragVars
    PROVE  AnswerStep
<1>1. CASE UNCHANGED answer
  BY <1>1 DEF AnswerStep, Typed
<1>2. ASSUME NEW p \in Processes, StartRun(p)
      PROVE  AnswerStep
  <2>1. PICK a \in Answers : answer' = [answer EXCEPT ![a].status = "running"]
    BY <1>2 DEF StartRun
  <2> DEFINE run == [answer[a] EXCEPT !.status = "running"]
  <2>2. run \in Answer /\ run.status = "running"
    BY DEF Typed, Answer
  <2>3. answer' = [answer EXCEPT ![a] = run]
    BY <2>1
  <2> HIDE DEF run
  <2>4. QED  BY <2>2, <2>3 DEF AnswerStep, Typed
<1>3. ASSUME NEW p \in Processes, FailRun(p)
      PROVE  AnswerStep
  <2>1. SetRun(p, "failed", {}) /\ {} \subseteq Hit
    BY <1>3 DEF FailRun
  <2>2. QED  BY <2>1, RunSet
<1>4. ASSUME NEW p \in Processes, FinalizeInsufficient(p)
      PROVE  AnswerStep
  <2>1. SetRun(p, "insufficient_information", {}) /\ {} \subseteq Hit
    BY <1>4 DEF FinalizeInsufficient
  <2>2. QED  BY <2>1, RunSet
<1>5. ASSUME NEW p \in Processes, FinalizeAnswered(p)
      PROVE  AnswerStep
  <2>1. SetRun(p, "answered", proc[p].hits)
    BY <1>5 DEF FinalizeAnswered
  <2>2. proc[p].hits \subseteq Hit
    BY DEF Typed, ProcessesFit, Memory
  <2>3. QED  BY <1>5, <2>1, <2>2, RunSet
<1>6. ASSUME NEW p \in Processes,
             SearchPublished(p) \/ AuthorizeHits(p) \/ LoadEvidence(p) \/ CrashInAnswer(p)
      PROVE  UNCHANGED answer
  BY <1>6 DEF SearchPublished, AuthorizeHits, LoadEvidence, CrashInAnswer
<1>7. QED
  BY <1>1, <1>2, <1>3, <1>4, <1>5, <1>6 DEF RagNext, AnswersNext, ragVars

LEMMA TypedInit ==
    ASSUME RagInit
    PROVE  Typed
<1> USE ExtractionAssumption, IndexingAssumption, AnswersAssumption
    DEF RagInit, ExtractionInit, IndexingInit, AnswersInit
<1>1. NoRow \in Extraction /\ RowFits(NoRow)
  BY DEF NoRow, Extraction, RowFits, QueueStatus
<1>2. ExtractionsFit /\ IndexingsFit
  BY <1>1 DEF ExtractionsFit, IndexingsFit, Indexing
<1>3. ProcessesFit
  BY DEF ProcessesFit, MemoryFits, Memory, IdleProcess, Phases, ExtractionPhases,
         IndexingPhases, AnswerPhases
<1>4. DocumentFits /\ FilesFit /\ faults \in 0 .. MaxFaults
  BY DEF DocumentFits, FilesFit
<1>5. PointsFit
  BY PointTypes DEF PointsFit
<1>6. answer \in [Answers -> Answer]
  BY DEF Answer
<1>7. QED  BY <1>2, <1>3, <1>4, <1>5, <1>6 DEF Typed

LEMMA TypedStep ==
    ASSUME Typed, [RagNext]_ragVars
    PROVE  Typed'
<1>1. DocumentFits' /\ FilesFit' /\ (faults \in 0 .. MaxFaults)'
  BY ExtractionFilesTyped, IndexingFilesTyped, AnswersFilesTyped DEF RagNext
<1>2. ExtractionStep /\ IndexingStep
  BY ExtractionRows, IndexingRows DEF Typed
<1>3. ExtractionsFit' /\ IndexingsFit'
  BY <1>2 DEF ExtractionStep, IndexingStep, ExtractionsFit, IndexingsFit, RowStep
<1>4. (answer \in [Answers -> Answer])'
  BY AnswerSteps DEF AnswerStep
<1>5. QED  BY <1>1, <1>3, <1>4, ProcessesTyped, PointsTyped DEF Typed

LEMMA TypedIsTypeOK ==
    ASSUME Typed
    PROVE  KnowledgeTypeOK
<1>1. \A p \in Processes : proc[p].phase \in Phases /\ proc[p].hits \in SUBSET Hit
  BY DEF Typed, ProcessesFit, Memory
<1>2. ASSUME NEW r, RowFits(r)
      PROVE  /\ r.status \in {"none", "queued"} => r.token = 0
             /\ r.status = "running" => r.token # 0
             /\ r.live => r.status = "running"
  BY <1>2 DEF RowFits
<1>3. \A rows \in {extraction, index} : \A n \in DOMAIN rows :
         /\ rows[n].status \in {"none", "queued"} => rows[n].token = 0
         /\ rows[n].status = "running" => rows[n].token # 0
         /\ rows[n].live => rows[n].status = "running"
  BY <1>2 DEF Typed, ExtractionsFit, IndexingsFit
<1>4. QED
  BY <1>1, <1>3 DEF Typed, KnowledgeTypeOK, DocumentFits, ExtractionsFit, IndexingsFit, FilesFit,
                    PointsFit

(***************************************************************************)
(* The bytes.  A final is there for as long as somebody may take it back,  *)
(* which keeps every other process from publishing at its place.           *)
(***************************************************************************)

UploadsAlone == \A p \in Processes : proc[p].phase = "upload" =>
    /\ document = "none"
    /\ \A q \in Processes : proc[q].phase = "upload" => q = p

CompensationsAlone == \A p \in Processes : proc[p].phase = "extract.compensate" =>
    /\ final[proc[p].row] # "none"
    /\ extraction[proc[p].row].status # "succeeded"
    /\ \A q \in Processes :
          proc[q].phase = "extract.compensate" /\ proc[q].row = proc[p].row => q = p

BytesInv == UploadsAlone /\ CompensationsAlone /\ ExtractedBytes

\* What a step does to a document and its upload.
UploadStep ==
    \/ UNCHANGED documentVars
    \/ \E p \in Processes :
          /\ proc[p].phase = "upload" /\ End(p)
          /\ document' = document \/ (document' = "stored" /\ source' = "whole")
    \/ document = "stored" /\ document' = "deleted" /\ UNCHANGED <<source, proc>>

LEMMA UploadSteps ==
    ASSUME [RagNext]_ragVars
    PROVE  UploadStep
<1>1. CASE ExtractionNext
  <2>1. CASE EnqueueExtraction \/ ExtractionLapses \/ \E n \in Extractions : RetryExtraction(n)
    BY <2>1 DEF EnqueueExtraction, ExtractionLapses, RetryExtraction, UploadStep
  <2>2. ASSUME NEW p \in Processes,
               \/ AdmitUpload(p) \/ UploadRefused(p) \/ ClaimExtraction(p)
               \/ CleanStaleClaim(p) \/ StageExtraction(p) \/ RunExtractor(p)
               \/ FinalizeExtraction(p) \/ FinalizeRefused(p) \/ FinalizeRolledBack(p)
               \/ CompensateFinal(p) \/ EndExtraction(p) \/ CrashInExtraction(p)
        PROVE  UNCHANGED documentVars
    BY <2>2 DEF AdmitUpload, UploadRefused, ClaimExtraction, CleanStaleClaim,
       StageExtraction, RunExtractor, FinalizeExtraction, FinalizeRefused,
       FinalizeRolledBack, CompensateFinal, EndExtraction, CrashInExtraction
  <2>3. ASSUME NEW p \in Processes, FinalizeUpload(p) \/ CrashInUpload(p)
        PROVE  UploadStep
    BY <2>3 DEF FinalizeUpload, CrashInUpload, UploadStep
  <2>4. QED  BY <1>1, <2>1, <2>2, <2>3 DEF ExtractionNext, UploadStep
<1>2. CASE IndexingNext
  <2>1. CASE DeleteDocument
    BY <2>1 DEF DeleteDocument, UploadStep
  <2>2. CASE ~DeleteDocument
    BY <1>2, <2>2 DEF IndexingNext, EnqueueIndexing, IndexingLapses, RetryIndexing,
       ClaimIndexing, IndexingFails, CheckClaim, DeleteStaleAttempt, LoadArtifacts,
       UpsertStaging, ActivateAttempt, FinalizeIndexing, ActivationFails, CheckCleanup,
       DeleteAttempt, EndIndexing, CrashInIndexing, UploadStep
  <2>3. QED  BY <2>1, <2>2
<1>3. CASE AnswersNext \/ UNCHANGED ragVars
  BY <1>3 DEF AnswersNext, StartRun, FailRun, SearchPublished, AuthorizeHits,
     LoadEvidence, FinalizeAnswered, FinalizeInsufficient, CrashInAnswer, ragVars,
     documentVars, UploadStep
<1>4. QED  BY <1>1, <1>2, <1>3 DEF RagNext
\* Who changes a final: its publisher, onto a free place, or a process that
\* takes it back; no row is succeeded then.
FinalStep(n) ==
    \/ final'[n] = final[n]
    \/ \E p \in Processes :
          /\ proc[p].row = n
          /\ \/ proc[p].phase = "extract.publish" /\ MayPublish(p)
             \/ proc[p].phase = "extract.compensate" /\ proc'[p].phase # "extract.compensate"

LEMMA FinalSteps ==
    ASSUME Typed, [RagNext]_ragVars, NEW n \in Extractions
    PROVE  FinalStep(n)
<1>1. CASE UNCHANGED final
  BY <1>1 DEF FinalStep
<1>2. FilesFit /\ ProcessesFit
  BY DEF Typed
<1>3. ASSUME NEW p \in Processes, FinalizeExtraction(p) \/ FinalizeRolledBack(p)
      PROVE  FinalStep(n)
  <2>1. proc[p].phase = "extract.publish" /\ MayPublish(p)
    BY <1>3 DEF FinalizeExtraction, FinalizeRolledBack
  <2>2. final' = [final EXCEPT ![proc[p].row] = "whole"]
    BY <1>3 DEF FinalizeExtraction, FinalizeRolledBack, Published
  <2>3. QED  BY <1>2, <2>1, <2>2 DEF FinalStep, FilesFit
<1>4. ASSUME NEW p \in Processes, CompensateFinal(p), final' # final
      PROVE  FinalStep(n)
  <2>1. proc[p].phase = "extract.compensate" /\ Goto(p, "extract.end")
    BY <1>4 DEF CompensateFinal
  <2>2. proc'[p].phase # "extract.compensate"
    BY <1>2, <2>1 DEF Goto, ProcessesFit, Memory
  <2>3. final' = [final EXCEPT ![proc[p].row] = "none"]
    BY <1>4 DEF CompensateFinal
  <2>4. QED  BY <1>2, <2>1, <2>2, <2>3 DEF FinalStep, FilesFit
<1>5. ASSUME NEW p \in Processes, CrashInExtraction(p), final' # final
      PROVE  FinalStep(n)
  <2>1. proc'[p].phase # "extract.compensate"
    BY <1>2, <1>5 DEF CrashInExtraction, End, ProcessesFit, IdleProcess
  <2>2. CASE proc[p].phase = "extract.publish"
    <3>1. MayPublish(p) /\ \E f : final' = [final EXCEPT ![proc[p].row] = f]
      BY <1>5, <2>2 DEF CrashInExtraction
    <3>2. QED  BY <1>2, <2>2, <3>1 DEF FinalStep, FilesFit
  <2>3. CASE proc[p].phase # "extract.publish"
    <3>1. /\ proc[p].phase = "extract.compensate"
          /\ final' = [final EXCEPT ![proc[p].row] = "partial"]
      BY <1>5, <2>3 DEF CrashInExtraction
    <3>2. QED  BY <1>2, <2>1, <3>1 DEF FinalStep, FilesFit
  <2>4. QED  BY <2>2, <2>3
<1>6. CASE ExtractionNext
  BY <1>1, <1>3, <1>4, <1>5, <1>6 DEF ExtractionNext, EnqueueExtraction,
     ExtractionLapses, RetryExtraction, AdmitUpload, FinalizeUpload, UploadRefused,
     ClaimExtraction, CleanStaleClaim, StageExtraction, RunExtractor, FinalizeRefused,
     EndExtraction, CrashInUpload, extractionVars
<1>7. CASE IndexingNext
  BY <1>1, <1>7 DEF IndexingNext, DeleteDocument, EnqueueIndexing, IndexingLapses,
     RetryIndexing, ClaimIndexing, IndexingFails, CheckClaim, DeleteStaleAttempt,
     LoadArtifacts, UpsertStaging, ActivateAttempt, FinalizeIndexing, ActivationFails,
     CheckCleanup, DeleteAttempt, EndIndexing, CrashInIndexing, extractionVars
<1>8. CASE AnswersNext \/ UNCHANGED ragVars
  BY <1>1, <1>8 DEF AnswersNext, StartRun, FailRun, SearchPublished, AuthorizeHits,
     LoadEvidence, FinalizeAnswered, FinalizeInsufficient, CrashInAnswer, ragVars,
     extractionVars
<1>9. QED  BY <1>6, <1>7, <1>8 DEF RagNext

\* Who may enter the phases of an upload and of a compensation.
LEMMA EntersPhase ==
    ASSUME Typed, [RagNext]_ragVars, NEW p \in Processes
    PROVE  /\ proc'[p].phase = "upload" => proc'[p] = proc[p] \/ AdmitUpload(p)
           /\ proc'[p].phase = "extract.compensate" =>
                 proc'[p] = proc[p] \/ FinalizeRolledBack(p)
<1>1. ProcessStep(p) /\ proc \in [Processes -> Memory]
  BY ProcessesStep DEF ProcessSteps, Typed, ProcessesFit
<1>2. CASE Continues(proc[p], proc'[p])
           /\ (proc'[p].phase = "extract.compensate" => FinalizeRolledBack(p))
  BY <1>2 DEF Continues, ExtractionPhases, IndexingPhases, AnswerPhases
<1>3. CASE proc'[p] = IdleProcess
  BY <1>3 DEF IdleProcess
<1>4. CASE AdmitUpload(p)
  BY <1>1, <1>4 DEF AdmitUpload, Goto, Memory
<1>5. CASE ClaimExtraction(p)
  BY <1>1, <1>5 DEF ClaimExtraction, IdleProcess
<1>6. CASE ClaimIndexing(p)
  <2>1. proc'[p].phase \in {"index.load", "index.stale"}
    BY <1>1, <1>6 DEF ClaimIndexing, IdleProcess
  <2>2. QED  BY <2>1
<1>7. CASE StartRun(p)
  BY <1>1, <1>7 DEF StartRun, IdleProcess
<1>8. QED  BY <1>1, <1>2, <1>3, <1>4, <1>5, <1>6, <1>7 DEF ProcessStep

LEMMA UploadsStep ==
    ASSUME Typed, BytesInv, [RagNext]_ragVars
    PROVE  UploadsAlone' /\ (document' # "none" => source' = "whole")
<1>1. UploadStep /\ UploadsAlone /\ (document # "none" => source = "whole")
  BY UploadSteps DEF BytesInv, ExtractedBytes
<1>2. ASSUME NEW p \in Processes, proc'[p].phase = "upload"
      PROVE  document' = "none"
             /\ \A q \in Processes : proc'[q].phase = "upload" => q = p
  <2>1. CASE AdmitUpload(p)
    <3>1. /\ document' = "none"
          /\ \A q \in Processes : proc[q].phase # "upload"
          /\ proc' = [proc EXCEPT ![p].phase = "upload"]
      BY <2>1 DEF AdmitUpload, documentVars, Goto
    <3>2. QED  BY <3>1 DEF Typed, ProcessesFit
  <2>2. CASE proc'[p] = proc[p]
    <3>1. /\ proc[p].phase = "upload" /\ document = "none"
          /\ \A q \in Processes : proc[q].phase = "upload" => q = p
      BY <1>1, <1>2, <2>2 DEF UploadsAlone
    <3>2. ~(\E q \in Processes : proc[q].phase = "upload" /\ End(q))
      BY <1>2, <3>1 DEF End, Typed, ProcessesFit, IdleProcess
    <3>3. document' = "none"
      BY <1>1, <3>1, <3>2 DEF UploadStep, documentVars
    <3>4. \A q \in Processes : proc'[q].phase = "upload" => q = p
      BY <3>1, EntersPhase DEF AdmitUpload
    <3>5. QED  BY <3>3, <3>4
  <2>3. QED  BY <1>2, <2>1, <2>2, EntersPhase
<1>3. document' # "none" => source' = "whole"
  BY <1>1 DEF UploadStep, UploadsAlone, documentVars
<1>4. QED  BY <1>2, <1>3 DEF UploadsAlone

LEMMA FinalsStep ==
    ASSUME Typed, BytesInv, [RagNext]_ragVars
    PROVE  /\ CompensationsAlone'
           /\ \A n \in Extractions : extraction'[n].status = "succeeded" => final'[n] = "whole"
<1>1. /\ CompensationsAlone
      /\ \A n \in Extractions : extraction[n].status = "succeeded" => final[n] = "whole"
      /\ FilesFit /\ ProcessesFit /\ ExtractionsFit
  BY DEF BytesInv, ExtractedBytes, Typed
<1>2. ExtractionStep
  BY ExtractionRows DEF Typed
<1>3. ASSUME NEW p \in Processes, MayPublish(p)
      PROVE  final[proc[p].row] = "none" /\ extraction[proc[p].row].status = "running"
  BY <1>3 DEF MayPublish, PlaceFree, Owns
<1>4. ASSUME NEW p \in Processes, proc[p].phase \in ExtractionPhases
      PROVE  proc[p].row \in Extractions
  BY <1>1, <1>4 DEF ProcessesFit, MemoryFits
<1>5. ASSUME NEW p \in Processes, FinalizeRolledBack(p)
      PROVE  /\ proc[p].row \in Extractions /\ proc'[p].row = proc[p].row
             /\ final[proc[p].row] = "none" /\ final'[proc[p].row] # "none"
             /\ extraction'[proc[p].row].status # "succeeded"
             /\ \A q \in Processes : q # p => proc'[q] = proc[q]
  <2>1. /\ proc[p].phase = "extract.publish" /\ MayPublish(p) /\ Published(p)
        /\ proc' = [proc EXCEPT ![p].phase = "extract.compensate"]
    BY <1>5 DEF FinalizeRolledBack, Goto
  <2>2. proc[p].row \in Extractions
    BY <1>4, <2>1 DEF ExtractionPhases
  <2>3. final'[proc[p].row] = "whole"
    BY <1>1, <2>1, <2>2 DEF Published, FilesFit
  <2>4. extraction'[proc[p].row].status = "running"
    <3>1. PICK lapsed \in BOOLEAN :
             extraction' = [extraction EXCEPT ![proc[p].row].live = ~lapsed]
      BY <1>5 DEF FinalizeRolledBack
    <3>2. QED  BY <1>1, <1>3, <2>1, <2>2, <3>1 DEF ExtractionsFit, Extraction
  <2>5. QED  BY <1>1, <1>3, <2>1, <2>2, <2>3, <2>4 DEF ProcessesFit, Memory
<1>6. ASSUME NEW p \in Processes, FinalizeExtraction(p)
      PROVE  /\ proc[p].row \in Extractions
             /\ final[proc[p].row] = "none" /\ final'[proc[p].row] = "whole"
             /\ \A n \in Extractions : n # proc[p].row => extraction'[n] = extraction[n]
  <2>1. proc[p].phase = "extract.publish" /\ MayPublish(p) /\ Published(p)
    BY <1>6 DEF FinalizeExtraction
  <2>2. proc[p].row \in Extractions
    BY <1>4, <2>1 DEF ExtractionPhases
  <2>3. final'[proc[p].row] = "whole"
    BY <1>1, <2>1, <2>2 DEF Published, FilesFit
  <2>4. QED  BY <1>1, <1>3, <1>6, <2>1, <2>2, <2>3 DEF FinalizeExtraction, ExtractionsFit
<1>7. ASSUME NEW p \in Processes, proc'[p].phase = "extract.compensate",
             proc'[p] = proc[p]
      PROVE  /\ final'[proc'[p].row] # "none"
             /\ extraction'[proc'[p].row].status # "succeeded"
             /\ \A q \in Processes :
                   proc'[q].phase = "extract.compensate" /\ proc'[q].row = proc'[p].row
                      => q = p
  <2> DEFINE n == proc[p].row
  <2>1. /\ proc[p].phase = "extract.compensate" /\ final[n] # "none"
        /\ extraction[n].status # "succeeded"
        /\ \A q \in Processes :
              proc[q].phase = "extract.compensate" /\ proc[q].row = n => q = p
    BY <1>1, <1>7 DEF CompensationsAlone
  <2>2. n \in Extractions
    BY <1>4, <2>1 DEF ExtractionPhases
  <2>3. final'[n] = final[n]
    BY <1>3, <1>7, <2>1, <2>2, FinalSteps DEF FinalStep
  <2>4. extraction'[n].status # "succeeded"
    <3>1. CASE \E q \in Processes : FinalizeExtraction(q)
      BY <1>6, <2>1, <2>2, <3>1
    <3>2. QED  BY <1>2, <2>1, <2>2, <3>1 DEF ExtractionStep
  <2>5. ASSUME NEW q \in Processes, proc'[q].phase = "extract.compensate", proc'[q].row = n
        PROVE  q = p
    <3>1. CASE FinalizeRolledBack(q)
      BY <1>5, <2>1, <2>5, <3>1
    <3>2. QED  BY <2>1, <2>5, <3>1, EntersPhase
  <2>6. QED  BY <1>7, <2>1, <2>3, <2>4, <2>5
<1>8. ASSUME NEW p \in Processes, FinalizeRolledBack(p)
      PROVE  /\ final'[proc'[p].row] # "none"
             /\ extraction'[proc'[p].row].status # "succeeded"
             /\ \A q \in Processes :
                   proc'[q].phase = "extract.compensate" /\ proc'[q].row = proc'[p].row
                      => q = p
  <2>1. ASSUME NEW q \in Processes, q # p, proc'[q].phase = "extract.compensate",
               proc'[q].row = proc'[p].row
        PROVE  FALSE
    BY <1>1, <1>5, <1>8, <2>1 DEF CompensationsAlone
  <2>2. QED  BY <1>5, <1>8, <2>1
<1>9. CompensationsAlone'
  BY <1>7, <1>8, EntersPhase DEF CompensationsAlone
<1>10. ASSUME NEW n \in Extractions, extraction'[n].status = "succeeded"
       PROVE  final'[n] = "whole"
  <2>1. CASE extraction[n].status = "succeeded"
    <3>1. final[n] = "whole"
      BY <1>1, <2>1
    <3>2. final'[n] = final[n]
      BY <1>1, <1>3, <2>1, FinalSteps DEF FinalStep, CompensationsAlone
    <3>3. QED  BY <3>1, <3>2
  <2>2. CASE extraction[n].status # "succeeded"
    <3>1. PICK p \in Processes : FinalizeExtraction(p)
      BY <1>2, <1>10, <2>2 DEF ExtractionStep
    <3>2. n = proc[p].row
      BY <1>6, <1>10, <2>2, <3>1
    <3>3. QED  BY <1>6, <3>1, <3>2
  <2>3. QED  BY <2>1, <2>2
<1>11. QED  BY <1>9, <1>10

LEMMA BytesStep ==
    ASSUME Typed, BytesInv, [RagNext]_ragVars
    PROVE  BytesInv'
BY UploadsStep, FinalsStep DEF BytesInv, ExtractedBytes
(***************************************************************************)
(* The claims on indexings.  No two workers have the same attempt, and an  *)
(* attempt that succeeded has no worker left: nobody deletes its points.   *)
(***************************************************************************)

AtWork(p) == proc[p].phase \in IndexingPhases

DistinctAttempts == \A p, q \in Processes :
    AtWork(p) /\ AtWork(q) /\ Attempt(p) = Attempt(q) => p = q

WorkAhead == \A p \in Processes : AtWork(p) =>
    ~(index[proc[p].row].status = "succeeded" /\ index[proc[p].row].token = proc[p].token)

\* The lock of an activation keeps the row as its worker found it.
LockHeld == \A p \in Processes : proc[p].phase = "activated" =>
    index[proc[p].row].status = "running" /\ index[proc[p].row].token = proc[p].token

\* One indexing is queued, at work or done: only then does nobody else have a
\* claim on the points.
Taken(r) == r.status \in {"queued", "running", "succeeded"}
OneIndexing == \A m, n \in Indexings : Taken(index[m]) /\ Taken(index[n]) => m = n

ClaimsInv == DistinctAttempts /\ WorkAhead /\ LockHeld /\ OneIndexing /\ SucceededPoints

\* A step takes no indexing, or queues the only one.
TakingStep ==
    \/ \A n \in Indexings : Taken(index'[n]) => Taken(index[n])
    \/ ~Conflict(index) /\ index' \in WithQueued(index)

LEMMA IndexingsTaken ==
    ASSUME IndexingsFit, ProcessesFit, [RagNext]_ragVars
    PROVE  TakingStep
<1>1. index \in [Indexings -> Extraction] /\ \A n \in Indexings : RowFits(index[n])
  BY DEF IndexingsFit, Indexing
<1>2. CASE EnqueueIndexing \/ \E n \in Indexings : RetryIndexing(n)
  BY <1>2 DEF EnqueueIndexing, RetryIndexing, TakingStep
<1>3. ASSUME NEW m \in Indexings, Taken(index[m]),
             \A k \in Indexings \ {m} : index'[k] = index[k]
      PROVE  TakingStep
  BY <1>3 DEF TakingStep
<1>4. ASSUME NEW p \in Processes, ClaimIndexing(p)
      PROVE  TakingStep
  <2>1. PICK n \in Indexings : RowClaimable(index[n]) /\ index' = [index EXCEPT ![n] = Claimed(@)]
    BY <1>4 DEF ClaimIndexing
  <2>2. \A k \in Indexings \ {n} : index'[k] = index[k]
    BY <1>1, <2>1
  <2>3. Taken(index[n])
    BY <2>1 DEF RowClaimable, Taken
  <2>4. QED  BY <1>3, <2>2, <2>3
<1>5. ASSUME NEW p \in Processes, FinalizeIndexing(p)
      PROVE  TakingStep
  <2> DEFINE n == proc[p].row
  <2>1. n \in Indexings /\ index[n].live
    BY <1>5 DEF FinalizeIndexing, ProcessesFit, MemoryFits, IndexingPhases
  <2>2. Taken(index[n])
    BY <1>1, <2>1 DEF RowFits, Taken
  <2>3. \A k \in Indexings \ {n} : index'[k] = index[k]
    BY <1>1, <1>5 DEF FinalizeIndexing
  <2>4. QED  BY <1>3, <2>1, <2>2, <2>3
<1>6. ASSUME NEW p \in Processes, EndIndexing(p)
      PROVE  TakingStep
  <2>1. index' = Released(p, index)
    BY <1>6 DEF EndIndexing
  <2>2. CASE Owns(p, index)
    <3>1. Taken(index[proc[p].row])
      BY <2>2 DEF Owns, Taken
    <3>2. \A k \in Indexings \ {proc[p].row} : index'[k] = index[k]
      BY <1>1, <2>1, <2>2 DEF Released
    <3>3. proc[p].row \in Indexings
      BY <1>6 DEF EndIndexing, ProcessesFit, MemoryFits, IndexingPhases
    <3>4. QED  BY <1>3, <3>1, <3>2, <3>3
  <2>3. CASE ~Owns(p, index)
    BY <2>1, <2>3 DEF Released, TakingStep
  <2>4. QED  BY <2>2, <2>3
<1>7. CASE IndexingLapses
  <2>1. PICK n \in Indexings : /\ index[n].status = "running"
                               /\ index' = [index EXCEPT ![n].live = FALSE]
    BY <1>7 DEF IndexingLapses
  <2>2. \A k \in Indexings \ {n} : index'[k] = index[k]
    BY <1>1, <2>1
  <2>3. Taken(index[n])
    BY <2>1 DEF Taken
  <2>4. QED  BY <1>3, <2>2, <2>3
<1>8. CASE DeleteDocument
  BY <1>1, <1>8 DEF DeleteDocument, CancelQueued, TakingStep, Taken
<1>9. CASE UNCHANGED index
  BY <1>9 DEF TakingStep
<1>10. CASE \E p \in Processes :
              \/ IndexingFails(p)
              \/ CheckClaim(p, "index.stale", "index.deleteStale")
              \/ CheckClaim(p, "index.batch", "index.upsert")
              \/ CheckClaim(p, "index.stale2", "index.deleteStale2")
              \/ DeleteStaleAttempt(p) \/ LoadArtifacts(p) \/ UpsertStaging(p)
              \/ ActivateAttempt(p) \/ ActivationFails(p)
              \/ CheckCleanup(p) \/ DeleteAttempt(p) \/ CrashInIndexing(p)
  BY <1>9, <1>10
     DEF IndexingFails, CheckClaim, DeleteStaleAttempt, LoadArtifacts, UpsertStaging,
         ActivateAttempt, ActivationFails, CheckCleanup, DeleteAttempt, CrashInIndexing,
         indexVars
<1>11. CASE AnswersNext \/ UNCHANGED ragVars
  BY <1>9, <1>11
     DEF AnswersNext, StartRun, FailRun, SearchPublished, AuthorizeHits, LoadEvidence,
         FinalizeAnswered, FinalizeInsufficient, CrashInAnswer, indexVars, ragVars
<1>12. QED
  BY <1>2, <1>4, <1>5, <1>6, <1>7, <1>8, <1>9, <1>10, <1>11 DEF RagNext, IndexingNext

LEMMA EntersWork ==
    ASSUME Typed, [RagNext]_ragVars, NEW p \in Processes, proc'[p].phase \in IndexingPhases
    PROVE  \/ ClaimIndexing(p)
           \/ /\ AtWork(p)
              /\ proc'[p].row = proc[p].row /\ proc'[p].token = proc[p].token
              /\ proc'[p].phase = "activated" =>
                    proc'[p] = proc[p] \/ (ActivateAttempt(p) /\ Goto(p, "activated"))
<1>1. ProcessStep(p) /\ proc \in [Processes -> Memory]
  BY ProcessesStep DEF ProcessSteps, Typed, ProcessesFit
<1>2. CASE Continues(proc[p], proc'[p])
           /\ (proc'[p].phase = "activated" => ActivateAttempt(p))
  <2>1. AtWork(p) /\ proc'[p].row = proc[p].row /\ proc'[p].token = proc[p].token
    BY <1>2 DEF Continues, AtWork, ExtractionPhases, IndexingPhases, AnswerPhases
  <2>2. ASSUME proc'[p].phase = "activated"
        PROVE  ActivateAttempt(p) /\ Goto(p, "activated")
    <3>1. ~Goto(p, "index.clean")
      BY <1>1, <2>2 DEF Goto, Memory
    <3>2. QED  BY <1>2, <2>2, <3>1 DEF ActivateAttempt
  <2>3. QED  BY <2>1, <2>2
<1>3. CASE proc'[p] = IdleProcess
  BY <1>3 DEF IdleProcess, IndexingPhases
<1>4. CASE AdmitUpload(p)
  BY <1>1, <1>4 DEF AdmitUpload, Goto, Memory, IndexingPhases
<1>5. CASE ClaimExtraction(p)
  <2>1. proc'[p].phase = "extract.claimed"
    BY <1>1, <1>5 DEF ClaimExtraction, IdleProcess
  <2>2. QED  BY <2>1 DEF IndexingPhases
<1>6. CASE StartRun(p)
  <2>1. proc'[p].phase = "answer.search"
    BY <1>1, <1>6 DEF StartRun, IdleProcess
  <2>2. QED  BY <2>1 DEF IndexingPhases
<1>7. CASE proc'[p] = proc[p]
  BY <1>7 DEF AtWork
<1>8. QED  BY <1>1, <1>2, <1>3, <1>4, <1>5, <1>6, <1>7 DEF ProcessStep

\* A claim: a new attempt on a row that no activation holds.
LEMMA ClaimFacts ==
    ASSUME Typed, NEW p \in Processes, ClaimIndexing(p)
    PROVE  \E n \in Indexings :
              /\ proc'[p].row = n /\ proc'[p].token = index[n].claims + 1
              /\ proc'[p].phase # "activated"
              /\ \A q \in Processes : q # p => proc'[q] = proc[q]
              /\ \A q \in Processes : proc[q].phase = "activated" => proc[q].row # n
              /\ index'[n].status = "running"
              /\ \A k \in Indexings : k # n => index'[k] = index[k]
<1>1. PICK n \in Indexings :
         /\ RowClaimable(index[n]) /\ index[n].claims < MaxClaims
         /\ ~\E q \in Processes : proc[q].phase = "activated" /\ proc[q].row = n
         /\ index' = [index EXCEPT ![n] = Claimed(@)]
         /\ LET stale == IF index[n].status = "running" THEN index[n].token ELSE 0
            IN  proc' = [proc EXCEPT ![p] = [IdleProcess EXCEPT
                   !.phase = IF stale = 0 THEN "index.load" ELSE "index.stale",
                   !.row = n, !.token = index[n].claims + 1, !.stale = stale]]
  BY DEF ClaimIndexing
<1>2. /\ proc \in [Processes -> Memory] /\ index \in [Indexings -> Indexing]
      /\ RowFits(index[n])
  BY DEF Typed, ProcessesFit, IndexingsFit
<1>3. index'[n].status = "running" /\ \A k \in Indexings : k # n => index'[k] = index[k]
  BY <1>1, <1>2, ClaimedFits
<1>4. /\ proc'[p].row = n /\ proc'[p].token = index[n].claims + 1
      /\ proc'[p].phase \in {"index.load", "index.stale"}
  BY <1>1, <1>2 DEF IdleProcess
<1>5. \A q \in Processes : q # p => proc'[q] = proc[q]
  BY <1>1, <1>2
<1>6. QED  BY <1>1, <1>3, <1>4, <1>5

\* The worker that finalizes or ends its claim works no more.
LEMMA ClaimEnds ==
    ASSUME Typed, NEW p \in Processes, FinalizeIndexing(p) \/ EndIndexing(p)
    PROVE  /\ AtWork(p) /\ proc[p].row \in Indexings
           /\ proc'[p].phase = "idle"
           /\ \A q \in Processes : q # p => proc'[q] = proc[q]
           /\ FinalizeIndexing(p) =>
                 /\ \A k \in Indexings : k # proc[p].row => index'[k] = index[k]
                 /\ index'[proc[p].row].token = index[proc[p].row].token
           /\ EndIndexing(p) => \A k \in Indexings :
                 \/ index'[k] = index[k]
                 \/ /\ k = proc[p].row /\ index[k].token = proc[p].token
                    /\ index'[k].status # "succeeded"
<1>1. AtWork(p) /\ End(p)
  BY DEF FinalizeIndexing, EndIndexing, AtWork, IndexingPhases
<1>2. /\ proc \in [Processes -> Memory] /\ index \in [Indexings -> Extraction]
      /\ \A n \in Indexings : RowFits(index[n])
  BY DEF Typed, ProcessesFit, IndexingsFit, Indexing
<1>3. proc[p].row \in Indexings
  BY <1>1, AttemptTyped DEF AtWork
<1>4. proc'[p].phase = "idle" /\ \A q \in Processes : q # p => proc'[q] = proc[q]
  BY <1>1, <1>2 DEF End, IdleProcess
<1>5. CASE FinalizeIndexing(p)
  <2> DEFINE row == [index[proc[p].row] EXCEPT !.status = "succeeded", !.live = FALSE]
  <2>1. index' = [index EXCEPT ![proc[p].row] = row]
    BY <1>2, <1>5 DEF FinalizeIndexing
  <2>2. row.token = index[proc[p].row].token
    BY <1>2, <1>3 DEF Extraction
  <2> HIDE DEF row
  <2>3. proc[p].phase = "activated"
    BY <1>5 DEF FinalizeIndexing
  <2>4. ~EndIndexing(p)
    BY <2>3 DEF EndIndexing
  <2>5. QED  BY <1>1, <1>2, <1>3, <1>4, <2>1, <2>2, <2>4
<1>6. CASE EndIndexing(p)
  <2>1. index' = Released(p, index)
    BY <1>6 DEF EndIndexing
  <2>2. \A k \in Indexings :
           \/ index'[k] = index[k]
           \/ /\ k = proc[p].row /\ index[k].token = proc[p].token
              /\ index'[k].status # "succeeded"
    BY <1>2, <1>3, <2>1, ReleasedFits
  <2>3. proc[p].phase = "index.end"
    BY <1>6 DEF EndIndexing
  <2>4. ~FinalizeIndexing(p)
    BY <2>3 DEF FinalizeIndexing
  <2>5. QED  BY <1>1, <1>3, <1>4, <2>2, <2>4
<1>7. QED  BY <1>5, <1>6

LEMMA DistinctStep ==
    ASSUME Typed, ClaimsInv, [RagNext]_ragVars
    PROVE  DistinctAttempts'
<1> SUFFICES ASSUME NEW p \in Processes, NEW q \in Processes,
                    proc'[p].phase \in IndexingPhases, proc'[q].phase \in IndexingPhases,
                    proc'[p].row = proc'[q].row, proc'[p].token = proc'[q].token
             PROVE  p = q
  BY DEF DistinctAttempts, AtWork, Attempt
<1>1. ASSUME NEW r \in Processes, ClaimIndexing(r), NEW s \in Processes, s # r,
             proc'[s].phase \in IndexingPhases, proc'[s].row = proc'[r].row,
             proc'[s].token = proc'[r].token
      PROVE  FALSE
  <2>1. PICK n \in Indexings :
           /\ proc'[r].row = n /\ proc'[r].token = index[n].claims + 1
           /\ \A x \in Processes : x # r => proc'[x] = proc[x]
    BY <1>1, ClaimFacts
  <2>2. proc'[s] = proc[s]
    BY <1>1, <2>1
  <2>3. proc[s].token \in 1 .. index[n].claims
    BY <1>1, <2>1, <2>2, AttemptTyped
  <2>4. index[n].claims \in Nat
    BY DEF Typed, IndexingsFit, Indexing, Extraction
  <2>5. QED  BY <1>1, <2>1, <2>2, <2>3, <2>4
<1>2. CASE ClaimIndexing(p) \/ ClaimIndexing(q)
  BY <1>1, <1>2
<1>3. CASE ~ClaimIndexing(p) /\ ~ClaimIndexing(q)
  <2>1. /\ AtWork(p) /\ proc'[p].row = proc[p].row /\ proc'[p].token = proc[p].token
        /\ AtWork(q) /\ proc'[q].row = proc[q].row /\ proc'[q].token = proc[q].token
    BY <1>3, EntersWork
  <2>2. QED  BY <2>1 DEF ClaimsInv, DistinctAttempts, Attempt
<1>4. QED  BY <1>2, <1>3

LEMMA WorkAheadStep ==
    ASSUME Typed, ClaimsInv, [RagNext]_ragVars
    PROVE  WorkAhead'
<1> SUFFICES ASSUME NEW p \in Processes, proc'[p].phase \in IndexingPhases,
                    index'[proc'[p].row].status = "succeeded",
                    index'[proc'[p].row].token = proc'[p].token
             PROVE  FALSE
  BY DEF WorkAhead, AtWork
<1>1. IndexingStep
  BY IndexingRows DEF Typed
<1>2. CASE ClaimIndexing(p)
  BY <1>2, ClaimFacts
<1>3. CASE ~ClaimIndexing(p)
  <2> DEFINE n == proc[p].row
  <2>1. AtWork(p) /\ proc'[p].row = n /\ proc'[p].token = proc[p].token
    BY <1>3, EntersWork
  <2>2. n \in Indexings
    BY <2>1, AttemptTyped DEF AtWork
  <2>3. ~(index[n].status = "succeeded" /\ index[n].token = proc[p].token)
    BY <2>1 DEF ClaimsInv, WorkAhead
  <2>4. index[n].status # "succeeded"
    BY <1>1, <2>1, <2>2, <2>3 DEF IndexingStep, RowStep
  <2>5. ASSUME NEW q \in Processes, ClaimIndexing(q)
        PROVE  FALSE
    BY <2>1, <2>2, <2>4, <2>5, ClaimFacts
  <2>6. ASSUME NEW q \in Processes, EndIndexing(q)
        PROVE  FALSE
    BY <2>1, <2>2, <2>4, <2>6, ClaimEnds
  <2>7. ASSUME NEW q \in Processes, FinalizeIndexing(q)
        PROVE  FALSE
    <3>1. /\ AtWork(q) /\ proc'[q].phase = "idle"
          /\ \A k \in Indexings : k # proc[q].row => index'[k] = index[k]
          /\ index'[proc[q].row].token = index[proc[q].row].token
      BY <2>7, ClaimEnds
    <3>2. proc[q].row = n
      BY <2>1, <2>2, <2>4, <3>1
    <3>3. index[n].token = proc[q].token
      BY <2>7, <3>2 DEF FinalizeIndexing, ClaimsInv, LockHeld
    <3>4. Attempt(p) = Attempt(q)
      BY <2>1, <3>1, <3>2, <3>3 DEF Attempt
    <3>5. p = q
      BY <2>1, <3>1, <3>4 DEF ClaimsInv, DistinctAttempts
    <3>6. QED  BY <3>1, <3>5 DEF IndexingPhases
  <2>8. CASE Quiet
    BY <2>1, <2>2, <2>4, <2>8 DEF Quiet
  <2>9. QED  BY <1>1, <2>5, <2>6, <2>7, <2>8 DEF IndexingStep
<1>4. QED  BY <1>2, <1>3

LEMMA LockHeldStep ==
    ASSUME Typed, ClaimsInv, [RagNext]_ragVars
    PROVE  LockHeld'
<1> SUFFICES ASSUME NEW p \in Processes, proc'[p].phase = "activated"
             PROVE  /\ index'[proc'[p].row].status = "running"
                    /\ index'[proc'[p].row].token = proc'[p].token
  BY DEF LockHeld
<1>1. IndexingStep
  BY IndexingRows DEF Typed
<1>2. proc'[p].phase \in IndexingPhases
  BY DEF IndexingPhases
<1>3. ~ClaimIndexing(p)
  BY ClaimFacts
<1>4. /\ AtWork(p) /\ proc'[p].row = proc[p].row /\ proc'[p].token = proc[p].token
      /\ proc'[p] = proc[p] \/ (ActivateAttempt(p) /\ Goto(p, "activated"))
  BY <1>2, <1>3, EntersWork
<1>5. CASE ActivateAttempt(p) /\ Goto(p, "activated")
  <2>1. Owns(p, index) /\ UNCHANGED index
    BY <1>5, ActivatedFits DEF ActivateAttempt
  <2>2. QED  BY <1>4, <2>1 DEF Owns
<1>6. CASE proc'[p] = proc[p]
  <2> DEFINE n == proc[p].row
  <2>1. /\ n \in Indexings /\ index[n].status = "running"
        /\ index[n].token = proc[p].token /\ proc[p].phase = "activated"
    BY <1>4, <1>6, AttemptTyped DEF ClaimsInv, LockHeld, AtWork
  <2>2. CASE \E q \in Processes : ClaimIndexing(q)
    BY <1>6, <2>1, <2>2, ClaimFacts
  <2>3. ASSUME NEW q \in Processes, FinalizeIndexing(q) \/ EndIndexing(q),
               index'[n] # index[n]
        PROVE  FALSE
    <3>1. /\ AtWork(q) /\ proc'[q].phase = "idle" /\ proc[q].row = n
          /\ EndIndexing(q) => index[n].token = proc[q].token
      BY <2>1, <2>3, ClaimEnds
    <3>2. index[n].token = proc[q].token
      BY <2>3, <3>1 DEF FinalizeIndexing, ClaimsInv, LockHeld
    <3>3. Attempt(p) = Attempt(q)
      BY <2>1, <3>1, <3>2 DEF Attempt
    <3>4. p = q
      BY <1>4, <3>1, <3>3 DEF ClaimsInv, DistinctAttempts
    <3>5. QED  BY <3>1, <3>4
  <2>4. CASE Quiet
    BY <1>6, <2>1, <2>4 DEF Quiet
  <2>5. QED  BY <1>1, <1>6, <2>1, <2>2, <2>3, <2>4 DEF IndexingStep
<1>7. QED  BY <1>4, <1>5, <1>6

LEMMA OneIndexingStep ==
    ASSUME Typed, ClaimsInv, [RagNext]_ragVars
    PROVE  OneIndexing'
<1>1. TakingStep /\ OneIndexing /\ index \in [Indexings -> Extraction]
  BY IndexingsTaken DEF Typed, ClaimsInv, IndexingsFit, Indexing
<1>2. CASE \A n \in Indexings : Taken(index'[n]) => Taken(index[n])
  BY <1>1, <1>2 DEF OneIndexing
<1>3. CASE ~Conflict(index) /\ index' \in WithQueued(index)
  <2>1. \A n \in Indexings : ~Taken(index[n])
    BY <1>1, <1>3 DEF Conflict, Taken
  <2>2. PICK k \in Indexings : index' = [index EXCEPT ![k].status = "queued"]
    BY <1>1, <1>3 DEF WithQueued
  <2>3. \A n \in Indexings : n # k => index'[n] = index[n]
    BY <1>1, <2>2
  <2>4. QED  BY <2>1, <2>3 DEF OneIndexing
<1>4. QED  BY <1>1, <1>2, <1>3 DEF TakingStep

\* While an indexing is done nobody has a claim on another.
LEMMA NobodyElse ==
    ASSUME ClaimsInv, NEW n \in Indexings, index[n].status = "succeeded",
           NEW m \in Indexings
    PROVE  index[m].status # "running"
BY DEF ClaimsInv, OneIndexing, Taken

LEMMA SucceededStep ==
    ASSUME Typed, ClaimsInv, [RagNext]_ragVars
    PROVE  SucceededPoints'
<1> SUFFICES ASSUME NEW n \in Indexings, index'[n].status = "succeeded",
                    NEW c \in Chunks \ late'
             PROVE  points'[c] = [attempt |-> <<n, index'[n].token>>, published |-> TRUE]
  BY DEF SucceededPoints
<1>1. IndexingStep /\ PointStep
  BY IndexingRows, PointSteps DEF Typed
<1>2. CASE index[n].status # "succeeded"
  <2>1. PICK p \in Processes : FinalizeIndexing(p)
    BY <1>1, <1>2, ClaimFacts, ClaimEnds DEF IndexingStep, Quiet
  <2>2. n = proc[p].row /\ index'[n].token = index[n].token
    BY <1>2, <2>1, ClaimEnds
  <2>3. index[n].token = proc[p].token
    BY <2>1, <2>2 DEF FinalizeIndexing, ClaimsInv, LockHeld
  <2>4. points'[c] = [attempt |-> Attempt(p), published |-> TRUE]
    BY <2>1 DEF FinalizeIndexing, AttemptComplete
  <2>5. QED  BY <2>2, <2>3, <2>4 DEF Attempt
<1>3. CASE index[n].status = "succeeded"
  <2>1. index'[n] = index[n]
    BY <1>1, <1>3 DEF IndexingStep, RowStep
  <2>2. ~\E p \in Processes : FinalizeIndexing(p)
    <3> SUFFICES ASSUME NEW p \in Processes, proc[p].phase = "activated"
                 PROVE  FALSE
      BY DEF FinalizeIndexing
    <3>1. proc[p].row \in Indexings
      BY AttemptTyped DEF IndexingPhases
    <3>2. QED  BY <1>3, <3>1, NobodyElse DEF ClaimsInv, LockHeld
  <2>3. late \subseteq late'
    BY <1>1, <2>2
    DEF PointStep, UpsertStaging, DeleteAttempt, DeleteStaleAttempt, ActivateAttempt
  <2>4. points[c] = [attempt |-> <<n, index[n].token>>, published |-> TRUE]
    BY <1>3, <2>3 DEF ClaimsInv, SucceededPoints
  <2>5. points[c].attempt = <<n, index[n].token>> /\ points[c].published
    BY <2>4
  <2>6. index[n].token = index[n].claims /\ index[n].claims \in Nat
    BY <1>3 DEF Typed, IndexingsFit, RowFits, Indexing, Extraction
  <2>7. points'[c] = points[c]
    <3>1. CASE UNCHANGED <<points, late>>
      BY <3>1
    <3>2. ASSUME NEW p \in Processes, UpsertStaging(p)
          PROVE  points'[c] = points[c]
      <4>1. ~Owns(p, index)
        <5>1. proc[p].row \in Indexings
          BY <3>2, AttemptTyped DEF UpsertStaging, IndexingPhases
        <5>2. QED  BY <1>3, <5>1, NobodyElse DEF Owns
      <4>2. c # proc[p].chunk
        BY <2>5, <3>2, <4>1 DEF UpsertStaging
      <4>3. QED  BY <3>2, <4>2 DEF UpsertStaging, Typed, PointsFit
    <3>3. ASSUME NEW p \in Processes, DeleteAttempt(p)
          PROVE  points'[c] = points[c]
      <4>1. AtWork(p)
        BY <3>3 DEF DeleteAttempt, AtWork, IndexingPhases
      <4>2. points[c].attempt # Attempt(p)
        BY <1>3, <2>5, <4>1 DEF ClaimsInv, WorkAhead, Attempt
      <4>3. points' = points \/ points' = WithoutAttempt(Attempt(p))
        BY <3>3 DEF DeleteAttempt
      <4>4. QED  BY <4>2, <4>3, WithoutAttemptFits DEF Typed
    <3>4. ASSUME NEW p \in Processes, DeleteStaleAttempt(p)
          PROVE  points'[c] = points[c]
      <4>1. proc[p].phase \in IndexingPhases
        BY <3>4 DEF DeleteStaleAttempt, IndexingPhases
      <4>2. proc[p].row = n => proc[p].stale # index[n].token
        BY <2>6, <4>1, AttemptTyped
      <4>3. points[c].attempt # <<proc[p].row, proc[p].stale>>
        BY <2>5, <4>2
      <4>4. points' = WithoutAttempt(<<proc[p].row, proc[p].stale>>)
        BY <3>4 DEF DeleteStaleAttempt
      <4>5. QED  BY <4>3, <4>4, WithoutAttemptFits DEF Typed
    <3>5. ASSUME NEW p \in Processes, ActivateAttempt(p), Goto(p, "activated")
          PROVE  points'[c] = points[c]
      BY <2>5, <3>5, ActivatedFits
    <3>6. QED  BY <1>1, <2>2, <3>1, <3>2, <3>3, <3>4, <3>5 DEF PointStep
  <2>8. QED  BY <2>1, <2>4, <2>7
<1>4. QED  BY <1>2, <1>3

LEMMA ClaimsStep ==
    ASSUME Typed, ClaimsInv, [RagNext]_ragVars
    PROVE  ClaimsInv'
BY DistinctStep, WorkAheadStep, LockHeldStep, OneIndexingStep, SucceededStep DEF ClaimsInv
(***************************************************************************)
(* The answers.                                                            *)
(***************************************************************************)

Answered == \A a \in Answers : answer[a].status = "answered" =>
    Extracted /\ \A hit \in answer[a].cited : Indexed(hit)

\* The steps that record an answer, and what every answer rests on after it.
AnswersKept ==
    \A a \in Answers : answer'[a].status = "answered" =>
        /\ answer[a].status # "answered" => document = "stored"
        /\ Extracted'
        /\ \A hit \in answer'[a].cited : Indexed(hit)'

\* A succeeded row stays, and so does what rests on it.
LEMMA SourcesStay ==
    ASSUME Typed, [RagNext]_ragVars
    PROVE  /\ Extracted => Extracted'
           /\ \A hit \in Hit : Indexed(hit) => Indexed(hit)'
<1>1. ExtractionStep /\ IndexingStep
  BY ExtractionRows, IndexingRows DEF Typed
<1>2. Extracted => Extracted'
  BY <1>1 DEF Extracted, ExtractionStep, RowStep
<1>3. ASSUME NEW hit \in Hit, Indexed(hit)
      PROVE  Indexed(hit)'
  <2>1. hit[2][1] \in Indexings
    BY DEF Hit
  <2>2. index'[hit[2][1]] = index[hit[2][1]]
    BY <1>1, <1>3, <2>1 DEF Indexed, IndexingStep, RowStep
  <2>3. QED  BY <1>3, <2>2 DEF Indexed
<1>4. QED  BY <1>2, <1>3

LEMMA AnswersKeptStep ==
    ASSUME Typed, Answered, [RagNext]_ragVars
    PROVE  AnswersKept
<1> SUFFICES ASSUME NEW a \in Answers, answer'[a].status = "answered"
             PROVE  /\ answer[a].status # "answered" => document = "stored"
                    /\ Extracted'
                    /\ \A hit \in answer'[a].cited : Indexed(hit)'
  BY DEF AnswersKept
<1>1. AnswerStep
  BY AnswerSteps
<1>2. answer \in [Answers -> Answer]
  BY DEF Typed
<1>3. CASE answer'[a] = answer[a]
  <2>1. Extracted /\ \A hit \in answer[a].cited : Indexed(hit)
    BY <1>3 DEF Answered
  <2>2. answer[a].cited \subseteq Hit
    BY <1>2 DEF Answer
  <2>3. QED  BY <1>3, <2>1, <2>2, SourcesStay
<1>4. ASSUME NEW p \in Processes, FinalizeAnswered(p), answer'[a] # answer[a]
      PROVE  /\ document = "stored" /\ Extracted'
             /\ \A hit \in answer'[a].cited : Indexed(hit)'
  <2>1. /\ proc[p].hits # {}
        /\ \A hit \in proc[p].hits : document = "stored" /\ Extracted /\ Indexed(hit)
        /\ SetRun(p, "answered", proc[p].hits)
    BY <1>4 DEF FinalizeAnswered, Current
  <2>2. answer'[a].cited = proc[p].hits
    BY <1>2, <1>4, <2>1 DEF SetRun
  <2>3. proc[p].hits \subseteq Hit
    BY DEF Typed, ProcessesFit, Memory
  <2>4. document = "stored" /\ Extracted
    BY <2>1
  <2>5. QED  BY <2>1, <2>2, <2>3, <2>4, SourcesStay
<1>5. QED  BY <1>1, <1>3, <1>4 DEF AnswerStep

(***************************************************************************)
(* The theorems.                                                           *)
(***************************************************************************)

KnowledgeInv == Typed /\ BytesInv /\ ClaimsInv /\ Answered

LEMMA KnowledgeInit ==
    ASSUME RagInit
    PROVE  KnowledgeInv
<1>1. Typed
  BY TypedInit
<1>2. \A p \in Processes : proc[p].phase = "idle"
  BY DEF RagInit, ExtractionInit, IdleProcess
<1>3. BytesInv
  BY <1>2 DEF BytesInv, UploadsAlone, CompensationsAlone, ExtractedBytes, RagInit,
              ExtractionInit, NoRow
<1>4. ClaimsInv
  BY <1>2 DEF ClaimsInv, DistinctAttempts, WorkAhead, LockHeld, OneIndexing, Taken,
              SucceededPoints, AtWork, IndexingPhases, RagInit, IndexingInit, NoRow
<1>5. Answered
  BY DEF Answered, RagInit, AnswersInit
<1>6. QED  BY <1>1, <1>3, <1>4, <1>5 DEF KnowledgeInv

LEMMA KnowledgeStep ==
    ASSUME KnowledgeInv, [RagNext]_ragVars
    PROVE  KnowledgeInv'
<1>1. Typed' /\ BytesInv' /\ ClaimsInv'
  BY TypedStep, BytesStep, ClaimsStep DEF KnowledgeInv
<1>2. Answered'
  BY AnswersKeptStep DEF KnowledgeInv, AnswersKept, Answered
<1>3. QED  BY <1>1, <1>2 DEF KnowledgeInv

\* The invariant of documents, extractions, indexings and answers: types,
\* who may still touch the bytes, who still has a claim, what answers rest on.
THEOREM KnowledgeInvariant == RagSpec => []KnowledgeInv
BY KnowledgeInit, KnowledgeStep, PTL DEF RagSpec

\* Every reachable state is well typed; a leased row has a token exactly
\* when it was claimed and not given back.
THEOREM KnowledgeTyped == RagSpec => []KnowledgeTypeOK
<1>1. KnowledgeInv => KnowledgeTypeOK
  BY TypedIsTypeOK DEF KnowledgeInv
<1>2. QED  BY <1>1, KnowledgeInvariant, PTL

\* A stored document has its source and a succeeded extraction its whole
\* final, although finals are taken back without a lock or a claim.
THEOREM ExtractedBytesHolds == RagSpec => []ExtractedBytes
<1>1. KnowledgeInv => ExtractedBytes
  BY DEF KnowledgeInv, BytesInv
<1>2. QED  BY <1>1, KnowledgeInvariant, PTL

\* A succeeded index row has its points, published and of its attempt,
\* whatever attempts before it left in Qdrant; but for those that a worker
\* overwrote with a claim that was gone, after the row had succeeded.
THEOREM SucceededPointsHolds == RagSpec => []SucceededPoints
<1>1. KnowledgeInv => SucceededPoints
  BY DEF KnowledgeInv, ClaimsInv
<1>2. QED  BY <1>1, KnowledgeInvariant, PTL

\* An answer is recorded only from a document that is stored in that moment,
\* and what it cites stays proved by succeeded rows and a whole artifact.
THEOREM AnswersStandHolds == RagSpec => AnswersStand
<1>1. ASSUME KnowledgeInv, [RagNext]_ragVars
      PROVE  \A a \in Answers : answer'[a].status = "answered" =>
                /\ answer[a].status # "answered" => document = "stored"
                /\ EvidenceThere'
                /\ \A hit \in answer'[a].cited : Indexed(hit)'
  <2>1. AnswersKept
    BY <1>1, AnswersKeptStep DEF KnowledgeInv
  <2>2. ExtractedBytes'
    BY <1>1, BytesStep DEF KnowledgeInv, BytesInv
  <2>3. Extracted' => EvidenceThere'
    BY <2>2 DEF Extracted, EvidenceThere, ExtractedBytes
  <2>4. QED  BY <2>1, <2>3 DEF AnswersKept
<1>2. QED  BY <1>1, KnowledgeInvariant, PTL DEF RagSpec, AnswersStand
=============================================================================
