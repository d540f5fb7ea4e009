----------------------------- MODULE RagAnswers -----------------------------
(***************************************************************************)
(* Phase 7: an answer is retrieved, generated and recorded in short        *)
(* transactions around Qdrant, the artifacts and the model.  The documents *)
(* it rests on may be deleted at any time in between, and the points it    *)
(* finds are those of any worker.                                          *)
(*                                                                         *)
(* Abstractions: the runtime target, which the run froze, is that of       *)
(* AdapterGovernance; membership and model are errors that may happen at   *)
(* any step; scores and limits select any subset of what is there.         *)
(***************************************************************************)
EXTENDS VectorIndexing

CONSTANT MaxAnswers  \* bound: answer runs

ASSUME AnswersAssumption == MaxAnswers \in Nat \ {0}

VARIABLE answer  \* the runs, with their citations

ragVars == <<document, source, extraction, staging, final, proc, faults, index, points,
          late, answer>>

Answers == 1 .. MaxAnswers

\* A hit is a chunk and the attempt its point was of.
Hit == Chunks \X (Indexings \X (1 .. MaxClaims))
Answer == [status : {"none", "running", "answered", "insufficient_information", "failed"},
           cited : SUBSET Hit]

AnswersInit == answer = [a \in Answers |-> [status |-> "none", cited |-> {}]]

SetRun(p, status, cited) ==
    answer' = [answer EXCEPT ![proc[p].row] = [status |-> status, cited |-> cited]]

\* _start_run
StartRun(p) ==
    /\ proc[p].phase = "idle"
    /\ ~DepartmentLocked
    /\ \E a \in Answers :
          /\ answer[a].status = "none"
          /\ answer' = [answer EXCEPT ![a].status = "running"]
          /\ proc' = [proc EXCEPT ![p] = [IdleProcess EXCEPT
                         !.phase = "answer.search", !.row = a]]
    /\ UNCHANGED <<documentVars, extractionVars, indexVars, faults>>

\* _fail_run, after any error.
FailRun(p) ==
    /\ proc[p].phase \in {"answer.search", "answer.authorize", "answer.load",
                          "answer.generate", "answer.finalize"}
    /\ SetRun(p, "failed", {})
    /\ End(p)
    /\ UNCHANGED <<documentVars, extractionVars, indexVars, faults>>

\* search_published
SearchPublished(p) ==
    /\ proc[p].phase = "answer.search"
    /\ \E found \in SUBSET {c \in Chunks : points[c].published} :
          proc' = [proc EXCEPT ![p].hits = {<<c, points[c].attempt>> : c \in found},
                               ![p].phase = "answer.authorize"]
    /\ UNCHANGED <<documentVars, extractionVars, indexVars, answer, faults>>

\* The attempt a hit names is that of a succeeded index row.
Indexed(hit) ==
    /\ index[hit[2][1]].status = "succeeded"
    /\ index[hit[2][1]].token = hit[2][2]

\* Mutant: the document is not read again.
CurrentIgnoresDocument(hit) == Indexed(hit) /\ Extracted

\* What _authorize_hit and _lock_and_revalidate_sources ask of a hit.
Current(hit) == document = "stored" /\ Extracted /\ Indexed(hit)

\* _authorize_hit of every candidate: one that is not current fails them
\* all; _select_hits keeps them, or none that reaches the minimum score.
AuthorizeHits(p) ==
    /\ proc[p].phase = "answer.authorize"
    /\ \A hit \in proc[p].hits : document = "stored" /\ Extracted /\ Indexed(hit)
    /\ \E selected \in {proc[p].hits, {}} :
          proc' = [proc EXCEPT ![p].hits = selected,
                     ![p].phase = IF selected = {} THEN "answer.finalize" ELSE "answer.load"]
    /\ UNCHANGED <<documentVars, extractionVars, indexVars, answer, faults>>

EvidenceThere ==
    \E n \in Extractions : extraction[n].status = "succeeded" /\ final[n] = "whole"

\* load_selected_chunks; execute_rag_policy_lane loads again after the model.
LoadEvidence(p) ==
    /\ proc[p].phase \in {"answer.load", "answer.generate"}
    /\ EvidenceThere
    /\ Goto(p, IF proc[p].phase = "answer.load" THEN "answer.generate" ELSE "answer.finalize")
    /\ UNCHANGED <<documentVars, extractionVars, indexVars, answer, faults>>

\* _finalize_answered: the sources are locked and validated again before
\* they are cited.
FinalizeAnswered(p) ==
    /\ proc[p].phase = "answer.finalize"
    /\ ~DepartmentLocked
    /\ proc[p].hits # {}
    /\ \A hit \in proc[p].hits : Current(hit)
    /\ SetRun(p, "answered", proc[p].hits)
    /\ End(p)
    /\ UNCHANGED <<documentVars, extractionVars, indexVars, faults>>

\* _finalize_insufficient, with or without sources.
FinalizeInsufficient(p) ==
    /\ proc[p].phase = "answer.finalize"
    /\ ~DepartmentLocked
    /\ \A hit \in proc[p].hits : Current(hit)
    /\ SetRun(p, "insufficient_information", {})
    /\ End(p)
    /\ UNCHANGED <<documentVars, extractionVars, indexVars, faults>>

\* Nobody takes up the run of a request that ended.
CrashInAnswer(p) ==
    /\ proc[p].phase \in {"answer.search", "answer.authorize", "answer.load",
                          "answer.generate", "answer.finalize"}
    /\ End(p)
    /\ Fault
    /\ UNCHANGED <<documentVars, extractionVars, indexVars, answer>>

AnswersNext ==
    \E p \in Processes :
        \/ StartRun(p) \/ FailRun(p) \/ SearchPublished(p) \/ AuthorizeHits(p)
        \/ LoadEvidence(p) \/ FinalizeAnswered(p) \/ FinalizeInsufficient(p)
        \/ CrashInAnswer(p)

RagInit == ExtractionInit /\ IndexingInit /\ AnswersInit

RagNext ==
    \/ ExtractionNext /\ UNCHANGED <<index, points, late, answer>>
    \/ IndexingNext /\ UNCHANGED answer
    \/ AnswersNext

RagSpec == RagInit /\ [][RagNext]_ragVars

Phases == {"idle", "upload", "extract.claimed", "extract.stage", "extract.run",
           "extract.publish", "extract.compensate", "extract.end", "answer.search",
           "answer.authorize", "answer.load", "answer.generate", "answer.finalize"}
          \union IndexingPhases

KnowledgeTypeOK ==
    /\ document \in {"none", "stored", "deleted"}
    /\ source \in {"none", "whole"}
    /\ extraction \in [Extractions -> Extraction]
    /\ staging \in SUBSET (Extractions \X (1 .. MaxClaims))
    /\ final \in [Extractions -> {"none", "partial", "whole"}]
    /\ index \in [Indexings -> Indexing]
    /\ points \in [Chunks -> Point]
    /\ late \in SUBSET Chunks
    /\ faults \in 0 .. MaxFaults
    /\ answer \in [Answers -> Answer]
    /\ \A p \in Processes : proc[p].phase \in Phases /\ proc[p].hits \in SUBSET Hit
    /\ \A rows \in {extraction, index} : \A n \in DOMAIN rows :
          /\ rows[n].status \in {"none", "queued"} => rows[n].token = 0
          /\ rows[n].status = "running" => rows[n].token # 0
          /\ rows[n].live => rows[n].status = "running"

\* An answer is given only from a document that is stored in the moment it
\* is recorded, and what it cites stays proved for good: the attempt of a
\* succeeded index row of a succeeded extraction with its whole artifact.
AnswersStand ==
    [][\A a \in Answers : answer'[a].status = "answered" =>
          /\ answer[a].status # "answered" => document = "stored"
          /\ EvidenceThere'
          /\ \A hit \in answer'[a].cited : Indexed(hit)']_ragVars
=============================================================================
