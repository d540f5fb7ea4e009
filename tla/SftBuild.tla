------------------------------ MODULE SftBuild ------------------------------
(***************************************************************************)
(* The SFT datasets of Phase 10: the import of a source bundle, which may  *)
(* be run again where it stopped, the build of a dataset from it by workers *)
(* under a lease, its review, and the two maintenance commands, which      *)
(* reconcile what was left behind and purge what is no longer wanted.      *)
(*                                                                         *)
(* The rows of a build and its directories are never changed together.     *)
(* Directory 0 is that of the import, directory n that of attempt n of the *)
(* build; process n is its worker, process 0 the maintenance command.      *)
(*                                                                         *)
(* Abstractions: one source, one build; one command at a time, which may   *)
(* stop anywhere and whose limit takes all candidates; a directory is      *)
(* marked (only its marker), open (whole, with its marker), closed (whole, *)
(* as it is published) or broken (somebody began to empty it), and is      *)
(* recognised by its manifest as of its attempt; of adapters only that one *)
(* depends on the dataset.  Retention has passed.  A department that is    *)
(* not active, a requester who lost the membership and an authority that   *)
(* changed are failures of the step that looks at them, which may be any.  *)
(***************************************************************************)
EXTENDS Naturals, FiniteSets

CONSTANTS
    Importers,  \* processes that import the source
    MaxBuilds   \* bound: attempts of the build

ASSUME SftAssumption == MaxBuilds \in Nat \ {0}

VARIABLES
    bundle,      \* SftSourceBundle.status
    importing,   \* SftSourceImportAttempt.status
    importer,    \* the step of each importer
    build,       \* SftDatasetBuild
    tries,       \* the status of each SftDatasetBuildAttempt
    owned,       \* the attempts with an ownership_manifest
    cleaned,     \* the attempts with cleanup_confirmed_at
    place,       \* the directory of each attempt
    worker,      \* the step of the worker of each attempt
    checked,     \* the workers whose guard has looked at the claim
    dependent,   \* an AdapterUpstreamDependency of the dataset is active
    reconciling, \* the items of the reconcile operation in progress
    purging,     \* the finals with an item of the purge in progress
    sweep,       \* the removal each process is at
    raced        \* history: what was done behind the back of an importer

importVars == <<bundle, importing, importer, raced>>
buildVars == <<build, tries, owned, cleaned, worker, checked, dependent>>
itemVars == <<reconciling, purging>>
sftVars == <<importVars, buildVars, place, itemVars, sweep>>

Tries == 1 .. MaxBuilds
Places == 0 .. MaxBuilds
Sides == {"stage", "final"}

Nowhere == [at |-> "none", content |-> "none"]
PlaceStates == [at : {"none"} \cup Sides,
                content : {"none", "marked", "open", "closed", "broken"}]
Unfinished == {"registered", "staged", "published"}
GivenUp == {"reclaimed", "failed", "cancelled"}

\* A blocked item is history, as all are when the last of an attempt ends.
NoItems == [s \in Sides |-> "none"]

NoSweep == [step |-> "none", n |-> 0, side |-> "stage", ok |-> TRUE, purge |-> FALSE]
Sweeps == [step : {"none", "authorize", "look", "empty", "rmdir", "end"},
           n : Places, side : Sides, ok : BOOLEAN, purge : BOOLEAN]

SftInit ==
    /\ bundle = "none" /\ importing = "none"
    /\ importer = [i \in Importers |-> "idle"]
    /\ build = [status |-> "none", attempt |-> 0, live |-> FALSE, cancel |-> FALSE,
                review |-> "not_ready"]
    /\ tries = [n \in Tries |-> "none"]
    /\ owned = {} /\ cleaned = {} /\ checked = {}
    /\ place = [n \in Places |-> Nowhere]
    /\ worker = [n \in Tries |-> "idle"]
    /\ dependent = FALSE
    /\ reconciling = [n \in Places |-> NoItems]
    /\ purging = {}
    /\ raced = {}
    /\ sweep = [p \in Places |-> NoSweep]

Lies(n, at, content) == place[n] = [at |-> at, content |-> content]
Put(n, at, content) == place' = [place EXCEPT ![n] = [at |-> at, content |-> content]]

\* Who is at the final path: of the source, or of the build.
Kin(n) == IF n = 0 THEN {0} ELSE Tries
Settled(n) == {k \in Kin(n) : place[k].at = "final"}

(***************************************************************************)
(* import_sft_source.  An importer that cannot take its step ends, as one  *)
(* that dies does; it cleans nothing up, and may be run again.             *)
(***************************************************************************)

Proceed(i, from, to) == importer[i] = from /\ importer' = [importer EXCEPT ![i] = to]

\* The registration, or the resumption by the digests of the same attempt.
RegisterSource(i) ==
    /\ bundle = "none"
    /\ \/ /\ importing \in {"none", "registered"}
          /\ Proceed(i, "idle", "stage")
          /\ importing' = "registered"
       \/ /\ importing = "staged" /\ Proceed(i, "idle", "reopen")
          /\ UNCHANGED importing
       \/ /\ importing = "published" /\ Proceed(i, "idle", "retain")
          /\ UNCHANGED importing
    /\ UNCHANGED <<bundle, place>>

\* stage_source takes a directory with nothing but its marker for its own;
\* else open_source_stage.  Where another importer has published since, this
\* one makes a stage aside or opens the final, and no transaction takes it
\* further, for the attempt is not registered any more: left out.
StageSource(i) ==
    /\ \/ Lies(0, "none", "none") /\ Proceed(i, "stage", "write") /\ Put(0, "stage", "marked")
       \/ Lies(0, "stage", "marked") /\ Proceed(i, "stage", "write") /\ UNCHANGED place
       \/ Lies(0, "stage", "open") /\ Proceed(i, "stage", "staged") /\ UNCHANGED place
    /\ UNCHANGED <<bundle, importing>>

ReopenSource(i) ==
    /\ \/ Lies(0, "stage", "open") /\ Proceed(i, "reopen", "close")
       \/ Lies(0, "final", "closed") /\ Proceed(i, "reopen", "mark")
       \/ Lies(0, "final", "closed") /\ Proceed(i, "retain", "commit")
    /\ UNCHANGED <<bundle, importing, place>>

WriteSource(i) ==
    /\ Lies(0, "stage", "marked")
    /\ Proceed(i, "write", "staged") /\ Put(0, "stage", "open")
    /\ UNCHANGED <<bundle, importing>>

\* _mark_attempt_staged and _mark_attempt_published
MarkSource(i) ==
    /\ \/ Proceed(i, "staged", "close") /\ importing = "registered" /\ importing' = "staged"
       \/ Proceed(i, "mark", "commit") /\ importing = "staged" /\ importing' = "published"
    /\ UNCHANGED <<bundle, place>>

\* publish: the marker, then the rename, then the digests of the final.
PublishSource(i) ==
    /\ \/ Lies(0, "stage", "open") /\ Proceed(i, "close", "rename") /\ Put(0, "stage", "closed")
       \/ Lies(0, "stage", "closed") /\ Proceed(i, "rename", "verify") /\ Put(0, "final", "closed")
       \/ Lies(0, "final", "closed") /\ Proceed(i, "verify", "mark") /\ UNCHANGED place
    /\ UNCHANGED <<bundle, importing>>

\* The bundle is born with its commit; recheck_identity looks at the
\* directory held open.
CommitSource(i) ==
    /\ Proceed(i, "commit", "idle")
    /\ importing = "published" /\ bundle = "none"
    /\ Lies(0, "final", "closed")
    /\ bundle' = "active" /\ importing' = "committed"
    /\ UNCHANGED place

EndImporter(i) ==
    /\ importer[i] # "idle"
    /\ Proceed(i, importer[i], "idle")
    /\ UNCHANGED <<bundle, importing, place>>

\* A commit while reconciliation has items of the import; a rename after the
\* commit of another importer, whose final was removed since.
CommittedUnderItems ==
    IF bundle' # bundle /\ (\E s \in Sides : reconciling[0][s] = "registered")
    THEN {"commit"} ELSE {}
PublishedAgain ==
    IF bundle # "none" /\ place[0].at = "stage" /\ place'[0].at = "final"
    THEN {"rename"} ELSE {}

ImportSource(i) ==
    /\ \/ RegisterSource(i) \/ StageSource(i) \/ ReopenSource(i) \/ WriteSource(i)
       \/ MarkSource(i) \/ PublishSource(i) \/ CommitSource(i) \/ EndImporter(i)
    /\ raced' = raced \cup CommittedUnderItems \cup PublishedAgain
    /\ UNCHANGED <<buildVars, itemVars, sweep>>

ArchiveSource ==
    /\ bundle = "active"
    /\ bundle' = "archived"
    /\ UNCHANGED <<importing, importer, raced, buildVars, place, itemVars, sweep>>

(***************************************************************************)
(* The API of builds, and adapters.                                        *)
(***************************************************************************)

Others == UNCHANGED <<importVars, place, itemVars>>

EnqueueBuild ==
    /\ bundle = "active" /\ build.status = "none"
    /\ build' = [build EXCEPT !.status = "queued", !.attempt = 1]
    /\ UNCHANGED <<tries, owned, cleaned, worker, checked, dependent, sweep>> /\ Others

CancelBuild ==
    /\ \/ build.status = "queued" /\ build' = [build EXCEPT !.status = "cancelled"]
       \/ build.status = "running" /\ build' = [build EXCEPT !.cancel = TRUE]
    /\ UNCHANGED <<tries, owned, cleaned, worker, checked, dependent, sweep>> /\ Others

\* An item of either kind of operation about a final of the build.
FinalReserved == \E n \in Tries : n \in purging \/ reconciling[n]["final"] = "registered"

\* review_sft_build
ReviewFrom(from, to) ==
    /\ build.status = "succeeded" /\ ~FinalReserved
    /\ build.review \in from
    /\ build' = [build EXCEPT !.review = to]
    /\ UNCHANGED <<tries, owned, cleaned, worker, checked, dependent, sweep>> /\ Others

ReviewBuild ==
    \/ ReviewFrom({"pending"}, "approved")
    \/ ReviewFrom({"pending"}, "rejected")
    \/ ReviewFrom({"approved", "rejected"}, "archived")

\* enqueue_adapter_registry, and a purge of the adapter.
DependOnDataset ==
    /\ \/ build.review = "approved" /\ ~FinalReserved /\ dependent' = TRUE
       \/ dependent /\ dependent' = FALSE
    /\ UNCHANGED <<build, tries, owned, cleaned, worker, checked, sweep>> /\ Others

(***************************************************************************)
(* claim_next and process_build                                            *)
(***************************************************************************)

LeaseLapses ==
    /\ build.status = "running" /\ build.live
    /\ build' = [build EXCEPT !.live = FALSE]
    /\ UNCHANGED <<tries, owned, cleaned, worker, checked, dependent, sweep>> /\ Others

Unclaimed == build.status = "queued" \/ (build.status = "running" /\ ~build.live)

\* A request to cancel outlives the worker it was meant for.
ClaimBuild ==
    LET last == build.attempt
        stale == build.status = "running"
        next == IF stale THEN last + 1 ELSE last
    IN  /\ Unclaimed /\ next \in Tries
        /\ build' = [build EXCEPT !.status = "running", !.attempt = next, !.live = TRUE]
        /\ tries' = [n \in Tries |-> IF n = next THEN "running"
                                     ELSE IF stale /\ n = last THEN "reclaimed" ELSE tries[n]]
        /\ worker' = [worker EXCEPT ![next] = IF stale THEN "sweep" ELSE "open"]
        /\ sweep' = IF stale
                    THEN [sweep EXCEPT ![next] = [NoSweep EXCEPT !.step = "look", !.n = last]]
                    ELSE sweep
        /\ UNCHANGED <<owned, cleaned, checked, dependent>> /\ Others

\* The department is not active: the attempt in hand is the one that fails.
FailUnclaimed ==
    /\ Unclaimed
    /\ build' = [build EXCEPT !.status = "failed", !.live = FALSE]
    /\ tries' = [tries EXCEPT ![build.attempt] = "failed"]
    /\ UNCHANGED <<owned, cleaned, worker, checked, dependent, sweep>> /\ Others

Claims(n) == build.status = "running" /\ build.attempt = n /\ build.live
HoldsClaim(n) == Claims(n) /\ ~build.cancel /\ tries[n] = "running"

Step(n, from, to) == worker[n] = from /\ worker' = [worker EXCEPT ![n] = to]

\* The checkpoint before an operation on disk, after which the worker may
\* stall.  A worker that cannot take its step fails.
Guarded == {"sweep", "prepare", "close", "rename"}
Checkpoint(n) ==
    /\ worker[n] \in Guarded /\ n \notin checked
    /\ worker[n] = "sweep" => sweep[n].step = "look"
    /\ HoldsClaim(n)
    /\ checked' = checked \cup {n}
    /\ UNCHANGED <<build, tries, owned, cleaned, worker, dependent, sweep>> /\ Others

OnDisk(n, from, to) ==
    /\ Step(n, from, to)
    /\ n \in checked /\ checked' = checked \ {n}
    /\ UNCHANGED <<build, tries, owned, cleaned, dependent, sweep, importVars, itemVars>>

\* _load_source_metadata, and the source is held open from here on.
OpenSource(n) ==
    /\ Step(n, "open", "prepare")
    /\ HoldsClaim(n) /\ bundle = "active" /\ Lies(0, "final", "closed")
    /\ UNCHANGED <<build, tries, owned, cleaned, checked, dependent, sweep>> /\ Others

PrepareBuild(n) == OnDisk(n, "prepare", "write") /\ Put(n, "stage", "marked")

\* The files of the two children, through the descriptor of the stage.
WriteBuild(n) ==
    /\ Step(n, "write", "record")
    /\ Lies(n, "stage", "marked") /\ Put(n, "stage", "open")
    /\ UNCHANGED <<build, tries, owned, cleaned, checked, dependent, sweep,
                   importVars, itemVars>>

\* _record_publication_manifest; preverify_staged follows.
RecordBuildManifest(n) ==
    /\ Step(n, "record", "close")
    /\ HoldsClaim(n)
    /\ owned' = owned \cup {n}
    /\ UNCHANGED <<build, tries, cleaned, checked, dependent, sweep>> /\ Others

CloseBuild(n) ==
    OnDisk(n, "close", "rename") /\ Lies(n, "stage", "open") /\ Put(n, "stage", "closed")

RenameBuild(n) ==
    /\ OnDisk(n, "rename", "complete")
    /\ Lies(n, "stage", "closed") /\ Settled(n) = {}
    /\ Put(n, "final", "closed")

\* Mutant: the build is running under somebody's lease.
CompleteBuildUnowned(n) ==
    /\ Step(n, "complete", "done")
    /\ build.status = "running" /\ build.live /\ ~build.cancel
    /\ bundle = "active" /\ n \in owned
    /\ Lies(n, "final", "closed")
    /\ build' = [build EXCEPT !.status = "succeeded", !.live = FALSE, !.review = "pending"]
    /\ tries' = [tries EXCEPT ![n] = "succeeded"]
    /\ UNCHANGED <<owned, cleaned, checked, dependent, sweep>> /\ Others

\* verify_preverified_final and _mark_attempt_published, which records a time;
\* then _complete.
CompleteBuild(n) ==
    /\ Step(n, "complete", "done")
    /\ HoldsClaim(n) /\ bundle = "active" /\ n \in owned
    /\ Lies(n, "final", "closed")
    /\ build' = [build EXCEPT !.status = "succeeded", !.live = FALSE, !.review = "pending"]
    /\ tries' = [tries EXCEPT ![n] = "succeeded"]
    /\ UNCHANGED <<owned, cleaned, checked, dependent, sweep>> /\ Others

\* _fail_or_cancel, which leaves the rows alone when the claim is lost: that
\* worker ends as one that stalls for ever.
FailBuild(n) ==
    LET status == IF build.cancel THEN "cancelled" ELSE "failed"
    IN  /\ Claims(n) /\ tries[n] = "running"
        /\ worker' = [worker EXCEPT ![n] = "done"]
        /\ build' = [build EXCEPT !.status = status, !.live = FALSE]
        /\ tries' = [tries EXCEPT ![n] = status]
        /\ checked' = checked \ {n}
        /\ sweep' = [sweep EXCEPT ![n] = NoSweep]
        /\ UNCHANGED <<owned, cleaned, dependent>> /\ Others

(***************************************************************************)
(* The removal of a stage or of a final, by a worker for the attempt it    *)
(* reclaimed or by the command for an item.  The artifact store takes the  *)
(* FileNotFoundError of anything that another process was faster to remove *)
(* as nothing left to remove.                                              *)
(***************************************************************************)

Ends(p, ok) == sweep' = [sweep EXCEPT ![p].step = "end", ![p].ok = ok]
GoesOn(p, step) == sweep' = [sweep EXCEPT ![p].step = step]
AtSweep(p, step) == sweep[p].step = step

\* _remove_final compares the manifest of what it finds; _remove_stage does
\* not look at what is in it.
OwnsFinal(n) == Settled(n) = {n} /\ Lies(n, "final", "closed")

Look(p) ==
    /\ AtSweep(p, "look")
    /\ p # 0 => p \in checked
    /\ checked' = checked \ {p}
    /\ LET n == sweep[p].n
       IN  IF sweep[p].side = "stage"
           THEN IF place[n].at = "stage" THEN GoesOn(p, "empty") ELSE Ends(p, TRUE)
           ELSE IF OwnsFinal(n) THEN GoesOn(p, "empty") ELSE Ends(p, Settled(n) = {})
    /\ UNCHANGED place

\* Through the descriptor, wherever the directory is by now.
Empty(p) ==
    /\ AtSweep(p, "empty")
    /\ LET n == sweep[p].n
       IN  \/ /\ place[n].at # "none"
              /\ place' = [place EXCEPT ![n].content = "broken"]
              /\ GoesOn(p, "rmdir")
           \/ /\ place[n].content \in {"none", "broken"}
              /\ Ends(p, TRUE) /\ UNCHANGED place
    /\ UNCHANGED checked

\* By name, and refused when a writer has written in between.
RemoveDirectoryOf(p) ==
    /\ AtSweep(p, "rmdir")
    /\ LET n == sweep[p].n
           writing == IF n = 0 THEN \E i \in Importers : importer[i] = "write"
                               ELSE worker[n] = "write"
       IN  \/ /\ place[n].at = sweep[p].side
              /\ Put(n, "none", "none") /\ Ends(p, TRUE)
           \/ /\ place[n].at = "stage" /\ sweep[p].side = "stage" /\ writing
              /\ Ends(p, FALSE) /\ UNCHANGED place
           \/ /\ place[n].at # sweep[p].side
              /\ Ends(p, sweep[p].side = "stage" \/ Settled(n) = {})
              /\ UNCHANGED place
    /\ UNCHANGED checked

\* After the stage, the final, of an attempt that recorded a manifest; then
\* _confirm_attempt_cleanup.  A worker that is refused fails.
ContinueCleanup(n) ==
    /\ AtSweep(n, "end") /\ sweep[n].ok
    /\ IF sweep[n].side = "stage" /\ sweep[n].n \in owned
       THEN /\ sweep' = [sweep EXCEPT ![n].step = "look", ![n].side = "final"]
            /\ UNCHANGED <<worker, cleaned>>
       ELSE /\ cleaned' = cleaned \cup {sweep[n].n}
            /\ worker' = [worker EXCEPT ![n] = "open"]
            /\ sweep' = [sweep EXCEPT ![n] = NoSweep]
    /\ UNCHANGED <<build, tries, owned, checked, dependent>> /\ Others

WorkBuild(n) ==
    \/ Checkpoint(n) \/ OpenSource(n) \/ PrepareBuild(n) \/ WriteBuild(n)
    \/ RecordBuildManifest(n) \/ CloseBuild(n) \/ RenameBuild(n)
    \/ CompleteBuild(n) \/ FailBuild(n) \/ ContinueCleanup(n)

Sweep(p) ==
    /\ Look(p) \/ Empty(p) \/ RemoveDirectoryOf(p)
    /\ UNCHANGED <<importVars, build, tries, owned, cleaned, worker, dependent, itemVars>>

(***************************************************************************)
(* reconcile_sft_artifacts and purge_sft_artifacts.  An operation that has *)
(* no registered item is as good as completed.                             *)
(***************************************************************************)

NoCommandRuns == sweep[0].step = "none"
Idle == UNCHANGED <<importVars, buildVars, place, sweep>>

\* An import has no age limit: it may be at work.
Neglected(n) == IF n = 0 THEN importing \in Unfinished
                ELSE tries[n] \in GivenUp /\ n \notin cleaned

\* The surfaces of an attempt that get an item.
Wanted(n) == IF n = 0 \/ n \in owned THEN Sides ELSE {"stage"}

RegisterReconcile ==
    /\ NoCommandRuns
    /\ \A n \in Places, s \in Sides : reconciling[n][s] # "registered"
    /\ \E n \in Places : Neglected(n)
    /\ reconciling' = [n \in Places |-> [s \in Sides |->
          IF Neglected(n) /\ s \in Wanted(n)
          THEN "registered" ELSE reconciling[n][s]]]
    /\ UNCHANGED purging /\ Idle

\* The final a purge wants: of a build under review, or of a source all of
\* whose builds are purged.
Unwanted(n) ==
    /\ ~dependent
    /\ IF n = 0
       THEN bundle = "archived" /\ (build.status = "none" \/ build.review = "purged")
       ELSE /\ build.status = "succeeded" /\ build.attempt = n
            /\ build.review \in {"rejected", "archived"}

RegisterPurge ==
    /\ NoCommandRuns
    /\ purging = {}
    /\ purging' = {n \in Places : Unwanted(n)}
    /\ purging' # {}
    /\ UNCHANGED reconciling /\ Idle

\* A stage needs no authorization of its own.
StartSweep(n, side, purge) ==
    /\ NoCommandRuns
    /\ IF purge THEN side = "final" /\ n \in purging
                ELSE reconciling[n][side] = "registered"
    /\ sweep' = [sweep EXCEPT ![0] =
          [NoSweep EXCEPT !.step = IF side = "final" THEN "authorize" ELSE "look",
                          !.n = n, !.side = side, !.purge = purge]]
    /\ UNCHANGED <<importVars, buildVars, place, itemVars>>

\* _authorize_sft_predeletion: the row of the final is there, whatever its
\* status, and no adapter depends on it.
AuthorizeDeletion ==
    /\ AtSweep(0, "authorize")
    /\ IF (sweep[0].n = 0 => bundle # "none") /\ ~dependent
       THEN GoesOn(0, "look")
       ELSE Ends(0, FALSE)
    /\ UNCHANGED <<importVars, buildVars, place, itemVars>>

\* _terminalize_artifact_item with _finalize_purge_resource
EndPurgeItem ==
    LET n == sweep[0].n
        ok == /\ sweep[0].ok /\ ~dependent
              /\ IF n = 0 THEN bundle = "archived"
                 ELSE /\ build.status = "succeeded" /\ build.attempt = n
                      /\ build.review \in {"rejected", "archived"}
    IN  /\ AtSweep(0, "end") /\ sweep[0].purge
        /\ purging' = purging \ {n}
        /\ IF ok /\ n = 0 THEN bundle' = "purged" ELSE UNCHANGED bundle
        /\ IF ok /\ n # 0 THEN build' = [build EXCEPT !.review = "purged"]
                          ELSE UNCHANGED build
        /\ sweep' = [sweep EXCEPT ![0] = NoSweep]
        /\ UNCHANGED <<importing, importer, raced, tries, owned, cleaned, worker, checked,
                       dependent, place, reconciling>>

\* The same, with _finalize_reconciliation_resource: the attempt is finished
\* when all its items of the operation are completed.
EndReconcileItem ==
    LET n == sweep[0].n
        items == [reconciling[n] EXCEPT ![sweep[0].side] =
                     IF sweep[0].ok THEN "completed" ELSE "none"]
        whole == \A s \in Wanted(n) : items[s] = "completed"
    IN  /\ AtSweep(0, "end") /\ ~sweep[0].purge
        /\ reconciling' = [reconciling EXCEPT ![n] =
               IF \E s \in Sides : items[s] = "registered" THEN items ELSE NoItems]
        /\ importing' = IF whole /\ n = 0 /\ importing \in Unfinished
                        THEN "failed" ELSE importing
        /\ cleaned' = IF whole /\ n # 0 THEN cleaned \cup {n} ELSE cleaned
        /\ sweep' = [sweep EXCEPT ![0] = NoSweep]
        /\ UNCHANGED <<bundle, importer, raced, build, tries, owned, worker, checked,
                       dependent, place, purging>>

\* The command dies; its item stays registered.
StopMaintenance ==
    /\ ~NoCommandRuns
    /\ sweep' = [sweep EXCEPT ![0] = NoSweep]
    /\ UNCHANGED <<importVars, buildVars, place, itemVars>>

SftNext ==
    \/ \E i \in Importers : ImportSource(i)
    \/ ArchiveSource
    \/ EnqueueBuild \/ CancelBuild \/ ReviewBuild \/ DependOnDataset
    \/ LeaseLapses \/ ClaimBuild \/ FailUnclaimed
    \/ \E n \in Tries : WorkBuild(n)
    \/ \E p \in Places : Sweep(p)
    \/ RegisterReconcile \/ RegisterPurge
    \/ \E n \in Places, s \in Sides, purge \in BOOLEAN : StartSweep(n, s, purge)
    \/ AuthorizeDeletion \/ EndPurgeItem \/ EndReconcileItem \/ StopMaintenance

(***************************************************************************)
(* Properties.                                                             *)
(***************************************************************************)

\* The same of the source, the build, their directories and their processes,
\* and a build names one of its attempts.
SftTypeOK ==
    /\ bundle \in {"none", "active", "archived", "purged"}
    /\ importing \in Unfinished \cup {"none", "committed", "failed"}
    /\ importer \in [Importers -> {"idle", "stage", "reopen", "retain", "write", "staged",
                                   "close", "rename", "verify", "mark", "commit"}]
    /\ build \in [status : {"none", "queued", "running", "succeeded", "failed", "cancelled"},
                  attempt : Places, live : BOOLEAN, cancel : BOOLEAN,
                  review : {"not_ready", "pending", "approved", "rejected",
                            "archived", "purged"}]
    /\ build.status # "none" => build.attempt \in Tries
    /\ tries \in [Tries -> GivenUp \cup {"none", "running", "succeeded"}]
    /\ owned \subseteq Tries /\ cleaned \subseteq Tries /\ checked \subseteq Tries
    /\ place \in [Places -> PlaceStates]
    /\ worker \in [Tries -> Guarded \cup {"idle", "open", "write", "record", "complete", "done"}]
    /\ dependent \in BOOLEAN
    /\ reconciling \in [Places -> [Sides -> {"none", "registered", "completed"}]]
    /\ purging \subseteq Places
    /\ raced \subseteq {"commit", "rename"}
    /\ sweep \in [Places -> Sweeps]

\* A dataset that may be used stands at its final path as its attempt
\* published it: until it is rejected or archived, and as long as an adapter
\* depends on it, whatever late workers, clean-ups of other attempts and the
\* two commands do.  Its source outlives it, but for a source that was
\* committed while reconciliation had items of its import.  What is purged
\* is not there, but for a source that a late importer published again after
\* the commit of another (which takes three importers).
DatasetsStand ==
    /\ build.review \in {"pending", "approved"} \/ dependent =>
          /\ {n \in Tries : tries[n] = "succeeded"} = {build.attempt}
          /\ Lies(build.attempt, "final", "closed")
          /\ bundle # "purged"
    /\ bundle = "active" /\ "commit" \notin raced =>
          Lies(0, "final", "closed")
    /\ build.review = "purged" => place[build.attempt].at = "none"
    /\ bundle = "purged" /\ "rename" \notin raced => place[0].at # "final"
=============================================================================
