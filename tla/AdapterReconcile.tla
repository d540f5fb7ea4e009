-------------------------- MODULE AdapterReconcile --------------------------
(***************************************************************************)
(* Phase 12.1E-A: an administrator's command removes what dead attempts of *)
(* imports and of the registry left on disk.  An operation has an item for *)
(* a stage and one for a final; an item moves its directory to a tombstone *)
(* of its own and empties it by a journal in the database, so that another *)
(* command may resume it.  An attempt none of whose surfaces is left is    *)
(* confirmed clean.                                                        *)
(*                                                                         *)
(* Abstractions: one command runs at a time, and may die at any step; its  *)
(* limit lets it take all candidates, in any order; of the identity of a   *)
(* directory, which it and whose it is and what is in it.                  *)
(***************************************************************************)
EXTENDS AdapterRegistry

VARIABLES
    operation,  \* an operation is registered
    item,       \* the last item of each surface of each attempt
    recheck,    \* the attempts with a confirmation-only item
    quarantine, \* the attempts whose final was once found to be another's
    confirmed,  \* the attempts with cleanup_confirmed_at
    command     \* the command: its step, its item, what it remembers

reconcileVars == <<operation, item, recheck, quarantine, confirmed, command>>

Surfaces == {"stage", "final"}

ItemStatus == {"untried", "registered", "verified", "authorized", "tombstone_bound",
               "deleting", "completed", "blocked"}
Active == {"registered", "verified", "authorized", "tombstone_bound", "deleting"}

\* "authorized" is verified with move_authorized_at.
NewItem == [status |-> "registered", plan |-> {}, next |-> 0,
            inFlight |-> FALSE, removing |-> FALSE]
NoItem == [NewItem EXCEPT !.status = "untried"]
Item == [status : ItemStatus, plan : SUBSET StageFiles, next : 0 .. Cardinality(StageFiles),
         inFlight : BOOLEAN, removing : BOOLEAN]

CommandSteps == {"idle", "next", "recheck", "verify", "absent", "authorize", "move",
                 "bind", "open", "journal", "unlink", "advance", "remove", "rmdir",
                 "complete"}
NoCommand == [step |-> "idle", a |-> Import, s |-> "stage", seen |-> {}, resumed |-> FALSE]
Command == [step : CommandSteps, a : Attempts, s : Surfaces, seen : SUBSET StageFiles,
            resumed : BOOLEAN]

ReconcileInit ==
    /\ operation = FALSE
    /\ item = [a \in Attempts |-> [s \in Surfaces |-> NoItem]]
    /\ recheck = {}
    /\ quarantine = {}
    /\ confirmed = {}
    /\ command = NoCommand

Tombstone(s) == [stage |-> "stage.tombstone", final |-> "final.tombstone"][s]
Orphan(s) == [stage |-> "stage.orphan", final |-> "final.orphan"][s]

(***************************************************************************)
(* Registration.                                                           *)
(***************************************************************************)

Protected(a) == IF a = Import
                THEN source \in {"committed", "claimed", "consumed"}
                ELSE adapter.status = "validated"

\* The structural windows: an import that is old enough, or dead, of a
\* source that is not taken; an attempt of an adapter that failed.
ImportWindow == source \in {"staging", "rejected", "abandoned"}
AttemptWindow(a) == Terminal(a) /\ adapter.status = "failed"
Eligible(a) ==
    /\ a \notin confirmed
    /\ IF a = Import THEN ImportWindow ELSE AttemptWindow(a)

Status(a, s) == item[a][s].status

\* A surface that no item has completed yet.
Open(a, s) == Status(a, s) \in {"untried", "blocked"}

\* _select_candidates.  A final is retried when no sibling's is untried, and
\* is skipped for good with the whole attempt when it was another's once.
Skipped(a) == a \in quarantine /\ Status(a, "stage") = "completed"
FinalWanted(a) ==
    /\ Eligible(a) /\ a \in manifest /\ ~Skipped(a)
    /\ \/ Status(a, "final") = "untried"
       \/ /\ Status(a, "final") = "blocked"
          /\ \A b \in Family(a) :
                Eligible(b) /\ b \in manifest => Status(b, "final") # "untried"
StageWanted(a) == Eligible(a) /\ Open(a, "stage") /\ ~Skipped(a)
RecheckWanted(a) ==
    /\ Eligible(a) /\ ~Skipped(a)
    /\ Status(a, "stage") = "completed"
    /\ a \in manifest => Status(a, "final") = "completed"

\* One final of an adapter in an operation.
OneFinalEach(finals) ==
    /\ \A a \in finals : FinalWanted(a)
    /\ \A a \in Attempts : FinalWanted(a) => Cardinality(finals \cap Family(a)) = 1

\* _abandon_stale_source_if_needed, where the items are registered.
AbandonStaleSource ==
    IF source = "staging"
    THEN source' = "abandoned" /\ att' = [att EXCEPT ![Import] = "abandoned"]
    ELSE UNCHANGED <<source, att>>

\* _register_or_resume
RegisterReconciliation ==
    /\ command.step = "idle" /\ ~operation
    /\ \E finals \in SUBSET Attempts :
          LET stages == {a \in Attempts : StageWanted(a)}
              rechecks == {a \in Attempts : RecheckWanted(a)}
          IN  /\ OneFinalEach(finals)
              /\ stages \cup finals \cup rechecks # {}
              /\ item' = [a \in Attempts |-> [s \in Surfaces |->
                    IF a \in (IF s = "stage" THEN stages ELSE finals)
                    THEN NewItem ELSE item[a][s]]]
              /\ recheck' = rechecks
    /\ AbandonStaleSource
    /\ operation' = TRUE
    /\ command' = [NoCommand EXCEPT !.step = "next"]
    /\ UNCHANGED <<manifest, dir, writer, registryVars, quarantine, confirmed>>

ResumeReconciliation ==
    /\ command.step = "idle" /\ operation
    /\ command' = [NoCommand EXCEPT !.step = "next"]
    /\ UNCHANGED <<adapterVars, operation, item, recheck, quarantine, confirmed>>

\* The command dies, or ends with an error; the operation remains.
StopCommand ==
    /\ command.step # "idle"
    /\ command' = NoCommand
    /\ UNCHANGED <<adapterVars, operation, item, recheck, quarantine, confirmed>>

\* _finalize_operation
FinalizeOperation ==
    /\ command.step = "next"
    /\ recheck = {}
    /\ \A a \in Attempts, s \in Surfaces : Status(a, s) \notin Active
    /\ operation' = FALSE
    /\ command' = NoCommand
    /\ UNCHANGED <<adapterVars, item, recheck, quarantine, confirmed>>

(***************************************************************************)
(* _execute_item                                                           *)
(***************************************************************************)

\* _load_item with _check_authority, in every transaction of an item.
Authorized(a) ==
    /\ Terminal(a) /\ ~Protected(a)
    /\ a # Import => \A b \in Registry : att[b] = "none" \/ Terminal(b)

Continue(step) == command' = [command EXCEPT !.step = step]
Set(a, s, new) == item' = [item EXCEPT ![a][s] = new]

\* The original path: the final path may hold the bundle of a sibling.
Holder(a, s) == IF s = "stage"
                THEN {b \in {a} : dir[b].at = "stage"}
                ELSE {b \in Family(a) : dir[b].at = "final"}

\* Tombstones of one resource, or of the department: there is one of each.
Tombstones(a, s) == {b \in Family(a) : dir[b].at \in {Tombstone(s), Orphan(s)}}

\* _mark_blocked: a tombstone its item leaves is of no other item.
Block(a, s) ==
    /\ Set(a, s, [item[a][s] EXCEPT !.status = "blocked"])
    /\ dir' = [dir EXCEPT ![a].at = IF @ = Tombstone(s) THEN Orphan(s) ELSE @]
    /\ Continue("next")

\* The tombstone of the item, untouched; and nothing where it came from.
Whole(a, s) == dir[a].at = Tombstone(s) /\ dir[a].files = item[a][s].plan
Recoverable(a, s) == Holder(a, s) = {} /\ Whole(a, s)

At(step) == command.step = step /\ Authorized(command.a)
Rest == UNCHANGED <<source, att, manifest, writer, registryVars, operation, recheck, confirmed>>

\* The first transaction of an item, and the first look at the disk when it
\* is not verified yet: absent, whole, or not what the manifest says.
StartItem(a, s) ==
    /\ command.step = "next" /\ Authorized(a)
    /\ Status(a, s) \in Active
    /\ LET start == [NoCommand EXCEPT !.a = a, !.s = s]
           status == Status(a, s)
           holder == Holder(a, s)
       IN  \/ /\ status = "registered" /\ holder = {}
              /\ command' = [start EXCEPT !.step = "absent"]
              /\ UNCHANGED <<item, dir, quarantine>>
           \/ /\ status = "registered" /\ holder = {a}
              /\ command' = [start EXCEPT !.step = "verify", !.seen = dir[a].files]
              /\ UNCHANGED <<item, dir, quarantine>>
           \/ /\ status = "registered" /\ holder \notin {{}, {a}}
              /\ Block(a, s)
              /\ quarantine' = quarantine \cup {a}
           \/ /\ status = "verified"
              /\ command' = [start EXCEPT !.step = "authorize"]
              /\ UNCHANGED <<item, dir, quarantine>>
           \/ /\ status = "authorized" /\ dir[a].at # Tombstone(s)
              /\ command' = [start EXCEPT !.step = "move"]
              /\ UNCHANGED <<item, dir, quarantine>>
           \/ /\ status = "authorized" /\ dir[a].at = Tombstone(s)
              /\ IF Recoverable(a, s)
                 THEN /\ command' = [start EXCEPT !.step = "bind"]
                      /\ UNCHANGED <<item, dir>>
                 ELSE Block(a, s)
              /\ UNCHANGED quarantine
           \/ /\ status \in {"tombstone_bound", "deleting"}
              /\ command' = [start EXCEPT !.step = "open"]
              /\ UNCHANGED <<item, dir, quarantine>>
    /\ Rest

RecordVerified(a, s) ==
    /\ At("verify")
    /\ Set(a, s, [item[a][s] EXCEPT !.status = "verified", !.plan = command.seen])
    /\ Continue("authorize")
    /\ UNCHANGED <<dir, quarantine>> /\ Rest

AuthorizeMove(a, s) ==
    /\ At("authorize")
    /\ Set(a, s, [item[a][s] EXCEPT !.status = "authorized"])
    /\ Continue("move")
    /\ UNCHANGED <<dir, quarantine>> /\ Rest

\* No row is looked at: the directory, its files, and an empty namespace.
MoveToTombstone(a, s) ==
    /\ command.step = "move"
    /\ IF /\ Holder(a, s) = {a}
          /\ dir[a].files = item[a][s].plan
          /\ Tombstones(a, s) = {}
       THEN /\ dir' = [dir EXCEPT ![a].at = Tombstone(s)]
            /\ Continue("bind")
            /\ UNCHANGED item
       ELSE Block(a, s)
    /\ UNCHANGED quarantine /\ Rest

BindTombstone(a, s) ==
    /\ At("bind")
    /\ Set(a, s, [item[a][s] EXCEPT !.status = "tombstone_bound"])
    /\ Continue("open")
    /\ UNCHANGED <<dir, quarantine>> /\ Rest

\* The entry of the plan that is next: the marker is unlinked first.
Entry(a, s) == IF item[a][s].next = 0 /\ "marker" \in item[a][s].plan
               THEN "marker" ELSE "bundle"
Left(a, s) == item[a][s].next < Cardinality(item[a][s].plan)

\* open_committed_tombstone, unless an entry is recorded as unlinked.
OpenTombstone(a, s) ==
    /\ At("open")
    /\ IF item[a][s].next = 0 /\ ~Whole(a, s)
       THEN Block(a, s)
       ELSE Continue(IF Left(a, s) THEN "journal" ELSE "remove") /\ UNCHANGED <<item, dir>>
    /\ UNCHANGED quarantine /\ Rest

JournalEntry(a, s) ==
    /\ At("journal")
    /\ Set(a, s, [item[a][s] EXCEPT !.status = "deleting", !.inFlight = TRUE])
    /\ command' = [command EXCEPT !.step = "unlink", !.resumed = item[a][s].inFlight]
    /\ UNCHANGED <<dir, quarantine>> /\ Rest

\* An entry may be missing when it was in flight before.
UnlinkEntry(a, s) ==
    /\ command.step = "unlink"
    /\ LET file == Entry(a, s)
       IN  IF file \in dir[a].files \/ command.resumed
           THEN /\ dir' = [dir EXCEPT ![a].files = @ \ {file}]
                /\ Continue("advance")
                /\ UNCHANGED item
           ELSE Block(a, s)
    /\ UNCHANGED quarantine /\ Rest

AdvanceJournal(a, s) ==
    /\ At("advance")
    /\ LET new == [item[a][s] EXCEPT !.next = @ + 1, !.inFlight = FALSE]
       IN  /\ Set(a, s, new)
           /\ Continue(IF new.next < Cardinality(new.plan) THEN "journal" ELSE "remove")
    /\ UNCHANGED <<dir, quarantine>> /\ Rest

JournalRemoval(a, s) ==
    /\ At("remove")
    /\ Set(a, s, [item[a][s] EXCEPT !.removing = TRUE])
    /\ command' = [command EXCEPT !.step = "rmdir", !.resumed = item[a][s].removing]
    /\ UNCHANGED <<dir, quarantine>> /\ Rest

RemoveDirectory(a, s) ==
    /\ command.step = "rmdir"
    /\ \/ /\ dir[a] = [at |-> Tombstone(s), files |-> {}]
          /\ dir' = [dir EXCEPT ![a].at = "gone"]
          /\ Continue("complete") /\ UNCHANGED item
       \/ /\ dir[a].at = "gone" /\ command.resumed
          /\ Continue("complete") /\ UNCHANGED <<item, dir>>
       \/ /\ dir[a].files # {}
          /\ Block(a, s)
    /\ UNCHANGED quarantine /\ Rest

\* Mutant: the items are trusted, and the disk is not looked at.
ConfirmByItems(a, items) ==
    LET surfaces == IF a \in manifest THEN Surfaces ELSE {"stage"}
    IN  IF \A s \in surfaces : items[a][s].status = "completed"
        THEN confirmed' = confirmed \cup {a}
        ELSE UNCHANGED confirmed

\* _confirm_attempt_cleanup, in the transaction that completes an item: all
\* that the attempt could have left is recorded as removed, and neither its
\* stage, the final path nor any tombstone is there.
Confirm(a, items) ==
    LET surfaces == IF a \in manifest THEN Surfaces ELSE {"stage"}
    IN  IF /\ \A s \in surfaces : items[a][s].status = "completed"
           /\ \A s \in Surfaces : Holder(a, s) = {} /\ Tombstones(a, s) = {}
        THEN confirmed' = confirmed \cup {a}
        ELSE UNCHANGED confirmed

\* "absent": nothing was found at the path before the transaction.
CompleteItem(a, s) ==
    /\ At("complete") \/ At("absent")
    /\ LET new == [item EXCEPT ![a][s] = [NoItem EXCEPT !.status = "completed"]]
       IN  item' = new /\ Confirm(a, new)
    /\ command' = [NoCommand EXCEPT !.step = "next"]
    /\ UNCHANGED <<source, att, manifest, dir, writer, registryVars, operation, recheck,
                   quarantine>>

\* _mark_confirmation_completed
CompleteRecheck(a) ==
    /\ command.step = "next" /\ Authorized(a)
    /\ a \in recheck
    /\ Confirm(a, item)
    /\ recheck' = recheck \ {a}
    /\ UNCHANGED <<adapterVars, operation, item, quarantine, command>>

ExecuteItem(a, s) ==
    \/ RecordVerified(a, s) \/ AuthorizeMove(a, s) \/ MoveToTombstone(a, s)
    \/ BindTombstone(a, s) \/ OpenTombstone(a, s) \/ JournalEntry(a, s)
    \/ UnlinkEntry(a, s) \/ AdvanceJournal(a, s) \/ JournalRemoval(a, s)
    \/ RemoveDirectory(a, s) \/ CompleteItem(a, s)

ReconcileNext ==
    \/ RegisterReconciliation \/ ResumeReconciliation \/ StopCommand \/ FinalizeOperation
    \/ \E a \in Attempts, s \in Surfaces : StartItem(a, s)
    \/ \E a \in Attempts : CompleteRecheck(a)
    \/ ExecuteItem(command.a, command.s)

AdapterInit == SourceInit /\ RegistryInit /\ ReconcileInit

AdapterNext ==
    \/ ImportTransaction /\ UNCHANGED <<registryVars, reconcileVars>>
    \/ (StageImport \/ PublishImport) /\ UNCHANGED <<registryVars, reconcileVars>>
    \/ RegistryNext /\ UNCHANGED reconcileVars
    \/ ReconcileNext

(***************************************************************************)
(* Properties.                                                             *)
(***************************************************************************)

\* Rows, directories and processes are in states the schema and the code
\* know, and an adapter names one of its attempts.
AdapterTypeOK ==
    /\ source \in SourceStatus
    /\ att \in [Attempts -> AttemptStatus]
    /\ manifest \subseteq Attempts
    /\ dir \in [Attempts -> Directory]
    /\ writer \in [Attempts -> Steps]
    /\ adapter \in [status : AdapterStatus, attempt : Attempts]
    /\ adapter.status # "none" => adapter.attempt \in Registry
    /\ lapsed \in BOOLEAN
    /\ operation \in BOOLEAN
    /\ item \in [Attempts -> [Surfaces -> Item]]
    /\ recheck \subseteq Attempts /\ quarantine \subseteq Attempts
    /\ confirmed \subseteq Attempts
    /\ command \in Command

\* What the registry vouches for is on disk, whatever slow importers, late
\* workers and reconciliations did: the bundle of a source from its commit
\* on, and the bundle of the succeeded attempt of a validated adapter, the only
\* one.  And the confirmation of a clean-up is final: behind it no bundle of
\* the attempt appears at the final path, however late its writer, and none of
\* its tombstones remains.
BundlesStand ==
    /\ source \in {"committed", "claimed", "consumed"} =>
          WholeFinal(Import) /\ att[Import] = "committed"
    /\ adapter.status = "validated" =>
          /\ source = "consumed"
          /\ {n \in Registry : att[n] = "succeeded"} = {adapter.attempt}
          /\ WholeFinal(adapter.attempt)
    /\ \A a \in confirmed : dir[a].at \in {"none", "stage", "gone"}
=============================================================================
