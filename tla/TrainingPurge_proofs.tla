------------------------ MODULE TrainingPurge_proofs ------------------------
(***************************************************************************)
(* That the rows of a purge tell where every bundle is, for any jobs,      *)
(* files and commands, and however often a command dies.                   *)
(***************************************************************************)
EXTENDS TrainingPurge, TLAPS

Authorized(j) == reservation[j] \in {"deletion_authorized", "tombstone_bound"}

\* A reservation is active under a registered operation only, and never for
\* a job that is purged; it is authorized when the stages are gone; nothing
\* is recorded of a tombstone before it is bound.
RowsAgree == \A j \in RetainedJobs :
    /\ reservation[j] \in ActiveReservation =>
          purge.status = "registered" /\ j \notin purgedJobs
    /\ Authorized(j) => stageItem[j] = "completed"
    /\ reservation[j] \notin {"tombstone_bound", "terminalized"} => journal[j] = NoJournal

UnlinkSteps == {"check", "list", "unlink", "journal", "open", "rmdir"}

\* What a command has seen of a job is still so, or the job is purged.
Held(c, j) ==
    \/ j \in purgedJobs
    \/ Authorized(j) /\ purge = [op |-> command[c].op, status |-> "registered"]

\* The journal has not gone back behind what the command has read.
JournalAhead(c, j) ==
    \/ j \in purgedJobs
    \/ /\ Bound(j)
       /\ \/ journal[j].next > command[c].seen
          \/ /\ journal[j].next = command[c].seen
             /\ journal[j].inFlight \/ command[c].seen = BundleFiles

CommandAgrees(c) ==
    /\ AtStep(c, "record") => command[c].blocked \subseteq command[c].jobs
    /\ \A j \in command[c].bound : bundle[j].at # "final"
    /\ \A j \in command[c].done : bundle[j].at = "gone"
    /\ command[c].step \in JobSteps => Held(c, command[c].job)
    /\ command[c].step \in UnlinkSteps => JournalAhead(c, command[c].job)
    /\ command[c].step \in {"list", "unlink", "journal"} => command[c].seen < BundleFiles
    /\ command[c].step \in {"open", "rmdir"} => command[c].seen = BundleFiles
    /\ AtStep(c, "journal") => command[c].seen + 1 \notin bundle[command[c].job].files

\* The inductive invariant.
PurgeInv ==
    /\ PurgeTypeOK
    /\ RowsAgree
    /\ PurgeBooks
    /\ \A c \in PurgeCommands : CommandAgrees(c)

(***************************************************************************)
(* Types.                                                                  *)
(***************************************************************************)

CommandsTyped ==
    /\ command \in [PurgeCommands -> PurgeCommand]
    /\ \A c \in PurgeCommands : command[c].step \in JobSteps => command[c].job \in RetainedJobs

\* A command that remembers a row of the type keeps the type.
LEMMA RowTyped ==
    ASSUME PurgeTypeOK, NEW c \in PurgeCommands, NEW row \in PurgeCommand,
           row.step \in JobSteps => row.job \in RetainedJobs,
           command' = [command EXCEPT ![c] = row]
    PROVE  CommandsTyped'
<1>1. command \in [PurgeCommands -> PurgeCommand]
      /\ \A d \in PurgeCommands : command[d].step \in JobSteps => command[d].job \in RetainedJobs
  BY DEF PurgeTypeOK
<1> QED
  BY <1>1 DEF CommandsTyped

\* The memory of a command by its fields.
LEMMA RowFields ==
    ASSUME PurgeTypeOK, NEW c \in PurgeCommands
    PROVE  /\ command[c] \in PurgeCommand
           /\ command[c].step \in PurgeSteps
           /\ command[c].op \in Nat
           /\ command[c].jobs \in SUBSET RetainedJobs
           /\ command[c].blocked \in SUBSET RetainedJobs
           /\ command[c].bound \in SUBSET RetainedJobs
           /\ command[c].done \in SUBSET RetainedJobs
           /\ command[c].failed \in SUBSET RetainedJobs
           /\ command[c].seen \in 0 .. BundleFiles
           /\ command[c].step \in JobSteps => command[c].job \in RetainedJobs
           /\ command[c] = [step |-> command[c].step, op |-> command[c].op,
                 jobs |-> command[c].jobs, blocked |-> command[c].blocked,
                 bound |-> command[c].bound, done |-> command[c].done,
                 failed |-> command[c].failed, job |-> command[c].job,
                 seen |-> command[c].seen]
BY DEF PurgeTypeOK, PurgeCommand

LEMMA IdleTyped == IdleCommand \in PurgeCommand /\ IdleCommand.step = "idle"
BY TrainingPurgeAssumption DEF IdleCommand, PurgeCommand, PurgeSteps

LEMMA EndTyped ==
    ASSUME PurgeTypeOK, NEW c \in PurgeCommands, End(c)
    PROVE  CommandsTyped'
BY IdleTyped, RowTyped DEF End, JobSteps

LEMMA StartTyped ==
    ASSUME PurgeTypeOK, NEW c \in PurgeCommands, NEW op \in Nat, NEW items, Start(c, op, items)
    PROVE  CommandsTyped'
<1> DEFINE row == [IdleCommand EXCEPT !.step = "prepare", !.op = op,
                      !.jobs = {j \in RetainedJobs : items[j] = "registered"}]
<1>1. row \in PurgeCommand /\ row.step = "prepare"
  BY IdleTyped DEF PurgeCommand, PurgeSteps
<1> QED
  BY <1>1, RowTyped DEF Start, JobSteps

LEMMA GoTyped ==
    ASSUME PurgeTypeOK, NEW c \in PurgeCommands, NEW step \in PurgeSteps, Go(c, step),
           step \in JobSteps => command[c].step \in JobSteps
    PROVE  CommandsTyped'
<1> DEFINE row == [command[c] EXCEPT !.step = step]
<1>1. row \in PurgeCommand /\ row.step = step /\ row.job = command[c].job
  BY RowFields DEF PurgeCommand
<1>2. command' = [command EXCEPT ![c] = row]
  BY DEF Go
<1> QED
  BY <1>1, <1>2, RowTyped, RowFields

LEMMA MovedTyped ==
    ASSUME PurgeTypeOK, NEW c \in PurgeCommands, NEW captured \in BOOLEAN, Moved(c, captured),
           command[c].step \in JobSteps
    PROVE  CommandsTyped'
<1> DEFINE j == command[c].job
           jobs == command[c].jobs \ {j}
           bound == IF captured THEN command[c].bound \cup {j} ELSE command[c].bound
           row == [command[c] EXCEPT !.step = "fence", !.jobs = jobs, !.bound = bound]
<1>1. jobs \in SUBSET RetainedJobs /\ bound \in SUBSET RetainedJobs
  BY RowFields
<1>2. command' = [command EXCEPT ![c] = row]
  BY DEF Moved
<1> HIDE DEF jobs, bound
<1>3. row \in PurgeCommand /\ row.step = "fence"
  BY ZenonT(40), <1>1, RowFields DEF PurgeCommand, PurgeSteps
<1> QED
  BY <1>2, <1>3, RowTyped DEF JobSteps

LEMMA OutcomeTyped ==
    ASSUME PurgeTypeOK, NEW c \in PurgeCommands, NEW ok \in BOOLEAN, Outcome(c, ok),
           command[c].step \in JobSteps
    PROVE  CommandsTyped'
<1> DEFINE j == command[c].job
           done == IF ok THEN command[c].done \cup {j} ELSE command[c].done
           failed == IF ok THEN command[c].failed ELSE command[c].failed \cup {j}
           row == [command[c] EXCEPT !.step = "begin", !.done = done, !.failed = failed]
<1>1. done \in SUBSET RetainedJobs /\ failed \in SUBSET RetainedJobs
  BY RowFields
<1>2. command' = [command EXCEPT ![c] = row]
  BY DEF Outcome
<1> HIDE DEF done, failed
<1>3. row \in PurgeCommand /\ row.step = "begin"
  BY ZenonT(40), <1>1, RowFields DEF PurgeCommand, PurgeSteps
<1> QED
  BY <1>2, <1>3, RowTyped DEF JobSteps

\* The rows of a purge, without the commands.
PurgeRowsTyped ==
    /\ purge \in [op : Nat, status : {"none", "registered", "completed",
                                      "completed_with_blocks"}]
    /\ reservation \in [RetainedJobs -> ActiveReservation \cup {"none", "terminalized"}]
    /\ stageItem \in [RetainedJobs -> {"none", "registered", "completed", "blocked"}]
    /\ journal \in [RetainedJobs -> [next : 0 .. BundleFiles, inFlight : BOOLEAN]]
    /\ \A j \in RetainedJobs : journal[j].inFlight => journal[j].next < BundleFiles
    /\ purgedJobs \subseteq RetainedJobs
    /\ bundle \in [RetainedJobs -> [at : {"final", "tombstone", "gone"}, of : Nat,
                                    files : SUBSET AllOf]]
    /\ touched \subseteq RetainedJobs
    /\ mishaps \in Nat

LEMMA TypeParts == PurgeTypeOK <=> PurgeRowsTyped /\ CommandsTyped
BY DEF PurgeTypeOK, PurgeRowsTyped, CommandsTyped

LEMMA PurgeInitTyped == PurgeInit => PurgeTypeOK
<1> SUFFICES ASSUME PurgeInit PROVE PurgeTypeOK
  OBVIOUS
<1>1. PurgeRowsTyped
  BY TrainingPurgeAssumption DEF PurgeInit, PurgeRowsTyped, NoJournal, ActiveReservation, AllOf
<1>2. CommandsTyped
  BY IdleTyped DEF PurgeInit, CommandsTyped, JobSteps
<1> QED
  BY <1>1, <1>2, TypeParts

LEMMA ClosedTyped ==
    ASSUME PurgeTypeOK, NEW items, purge' = Closed(items)
    PROVE  purge' \in [op : Nat, status : {"none", "registered", "completed",
                                         "completed_with_blocks"}]
BY DEF PurgeTypeOK, Closed

LEMMA RegisterTyped ==
    ASSUME PurgeTypeOK, NEW c \in PurgeCommands, RegisterTrainingPurge(c)
    PROVE  PurgeTypeOK'
<1>1. PurgeRowsTyped'
  BY TrainingPurgeAssumption
  DEF PurgeTypeOK, PurgeRowsTyped, RegisterTrainingPurge, NoJournal, ActiveReservation
<1>2. CommandsTyped'
  <2>1. purge.op + 1 \in Nat /\ Start(c, purge.op + 1, stageItem')
    BY DEF PurgeTypeOK, RegisterTrainingPurge
  <2> QED
    BY <2>1, StartTyped
<1> QED
  BY <1>1, <1>2, TypeParts DEF PurgeTypeOK, PurgeRowsTyped, CommandsTyped

\* A step that leaves the rows alone.
LEMMA QuietTyped ==
    ASSUME PurgeTypeOK, UNCHANGED <<purgeRows, bundle, touched>>, mishaps' \in Nat, CommandsTyped'
    PROVE  PurgeTypeOK'
BY DEF PurgeTypeOK, CommandsTyped, purgeRows

BundleRow == [at : {"final", "tombstone", "gone"}, of : Nat, files : SUBSET AllOf]

BundleTyped == bundle \in [RetainedJobs -> BundleRow]

\* A bundle that is moved, loses files or goes stays of its type.
LEMMA MovedBundleTyped ==
    ASSUME PurgeTypeOK, NEW j \in RetainedJobs, NEW row \in BundleRow,
           bundle' = [bundle EXCEPT ![j] = row]
    PROVE  BundleTyped'
BY DEF PurgeTypeOK, BundleTyped, BundleRow, AllOf

LEMMA BundleFields ==
    ASSUME PurgeTypeOK, NEW j \in RetainedJobs
    PROVE  /\ bundle[j].at \in {"final", "tombstone", "gone"}
           /\ bundle[j].of \in Nat
           /\ bundle[j].files \in SUBSET AllOf
           /\ bundle[j] \in BundleRow
BY DEF PurgeTypeOK, BundleRow

LEMMA ResumeTrainingPurgeTyped ==
    ASSUME PurgeTypeOK, NEW c \in PurgeCommands, ResumeTrainingPurge(c)
    PROVE  PurgeTypeOK'
<1>1. CommandsTyped'
  <2>1. purge.op \in Nat /\ Start(c, purge.op, stageItem)
    BY DEF PurgeTypeOK, ResumeTrainingPurge
  <2> QED
    BY <2>1, StartTyped
<1> QED
  BY <1>1, QuietTyped DEF PurgeTypeOK, ResumeTrainingPurge

LEMMA PreparePurgeTyped ==
    ASSUME PurgeTypeOK, NEW c \in PurgeCommands, PreparePurge(c)
    PROVE  PurgeTypeOK'
<1>1. CommandsTyped'
  <2>1. CASE Current(c)
    <3>1. PICK blocked \in SUBSET command[c].jobs :
             command' = [command EXCEPT ![c].step = "record", ![c].blocked = blocked]
      BY <2>1 DEF PreparePurge
    <3> DEFINE row == [command[c] EXCEPT !.step = "record", !.blocked = blocked]
    <3>2. row \in PurgeCommand /\ row.step = "record"
      BY ZenonT(40), RowFields DEF PurgeCommand, PurgeSteps
    <3>3. command' = [command EXCEPT ![c] = row]
      BY <3>1
    <3> QED
      BY <3>2, <3>3, RowTyped DEF JobSteps
  <2>2. CASE ~Current(c)
    BY <2>2, EndTyped DEF PreparePurge
  <2> QED
    BY <2>1, <2>2
<1>2. mishaps' \in Nat
  BY DEF PurgeTypeOK, PreparePurge
<1> QED
  BY <1>1, <1>2, QuietTyped DEF PreparePurge

LEMMA RecordStagesTyped ==
    ASSUME PurgeTypeOK, NEW c \in PurgeCommands, RecordStages(c)
    PROVE  PurgeTypeOK'
<1>1. CommandsTyped'
  <2>1. End(c) \/ Go(c, "authorize")
    BY DEF RecordStages
  <2> QED
    BY <2>1, EndTyped, GoTyped DEF PurgeSteps, JobSteps
<1>2. PurgeRowsTyped'
  <2>1. purge' \in [op : Nat, status : {"none", "registered", "completed", "completed_with_blocks"}]
    BY ClosedTyped DEF RecordStages, PurgeTypeOK
  <2>2. /\ reservation' \in [RetainedJobs -> ActiveReservation \cup {"none", "terminalized"}]
        /\ stageItem' \in [RetainedJobs -> {"none", "registered", "completed", "blocked"}]
    BY DEF RecordStages, PurgeTypeOK
  <2> QED
    BY <2>1, <2>2 DEF RecordStages, PurgeTypeOK, PurgeRowsTyped
<1> QED
  BY <1>1, <1>2 DEF PurgeTypeOK, PurgeRowsTyped, CommandsTyped

LEMMA AuthorizeFinalsTyped ==
    ASSUME PurgeTypeOK, NEW c \in PurgeCommands, AuthorizeFinals(c)
    PROVE  PurgeTypeOK'
<1> DEFINE finals == {j \in RetainedJobs : reservation[j] \in {"registered", "deletion_authorized"}
                                             /\ stageItem[j] = "completed"}
<1>1. CommandsTyped'
  <2>1. CASE Current(c)
    <3> DEFINE row == [command[c] EXCEPT !.step = "fence", !.jobs = finals]
    <3>1. finals \in SUBSET RetainedJobs
      OBVIOUS
    <3>2. command' = [command EXCEPT ![c] = row]
      BY <2>1 DEF AuthorizeFinals
    <3> HIDE DEF finals
    <3>3. row \in PurgeCommand /\ row.step = "fence"
      BY ZenonT(40), <3>1, RowFields DEF PurgeCommand, PurgeSteps
    <3> QED
      BY <3>2, <3>3, RowTyped DEF JobSteps
  <2>2. CASE ~Current(c)
    BY <2>2, EndTyped DEF AuthorizeFinals
  <2> QED
    BY <2>1, <2>2
<1>2. PurgeRowsTyped'
  BY DEF AuthorizeFinals, PurgeTypeOK, PurgeRowsTyped, ActiveReservation
<1> QED
  BY <1>1, <1>2 DEF PurgeTypeOK, PurgeRowsTyped, CommandsTyped

LEMMA FenceMoveTyped ==
    ASSUME PurgeTypeOK, NEW c \in PurgeCommands, FenceMove(c)
    PROVE  PurgeTypeOK'
<1>1. CommandsTyped'
  <2>1. CASE Go(c, "bind") \/ End(c)
    BY <2>1, EndTyped, GoTyped DEF PurgeSteps, JobSteps
  <2>2. ASSUME NEW j \in command[c].jobs,
               command' = [command EXCEPT ![c].step = "look", ![c].job = j]
        PROVE  CommandsTyped'
    <3> DEFINE row == [command[c] EXCEPT !.step = "look", !.job = j]
    <3>1. row \in PurgeCommand /\ row.job \in RetainedJobs
      BY ZenonT(40), RowFields DEF PurgeCommand, PurgeSteps
    <3>2. command' = [command EXCEPT ![c] = row]
      BY <2>2
    <3> QED
      BY <3>1, <3>2, RowTyped
  <2> QED
    BY <2>1, <2>2 DEF FenceMove
<1> QED
  BY <1>1, QuietTyped DEF PurgeTypeOK, FenceMove

LEMMA LookAtFinalTyped ==
    ASSUME PurgeTypeOK, NEW c \in PurgeCommands, LookAtFinal(c)
    PROVE  PurgeTypeOK'
<1>1. command[c].step \in JobSteps
  BY DEF LookAtFinal, AtStep, JobSteps
<1>2. CommandsTyped'
  <2>1. Go(c, "rename") \/ Go(c, "capture") \/ Moved(c, FALSE)
    BY DEF LookAtFinal
  <2> QED
    BY <1>1, <2>1, GoTyped, MovedTyped DEF PurgeSteps, JobSteps
<1> QED
  BY <1>2, QuietTyped DEF PurgeTypeOK, LookAtFinal

LEMMA RenameFinalTyped ==
    ASSUME PurgeTypeOK, NEW c \in PurgeCommands, RenameFinal(c)
    PROVE  PurgeTypeOK'
<1>1. command[c].step \in JobSteps
  BY DEF RenameFinal, AtStep, JobSteps
<1>2. CommandsTyped'
  <2>1. Go(c, "capture") \/ Moved(c, FALSE)
    BY DEF RenameFinal
  <2> QED
    BY <1>1, <2>1, GoTyped, MovedTyped DEF PurgeSteps, JobSteps
<1>3. BundleTyped'
  <2> DEFINE j == command[c].job
  <2>1. command[c].op \in Nat /\ j \in RetainedJobs
    BY <1>1, RowFields
  <2>2. CASE bundle' = bundle
    BY <2>2 DEF PurgeTypeOK, BundleTyped, BundleRow, AllOf
  <2>3. CASE bundle' = [bundle EXCEPT ![j].at = "tombstone", ![j].of = command[c].op]
    <3> DEFINE row == [bundle[j] EXCEPT !.at = "tombstone", !.of = command[c].op]
    <3>1. row \in BundleRow
      BY <2>1, BundleFields DEF BundleRow
    <3>2. bundle' = [bundle EXCEPT ![j] = row]
      BY <2>3
    <3> QED
      BY <2>1, <3>1, <3>2, MovedBundleTyped
  <2> QED
    BY <2>2, <2>3 DEF RenameFinal
<1> QED
  BY <1>2, <1>3 DEF RenameFinal, PurgeTypeOK, CommandsTyped, BundleTyped, BundleRow, purgeRows

LEMMA CaptureTombstoneTyped ==
    ASSUME PurgeTypeOK, NEW c \in PurgeCommands, CaptureTombstone(c)
    PROVE  PurgeTypeOK'
<1>1. command[c].step \in JobSteps
  BY DEF CaptureTombstone, AtStep, JobSteps
<1>2. CommandsTyped'
  <2>1. (InTombstone(c, command[c].job) /\ Verifies(command[c].job)) \in BOOLEAN
    OBVIOUS
  <2> QED
    BY <1>1, <2>1, MovedTyped DEF CaptureTombstone
<1> QED
  BY <1>2, QuietTyped DEF PurgeTypeOK, CaptureTombstone

LEMMA BindFinalsTyped ==
    ASSUME PurgeTypeOK, NEW c \in PurgeCommands, BindFinals(c)
    PROVE  PurgeTypeOK'
<1>1. CommandsTyped'
  <2>1. End(c) \/ Go(c, "begin")
    BY DEF BindFinals
  <2> QED
    BY <2>1, EndTyped, GoTyped DEF PurgeSteps, JobSteps
<1>2. reservation' \in [RetainedJobs -> ActiveReservation \cup {"none", "terminalized"}]
  BY DEF BindFinals, PurgeTypeOK, ActiveReservation
<1> QED
  BY <1>1, <1>2 DEF BindFinals, PurgeTypeOK, CommandsTyped

LEMMA BeginStepTyped ==
    ASSUME PurgeTypeOK, NEW c \in PurgeCommands, BeginStep(c)
    PROVE  PurgeTypeOK'
<1>1. CommandsTyped'
  <2>1. CASE End(c) \/ Go(c, "finish")
    BY <2>1, EndTyped, GoTyped DEF PurgeSteps, JobSteps
  <2>2. ASSUME NEW j \in RetainedJobs,
               command' = [command EXCEPT ![c].step = "check", ![c].job = j, ![c].seen = journal[j].next]
        PROVE  CommandsTyped'
    <3> DEFINE row == [command[c] EXCEPT !.step = "check", !.job = j, !.seen = journal[j].next]
    <3>1. journal[j].next \in 0 .. BundleFiles
      BY DEF PurgeTypeOK
    <3>2. row \in PurgeCommand /\ row.job \in RetainedJobs
      BY ZenonT(40), <3>1, RowFields DEF PurgeCommand, PurgeSteps
    <3>3. command' = [command EXCEPT ![c] = row]
      BY <2>2
    <3> QED
      BY <3>2, <3>3, RowTyped
  <2> QED
    BY <2>1, <2>2 DEF BeginStep
<1>2. /\ journal' \in [RetainedJobs -> [next : 0 .. BundleFiles, inFlight : BOOLEAN]]
      /\ \A j \in RetainedJobs : journal'[j].inFlight => journal'[j].next < BundleFiles
  <2>1. CASE UNCHANGED journal
    BY <2>1 DEF PurgeTypeOK
  <2>2. ASSUME NEW j \in RetainedJobs,
               journal' = [journal EXCEPT ![j].inFlight = @ \/ journal[j].next < BundleFiles]
        PROVE  <1>2!:
    <3> DEFINE inFlight == journal[j].inFlight \/ journal[j].next < BundleFiles
               row == [journal[j] EXCEPT !.inFlight = inFlight]
    <3>1. inFlight \in BOOLEAN /\ (inFlight => journal[j].next < BundleFiles)
      BY DEF PurgeTypeOK
    <3>2. journal' = [journal EXCEPT ![j] = row]
      BY <2>2
    <3>3. journal[j] \in [next : 0 .. BundleFiles, inFlight : BOOLEAN]
      BY DEF PurgeTypeOK
    <3> HIDE DEF inFlight
    <3>4. /\ row \in [next : 0 .. BundleFiles, inFlight : BOOLEAN]
          /\ row.next = journal[j].next /\ row.inFlight = inFlight
      BY <3>1, <3>3
    <3> HIDE DEF row
    <3> QED
      BY <3>1, <3>2, <3>4 DEF PurgeTypeOK
  <2> QED
    BY <2>1, <2>2 DEF BeginStep
<1> QED
  BY <1>1, <1>2 DEF BeginStep, PurgeTypeOK, CommandsTyped

LEMMA FenceUnlinkTyped ==
    ASSUME PurgeTypeOK, NEW c \in PurgeCommands, FenceUnlink(c)
    PROVE  PurgeTypeOK'
<1>1. CommandsTyped'
  <2>1. command[c].step \in JobSteps
    BY DEF FenceUnlink, AtStep, JobSteps
  <2>2. Go(c, "list") \/ Go(c, "open") \/ End(c)
    BY DEF FenceUnlink
  <2> QED
    BY <2>1, <2>2, EndTyped, GoTyped DEF PurgeSteps, JobSteps
<1> QED
  BY <1>1, QuietTyped DEF PurgeTypeOK, FenceUnlink

LEMMA ListTombstoneTyped ==
    ASSUME PurgeTypeOK, NEW c \in PurgeCommands, ListTombstone(c)
    PROVE  PurgeTypeOK'
<1>1. CommandsTyped'
  <2>1. command[c].step \in JobSteps
    BY DEF ListTombstone, AtStep, JobSteps
  <2>2. Go(c, "journal") \/ Go(c, "unlink") \/ Outcome(c, FALSE)
    BY DEF ListTombstone
  <2> QED
    BY <2>1, <2>2, OutcomeTyped, GoTyped DEF PurgeSteps, JobSteps
<1> QED
  BY <1>1, QuietTyped DEF PurgeTypeOK, ListTombstone

LEMMA UnlinkTombstoneFileTyped ==
    ASSUME PurgeTypeOK, NEW c \in PurgeCommands, UnlinkTombstoneFile(c)
    PROVE  PurgeTypeOK'
<1>1. command[c].step \in JobSteps
  BY DEF UnlinkTombstoneFile, AtStep, JobSteps
<1>2. CommandsTyped'
  <2>1. Go(c, "journal") \/ Outcome(c, FALSE)
    BY DEF UnlinkTombstoneFile
  <2> QED
    BY <1>1, <2>1, OutcomeTyped, GoTyped DEF PurgeSteps, JobSteps
<1>3. BundleTyped'
  <2> DEFINE j == command[c].job
             file == command[c].seen + 1
  <2>1. j \in RetainedJobs
    BY <1>1, RowFields
  <2>2. CASE bundle' = bundle
    BY <2>2 DEF PurgeTypeOK, BundleTyped, BundleRow, AllOf
  <2>3. CASE bundle' = [bundle EXCEPT ![j].files = @ \ {file}]
    <3> DEFINE row == [bundle[j] EXCEPT !.files = @ \ {file}]
    <3>1. row \in BundleRow
      BY <2>1, BundleFields DEF BundleRow
    <3>2. bundle' = [bundle EXCEPT ![j] = row]
      BY <2>3
    <3> QED
      BY <2>1, <3>1, <3>2, MovedBundleTyped
  <2> QED
    BY <2>2, <2>3 DEF UnlinkTombstoneFile
<1> QED
  BY <1>2, <1>3 DEF UnlinkTombstoneFile, PurgeTypeOK, CommandsTyped, BundleTyped, BundleRow, purgeRows

LEMMA FinishUnlinkTyped ==
    ASSUME PurgeTypeOK, NEW c \in PurgeCommands, FinishUnlink(c)
    PROVE  PurgeTypeOK'
<1>1. CommandsTyped'
  <2>1. Go(c, "begin") \/ End(c)
    BY DEF FinishUnlink
  <2> QED
    BY <2>1, EndTyped, GoTyped DEF PurgeSteps, JobSteps
<1>2. /\ journal' \in [RetainedJobs -> [next : 0 .. BundleFiles, inFlight : BOOLEAN]]
      /\ \A j \in RetainedJobs : journal'[j].inFlight => journal'[j].next < BundleFiles
  <2>1. CASE UNCHANGED journal
    BY <2>1 DEF PurgeTypeOK
  <2>2. CASE JournalRead(c) /\ journal' = [journal EXCEPT ![command[c].job] = Recorded(command[c].seen + 1)]
    <3>1. command[c].job \in RetainedJobs /\ command[c].seen \in 0 .. BundleFiles
      BY RowFields DEF FinishUnlink, AtStep, JobSteps
    <3>2. command[c].seen < BundleFiles
      BY <2>2, <3>1 DEF JournalRead, PurgeTypeOK
    <3>3. command[c].seen + 1 \in 0 .. BundleFiles
      BY <3>1, <3>2, TrainingPurgeAssumption
    <3> QED
      BY <2>2, <3>1, <3>3 DEF Recorded, PurgeTypeOK
  <2> QED
    BY <2>1, <2>2 DEF FinishUnlink
<1> QED
  BY <1>1, <1>2 DEF FinishUnlink, PurgeTypeOK, CommandsTyped

LEMMA OpenTombstoneTyped ==
    ASSUME PurgeTypeOK, NEW c \in PurgeCommands, OpenTombstone(c)
    PROVE  PurgeTypeOK'
<1>1. CommandsTyped'
  <2>1. command[c].step \in JobSteps
    BY DEF OpenTombstone, AtStep, JobSteps
  <2>2. Go(c, "rmdir") \/ Outcome(c, FALSE) \/ Outcome(c, TRUE)
    BY DEF OpenTombstone
  <2> QED
    BY <2>1, <2>2, OutcomeTyped, GoTyped DEF PurgeSteps, JobSteps
<1> QED
  BY <1>1, QuietTyped DEF PurgeTypeOK, OpenTombstone

LEMMA RemoveTombstoneTyped ==
    ASSUME PurgeTypeOK, NEW c \in PurgeCommands, RemoveTombstone(c)
    PROVE  PurgeTypeOK'
<1>1. CommandsTyped'
  <2>1. command[c].step \in JobSteps
    BY DEF RemoveTombstone, AtStep, JobSteps
  <2>2. Outcome(c, FALSE) \/ Outcome(c, TRUE)
    BY DEF RemoveTombstone, InTombstone
  <2> QED
    BY <2>1, <2>2, OutcomeTyped
<1>2. BundleTyped'
  <2> DEFINE j == command[c].job
  <2>1. j \in RetainedJobs
    BY RowFields DEF RemoveTombstone, AtStep, JobSteps
  <2>2. CASE bundle' = bundle
    BY <2>2 DEF PurgeTypeOK, BundleTyped, BundleRow, AllOf
  <2>3. CASE bundle' = [bundle EXCEPT ![j].at = "gone"]
    <3> DEFINE row == [bundle[j] EXCEPT !.at = "gone"]
    <3>1. row \in BundleRow
      BY <2>1, BundleFields DEF BundleRow
    <3>2. bundle' = [bundle EXCEPT ![j] = row]
      BY <2>3
    <3> QED
      BY <2>1, <3>1, <3>2, MovedBundleTyped
  <2> QED
    BY <2>2, <2>3 DEF RemoveTombstone
<1> QED
  BY <1>1, <1>2 DEF RemoveTombstone, PurgeTypeOK, CommandsTyped, BundleTyped, BundleRow, purgeRows

LEMMA FinishPurgeTyped ==
    ASSUME PurgeTypeOK, NEW c \in PurgeCommands, FinishPurge(c)
    PROVE  PurgeTypeOK'
<1>1. CommandsTyped'
  BY EndTyped DEF FinishPurge
<1>2. PurgeRowsTyped'
  <2>1. purge' \in [op : Nat, status : {"none", "registered", "completed", "completed_with_blocks"}]
    BY ClosedTyped DEF FinishPurge, PurgeTypeOK
  <2>2. reservation' \in [RetainedJobs -> ActiveReservation \cup {"none", "terminalized"}]
    BY DEF FinishPurge, PurgeTypeOK
  <2>3. purgedJobs' \subseteq RetainedJobs
    BY RowFields DEF FinishPurge, PurgedBy, PurgeTypeOK
  <2> QED
    BY <2>1, <2>2, <2>3 DEF FinishPurge, PurgeTypeOK, PurgeRowsTyped
<1> QED
  BY <1>1, <1>2 DEF PurgeTypeOK, PurgeRowsTyped, CommandsTyped

LEMMA CommandDiesTyped ==
    ASSUME PurgeTypeOK, NEW c \in PurgeCommands, CommandDies(c)
    PROVE  PurgeTypeOK'
<1>1. CommandsTyped' /\ mishaps' \in Nat
  BY EndTyped DEF CommandDies, PurgeTypeOK
<1> QED
  BY <1>1, QuietTyped DEF CommandDies

LEMMA TouchBundleTyped ==
    ASSUME PurgeTypeOK, NEW j \in RetainedJobs, TouchBundle(j)
    PROVE  PurgeTypeOK'
BY DEF PurgeTypeOK, TouchBundle, purgeRows

LEMMA PurgeNextTyped ==
    ASSUME PurgeTypeOK, [PurgeNext]_trainingPurgeVars
    PROVE  PurgeTypeOK'
<1>1. CASE UNCHANGED trainingPurgeVars
  BY <1>1 DEF PurgeTypeOK, trainingPurgeVars, purgeRows
<1>2. ASSUME NEW c \in PurgeCommands, CommandStep(c)
      PROVE  PurgeTypeOK'
  BY <1>2, PreparePurgeTyped, RecordStagesTyped, AuthorizeFinalsTyped, FenceMoveTyped,
     LookAtFinalTyped, RenameFinalTyped, CaptureTombstoneTyped, BindFinalsTyped, BeginStepTyped,
     FenceUnlinkTyped, ListTombstoneTyped, UnlinkTombstoneFileTyped, FinishUnlinkTyped,
     OpenTombstoneTyped, RemoveTombstoneTyped, FinishPurgeTyped
  DEF CommandStep
<1> QED
  BY <1>1, <1>2, RegisterTyped, ResumeTrainingPurgeTyped, CommandDiesTyped, TouchBundleTyped
  DEF PurgeNext

\* The rows, bundles and commands of a purge are always of their types.
THEOREM PurgeTypeCorrect == PurgeSpec => []PurgeTypeOK
<1>1. PurgeInit => PurgeTypeOK
  BY PurgeInitTyped
<1>2. PurgeTypeOK /\ [PurgeNext]_trainingPurgeVars => PurgeTypeOK'
  BY PurgeNextTyped
<1> QED
  BY <1>1, <1>2, PTL DEF PurgeSpec

(***************************************************************************)
(* What a step of one command leaves true of the memory of the others.     *)
(***************************************************************************)

\* Nothing is undone: bundles only move on and lose files, an authorized job
\* stays under its operation until it is purged, and its journal grows.
Onward == \A j \in RetainedJobs :
    /\ bundle[j].at # "final" => bundle'[j].at # "final"
    /\ bundle[j].at = "gone" => bundle'[j].at = "gone"
    /\ bundle'[j].files \subseteq bundle[j].files
    /\ j \in purgedJobs => j \in purgedJobs'
    /\ Authorized(j) /\ purge.status = "registered" =>
          j \in purgedJobs' \/ (Authorized(j)' /\ purge' = purge)
    /\ Bound(j) =>
          \/ j \in purgedJobs'
          \/ /\ Bound(j)'
             /\ \/ journal'[j].next > journal[j].next
                \/ /\ journal'[j].next = journal[j].next
                   /\ journal[j].inFlight => journal'[j].inFlight

LEMMA HeldOnward ==
    ASSUME PurgeTypeOK, Onward, NEW c \in PurgeCommands, command'[c].op = command[c].op,
           NEW j \in RetainedJobs, Held(c, j)
    PROVE  Held(c, j)'
BY DEF Onward, Held

LEMMA JournalOnward ==
    ASSUME PurgeTypeOK, PurgeTypeOK', Onward, NEW c \in PurgeCommands,
           command'[c].seen = command[c].seen, NEW j \in RetainedJobs, JournalAhead(c, j)
    PROVE  JournalAhead(c, j)'
<1>1. /\ journal[j].next \in Nat /\ journal'[j].next \in Nat
      /\ command[c].seen \in Nat
  BY TrainingPurgeAssumption DEF PurgeTypeOK, PurgeCommand
<1>2. CASE j \in purgedJobs
  BY <1>2 DEF Onward, JournalAhead
<1>3. CASE j \notin purgedJobs /\ j \notin purgedJobs'
  <2>1. Bound(j) /\ Bound(j)'
    BY <1>3 DEF Onward, JournalAhead
  <2>2. \/ journal'[j].next > journal[j].next
        \/ /\ journal'[j].next = journal[j].next
           /\ journal[j].inFlight => journal'[j].inFlight
    BY <1>3, <2>1 DEF Onward
  <2>3. \/ journal[j].next > command[c].seen
        \/ /\ journal[j].next = command[c].seen
           /\ journal[j].inFlight \/ command[c].seen = BundleFiles
    BY <1>3 DEF JournalAhead
  <2>4. \/ journal'[j].next > command[c].seen
        \/ /\ journal'[j].next = command[c].seen
           /\ journal'[j].inFlight \/ command[c].seen = BundleFiles
    BY <1>1, <2>2, <2>3
  <2> QED
    BY <2>1, <2>4 DEF JournalAhead
<1> QED
  BY <1>2, <1>3 DEF JournalAhead

\* The other commands have not moved.
Only(c) == \A d \in PurgeCommands \ {c} : command'[d] = command[d]

LEMMA OthersAgree ==
    ASSUME PurgeTypeOK, PurgeTypeOK', Onward, NEW d \in PurgeCommands,
           CommandAgrees(d), command'[d] = command[d]
    PROVE  CommandAgrees(d)'
<1>1. command[d].bound \subseteq RetainedJobs /\ command[d].done \subseteq RetainedJobs
  BY RowFields
<1>2. command[d].step \in UnlinkSteps \cup {"journal"} => command[d].step \in JobSteps
  BY DEF UnlinkSteps, JobSteps
<1>3. command[d].step \in JobSteps => command[d].job \in RetainedJobs
  BY RowFields
<1>4. command[d].step \in JobSteps => Held(d, command[d].job)'
  BY <1>3, HeldOnward DEF CommandAgrees
<1>5. command[d].step \in UnlinkSteps => JournalAhead(d, command[d].job)'
  BY <1>2, <1>3, JournalOnward DEF CommandAgrees
<1>6. AtStep(d, "journal") => command[d].seen + 1 \notin bundle'[command[d].job].files
  BY <1>2, <1>3 DEF Onward, CommandAgrees, AtStep
<1>7. /\ \A j \in command[d].bound : bundle'[j].at # "final"
      /\ \A j \in command[d].done : bundle'[j].at = "gone"
  BY <1>1 DEF Onward, CommandAgrees
<1> QED
  BY <1>4, <1>5, <1>6, <1>7 DEF CommandAgrees, AtStep

LEMMA EndAgrees ==
    ASSUME PurgeTypeOK, NEW c \in PurgeCommands, End(c)
    PROVE  Only(c) /\ CommandAgrees(c)'
<1>1. command'[c] = IdleCommand /\ Only(c)
  BY DEF End, Only, PurgeTypeOK
<1> QED
  BY <1>1 DEF CommandAgrees, IdleCommand, AtStep, JobSteps, UnlinkSteps

LEMMA StartAgrees ==
    ASSUME PurgeTypeOK, NEW c \in PurgeCommands, NEW op, NEW items, Start(c, op, items)
    PROVE  Only(c) /\ CommandAgrees(c)'
<1>1. /\ Only(c)
      /\ command'[c].step = "prepare" /\ command'[c].bound = {} /\ command'[c].done = {}
  BY DEF Start, Only, PurgeTypeOK, IdleCommand
<1> QED
  BY <1>1 DEF CommandAgrees, AtStep, JobSteps, UnlinkSteps

LEMMA GoAgrees ==
    ASSUME PurgeTypeOK, PurgeTypeOK', Onward, NEW c \in PurgeCommands, CommandAgrees(c),
           NEW step \in PurgeSteps \ {"record"}, Go(c, step),
           step \in JobSteps => command[c].step \in JobSteps,
           step \in UnlinkSteps => JournalAhead(c, command[c].job),
           step \in {"list", "unlink", "journal"} => command[c].seen < BundleFiles,
           step \in {"open", "rmdir"} => command[c].seen = BundleFiles,
           step = "journal" => command[c].seen + 1 \notin bundle'[command[c].job].files
    PROVE  Only(c) /\ CommandAgrees(c)'
<1>1. /\ Only(c)
      /\ command'[c].step = step
      /\ command'[c].op = command[c].op /\ command'[c].bound = command[c].bound
      /\ command'[c].done = command[c].done /\ command'[c].job = command[c].job
      /\ command'[c].seen = command[c].seen
  BY RowFields DEF Go, Only, PurgeTypeOK, PurgeCommand
<1>2. command[c].bound \subseteq RetainedJobs /\ command[c].done \subseteq RetainedJobs
  BY RowFields
<1>3. /\ \A j \in command[c].bound : bundle'[j].at # "final"
      /\ \A j \in command[c].done : bundle'[j].at = "gone"
  BY <1>2 DEF Onward, CommandAgrees
<1>4. step \in JobSteps => command[c].job \in RetainedJobs /\ Held(c, command[c].job)'
  BY <1>1, RowFields, HeldOnward DEF CommandAgrees
<1>5. step \in UnlinkSteps => JournalAhead(c, command[c].job)'
  BY <1>1, <1>4, JournalOnward DEF UnlinkSteps, JobSteps
<1> QED
  BY <1>1, <1>3, <1>4, <1>5 DEF CommandAgrees, AtStep

LEMMA MovedAgrees ==
    ASSUME PurgeTypeOK, Onward, NEW c \in PurgeCommands, CommandAgrees(c),
           NEW captured \in BOOLEAN, Moved(c, captured),
           captured => bundle'[command[c].job].at # "final"
    PROVE  Only(c) /\ CommandAgrees(c)'
<1>1. /\ Only(c)
      /\ command'[c].step = "fence" /\ command'[c].done = command[c].done
      /\ \A j \in command'[c].bound : j \in command[c].bound \/ (captured /\ j = command[c].job)
  BY RowFields DEF Moved, Only, PurgeTypeOK, PurgeCommand
<1>2. command[c].bound \subseteq RetainedJobs /\ command[c].done \subseteq RetainedJobs
  BY RowFields
<1>3. /\ \A j \in command'[c].bound : bundle'[j].at # "final"
      /\ \A j \in command'[c].done : bundle'[j].at = "gone"
  BY <1>1, <1>2 DEF Onward, CommandAgrees
<1> QED
  BY <1>1, <1>3 DEF CommandAgrees, AtStep, JobSteps, UnlinkSteps

LEMMA OutcomeAgrees ==
    ASSUME PurgeTypeOK, Onward, NEW c \in PurgeCommands, CommandAgrees(c),
           NEW ok \in BOOLEAN, Outcome(c, ok),
           ok => bundle'[command[c].job].at = "gone"
    PROVE  Only(c) /\ CommandAgrees(c)'
<1>1. /\ Only(c)
      /\ command'[c].step = "begin" /\ command'[c].bound = command[c].bound
      /\ \A j \in command'[c].done : j \in command[c].done \/ (ok /\ j = command[c].job)
  BY RowFields DEF Outcome, Only, PurgeTypeOK, PurgeCommand
<1>2. command[c].bound \subseteq RetainedJobs /\ command[c].done \subseteq RetainedJobs
  BY RowFields
<1>3. /\ \A j \in command'[c].bound : bundle'[j].at # "final"
      /\ \A j \in command'[c].done : bundle'[j].at = "gone"
  BY <1>1, <1>2 DEF Onward, CommandAgrees
<1> QED
  BY <1>1, <1>3 DEF CommandAgrees, AtStep, JobSteps, UnlinkSteps

\* A step of one command keeps the invariant if it keeps the rows, goes
\* onward, and leaves its own memory in agreement.
LEMMA StepAgrees ==
    ASSUME PurgeInv, PurgeTypeOK', RowsAgree', PurgeBooks', Onward,
           NEW c \in PurgeCommands, Only(c), CommandAgrees(c)'
    PROVE  PurgeInv'
<1>1. ASSUME NEW d \in PurgeCommands
      PROVE  CommandAgrees(d)'
  <2>1. CASE d = c
    BY <2>1
  <2>2. CASE d # c
    BY <2>2, OthersAgree DEF Only, PurgeInv
  <2> QED
    BY <2>1, <2>2
<1> QED
  BY <1>1 DEF PurgeInv

LEMMA QuietRows ==
    ASSUME PurgeInv, UNCHANGED <<purgeRows, bundle>>
    PROVE  RowsAgree' /\ PurgeBooks' /\ Onward
<1>1. RowsAgree'
  BY DEF PurgeInv, purgeRows, RowsAgree, Authorized
<1>2. PurgeBooks'
  BY DEF PurgeInv, purgeRows, PurgeBooks, Bound, JournalTells
<1>3. Onward
  BY DEF purgeRows, Onward, Authorized, Bound
<1> QED
  BY <1>1, <1>2, <1>3

(***************************************************************************)
(* Steps that change no row and no bundle.                                 *)
(***************************************************************************)

LEMMA ResumeTrainingPurgeAgrees ==
    ASSUME PurgeInv, NEW c \in PurgeCommands, ResumeTrainingPurge(c)
    PROVE  PurgeInv'
<1>1. PurgeTypeOK' /\ PurgeTypeOK /\ CommandAgrees(c)
  BY ResumeTrainingPurgeTyped DEF PurgeInv
<1>2. RowsAgree' /\ PurgeBooks' /\ Onward
  BY QuietRows DEF ResumeTrainingPurge
<1>3. Only(c) /\ CommandAgrees(c)'
  BY <1>1, StartAgrees DEF ResumeTrainingPurge
<1> QED
  BY <1>1, <1>2, <1>3, StepAgrees

LEMMA PreparePurgeAgrees ==
    ASSUME PurgeInv, NEW c \in PurgeCommands, PreparePurge(c)
    PROVE  PurgeInv'
<1>1. PurgeTypeOK' /\ PurgeTypeOK /\ CommandAgrees(c)
  BY PreparePurgeTyped DEF PurgeInv
<1>2. RowsAgree' /\ PurgeBooks' /\ Onward
  BY QuietRows DEF PreparePurge
<1>3. Only(c) /\ CommandAgrees(c)'
  <2>1. CASE Current(c)
    <3>1. PICK blocked \in SUBSET command[c].jobs :
             command' = [command EXCEPT ![c].step = "record", ![c].blocked = blocked]
      BY <2>1 DEF PreparePurge
    <3>2. /\ Only(c)
          /\ command'[c].step = "record" /\ command'[c].blocked = blocked
          /\ command'[c].jobs = command[c].jobs /\ command'[c].bound = command[c].bound
          /\ command'[c].done = command[c].done
      BY <1>1, <3>1, RowFields DEF Only, PurgeTypeOK, PurgeCommand
    <3> QED
      BY <1>1, <3>2 DEF CommandAgrees, AtStep, JobSteps, UnlinkSteps, PreparePurge
  <2>2. CASE ~Current(c)
    BY <1>1, <2>2, EndAgrees DEF PreparePurge
  <2> QED
    BY <2>1, <2>2
<1> QED
  BY <1>1, <1>2, <1>3, StepAgrees

LEMMA FenceMoveAgrees ==
    ASSUME PurgeInv, NEW c \in PurgeCommands, FenceMove(c)
    PROVE  PurgeInv'
<1>1. PurgeTypeOK' /\ PurgeTypeOK /\ CommandAgrees(c)
  BY FenceMoveTyped DEF PurgeInv
<1>2. RowsAgree' /\ PurgeBooks' /\ Onward
  BY QuietRows DEF FenceMove
<1>3. Only(c) /\ CommandAgrees(c)'
  <2>1. CASE Go(c, "bind")
    BY <1>1, <1>2, <2>1, GoAgrees DEF PurgeSteps, JobSteps, UnlinkSteps
  <2>2. CASE End(c)
    BY <1>1, <2>2, EndAgrees
  <2>3. ASSUME NEW j \in command[c].jobs, Fenced(c, j),
               command' = [command EXCEPT ![c].step = "look", ![c].job = j]
        PROVE  Only(c) /\ CommandAgrees(c)'
    <3>1. /\ Only(c)
          /\ command'[c].step = "look" /\ command'[c].job = j
          /\ command'[c].op = command[c].op /\ command'[c].bound = command[c].bound
          /\ command'[c].done = command[c].done
      BY <1>1, <2>3, RowFields DEF Only, PurgeTypeOK, PurgeCommand
    <3>2. j \in RetainedJobs
      BY <1>1, RowFields
    <3>3. Authorized(j) /\ purge = [op |-> command[c].op, status |-> "registered"]
      BY <1>1, <2>3, <3>2
      DEF Fenced, Authorized, PurgeInv, RowsAgree, ActiveReservation, PurgeTypeOK
    <3>4. Held(c, j)'
      BY <3>1, <3>3 DEF Held, Authorized, FenceMove, purgeRows
    <3> QED
      BY <1>1, <3>1, <3>4 DEF CommandAgrees, AtStep, UnlinkSteps, FenceMove
  <2> QED
    BY <2>1, <2>2, <2>3 DEF FenceMove
<1> QED
  BY <1>1, <1>2, <1>3, StepAgrees

LEMMA LookAtFinalAgrees ==
    ASSUME PurgeInv, NEW c \in PurgeCommands, LookAtFinal(c)
    PROVE  PurgeInv'
<1>1. PurgeTypeOK' /\ PurgeTypeOK /\ CommandAgrees(c)
  BY LookAtFinalTyped DEF PurgeInv
<1>2. RowsAgree' /\ PurgeBooks' /\ Onward
  BY QuietRows DEF LookAtFinal
<1>3. Only(c) /\ CommandAgrees(c)'
  <2>1. CASE Go(c, "rename") \/ Go(c, "capture")
    BY <1>1, <1>2, <2>1, GoAgrees DEF PurgeSteps, JobSteps, UnlinkSteps, LookAtFinal, AtStep
  <2>2. CASE Moved(c, FALSE)
    BY <1>1, <1>2, <2>2, MovedAgrees
  <2> QED
    BY <2>1, <2>2 DEF LookAtFinal
<1> QED
  BY <1>1, <1>2, <1>3, StepAgrees

LEMMA CaptureTombstoneAgrees ==
    ASSUME PurgeInv, NEW c \in PurgeCommands, CaptureTombstone(c)
    PROVE  PurgeInv'
<1>1. PurgeTypeOK' /\ PurgeTypeOK /\ CommandAgrees(c)
  BY CaptureTombstoneTyped DEF PurgeInv
<1>2. RowsAgree' /\ PurgeBooks' /\ Onward
  BY QuietRows DEF CaptureTombstone
<1>3. Only(c) /\ CommandAgrees(c)'
  <2> DEFINE captured == InTombstone(c, command[c].job) /\ Verifies(command[c].job)
  <2>1. captured \in BOOLEAN /\ Moved(c, captured)
    BY DEF CaptureTombstone
  <2>2. captured => bundle'[command[c].job].at # "final"
    BY DEF InTombstone, CaptureTombstone
  <2> HIDE DEF captured
  <2> QED
    BY <1>1, <1>2, <2>1, <2>2, MovedAgrees
<1> QED
  BY <1>1, <1>2, <1>3, StepAgrees

LEMMA FenceUnlinkAgrees ==
    ASSUME PurgeInv, NEW c \in PurgeCommands, FenceUnlink(c)
    PROVE  PurgeInv'
<1>1. PurgeTypeOK' /\ PurgeTypeOK /\ CommandAgrees(c)
  BY FenceUnlinkTyped DEF PurgeInv
<1>2. RowsAgree' /\ PurgeBooks' /\ Onward
  BY QuietRows DEF FenceUnlink
<1>3. Only(c) /\ CommandAgrees(c)'
  <2>1. command[c].step = "check" /\ command[c].seen \in 0 .. BundleFiles
    BY <1>1, RowFields DEF FenceUnlink, AtStep
  <2>2. JournalAhead(c, command[c].job)
    BY <1>1, <2>1 DEF CommandAgrees, UnlinkSteps
  <2>3. CASE command[c].seen < BundleFiles /\ Go(c, "list")
    BY <1>1, <1>2, <2>1, <2>2, <2>3, GoAgrees DEF PurgeSteps, JobSteps
  <2>4. CASE ~(command[c].seen < BundleFiles) /\ Go(c, "open")
    <3>1. command[c].seen = BundleFiles
      BY <2>1, <2>4, TrainingPurgeAssumption
    <3> QED
      BY <1>1, <1>2, <2>1, <2>2, <2>4, <3>1, GoAgrees DEF PurgeSteps, JobSteps
  <2>5. CASE End(c)
    BY <1>1, <2>5, EndAgrees
  <2> QED
    BY <2>3, <2>4, <2>5 DEF FenceUnlink
<1> QED
  BY <1>1, <1>2, <1>3, StepAgrees

LEMMA ListTombstoneAgrees ==
    ASSUME PurgeInv, NEW c \in PurgeCommands, ListTombstone(c)
    PROVE  PurgeInv'
<1>1. PurgeTypeOK' /\ PurgeTypeOK /\ CommandAgrees(c)
  BY ListTombstoneTyped DEF PurgeInv
<1>2. RowsAgree' /\ PurgeBooks' /\ Onward
  BY QuietRows DEF ListTombstone
<1>3. Only(c) /\ CommandAgrees(c)'
  <2>1. /\ command[c].step = "list"
        /\ command[c].seen \in 0 .. BundleFiles /\ command[c].seen < BundleFiles
        /\ JournalAhead(c, command[c].job)
    BY <1>1, RowFields DEF ListTombstone, AtStep, CommandAgrees, UnlinkSteps
  <2>2. CASE Unlinked(c) /\ Go(c, "journal")
    <3>1. command[c].seen + 1 \notin bundle'[command[c].job].files
      BY <2>1, <2>2 DEF Unlinked, After, ListTombstone
    <3> QED
      BY <1>1, <1>2, <2>1, <2>2, <3>1, GoAgrees DEF PurgeSteps, JobSteps
  <2>3. CASE Go(c, "unlink")
    BY <1>1, <1>2, <2>1, <2>3, GoAgrees DEF PurgeSteps, JobSteps
  <2>4. CASE Outcome(c, FALSE)
    BY <1>1, <1>2, <2>4, OutcomeAgrees
  <2> QED
    BY <2>2, <2>3, <2>4 DEF ListTombstone
<1> QED
  BY <1>1, <1>2, <1>3, StepAgrees

LEMMA OpenTombstoneAgrees ==
    ASSUME PurgeInv, NEW c \in PurgeCommands, OpenTombstone(c)
    PROVE  PurgeInv'
<1>1. PurgeTypeOK' /\ PurgeTypeOK /\ CommandAgrees(c)
  BY OpenTombstoneTyped DEF PurgeInv
<1>2. RowsAgree' /\ PurgeBooks' /\ Onward
  BY QuietRows DEF OpenTombstone
<1>3. Only(c) /\ CommandAgrees(c)'
  <2> DEFINE j == command[c].job
  <2>1. /\ command[c].step = "open" /\ j \in RetainedJobs
        /\ command[c].seen = BundleFiles
        /\ JournalAhead(c, j) /\ Held(c, j)
    BY <1>1, RowFields DEF OpenTombstone, AtStep, CommandAgrees, UnlinkSteps, JobSteps
  <2>2. CASE ~InTombstone(c, j) /\ Outcome(c, TRUE)
    <3>1. bundle[j].at # "final"
      BY <2>1 DEF JournalAhead, PurgeInv, PurgeBooks
    <3>2. bundle[j].at # "tombstone"
      BY <2>1, <2>2 DEF Held, InTombstone, PurgeInv, PurgeBooks, RowsAgree, Authorized, Bound,
         ActiveReservation
    <3>3. bundle'[j].at = "gone"
      BY <1>1, <2>1, <3>1, <3>2, BundleFields DEF OpenTombstone
    <3> QED
      BY <1>1, <1>2, <2>2, <3>3, OutcomeAgrees
  <2>3. CASE Outcome(c, FALSE)
    BY <1>1, <1>2, <2>3, OutcomeAgrees
  <2>4. CASE Go(c, "rmdir")
    BY <1>1, <1>2, <2>1, <2>4, GoAgrees DEF PurgeSteps, JobSteps
  <2> QED
    BY <2>2, <2>3, <2>4 DEF OpenTombstone
<1> QED
  BY <1>1, <1>2, <1>3, StepAgrees

LEMMA CommandDiesAgrees ==
    ASSUME PurgeInv, NEW c \in PurgeCommands, CommandDies(c)
    PROVE  PurgeInv'
<1>1. PurgeTypeOK' /\ PurgeTypeOK /\ CommandAgrees(c)
  BY CommandDiesTyped DEF PurgeInv
<1>2. RowsAgree' /\ PurgeBooks' /\ Onward
  BY QuietRows DEF CommandDies
<1>3. Only(c) /\ CommandAgrees(c)'
  BY <1>1, EndAgrees DEF CommandDies
<1> QED
  BY <1>1, <1>2, <1>3, StepAgrees

LEMMA TouchBundleAgrees ==
    ASSUME PurgeInv, NEW j \in RetainedJobs, TouchBundle(j)
    PROVE  PurgeInv'
<1>1. PurgeTypeOK' /\ PurgeTypeOK
  BY TouchBundleTyped DEF PurgeInv
<1>2. RowsAgree' /\ PurgeBooks' /\ Onward
  BY QuietRows DEF TouchBundle
<1>3. \A d \in PurgeCommands : CommandAgrees(d)'
  BY <1>1, <1>2, OthersAgree DEF PurgeInv, TouchBundle
<1> QED
  BY <1>1, <1>2, <1>3 DEF PurgeInv

(***************************************************************************)
(* Steps on the rows.                                                      *)
(***************************************************************************)

\* What the invariant says of one job.
LEMMA JobFacts ==
    ASSUME PurgeInv, NEW j \in RetainedJobs
    PROVE  /\ reservation[j] \in ActiveReservation =>
                 purge.status = "registered" /\ j \notin purgedJobs
           /\ Authorized(j) => stageItem[j] = "completed" /\ reservation[j] \in ActiveReservation
           /\ Bound(j) => Authorized(j)
           /\ reservation[j] \notin {"tombstone_bound", "terminalized"} => journal[j] = NoJournal
           /\ j \in purgedJobs => bundle[j].at = "gone"
           /\ bundle[j].at = "final" => bundle[j].files = AllOf /\ ~Bound(j)
           /\ bundle[j].at = "tombstone" =>
                 /\ purge = [op |-> bundle[j].of, status |-> "registered"]
                 /\ Authorized(j)
                 /\ bundle[j].files = AllOf \/ Bound(j)
                 /\ Bound(j) => JournalTells(j)
           /\ bundle[j].at = "gone" =>
                 j \in purgedJobs \/ (Bound(j) /\ journal[j].next = BundleFiles)
           /\ bundle[j].at \in {"final", "tombstone", "gone"}
<1>1. bundle[j].at \in {"final", "tombstone", "gone"}
  BY BundleFields DEF PurgeInv
<1> QED
  BY <1>1 DEF PurgeInv, RowsAgree, PurgeBooks, Authorized, Bound, ActiveReservation

\* An operation with an active reservation stays open.
LEMMA ClosedStays ==
    ASSUME NEW j \in RetainedJobs, reservation'[j] \in ActiveReservation,
           NEW items, purge' = Closed(items)
    PROVE  purge' = purge
BY DEF Closed

LEMMA RegisterTrainingPurgeAgrees ==
    ASSUME PurgeInv, NEW c \in PurgeCommands, RegisterTrainingPurge(c)
    PROVE  PurgeInv'
<1>1. PurgeTypeOK' /\ PurgeTypeOK /\ CommandAgrees(c)
  BY RegisterTyped DEF PurgeInv
<1>2. RowsAgree' /\ PurgeBooks' /\ Onward
  <2>1. ASSUME NEW j \in RetainedJobs
        PROVE  /\ reservation[j] \notin ActiveReservation
               /\ bundle[j].at # "tombstone"
               /\ bundle[j].at = "gone" => j \in purgedJobs
               /\ bundle[j].at = "final" => bundle[j].files = AllOf /\ j \notin purgedJobs
    BY JobFacts DEF RegisterTrainingPurge, ActiveReservation, Bound, Authorized
  <2>2. PICK chosen \in SUBSET (RetainedJobs \ purgedJobs) :
           reservation' = [j \in RetainedJobs |-> IF j \in chosen THEN "registered" ELSE "none"]
    BY DEF RegisterTrainingPurge
  <2>3. /\ purge' = [op |-> purge.op + 1, status |-> "registered"]
        /\ journal' = [j \in RetainedJobs |-> NoJournal]
        /\ purgedJobs' = purgedJobs /\ bundle' = bundle
    BY DEF RegisterTrainingPurge
  <2>4. RowsAgree'
    BY <2>2, <2>3 DEF RowsAgree, Authorized, ActiveReservation
  <2>5. PurgeBooks'
    BY <2>1, <2>2, <2>3 DEF PurgeBooks, Bound
  <2>6. Onward
    BY <2>1, <2>3 DEF Onward, Authorized, Bound, ActiveReservation
  <2> QED
    BY <2>4, <2>5, <2>6
<1>3. Only(c) /\ CommandAgrees(c)'
  BY <1>1, StartAgrees DEF RegisterTrainingPurge
<1> QED
  BY <1>1, <1>2, <1>3, StepAgrees

LEMMA RecordStagesAgrees ==
    ASSUME PurgeInv, NEW c \in PurgeCommands, RecordStages(c)
    PROVE  PurgeInv'
<1>1. PurgeTypeOK' /\ PurgeTypeOK /\ CommandAgrees(c)
  BY RecordStagesTyped DEF PurgeInv
<1> DEFINE blocked == command[c].blocked
<1>2. RowsAgree' /\ PurgeBooks' /\ Onward
  <2>1. CASE UNCHANGED <<purge, reservation, stageItem>>
    BY <2>1, QuietRows DEF RecordStages, purgeRows
  <2>2. CASE /\ \A j \in command[c].jobs : stageItem[j] = "registered"
             /\ stageItem' = [j \in RetainedJobs |->
                   IF j \notin command[c].jobs THEN stageItem[j]
                   ELSE IF j \in blocked THEN "blocked" ELSE "completed"]
             /\ reservation' = [j \in RetainedJobs |->
                   IF j \in blocked THEN "terminalized" ELSE reservation[j]]
             /\ purge' = Closed(stageItem')
    <3>1. blocked \subseteq command[c].jobs
      BY <1>1 DEF RecordStages, CommandAgrees
    <3>2. journal' = journal /\ purgedJobs' = purgedJobs /\ bundle' = bundle
      BY DEF RecordStages
    <3>3. ASSUME NEW j \in RetainedJobs
          PROVE  /\ Authorized(j) => j \notin command[c].jobs /\ reservation'[j] = reservation[j]
                                       /\ stageItem'[j] = stageItem[j] /\ purge' = purge
                 /\ reservation'[j] \in ActiveReservation =>
                       reservation'[j] = reservation[j] /\ purge' = purge
                 /\ Authorized(j)' => Authorized(j)
                 /\ Bound(j)' <=> Bound(j)
                 /\ reservation'[j] # "terminalized" => reservation'[j] = reservation[j]
      <4>1. Authorized(j) => j \notin command[c].jobs
        BY <2>2, JobFacts
      <4>2. Authorized(j) => reservation'[j] = reservation[j] /\ stageItem'[j] = stageItem[j]
        BY <2>2, <3>1, <4>1
      <4>3. reservation'[j] \in ActiveReservation => reservation'[j] = reservation[j] /\ purge' = purge
        BY <2>2, ClosedStays DEF ActiveReservation
      <4>4. Authorized(j) => reservation'[j] \in ActiveReservation
        BY <4>2, JobFacts
      <4>5. reservation'[j] # "terminalized" => reservation'[j] = reservation[j]
        BY <2>2
      <4> QED
        BY <4>1, <4>2, <4>3, <4>4, <4>5, <2>2 DEF Authorized, Bound
    <3>4. RowsAgree'
      BY <3>2, <3>3, JobFacts DEF RowsAgree, ActiveReservation
    <3>5. PurgeBooks'
      BY <3>2, <3>3, JobFacts DEF PurgeBooks, Bound, Authorized, JournalTells
    <3>6. Onward
      BY <3>2, <3>3, JobFacts DEF Onward, Authorized, Bound
    <3> QED
      BY <3>4, <3>5, <3>6
  <2> QED
    BY <2>1, <2>2 DEF RecordStages
<1>3. Only(c) /\ CommandAgrees(c)'
  <2>1. CASE Go(c, "authorize")
    BY <1>1, <1>2, <2>1, GoAgrees DEF PurgeSteps, JobSteps, UnlinkSteps
  <2>2. CASE End(c)
    BY <1>1, <2>2, EndAgrees
  <2> QED
    BY <2>1, <2>2 DEF RecordStages
<1> QED
  BY <1>1, <1>2, <1>3, StepAgrees

LEMMA AuthorizeFinalsAgrees ==
    ASSUME PurgeInv, NEW c \in PurgeCommands, AuthorizeFinals(c)
    PROVE  PurgeInv'
<1>1. PurgeTypeOK' /\ PurgeTypeOK /\ CommandAgrees(c)
  BY AuthorizeFinalsTyped DEF PurgeInv
<1> DEFINE finals == {j \in RetainedJobs : reservation[j] \in {"registered", "deletion_authorized"}
                                             /\ stageItem[j] = "completed"}
<1>2. RowsAgree' /\ PurgeBooks' /\ Onward
  <2>1. CASE UNCHANGED reservation
    BY <2>1, QuietRows DEF AuthorizeFinals, purgeRows
  <2>2. CASE reservation' = [j \in RetainedJobs |->
                IF j \in finals THEN "deletion_authorized" ELSE reservation[j]]
    <3>1. /\ purge' = purge /\ stageItem' = stageItem /\ journal' = journal
          /\ purgedJobs' = purgedJobs /\ bundle' = bundle
      BY DEF AuthorizeFinals
    <3>2. ASSUME NEW j \in RetainedJobs
          PROVE  /\ reservation'[j] = reservation[j]
                    \/ /\ reservation[j] \in {"registered", "deletion_authorized"}
                       /\ stageItem[j] = "completed" /\ reservation'[j] = "deletion_authorized"
      BY <2>2
    <3>3. RowsAgree'
      BY <3>1, <3>2, JobFacts DEF RowsAgree, ActiveReservation, Authorized
    <3>4. PurgeBooks'
      BY <3>1, <3>2, JobFacts DEF PurgeBooks, Bound, Authorized, JournalTells
    <3>5. Onward
      BY <3>1, <3>2, JobFacts DEF Onward, Authorized, Bound
    <3> QED
      BY <3>3, <3>4, <3>5
  <2> QED
    BY <2>1, <2>2 DEF AuthorizeFinals
<1>3. Only(c) /\ CommandAgrees(c)'
  <2>1. CASE command' = [command EXCEPT ![c].step = "fence", ![c].jobs = finals]
    <3> HIDE DEF finals
    <3>1. /\ Only(c)
          /\ command'[c].step = "fence" /\ command'[c].bound = command[c].bound
          /\ command'[c].done = command[c].done
      BY <1>1, <2>1, RowFields DEF Only, PurgeTypeOK, PurgeCommand
    <3> QED
      BY <1>1, <3>1 DEF CommandAgrees, AtStep, JobSteps, UnlinkSteps, AuthorizeFinals
  <2>2. CASE End(c)
    BY <1>1, <2>2, EndAgrees
  <2> QED
    BY <2>1, <2>2 DEF AuthorizeFinals
<1> QED
  BY <1>1, <1>2, <1>3, StepAgrees

LEMMA RenameFinalAgrees ==
    ASSUME PurgeInv, NEW c \in PurgeCommands, RenameFinal(c)
    PROVE  PurgeInv'
<1> DEFINE j == command[c].job
<1>1. PurgeTypeOK' /\ PurgeTypeOK /\ CommandAgrees(c)
  BY RenameFinalTyped DEF PurgeInv
<1>0. j \in RetainedJobs /\ Held(c, j)
  BY <1>1, RowFields DEF RenameFinal, AtStep, JobSteps, CommandAgrees
<1>2. RowsAgree' /\ PurgeBooks' /\ Onward /\ (bundle[j].at = "final" => bundle'[j].at = "tombstone")
  <2>1. CASE bundle[j].at # "final"
    BY <2>1, QuietRows DEF RenameFinal, purgeRows
  <2>2. CASE bundle[j].at = "final"
    <3>1. /\ Authorized(j) /\ purge = [op |-> command[c].op, status |-> "registered"]
          /\ reservation[j] = "deletion_authorized" /\ bundle[j].files = AllOf
      BY <1>0, <2>2, JobFacts DEF Held, Authorized, Bound
    <3>2. /\ bundle'[j].at = "tombstone" /\ bundle'[j].of = command[c].op
          /\ bundle'[j].files = bundle[j].files
          /\ \A i \in RetainedJobs \ {j} : bundle'[i] = bundle[i]
      <4> DEFINE row == [bundle[j] EXCEPT !.at = "tombstone", !.of = command[c].op]
      <4>1. row.at = "tombstone" /\ row.of = command[c].op /\ row.files = bundle[j].files
        BY <1>1, <1>0, BundleFields DEF BundleRow
      <4>2. bundle' = [bundle EXCEPT ![j] = row]
        BY <2>2 DEF RenameFinal
      <4> HIDE DEF row
      <4> QED
        BY <1>1, <1>0, <4>1, <4>2 DEF PurgeTypeOK
    <3>3. UNCHANGED purgeRows
      BY DEF RenameFinal
    <3>4. RowsAgree'
      BY <3>3 DEF RowsAgree, Authorized, purgeRows, PurgeInv
    <3>5. PurgeBooks'
      BY <3>1, <3>2, <3>3 DEF PurgeBooks, Bound, JournalTells, purgeRows, PurgeInv
    <3>6. Onward
      BY <2>2, <3>2, <3>3 DEF Onward, Authorized, Bound, purgeRows
    <3> QED
      BY <3>2, <3>4, <3>5, <3>6
  <2> QED
    BY <2>1, <2>2
<1>3. Only(c) /\ CommandAgrees(c)'
  <2>1. CASE Go(c, "capture")
    BY <1>1, <1>2, <2>1, GoAgrees DEF PurgeSteps, JobSteps, UnlinkSteps, RenameFinal, AtStep
  <2>2. CASE Moved(c, FALSE)
    BY <1>1, <1>2, <2>2, MovedAgrees
  <2> QED
    BY <2>1, <2>2 DEF RenameFinal
<1> QED
  BY <1>1, <1>2, <1>3, StepAgrees

LEMMA BindFinalsAgrees ==
    ASSUME PurgeInv, NEW c \in PurgeCommands, BindFinals(c)
    PROVE  PurgeInv'
<1>1. PurgeTypeOK' /\ PurgeTypeOK /\ CommandAgrees(c)
  BY BindFinalsTyped DEF PurgeInv
<1> DEFINE bound == command[c].bound
<1>2. RowsAgree' /\ PurgeBooks' /\ Onward
  <2>1. CASE UNCHANGED reservation
    BY <2>1, QuietRows DEF BindFinals, purgeRows
  <2>2. CASE /\ \A j \in bound : reservation[j] = "deletion_authorized"
             /\ reservation' = [j \in RetainedJobs |->
                   IF j \in bound THEN "tombstone_bound" ELSE reservation[j]]
    <3>1. /\ purge' = purge /\ stageItem' = stageItem /\ journal' = journal
          /\ purgedJobs' = purgedJobs /\ bundle' = bundle
      BY DEF BindFinals
    <3>2. ASSUME NEW j \in RetainedJobs
          PROVE  \/ j \notin bound /\ reservation'[j] = reservation[j]
                 \/ /\ j \in bound /\ bundle[j].at # "final"
                    /\ reservation[j] = "deletion_authorized" /\ reservation'[j] = "tombstone_bound"
      BY <1>1, <2>2 DEF CommandAgrees
    <3>3. ASSUME NEW j \in RetainedJobs, j \in bound
          PROVE  bundle[j].at = "tombstone" /\ JournalTells(j)
      <4>1. bundle[j].at = "tombstone" /\ bundle[j].files = AllOf /\ journal[j] = NoJournal
        BY <3>2, <3>3, JobFacts DEF Authorized, Bound, ActiveReservation
      <4>2. After(0) = AllOf
        BY TrainingPurgeAssumption DEF After, AllOf
      <4> QED
        BY <4>1, <4>2 DEF JournalTells, NoJournal
    <3>4. RowsAgree'
      BY <3>1, <3>2, JobFacts DEF RowsAgree, ActiveReservation, Authorized
    <3>5. PurgeBooks'
      BY <3>1, <3>2, <3>3, JobFacts DEF PurgeBooks, Bound, Authorized, JournalTells
    <3>6. Onward
      BY <3>1, <3>2, JobFacts DEF Onward, Authorized, Bound
    <3> QED
      BY <3>4, <3>5, <3>6
  <2>3. CASE bound = {}
    <3>1. reservation' = reservation
      BY <1>1, <2>3 DEF BindFinals, PurgeTypeOK
    <3> QED
      BY <3>1, <2>1
  <2> QED
    BY <2>1, <2>2, <2>3 DEF BindFinals
<1>3. Only(c) /\ CommandAgrees(c)'
  <2>1. CASE Go(c, "begin")
    BY <1>1, <1>2, <2>1, GoAgrees DEF PurgeSteps, JobSteps, UnlinkSteps
  <2>2. CASE End(c)
    BY <1>1, <2>2, EndAgrees
  <2> QED
    BY <2>1, <2>2 DEF BindFinals
<1> QED
  BY <1>1, <1>2, <1>3, StepAgrees

\* Rows of which only the journal of bound jobs changes, and only forward.
LEMMA JournalRows ==
    ASSUME PurgeInv, NEW j \in RetainedJobs, Bound(j),
           UNCHANGED <<purge, reservation, stageItem, purgedJobs, bundle>>,
           \A i \in RetainedJobs \ {j} : journal'[i] = journal[i],
           bundle[j].at = "tombstone" => JournalTells(j)',
           \/ journal'[j].next > journal[j].next /\ journal[j].next # BundleFiles
           \/ journal'[j].next = journal[j].next /\ (journal[j].inFlight => journal'[j].inFlight)
    PROVE  RowsAgree' /\ PurgeBooks' /\ Onward
<1>1. RowsAgree'
  BY JobFacts DEF RowsAgree, Authorized, Bound, PurgeInv
<1>2. PurgeBooks'
  BY JobFacts DEF PurgeBooks, Bound, JournalTells, PurgeInv
<1>3. Onward
  BY DEF Onward, Authorized, Bound
<1> QED
  BY <1>1, <1>2, <1>3

LEMMA BeginStepAgrees ==
    ASSUME PurgeInv, NEW c \in PurgeCommands, BeginStep(c)
    PROVE  PurgeInv'
<1>1. PurgeTypeOK' /\ PurgeTypeOK /\ CommandAgrees(c)
  BY BeginStepTyped DEF PurgeInv
<1>2. CASE UNCHANGED journal /\ (End(c) \/ Go(c, "finish"))
  <2>1. RowsAgree' /\ PurgeBooks' /\ Onward
    BY <1>2, QuietRows DEF BeginStep, purgeRows
  <2>2. Only(c) /\ CommandAgrees(c)'
    BY <1>1, <1>2, <2>1, EndAgrees, GoAgrees DEF PurgeSteps, JobSteps, UnlinkSteps
  <2> QED
    BY <1>1, <2>1, <2>2, StepAgrees
<1>3. ASSUME NEW j \in RetainedJobs, Bound(j), Current(c),
             journal' = [journal EXCEPT ![j].inFlight = @ \/ journal[j].next < BundleFiles],
             command' = [command EXCEPT ![c].step = "check", ![c].job = j, ![c].seen = journal[j].next]
      PROVE  PurgeInv'
  <2>1. /\ journal'[j].next = journal[j].next
        /\ journal'[j].inFlight <=> journal[j].inFlight \/ journal[j].next < BundleFiles
        /\ \A i \in RetainedJobs \ {j} : journal'[i] = journal[i]
        /\ journal[j].next \in 0 .. BundleFiles
    BY <1>1, <1>3 DEF PurgeTypeOK
  <2>2. UNCHANGED <<purge, reservation, stageItem, purgedJobs, bundle>>
    BY DEF BeginStep
  <2>3. bundle[j].at = "tombstone" => JournalTells(j)'
    BY <1>3, <2>1, <2>2, JobFacts DEF JournalTells
  <2>4. RowsAgree' /\ PurgeBooks' /\ Onward
    BY <1>3, <2>1, <2>2, <2>3, JournalRows
  <2>5. /\ Only(c)
        /\ command'[c].step = "check" /\ command'[c].job = j
        /\ command'[c].seen = journal[j].next
        /\ command'[c].op = command[c].op /\ command'[c].bound = command[c].bound
        /\ command'[c].done = command[c].done
    BY <1>1, <1>3, RowFields DEF Only, PurgeTypeOK, PurgeCommand
  <2>6. Held(c, j)' /\ JournalAhead(c, j)'
    <3>1. Held(c, j)'
      BY <1>3, <2>2, <2>5 DEF Held, Authorized, Bound, Current
    <3>2. journal'[j].inFlight \/ journal[j].next = BundleFiles
      BY <2>1, TrainingPurgeAssumption
    <3> QED
      BY <1>3, <2>1, <2>2, <2>5, <3>1, <3>2 DEF JournalAhead, Bound
  <2>7. CommandAgrees(c)'
    BY <1>1, <2>2, <2>5, <2>6 DEF CommandAgrees, AtStep
  <2> QED
    BY <1>1, <2>4, <2>5, <2>7, StepAgrees
<1> QED
  BY <1>2, <1>3 DEF BeginStep

LEMMA FinishUnlinkAgrees ==
    ASSUME PurgeInv, NEW c \in PurgeCommands, FinishUnlink(c)
    PROVE  PurgeInv'
<1>1. PurgeTypeOK' /\ PurgeTypeOK /\ CommandAgrees(c)
  BY FinishUnlinkTyped DEF PurgeInv
<1>2. PICK j \in RetainedJobs :
      /\ j = command[c].job
      /\ command[c].seen \in 0 .. BundleFiles /\ command[c].seen < BundleFiles
      /\ command[c].seen + 1 \notin bundle[j].files
  BY <1>1, RowFields DEF FinishUnlink, AtStep, JobSteps, CommandAgrees
<1>3. RowsAgree' /\ PurgeBooks' /\ Onward
  <2>1. CASE UNCHANGED journal
    BY <2>1, QuietRows DEF FinishUnlink, purgeRows
  <2>2. CASE /\ Bound(j) /\ JournalRead(c)
             /\ journal' = [journal EXCEPT ![j] = Recorded(command[c].seen + 1)]
    <3>1. journal[j].next = command[c].seen /\ journal[j].inFlight
      BY <1>2, <2>2 DEF JournalRead
    <3>2. /\ journal'[j].next = command[c].seen + 1 /\ ~journal'[j].inFlight
          /\ \A i \in RetainedJobs \ {j} : journal'[i] = journal[i]
      BY <1>1, <1>2, <2>2 DEF PurgeTypeOK, Recorded
    <3>3. UNCHANGED <<purge, reservation, stageItem, purgedJobs, bundle>>
      BY DEF FinishUnlink
    <3>4. command[c].seen + 1 \in After(command[c].seen)
      BY <1>2, TrainingPurgeAssumption DEF After, AllOf
    <3>5. bundle[j].at = "tombstone" => JournalTells(j)'
      BY <1>2, <2>2, <3>1, <3>2, <3>3, <3>4, JobFacts DEF JournalTells
    <3>6. journal'[j].next > journal[j].next /\ journal[j].next # BundleFiles
      BY <1>2, <3>1, <3>2, TrainingPurgeAssumption
    <3> QED
      BY <1>2, <2>2, <3>2, <3>3, <3>5, <3>6, JournalRows
  <2> QED
    BY <1>2, <2>1, <2>2 DEF FinishUnlink
<1>4. Only(c) /\ CommandAgrees(c)'
  <2>1. CASE Go(c, "begin")
    BY <1>1, <1>3, <2>1, GoAgrees DEF PurgeSteps, JobSteps, UnlinkSteps
  <2>2. CASE End(c)
    BY <1>1, <2>2, EndAgrees
  <2> QED
    BY <2>1, <2>2 DEF FinishUnlink
<1> QED
  BY <1>1, <1>3, <1>4, StepAgrees

\* A tombstone that moves on within its reservation: it loses the file of the
\* intent, or it goes with every file recorded.
LEMMA TombstoneRows ==
    ASSUME PurgeInv, NEW j \in RetainedJobs, bundle[j].at = "tombstone",
           UNCHANGED purgeRows, \A i \in RetainedJobs \ {j} : bundle'[i] = bundle[i],
           bundle'[j].files \subseteq bundle[j].files, Bound(j),
           \/ bundle'[j].at = "tombstone" /\ bundle'[j].of = bundle[j].of /\ JournalTells(j)'
           \/ bundle'[j].at = "gone" /\ journal[j].next = BundleFiles
    PROVE  RowsAgree' /\ PurgeBooks' /\ Onward
<1>1. RowsAgree'
  BY DEF RowsAgree, Authorized, purgeRows, PurgeInv
<1>2. PurgeBooks'
  BY JobFacts DEF PurgeBooks, Bound, JournalTells, purgeRows, PurgeInv
<1>3. Onward
  BY DEF Onward, Authorized, Bound, purgeRows
<1> QED
  BY <1>1, <1>2, <1>3

\* A command at work on a tombstone of its operation.
LEMMA TombstoneFacts ==
    ASSUME PurgeInv, NEW c \in PurgeCommands, NEW j \in RetainedJobs,
           JournalAhead(c, j), InTombstone(c, j)
    PROVE  /\ Bound(j) /\ JournalTells(j)
           /\ journal[j].next \in 0 .. BundleFiles
           /\ \/ journal[j].next > command[c].seen
              \/ /\ journal[j].next = command[c].seen
                 /\ journal[j].inFlight \/ command[c].seen = BundleFiles
<1>1. j \notin purgedJobs
  BY JobFacts DEF InTombstone
<1>2. journal[j].next \in 0 .. BundleFiles
  BY DEF PurgeInv, PurgeTypeOK
<1> QED
  BY <1>1, <1>2, JobFacts DEF JournalAhead, InTombstone

LEMMA UnlinkTombstoneFileAgrees ==
    ASSUME PurgeInv, NEW c \in PurgeCommands, UnlinkTombstoneFile(c)
    PROVE  PurgeInv'
<1>1. PurgeTypeOK' /\ PurgeTypeOK /\ CommandAgrees(c)
  BY UnlinkTombstoneFileTyped DEF PurgeInv
<1>2. PICK j \in RetainedJobs :
        /\ j = command[c].job
        /\ command[c].seen \in 0 .. BundleFiles /\ command[c].seen < BundleFiles
        /\ JournalAhead(c, j)
  BY <1>1, RowFields DEF UnlinkTombstoneFile, AtStep, JobSteps, CommandAgrees, UnlinkSteps
<1> DEFINE file == command[c].seen + 1
<1>3. CASE ~(InTombstone(c, j) /\ file \in bundle[j].files)
  <2>1. RowsAgree' /\ PurgeBooks' /\ Onward
    BY <1>2, <1>3, QuietRows DEF UnlinkTombstoneFile, purgeRows
  <2>2. Only(c) /\ CommandAgrees(c)'
    BY <1>1, <1>2, <1>3, <2>1, OutcomeAgrees DEF UnlinkTombstoneFile
  <2> QED
    BY <1>1, <2>1, <2>2, StepAgrees
<1>4. CASE InTombstone(c, j) /\ file \in bundle[j].files
  <2>1. /\ bundle'[j].at = bundle[j].at /\ bundle'[j].of = bundle[j].of
        /\ bundle'[j].files = bundle[j].files \ {file}
        /\ \A i \in RetainedJobs \ {j} : bundle'[i] = bundle[i]
    <3> DEFINE row == [bundle[j] EXCEPT !.files = @ \ {file}]
    <3>1. /\ row.at = bundle[j].at /\ row.of = bundle[j].of
          /\ row.files = bundle[j].files \ {file}
      BY <1>1, BundleFields DEF BundleRow
    <3>2. bundle' = [bundle EXCEPT ![j] = row]
      BY <1>2, <1>4 DEF UnlinkTombstoneFile
    <3> HIDE DEF row
    <3> QED
      BY <1>1, <3>1, <3>2 DEF PurgeTypeOK
  <2>2. /\ Bound(j) /\ JournalTells(j)
        /\ journal[j].next \in 0 .. BundleFiles
        /\ \/ journal[j].next > command[c].seen
           \/ journal[j].next = command[c].seen /\ journal[j].inFlight
    BY <1>2, <1>4, TombstoneFacts, TrainingPurgeAssumption
  <2>3. journal[j].next = command[c].seen /\ bundle[j].files = After(command[c].seen)
    <3>1. ASSUME NEW n \in Nat, file \in After(n)
          PROVE  n <= command[c].seen
      BY <1>2, <3>1, TrainingPurgeAssumption DEF After, AllOf
    <3>2. \/ file \in After(journal[j].next) /\ bundle[j].files = After(journal[j].next)
          \/ file \in After(journal[j].next + 1)
      BY <1>4, <2>2 DEF JournalTells
    <3>3. journal[j].next \in Nat /\ command[c].seen \in Nat
      BY <1>2, <2>2, TrainingPurgeAssumption
    <3>4. file \notin After(journal[j].next + 1)
      BY <2>2, <3>1, <3>3
    <3>5. journal[j].next <= command[c].seen
      BY <3>1, <3>2, <3>3, <3>4
    <3> QED
      BY <2>2, <3>2, <3>3, <3>4, <3>5
  <2>4. After(command[c].seen) \ {file} = After(file)
    BY <1>2, TrainingPurgeAssumption DEF After, AllOf
  <2>5. UNCHANGED purgeRows
    BY DEF UnlinkTombstoneFile
  <2>6. JournalTells(j)'
    BY <2>1, <2>2, <2>3, <2>4, <2>5 DEF JournalTells, purgeRows
  <2>7. RowsAgree' /\ PurgeBooks' /\ Onward
    BY <1>4, <2>1, <2>2, <2>5, <2>6, TombstoneRows DEF InTombstone
  <2>8. Only(c) /\ CommandAgrees(c)'
    <3>1. Go(c, "journal") /\ command[c].step = "unlink"
      BY <1>2, <1>4 DEF UnlinkTombstoneFile, AtStep
    <3>2. file \notin bundle'[command[c].job].files
      BY <1>2, <2>1
    <3> QED
      BY <1>1, <1>2, <2>7, <3>1, <3>2, GoAgrees DEF PurgeSteps, JobSteps
  <2> QED
    BY <1>1, <2>7, <2>8, StepAgrees
<1> QED
  BY <1>3, <1>4

LEMMA RemoveTombstoneAgrees ==
    ASSUME PurgeInv, NEW c \in PurgeCommands, RemoveTombstone(c)
    PROVE  PurgeInv'
<1>1. PurgeTypeOK' /\ PurgeTypeOK /\ CommandAgrees(c)
  BY RemoveTombstoneTyped DEF PurgeInv
<1>2. PICK j \in RetainedJobs :
        j = command[c].job /\ command[c].seen = BundleFiles /\ JournalAhead(c, j)
  BY <1>1, RowFields DEF RemoveTombstone, AtStep, JobSteps, CommandAgrees, UnlinkSteps
<1> DEFINE there == InTombstone(c, j) /\ bundle[j].files = {}
<1>3. CASE ~there
  <2>1. RowsAgree' /\ PurgeBooks' /\ Onward
    BY <1>2, <1>3, QuietRows DEF RemoveTombstone, purgeRows
  <2>2. Outcome(c, FALSE)
    BY <1>2, <1>3 DEF RemoveTombstone, InTombstone
  <2>3. Only(c) /\ CommandAgrees(c)'
    BY <1>1, <2>1, <2>2, OutcomeAgrees
  <2> QED
    BY <1>1, <2>1, <2>3, StepAgrees
<1>4. CASE there
  <2>1. /\ bundle'[j].at = "gone" /\ bundle'[j].files = bundle[j].files
        /\ \A i \in RetainedJobs \ {j} : bundle'[i] = bundle[i]
    <3> DEFINE row == [bundle[j] EXCEPT !.at = "gone"]
    <3>1. row.at = "gone" /\ row.files = bundle[j].files
      BY <1>1, BundleFields DEF BundleRow
    <3>2. bundle' = [bundle EXCEPT ![j] = row]
      BY <1>2, <1>4 DEF RemoveTombstone
    <3> HIDE DEF row
    <3> QED
      BY <1>1, <3>1, <3>2 DEF PurgeTypeOK
  <2>2. Bound(j) /\ journal[j].next = BundleFiles
    BY <1>2, <1>4, TombstoneFacts, TrainingPurgeAssumption
  <2>3. UNCHANGED purgeRows
    BY DEF RemoveTombstone
  <2>4. RowsAgree' /\ PurgeBooks' /\ Onward
    BY <1>4, <2>1, <2>2, <2>3, TombstoneRows DEF InTombstone
  <2>5. Outcome(c, TRUE)
    BY <1>2, <1>4 DEF RemoveTombstone, InTombstone
  <2>6. Only(c) /\ CommandAgrees(c)'
    BY <1>1, <1>2, <2>1, <2>4, <2>5, OutcomeAgrees
  <2> QED
    BY <1>1, <2>4, <2>6, StepAgrees
<1> QED
  BY <1>3, <1>4

LEMMA FinishPurgeAgrees ==
    ASSUME PurgeInv, NEW c \in PurgeCommands, FinishPurge(c)
    PROVE  PurgeInv'
<1>1. PurgeTypeOK' /\ PurgeTypeOK /\ CommandAgrees(c)
  BY FinishPurgeTyped DEF PurgeInv
<1> DEFINE done == command[c].done
<1>2. RowsAgree' /\ PurgeBooks' /\ Onward
  <2>1. CASE UNCHANGED <<purge, reservation, purgedJobs>>
    BY <2>1, QuietRows DEF FinishPurge, purgeRows
  <2>2. CASE /\ purgedJobs' = purgedJobs \cup done
             /\ reservation' = [j \in RetainedJobs |->
                   IF j \in done THEN "terminalized" ELSE reservation[j]]
             /\ purge' = Closed(stageItem)
    <3>1. stageItem' = stageItem /\ journal' = journal /\ bundle' = bundle
      BY DEF FinishPurge
    <3>2. ASSUME NEW j \in RetainedJobs
          PROVE  /\ j \in done => /\ bundle[j].at = "gone" /\ j \in purgedJobs'
                                   /\ reservation'[j] = "terminalized"
                 /\ j \notin done => /\ j \in purgedJobs' <=> j \in purgedJobs
                                     /\ reservation'[j] = reservation[j]
                 /\ reservation'[j] \in ActiveReservation => purge' = purge
      BY <1>1, <2>2, ClosedStays DEF CommandAgrees
    <3> HIDE DEF done
    <3>3. ASSUME NEW j \in RetainedJobs
          PROVE  /\ reservation'[j] \in ActiveReservation =>
                       reservation[j] \in ActiveReservation /\ j \notin done /\ purge' = purge
                 /\ Authorized(j) => j \in done \/ (Authorized(j)' /\ purge' = purge)
                 /\ Authorized(j)' => Authorized(j)
                 /\ Bound(j) => j \in done \/ Bound(j)'
                 /\ Bound(j)' => Bound(j)
      BY <3>2, JobFacts DEF ActiveReservation, Authorized, Bound
    <3>4. RowsAgree'
      BY <3>1, <3>2, <3>3, JobFacts DEF RowsAgree
    <3>5. PurgeBooks'
      <4> SUFFICES ASSUME NEW j \in RetainedJobs
                   PROVE  PurgeBooks!(j)'
        BY DEF PurgeBooks
      <4>1. CASE j \in done
        BY <3>1, <3>2, <4>1
      <4>2. CASE j \notin done
        BY <3>1, <3>2, <3>3, <4>2, JobFacts DEF Authorized, Bound, JournalTells
      <4> QED
        BY <4>1, <4>2
    <3>6. Onward
      BY <3>1, <3>2, <3>3, JobFacts DEF Onward
    <3> QED
      BY <3>4, <3>5, <3>6
  <2> QED
    BY <2>1, <2>2 DEF FinishPurge, PurgedBy
<1>3. Only(c) /\ CommandAgrees(c)'
  BY <1>1, EndAgrees DEF FinishPurge
<1> QED
  BY <1>1, <1>2, <1>3, StepAgrees

(***************************************************************************)
(* The theorem.                                                            *)
(***************************************************************************)

LEMMA PurgeInitAgrees == PurgeInit => PurgeInv
<1> SUFFICES ASSUME PurgeInit PROVE PurgeInv
  OBVIOUS
<1>1. PurgeTypeOK
  BY PurgeInitTyped
<1>2. RowsAgree
  BY DEF PurgeInit, RowsAgree, Authorized, ActiveReservation
<1>3. PurgeBooks
  BY DEF PurgeInit, PurgeBooks, Bound
<1>4. \A c \in PurgeCommands : CommandAgrees(c)
  BY DEF PurgeInit, CommandAgrees, IdleCommand, AtStep, JobSteps, UnlinkSteps
<1> QED
  BY <1>1, <1>2, <1>3, <1>4 DEF PurgeInv

LEMMA PurgeNextAgrees ==
    ASSUME PurgeInv, [PurgeNext]_trainingPurgeVars
    PROVE  PurgeInv'
<1>1. CASE UNCHANGED trainingPurgeVars
  <2>1. RowsAgree' /\ PurgeBooks' /\ Onward
    BY <1>1, QuietRows DEF trainingPurgeVars
  <2>2. PurgeTypeOK' /\ PurgeTypeOK
    BY <1>1, PurgeNextTyped DEF PurgeInv
  <2>3. \A d \in PurgeCommands : CommandAgrees(d)'
    BY <1>1, <2>1, <2>2, OthersAgree DEF PurgeInv, trainingPurgeVars
  <2> QED
    BY <2>1, <2>2, <2>3 DEF PurgeInv
<1>2. ASSUME NEW c \in PurgeCommands, CommandStep(c)
      PROVE  PurgeInv'
  BY <1>2, PreparePurgeAgrees, RecordStagesAgrees, AuthorizeFinalsAgrees, FenceMoveAgrees,
     LookAtFinalAgrees, RenameFinalAgrees, CaptureTombstoneAgrees, BindFinalsAgrees,
     BeginStepAgrees, FenceUnlinkAgrees, ListTombstoneAgrees, UnlinkTombstoneFileAgrees,
     FinishUnlinkAgrees, OpenTombstoneAgrees, RemoveTombstoneAgrees, FinishPurgeAgrees
  DEF CommandStep
<1> QED
  BY <1>1, <1>2, RegisterTrainingPurgeAgrees, ResumeTrainingPurgeAgrees, CommandDiesAgrees,
     TouchBundleAgrees
  DEF PurgeNext

\* Whatever commands died or crossed on a purge, its rows tell where every
\* bundle is, and only the file of a recorded intent may be missing from it.
THEOREM PurgeBooksCorrect == PurgeSpec => []PurgeBooks
<1>1. PurgeInit => PurgeInv
  BY PurgeInitAgrees
<1>2. PurgeInv /\ [PurgeNext]_trainingPurgeVars => PurgeInv'
  BY PurgeNextAgrees
<1>3. PurgeInv => PurgeBooks
  BY DEF PurgeInv
<1> QED
  BY <1>1, <1>2, <1>3, PTL DEF PurgeSpec
=============================================================================
