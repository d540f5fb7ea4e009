------------------------- MODULE AdapterPurge_proofs -------------------------
(***************************************************************************)
(* That the rows of a purge tell what became of the bytes, for any number  *)
(* of purge commands, files and operations, and that commands which never  *)
(* meet, on a file system that works, may stop anywhere and block nothing. *)
(***************************************************************************)
EXTENDS AdapterPurge, TLAPS

NotMoved == {"none", "registered"}
Claimed(status) == status \in {"tombstone_bound", "deleting", "completed"}

\* Phases in which a command acts on the bytes of its item: moves them, or
\* has its tombstone; and the ones it passes only when it may delete.
Bound == {"entry", "unlink", "record", "directory", "rmdir", "complete"}
Moving == {"move", "bind"} \union Bound
Working == {"load", "inspect", "intent", "recheck"} \union Moving

\* The journal r of item n against its surface u.
Journal(n, r, u) ==
    u.at = n =>
        /\ \A f \in 1 .. r.next : f \notin u.files
        /\ \A f \in r.next + 1 .. Files : f \in u.files \/ f = r.next + 1

\* The row r of an item of operation n, and its surface u.
ItemFits(n, r, u) ==
    /\ Claimed(r.status) => r.bound
    /\ r.bound => r.status \notin NotMoved \union {"verified"} /\ u.at \in {n, Gone}
    /\ ~r.bound => r.next = 0 /\ r.inFlight = NoFile /\ ~r.directory
    /\ r.inFlight \in {NoFile, r.next + 1}
    /\ u.at = n => r.status \notin NotMoved
    /\ r.status = "completed" => u.at = Gone
    /\ Journal(n, r, u)

Items == \A n \in Operations, s \in Surfaces : ItemFits(n, item[n][s], surface[s])

\* The memory k of a command, its item r, the registry item q of its
\* operation and its surface u.
CommandFits(k, r, q, u) ==
    /\ k.phase \in Working /\ k.surface = "source" => q.status = "completed"
    /\ k.phase \in Moving => r.status \notin NotMoved
    /\ k.phase = "bind" => u.at \in {k.op, Gone}
    /\ k.phase \in Bound => r.bound
    /\ k.phase \in {"entry", "unlink", "record"} => k.file <= r.next + 1
    /\ k.phase = "record" => k.file \notin u.files
    /\ k.phase \in {"directory", "rmdir"} => r.next = Files
    /\ k.phase = "complete" => u.at = Gone

Busy(c) == cmd[c].phase # "idle"
RegistryOf(c) == item[cmd[c].op]["registry"]
CommandsFit ==
    \A c \in Commands : Busy(c) => CommandFits(cmd[c], ItemOf(c), RegistryOf(c), SurfaceOf(c))

\* The rows of operations, and finals in their place.
RowsFit ==
    /\ \A n \in Operations :
          /\ operation[n].status = "none" => \A s \in Surfaces : item[n][s] = NoItem
          /\ operation[n].status # "none" =>
                adapter.status # "validated" /\ \A s \in Surfaces : item[n][s].status # "none"
          /\ operation[n].status = "completed" => adapter.status = "purged"
    /\ \A s \in Surfaces : surface[s].at = Final => surface[s].files = AllFiles

\* The inductive invariant.
PurgeInv ==
    /\ TypeOK /\ RowsFit /\ Items /\ CommandsFit
    /\ DeletionOrder /\ ItemsTellBytes

(***************************************************************************)
(* While no command meets another or an error.                             *)
(***************************************************************************)

CalmItem(n, r, u) ==
    /\ r.status # "blocked"
    /\ r.status = "registered" => u.at = Final
    /\ r.status = "verified" => u.at \in {Final, n} /\ u.files = AllFiles
    /\ u.at = n /\ r.inFlight = NoFile /\ r.next < Files => r.next + 1 \in u.files
    /\ u.at = Gone => r.directory

CalmCommand(k, r, q, u) ==
    /\ k.phase # "block"
    /\ k.surface = "source" => q.status = "completed"
    /\ k.phase \in {"inspect", "intent"} => r.status = "registered"
    /\ k.phase \in {"recheck", "move", "bind"} => r.status = "verified"
    /\ k.phase \in {"unlink", "record"} => r.inFlight = k.file
    /\ k.phase = "unlink" /\ ~k.retry /\ u.at = k.op => k.file \in u.files
    /\ k.phase = "rmdir" => r.directory
    /\ k.phase = "rmdir" /\ ~k.retry => u.at = k.op

Calm ==
    /\ \A c, d \in Commands : Busy(c) /\ Busy(d) => c = d
    /\ \A m, n \in Operations :
          operation[m].status # "none" /\ operation[n].status # "none" => m = n
    /\ \A n \in Operations :
          /\ operation[n].status # "completed_with_blocks"
          /\ operation[n].status # "none" =>
                \A s \in Surfaces : CalmItem(n, item[n][s], surface[s])
    /\ \A c \in Commands :
          Busy(c) => CalmCommand(cmd[c], ItemOf(c), RegistryOf(c), SurfaceOf(c))

CalmInv == PurgeInv /\ (~disturbed => Calm)

(***************************************************************************)
(* The parts of the type invariant.                                        *)
(***************************************************************************)

Surface == [at : Final .. Gone, files : SUBSET AllFiles]

RowsTyped ==
    /\ adapter \in [status : {"validated", "purge_pending", "purged"}, version : Nat]
    /\ operation \in [Operations -> Operation]
    /\ item \in [Operations -> [Surfaces -> Item]]
    /\ dependency \in {"active", "released"}
StorageTyped == surface \in [Surfaces -> Surface] /\ sibling \in SUBSET Surfaces
HistoryTyped == faults \in 0 .. MaxFaults /\ stops \in 0 .. MaxStops /\ disturbed \in BOOLEAN
CommandsTyped ==
    /\ cmd \in [Commands -> Command]
    /\ \A c \in Commands :
          /\ Busy(c) <=> cmd[c].op # 0
          /\ Busy(c) => operation[cmd[c].op].status # "none"
          /\ cmd[c].phase \in {"entry", "unlink", "record"} => cmd[c].file # NoFile

LEMMA TypeParts == TypeOK <=> RowsTyped /\ StorageTyped /\ HistoryTyped /\ CommandsTyped
BY DEF TypeOK, RowsTyped, StorageTyped, HistoryTyped, CommandsTyped, Surface, Busy

LEMMA TypePartsNext == TypeOK' <=> (RowsTyped /\ StorageTyped /\ HistoryTyped /\ CommandsTyped)'
BY DEF TypeOK, RowsTyped, StorageTyped, HistoryTyped, CommandsTyped, Surface, Busy

LEMMA BusyTyped ==
    ASSUME TypeOK, NEW c \in Commands, Busy(c)
    PROVE  /\ cmd[c].op \in Operations /\ cmd[c].surface \in Surfaces
           /\ cmd[c].phase \in Phases /\ cmd[c].retry \in BOOLEAN
           /\ cmd[c].file \in {NoFile} \union AllFiles
           /\ ItemOf(c) \in Item /\ RegistryOf(c) \in Item /\ SurfaceOf(c) \in Surface
           /\ operation[cmd[c].op] \in Operation /\ operation[cmd[c].op].status # "none"
BY PurgeAssumption
DEF TypeOK, Busy, Command, Surface, ItemOf, RegistryOf, SurfaceOf, Surfaces, Operations, AllFiles

(***************************************************************************)
(* What the memory of a command becomes.                                   *)
(***************************************************************************)

\* Only c changes; it goes on with its operation.
Only(c) == cmd' \in [Commands -> Command] /\ \A d \in Commands \ {c} : cmd'[d] = cmd[d]
GoesOn(c, phase, s, file) ==
    /\ Only(c)
    /\ cmd'[c].phase = phase /\ cmd'[c].op = cmd[c].op
    /\ cmd'[c].surface = s /\ cmd'[c].file = file

LEMMA GotoFacts ==
    ASSUME TypeOK, NEW c \in Commands, NEW phase \in Phases, Goto(c, phase)
    PROVE  GoesOn(c, phase, cmd[c].surface, cmd[c].file) /\ cmd'[c].retry = cmd[c].retry
BY DEF TypeOK, Goto, GoesOn, Only, Command

\* The same, and whether what it is about to remove may be missing.
LEMMA RetryFacts ==
    ASSUME TypeOK, NEW c \in Commands, NEW phase \in Phases, NEW b \in BOOLEAN,
           cmd' = [cmd EXCEPT ![c].phase = phase, ![c].retry = b]
    PROVE  GoesOn(c, phase, cmd[c].surface, cmd[c].file) /\ cmd'[c].retry = b
<1> DEFINE k == [cmd[c] EXCEPT !.phase = phase, !.retry = b]
<1>1. cmd \in [Commands -> Command] /\ cmd[c] \in Command
    BY DEF TypeOK
<1>2. /\ k \in Command /\ k.phase = phase /\ k.retry = b
      /\ k.op = cmd[c].op /\ k.surface = cmd[c].surface /\ k.file = cmd[c].file
    BY <1>1 DEF Command
<1>3. cmd' = [cmd EXCEPT ![c] = k]
    BY <1>1
<1> HIDE DEF k
<1>4. QED
    BY <1>1, <1>2, <1>3 DEF GoesOn, Only

LEMMA StopFacts ==
    ASSUME TypeOK, NEW c \in Commands, Stop(c)
    PROVE  Only(c) /\ cmd'[c] = IdleCommand
BY DEF TypeOK, Stop, Only, Command, IdleCommand, Phases, Surfaces

LEMMA NextFacts ==
    ASSUME TypeOK, NEW c \in Commands, Busy(c), NextSurface(c)
    PROVE  \/ cmd[c].surface = "registry" /\ GoesOn(c, "pick", "source", NoFile)
           \/ cmd[c].surface = "source" /\ GoesOn(c, "finalize", "source", NoFile)
<1> USE BusyTyped DEF Surfaces
<1>1. CASE cmd[c].surface = "registry"
    <2> DEFINE k == [IdleCommand EXCEPT !.phase = "pick", !.op = cmd[c].op, !.surface = "source"]
    <2>1. /\ k \in Command /\ k.phase = "pick" /\ k.op = cmd[c].op
          /\ k.surface = "source" /\ k.file = NoFile
        BY DEF IdleCommand, Command, Phases
    <2>2. cmd' = [cmd EXCEPT ![c] = k]
        BY <1>1 DEF NextSurface
    <2> HIDE DEF k
    <2>3. QED
        BY <1>1, <2>1, <2>2 DEF TypeOK, GoesOn, Only
<1>2. CASE cmd[c].surface = "source"
    <2> DEFINE k == [IdleCommand EXCEPT !.phase = "finalize", !.op = cmd[c].op, !.surface = "source"]
    <2>1. /\ k \in Command /\ k.phase = "finalize" /\ k.op = cmd[c].op
          /\ k.surface = "source" /\ k.file = NoFile
        BY DEF IdleCommand, Command, Phases
    <2>2. cmd' = [cmd EXCEPT ![c] = k]
        BY <1>2 DEF NextSurface
    <2> HIDE DEF k
    <2>3. QED
        BY <1>2, <2>1, <2>2 DEF TypeOK, GoesOn, Only
<1>3. QED
    BY <1>1, <1>2

LEMMA FirstFacts ==
    ASSUME TypeOK, NEW c \in Commands, cmd' = FirstFile(c)
    PROVE  GoesOn(c, "entry", cmd[c].surface, 1)
<1>1. 1 \in AllFiles /\ cmd[c] \in Command
    BY PurgeAssumption DEF TypeOK, AllFiles
<1> DEFINE k == [[cmd[c] EXCEPT !.phase = "entry"] EXCEPT !.file = 1]
<1>2. k \in Command /\ k.phase = "entry" /\ k.op = cmd[c].op /\ k.surface = cmd[c].surface /\ k.file = 1
    BY <1>1 DEF Command, Phases
<1>3. cmd' = [cmd EXCEPT ![c] = k]
    BY <1>1 DEF FirstFile, Command, TypeOK
<1> HIDE DEF k
<1>4. QED
    BY <1>2, <1>3 DEF TypeOK, GoesOn, Only

LEMMA AfterFacts ==
    ASSUME TypeOK, NEW c \in Commands, cmd[c].file # NoFile, cmd' = AfterFile(c)
    PROVE  \/ cmd[c].file = Files /\ GoesOn(c, "directory", cmd[c].surface, NoFile)
           \/ cmd[c].file # Files /\ GoesOn(c, "entry", cmd[c].surface, cmd[c].file + 1)
<1>1. cmd[c] \in Command /\ cmd[c].file \in 1 .. Files
    BY DEF TypeOK, Command, AllFiles, NoFile
<1>2. CASE cmd[c].file = Files
    BY <1>1, <1>2 DEF TypeOK, AfterFile, GoesOn, Only, Command, Phases, NoFile
<1>3. CASE cmd[c].file # Files
    <2>1. cmd[c].file + 1 \in AllFiles
        BY <1>1, <1>3, PurgeAssumption DEF AllFiles
    <2>2. QED
        BY <1>1, <1>3, <2>1 DEF TypeOK, AfterFile, GoesOn, Only, Command, Phases, NoFile
<1>4. QED
    BY <1>2, <1>3

\* A command that goes on, and one that stops, stay typed.
LEMMA CommandsTypedFrame ==
    ASSUME TypeOK, NEW c \in Commands, Only(c),
           \A n \in Operations : operation[n].status # "none" => operation'[n].status # "none",
           \/ cmd'[c] = IdleCommand
           \/ \E phase \in Phases \ {"idle"}, s \in Surfaces, file \in {NoFile} \union AllFiles :
                 /\ Busy(c) /\ GoesOn(c, phase, s, file)
                 /\ phase \in {"entry", "unlink", "record"} => file # NoFile
    PROVE  CommandsTyped'
<1>1. /\ Busy(c)' <=> cmd'[c].op # 0
      /\ Busy(c)' => operation'[cmd'[c].op].status # "none"
      /\ cmd'[c].phase \in {"entry", "unlink", "record"} => cmd'[c].file # NoFile
    <2>1. CASE cmd'[c] = IdleCommand
        BY <2>1 DEF IdleCommand, Busy
    <2>2. CASE \E phase \in Phases \ {"idle"}, s \in Surfaces, file \in {NoFile} \union AllFiles :
                 /\ Busy(c) /\ GoesOn(c, phase, s, file)
                 /\ phase \in {"entry", "unlink", "record"} => file # NoFile
        BY <2>2, BusyTyped, PurgeAssumption DEF GoesOn, Busy, Operations
    <2>3. QED
        BY <2>1, <2>2
<1>2. ASSUME NEW d \in Commands \ {c}
      PROVE  /\ Busy(d)' <=> cmd'[d].op # 0
             /\ Busy(d)' => operation'[cmd'[d].op].status # "none"
             /\ cmd'[d].phase \in {"entry", "unlink", "record"} => cmd'[d].file # NoFile
    BY BusyTyped DEF Only, Busy, TypeOK
<1>3. QED
    BY <1>1, <1>2 DEF CommandsTyped, Only

(***************************************************************************)
(* Every step goes forward: what a command knows of its item, its surface  *)
(* and the registry item stays so, whichever command takes the next step.  *)
(***************************************************************************)

Advances(r, r2) ==
    /\ r.status \notin NotMoved => r2.status \notin NotMoved
    /\ r.status # "none" => r2.status # "none"
    /\ r.status = "completed" => r2.status = "completed"
    /\ r.bound => r2.bound
    /\ r.next <= r2.next

Recedes(u, u2) ==
    /\ u2.files \subseteq u.files
    /\ u.at # Final => u2.at # Final
    /\ \A n \in Operations : u.at \in {n, Gone} => u2.at \in {n, Gone}
    /\ u.at = Gone => u2.at = Gone

Forward ==
    /\ \A n \in Operations, s \in Surfaces : Advances(item[n][s], item'[n][s])
    /\ \A s \in Surfaces : Recedes(surface[s], surface'[s])

LEMMA SameItemAdvances ==
    ASSUME RowsTyped, NEW n \in Operations, NEW s \in Surfaces
    PROVE  Advances(item[n][s], item[n][s])
BY DEF RowsTyped, Item, Advances

LEMMA SameSurfaceRecedes ==
    ASSUME NEW u PROVE Recedes(u, u)
BY DEF Recedes

LEMMA CommandForward ==
    ASSUME NEW k, NEW r \in Item, NEW r2 \in Item, NEW q, NEW q2, NEW u, NEW u2,
           k.op \in Operations,
           CommandFits(k, r, q, u), Advances(r, r2), Advances(q, q2), Recedes(u, u2),
           k.phase \in {"entry", "unlink", "record"} => k.file \in Nat
    PROVE  CommandFits(k, r2, q2, u2)
BY PurgeAssumption DEF CommandFits, Advances, Recedes, Item

\* The step of one command.
LEMMA CommandsFrame ==
    ASSUME PurgeInv, NEW c \in Commands, Only(c), Forward,
           RowsTyped',
           Busy(c)' => CommandFits(cmd[c], ItemOf(c), RegistryOf(c), SurfaceOf(c))'
    PROVE  CommandsFit'
<1>1. ASSUME NEW d \in Commands \ {c}, Busy(d)'
      PROVE  CommandFits(cmd[d], ItemOf(d), RegistryOf(d), SurfaceOf(d))'
    <2>1. cmd'[d] = cmd[d] /\ Busy(d)
        BY <1>1 DEF Only, Busy
    <2>2. TypeOK /\ cmd[d].op \in Operations /\ cmd[d].surface \in Surfaces /\ "registry" \in Surfaces
        BY <2>1, BusyTyped DEF PurgeInv, Surfaces
    <2>3. CommandFits(cmd[d], ItemOf(d), RegistryOf(d), SurfaceOf(d))
        BY <2>1 DEF PurgeInv, CommandsFit
    <2>4. /\ Advances(ItemOf(d), ItemOf(d)') /\ Advances(RegistryOf(d), RegistryOf(d)')
          /\ Recedes(SurfaceOf(d), SurfaceOf(d)')
        BY <2>1, <2>2 DEF Forward, ItemOf, RegistryOf, SurfaceOf
    <2>5. ItemOf(d) \in Item /\ ItemOf(d)' \in Item
        BY <2>1, <2>2, BusyTyped DEF RowsTyped, ItemOf
    <2>6. cmd[d].phase \in {"entry", "unlink", "record"} => cmd[d].file \in Nat
        BY <2>1, <2>2, BusyTyped, PurgeAssumption DEF NoFile, AllFiles
    <2>7. CommandFits(cmd[d], ItemOf(d)', RegistryOf(d)', SurfaceOf(d)')
        BY <2>2, <2>3, <2>4, <2>5, <2>6, CommandForward
    <2>8. QED
        BY <2>1, <2>7
<1>2. QED
    BY <1>1 DEF CommandsFit

(***************************************************************************)
(* Frames: the rows and storage stay, an item is written, a surface is.    *)
(***************************************************************************)

Standing == RowsFit /\ Items /\ DeletionOrder /\ ItemsTellBytes

LEMMA ItemsTell ==
    ASSUME Items',
           adapter'.status = "purged" => \A s \in Surfaces : surface'[s].at = Gone,
           dependency' = "released" => adapter'.status = "purged"
    PROVE  ItemsTellBytes'
BY DEF Items, ItemFits, Journal, ItemsTellBytes, JournalAgrees, GoneForGood

LEMMA RestFrame ==
    ASSUME Standing, RowsTyped, UNCHANGED <<adapter, operation, item, surface, dependency>>
    PROVE  Standing' /\ RowsTyped' /\ Forward
<1>1. Standing' /\ RowsTyped'
    BY DEF Standing, RowsTyped, RowsFit, Items, DeletionOrder, ItemsTellBytes, JournalAgrees, GoneForGood
<1>2. Forward
    BY SameItemAdvances, SameSurfaceRecedes DEF Forward
<1>3. QED
    BY <1>1, <1>2

LEMMA ItemFrame ==
    ASSUME PurgeInv, NEW c \in Commands, Busy(c), NEW row \in Item, WriteItem(c, row),
           UNCHANGED <<adapter, operation, surface, dependency>>,
           Advances(ItemOf(c), row), row.status # "none",
           ItemFits(cmd[c].op, row, SurfaceOf(c))
    PROVE  /\ Standing' /\ RowsTyped' /\ Forward
           /\ item'[cmd[c].op][cmd[c].surface] = row
<1> DEFINE m == cmd[c].op
           z == cmd[c].surface
<1>1. m \in Operations /\ z \in Surfaces /\ operation[m].status # "none" /\ RowsTyped
    BY BusyTyped, TypeParts DEF PurgeInv
<1>2. /\ item' \in [Operations -> [Surfaces -> Item]] /\ item'[m][z] = row
      /\ \A n \in Operations, s \in Surfaces : n # m \/ s # z => item'[n][s] = item[n][s]
    BY <1>1 DEF RowsTyped, WriteItem
<1>3. RowsTyped'
    BY <1>1, <1>2 DEF RowsTyped
<1>4. Forward
    BY <1>1, <1>2, SameItemAdvances, SameSurfaceRecedes DEF Forward, ItemOf
<1>5. Items'
    BY <1>1, <1>2 DEF Items, PurgeInv, SurfaceOf
<1>6. RowsFit'
    <2>1. ASSUME NEW n \in Operations
          PROVE  /\ operation[n].status = "none" => \A s \in Surfaces : item'[n][s] = item[n][s]
                 /\ operation[n].status # "none" =>
                       \A s \in Surfaces : item[n][s].status # "none" => item'[n][s].status # "none"
        BY <1>1, <1>2
    <2>2. ASSUME NEW n \in Operations, operation[n].status = "none"
          PROVE  item'[n] = item[n]
        BY <1>1, <1>2, <2>1, <2>2 DEF RowsTyped
    <2>3. QED
        BY <2>1, <2>2 DEF RowsFit, PurgeInv
<1>7. DeletionOrder'
    BY <1>4 DEF DeletionOrder, PurgeInv, Forward, Advances, NotMoved
<1>8. ItemsTellBytes'
    BY <1>5, ItemsTell DEF PurgeInv, ItemsTellBytes, GoneForGood
<1>9. QED
    BY <1>2, <1>3, <1>4, <1>5, <1>6, <1>7, <1>8 DEF Standing

LEMMA SurfaceFrame ==
    ASSUME PurgeInv, NEW c \in Commands, Busy(c), NEW u \in Surface, WriteSurface(c, u),
           UNCHANGED <<adapter, operation, item, dependency>>,
           Recedes(SurfaceOf(c), u), u.at # Final,
           \A n \in Operations : ItemFits(n, item[n][cmd[c].surface], u),
           SurfaceOf(c).at # Final \/
               /\ ItemOf(c).status \notin NotMoved
               /\ cmd[c].surface = "source" => RegistryOf(c).status = "completed"
    PROVE  /\ Standing' /\ RowsTyped' /\ Forward
           /\ surface' \in [Surfaces -> Surface] /\ surface'[cmd[c].surface] = u
<1> DEFINE m == cmd[c].op
           z == cmd[c].surface
<1>1. /\ m \in Operations /\ z \in Surfaces /\ operation[m].status # "none"
      /\ RowsTyped /\ StorageTyped
    BY BusyTyped, TypeParts DEF PurgeInv
<1>2. /\ surface' \in [Surfaces -> Surface] /\ surface'[z] = u
      /\ \A s \in Surfaces \ {z} : surface'[s] = surface[s]
    BY <1>1 DEF StorageTyped, WriteSurface
<1>3. RowsTyped'
    BY DEF RowsTyped, PurgeInv, TypeOK
<1>4. Forward
    BY <1>1, <1>2, SameItemAdvances, SameSurfaceRecedes DEF Forward, SurfaceOf
<1>5. Items'
    BY <1>2 DEF Items, PurgeInv
<1>6. RowsFit'
    BY <1>2 DEF RowsFit, PurgeInv
<1>7. DeletionOrder'
    <2>1. \A s \in Surfaces :
              surface'[s].at # Final =>
                  /\ adapter'.status # "validated"
                  /\ \E n \in Operations : item'[n][s].status \notin {"none", "registered"}
        <3> TAKE s \in Surfaces
        <3> HAVE surface'[s].at # Final
        <3>1. CASE s = z /\ SurfaceOf(c).at = Final
            <4>1. adapter'.status # "validated"
                BY <1>1 DEF PurgeInv, RowsFit
            <4>2. item'[m][s].status \notin {"none", "registered"}
                BY <3>1 DEF NotMoved, ItemOf
            <4>3. QED
                BY <1>1, <4>1, <4>2
        <3>2. CASE s # z \/ SurfaceOf(c).at # Final
            <4>1. surface[s].at # Final
                BY <1>2, <3>2 DEF SurfaceOf
            <4>2. QED
                BY <4>1 DEF PurgeInv, DeletionOrder
        <3>3. QED
            BY <3>1, <3>2
    <2>2. surface'["source"].at # Final => surface'["registry"].at = Gone
        <3>1. surface["registry"].at = Gone => surface'["registry"].at = Gone
            BY <1>4 DEF Forward, Recedes, Surfaces
        <3>2. CASE z = "source" /\ SurfaceOf(c).at = Final
            BY <1>1, <3>1, <3>2 DEF RegistryOf, PurgeInv, ItemsTellBytes, GoneForGood, Surfaces
        <3>3. CASE ~(z = "source" /\ SurfaceOf(c).at = Final)
            <4>1. surface'["source"].at # Final => surface["source"].at # Final
                BY <1>2, <3>3 DEF SurfaceOf, Surfaces
            <4>2. QED
                BY <3>1, <4>1 DEF PurgeInv, DeletionOrder
        <3>4. QED
            BY <3>2, <3>3
    <2>3. QED
        BY <2>1, <2>2 DEF DeletionOrder
<1>8. ItemsTellBytes'
    <2>1. adapter'.status = "purged" => \A s \in Surfaces : surface'[s].at = Gone
        BY <1>4 DEF PurgeInv, ItemsTellBytes, GoneForGood, Forward, Recedes
    <2>2. QED
        BY <1>5, <2>1, ItemsTell DEF PurgeInv, ItemsTellBytes, GoneForGood
<1>9. QED
    BY <1>2, <1>3, <1>4, <1>5, <1>6, <1>7, <1>8 DEF Standing

\* What every step keeps, and everything a step of c has to leave behind.
Onward == PurgeInv' /\ Forward
FitsNow(c) == CommandFits(cmd[c], ItemOf(c), RegistryOf(c), SurfaceOf(c))
Leaves(c) == Standing' /\ RowsTyped' /\ StorageTyped' /\ HistoryTyped' /\ Forward
Keeps == \A n \in Operations : operation[n].status # "none" => operation'[n].status # "none"
FileKnown(phase, file) == phase \in {"entry", "unlink", "record"} => file # NoFile

LEMMA StepFrame ==
    ASSUME PurgeInv, NEW c \in Commands, Leaves(c), Keeps,
           NEW phase \in Phases \ {"idle"}, NEW s \in Surfaces,
           NEW file \in {NoFile} \union AllFiles,
           Busy(c), GoesOn(c, phase, s, file), FileKnown(phase, file), FitsNow(c)'
    PROVE  Onward
<1>1. CommandsTyped'
    BY CommandsTypedFrame DEF PurgeInv, Keeps, GoesOn, FileKnown
<1>2. CommandsFit'
    BY CommandsFrame DEF Leaves, GoesOn, FitsNow
<1>3. TypeOK'
    BY <1>1, TypePartsNext DEF Leaves
<1>4. QED
    BY <1>2, <1>3 DEF Onward, PurgeInv, Leaves, Standing

LEMMA StopFrame ==
    ASSUME PurgeInv, NEW c \in Commands, Leaves(c), Keeps, Stop(c)
    PROVE  Onward
<1>1. Only(c) /\ cmd'[c] = IdleCommand
    BY StopFacts DEF PurgeInv
<1>2. CommandsTyped'
    BY <1>1, CommandsTypedFrame DEF PurgeInv, Keeps
<1>3. CommandsFit'
    BY <1>1, CommandsFrame DEF Leaves, IdleCommand, Busy
<1>4. TypeOK'
    BY <1>2, TypePartsNext DEF Leaves
<1>5. QED
    BY <1>3, <1>4 DEF Onward, PurgeInv, Leaves, Standing

\* Phases in which a command knows nothing of its item.
LEMMA RestingFits ==
    ASSUME NEW k, NEW r, NEW q, NEW u, k.phase \in {"mark", "pick", "block", "finalize"}
    PROVE  CommandFits(k, r, q, u)
BY DEF CommandFits, Working, Moving, Bound

LEMMA GotoBlock ==
    ASSUME PurgeInv, NEW c \in Commands, Leaves(c), Keeps, Busy(c), Goto(c, "block")
    PROVE  Onward
<1>1. "block" \in Phases \ {"idle"}
    BY DEF Phases
<1>2. GoesOn(c, "block", cmd[c].surface, cmd[c].file)
    BY <1>1, GotoFacts DEF PurgeInv
<1>3. FitsNow(c)'
    BY <1>2, RestingFits DEF FitsNow, GoesOn
<1>4. cmd[c].surface \in Surfaces /\ cmd[c].file \in {NoFile} \union AllFiles
    BY BusyTyped DEF PurgeInv
<1>5. FileKnown("block", cmd[c].file)
    BY DEF FileKnown
<1>6. QED
    BY <1>1, <1>2, <1>3, <1>4, <1>5, StepFrame

LEMMA NextFrame ==
    ASSUME PurgeInv, NEW c \in Commands, Leaves(c), Keeps, Busy(c), NextSurface(c)
    PROVE  Onward
<1>1. PICK phase \in {"pick", "finalize"} : GoesOn(c, phase, "source", NoFile)
    BY NextFacts DEF PurgeInv
<1>2. phase \in Phases \ {"idle"} /\ "source" \in Surfaces
    BY DEF Phases, Surfaces
<1>3. FitsNow(c)'
    BY <1>1, RestingFits DEF FitsNow, GoesOn
<1>4. FileKnown(phase, NoFile)
    BY DEF FileKnown
<1>5. QED
    BY <1>1, <1>2, <1>3, <1>4, StepFrame

\* A step to another phase, on the same surface and file.
LEMMA GotoFrame ==
    ASSUME PurgeInv, NEW c \in Commands, Leaves(c), Keeps, Busy(c),
           NEW phase \in Phases \ {"idle"}, Goto(c, phase),
           FileKnown(phase, cmd[c].file),
           CommandFits(cmd'[c], ItemOf(c)', RegistryOf(c)', SurfaceOf(c)')
    PROVE  Onward
<1>1. GoesOn(c, phase, cmd[c].surface, cmd[c].file)
    BY GotoFacts DEF PurgeInv
<1>2. cmd[c].surface \in Surfaces /\ cmd[c].file \in {NoFile} \union AllFiles
    BY BusyTyped DEF PurgeInv
<1>3. FitsNow(c)'
    BY DEF FitsNow
<1>4. QED
    BY <1>1, <1>2, <1>3, StepFrame

LEMMA QuietLeaves ==
    ASSUME PurgeInv, NEW c \in Commands,
           UNCHANGED <<adapter, operation, item, surface, dependency>>,
           sibling' \subseteq Surfaces, HistoryTyped'
    PROVE  Leaves(c) /\ Keeps
<1>1. Standing /\ RowsTyped /\ StorageTyped
    BY TypeParts DEF PurgeInv, Standing
<1>2. QED
    BY <1>1, RestFrame DEF Leaves, Keeps, StorageTyped

LEMMA HistoryStays ==
    ASSUME PurgeInv, UNCHANGED history
    PROVE  HistoryTyped'
BY TypeParts DEF PurgeInv, history, HistoryTyped

(***************************************************************************)
(* Steps that change no row and no byte.                                   *)
(***************************************************************************)

LEMMA PickStep ==
    ASSUME PurgeInv, NEW c \in Commands, PickItem(c)
    PROVE  Onward
<1>1. Busy(c) /\ Leaves(c) /\ Keeps
    BY QuietLeaves, HistoryStays, TypeParts DEF PurgeInv, PickItem, rows, storage, StorageTyped, Busy
<1>2. CASE NextSurface(c)
    BY <1>1, <1>2, NextFrame
<1>3. CASE Goto(c, "block")
    BY <1>1, <1>3, GotoBlock
<1>4. CASE Goto(c, "load") /\ ~SourceHeld(c)
    <2>1. GoesOn(c, "load", cmd[c].surface, cmd[c].file)
        BY <1>4, GotoFacts DEF PurgeInv, Phases
    <2>2. UNCHANGED item
        BY DEF PickItem, rows
    <2>3. CommandFits(cmd'[c], ItemOf(c)', RegistryOf(c)', SurfaceOf(c)')
        BY <1>4, <2>1, <2>2
        DEF SourceHeld, GoesOn, CommandFits, Moving, Bound, RegistryOf
    <2>4. QED
        BY <1>1, <1>4, <2>3, GotoFrame DEF Phases, FileKnown
<1>5. QED
    BY <1>2, <1>3, <1>4 DEF PickItem

\* The facts of a command, as far as they hold in every phase of its work.
LEMMA SourceAllowed ==
    ASSUME PurgeInv, NEW c \in Commands, cmd[c].phase \in Working,
           cmd[c].surface = "source"
    PROVE  RegistryOf(c).status = "completed"
BY DEF PurgeInv, CommandsFit, CommandFits, Busy, Working, Moving, Bound

\* The first file of a tombstone that is bound.
LEMMA FirstFrame ==
    ASSUME PurgeInv, NEW c \in Commands, Leaves(c), Keeps, Busy(c), cmd' = FirstFile(c),
           cmd[c].phase \in Working,
           item'[cmd[c].op][cmd[c].surface].bound
    PROVE  Onward
<1>1. GoesOn(c, "entry", cmd[c].surface, 1)
    BY FirstFacts DEF PurgeInv
<1>2. /\ cmd[c].surface \in Surfaces /\ cmd[c].op \in Operations /\ "registry" \in Surfaces
      /\ RegistryOf(c) \in Item
    BY BusyTyped DEF PurgeInv, Surfaces
<1>3. /\ ItemOf(c)' = item'[cmd[c].op][cmd[c].surface]
      /\ RegistryOf(c)' = item'[cmd[c].op]["registry"]
    BY <1>1 DEF GoesOn, ItemOf, RegistryOf
<1>4. cmd[c].surface = "source" => RegistryOf(c)'.status = "completed"
    BY <1>2, <1>3, SourceAllowed DEF Leaves, Forward, Advances, RegistryOf
<1>5. ItemOf(c)' \in Item /\ ItemOf(c)'.bound /\ ItemOf(c)'.status \notin NotMoved
    <2>1. ItemFits(cmd[c].op, ItemOf(c)', surface'[cmd[c].surface])
        BY <1>2, <1>3 DEF Leaves, Standing, Items
    <2>2. ItemOf(c)' \in Item
        BY <1>2, <1>3 DEF Leaves, RowsTyped
    <2>3. ItemOf(c)'.bound
        BY <1>3
    <2>4. QED
        BY <2>1, <2>2, <2>3 DEF ItemFits
<1>6. FitsNow(c)'
    BY <1>1, <1>4, <1>5, PurgeAssumption
    DEF FitsNow, CommandFits, GoesOn, Moving, Bound, Item
<1>7. "entry" \in Phases \ {"idle"} /\ 1 \in AllFiles /\ FileKnown("entry", 1)
    BY PurgeAssumption DEF Phases, AllFiles, FileKnown, NoFile
<1>8. QED
    BY <1>1, <1>2, <1>6, <1>7, StepFrame

LEMMA LoadStep ==
    ASSUME PurgeInv, NEW c \in Commands, LoadItem(c)
    PROVE  Onward
<1>1. Busy(c) /\ Leaves(c) /\ Keeps
    BY QuietLeaves, HistoryStays, TypeParts DEF PurgeInv, LoadItem, rows, storage, StorageTyped, Busy
<1>2. CASE NextSurface(c)
    BY <1>1, <1>2, NextFrame
<1>3. CASE Goto(c, "block")
    BY <1>1, <1>3, GotoBlock
<1>4. CASE \E phase \in {"inspect", "recheck"} : Goto(c, phase)
    <2>1. PICK phase \in {"inspect", "recheck"} : Goto(c, phase)
        BY <1>4
    <2>2. GoesOn(c, phase, cmd[c].surface, cmd[c].file) /\ phase \in Phases \ {"idle"}
        BY <2>1, GotoFacts DEF PurgeInv, Phases
    <2>3. RegistryOf(c)' = RegistryOf(c)
        BY <2>2 DEF LoadItem, rows, RegistryOf, GoesOn
    <2>4. CommandFits(cmd'[c], ItemOf(c)', RegistryOf(c)', SurfaceOf(c)')
        BY <2>2, <2>3, SourceAllowed
        DEF LoadItem, GoesOn, CommandFits, Working, Moving, Bound
    <2>5. QED
        BY <1>1, <2>1, <2>2, <2>4, GotoFrame DEF FileKnown
<1>5. CASE ItemOf(c).bound /\ cmd' = FirstFile(c)
    BY <1>1, <1>5, FirstFrame DEF LoadItem, rows, ItemOf, Working
<1>6. QED
    BY <1>2, <1>3, <1>4, <1>5 DEF LoadItem

LEMMA InspectStep ==
    ASSUME PurgeInv, NEW c \in Commands, InspectSurface(c)
    PROVE  Onward
<1>1. Busy(c) /\ Leaves(c) /\ Keeps
    BY QuietLeaves, HistoryStays, TypeParts DEF PurgeInv, InspectSurface, rows, storage, StorageTyped, Busy
<1>2. CASE Goto(c, "block")
    BY <1>1, <1>2, GotoBlock
<1>3. CASE Goto(c, "intent")
    <2>1. GoesOn(c, "intent", cmd[c].surface, cmd[c].file)
        BY <1>3, GotoFacts DEF PurgeInv, Phases
    <2>2. RegistryOf(c)' = RegistryOf(c)
        BY <2>1 DEF InspectSurface, rows, RegistryOf, GoesOn
    <2>3. CommandFits(cmd'[c], ItemOf(c)', RegistryOf(c)', SurfaceOf(c)')
        BY <2>1, <2>2, SourceAllowed
        DEF InspectSurface, GoesOn, CommandFits, Working, Moving, Bound
    <2>4. QED
        BY <1>1, <1>3, <2>3, GotoFrame DEF FileKnown, Phases
<1>4. QED
    BY <1>2, <1>3 DEF InspectSurface

LEMMA RecheckStep ==
    ASSUME PurgeInv, NEW c \in Commands, RecheckMove(c)
    PROVE  Onward
<1>1. Busy(c) /\ Leaves(c) /\ Keeps
    BY QuietLeaves, HistoryStays, TypeParts DEF PurgeInv, RecheckMove, rows, storage, StorageTyped, Busy
<1>2. CASE Goto(c, "block")
    BY <1>1, <1>2, GotoBlock
<1>3. CASE Goto(c, "move") /\ ItemOf(c).status = "verified"
    <2>1. GoesOn(c, "move", cmd[c].surface, cmd[c].file)
        BY <1>3, GotoFacts DEF PurgeInv, Phases
    <2>2. RegistryOf(c)' = RegistryOf(c) /\ ItemOf(c)' = ItemOf(c)
        BY <2>1 DEF RecheckMove, rows, RegistryOf, ItemOf, GoesOn
    <2>3. CommandFits(cmd'[c], ItemOf(c)', RegistryOf(c)', SurfaceOf(c)')
        BY <1>3, <2>1, <2>2, SourceAllowed
        DEF RecheckMove, GoesOn, CommandFits, Working, Moving, Bound, NotMoved
    <2>4. QED
        BY <1>1, <1>3, <2>3, GotoFrame DEF FileKnown, Phases
<1>4. QED
    BY <1>2, <1>3 DEF RecheckMove

LEMMA RecoverStep ==
    ASSUME PurgeInv, NEW c \in Commands, RecoverTombstone(c)
    PROVE  Onward
<1>1. Busy(c) /\ Leaves(c) /\ Keeps
    BY QuietLeaves, HistoryStays, TypeParts DEF PurgeInv, RecoverTombstone, rows, storage, StorageTyped, Busy
<1>2. CASE Goto(c, "block")
    BY <1>1, <1>2, GotoBlock
<1>3. CASE Stop(c)
    BY <1>1, <1>3, StopFrame
<1>4. CASE Goto(c, "bind") /\ SurfaceOf(c).at = cmd[c].op
    <2>1. GoesOn(c, "bind", cmd[c].surface, cmd[c].file)
        BY <1>4, GotoFacts DEF PurgeInv, Phases
    <2>2. RegistryOf(c)' = RegistryOf(c) /\ ItemOf(c)' = ItemOf(c) /\ SurfaceOf(c)' = SurfaceOf(c)
        BY <2>1 DEF RecoverTombstone, rows, storage, RegistryOf, ItemOf, SurfaceOf, GoesOn
    <2>3. ItemOf(c).status \notin NotMoved
        BY <1>1 DEF RecoverTombstone, PurgeInv, CommandsFit, CommandFits, Moving
    <2>4. CommandFits(cmd'[c], ItemOf(c)', RegistryOf(c)', SurfaceOf(c)')
        BY <1>4, <2>1, <2>2, <2>3, SourceAllowed
        DEF RecoverTombstone, GoesOn, CommandFits, Working, Moving, Bound
    <2>5. QED
        BY <1>1, <1>4, <2>4, GotoFrame DEF FileKnown, Phases
<1>5. QED
    BY <1>2, <1>3, <1>4 DEF RecoverTombstone

LEMMA FailureStep ==
    ASSUME PurgeInv, NEW c \in Commands, StoreFails(c) \/ CommandStops(c)
    PROVE  Onward
<1>1. HistoryTyped'
    <2>1. HistoryTyped
        BY TypeParts DEF PurgeInv
    <2>2. CASE StoreFails(c)
        BY <2>1, <2>2, PurgeAssumption DEF HistoryTyped, StoreFails
    <2>3. CASE CommandStops(c)
        BY <2>1, <2>3, PurgeAssumption DEF HistoryTyped, CommandStops
    <2>4. QED
        BY <2>2, <2>3
<1>2. Busy(c) /\ Leaves(c) /\ Keeps
    BY <1>1, QuietLeaves, TypeParts
    DEF PurgeInv, StoreFails, CommandStops, rows, storage, StorageTyped, Busy
<1>3. QED
    BY <1>2, GotoBlock, StopFrame DEF StoreFails, CommandStops

LEMMA SiblingStep ==
    ASSUME PurgeInv, NEW s \in Surfaces, SiblingAppears(s) \/ SiblingRemoved(s)
    PROVE  Onward
<1>1. UNCHANGED <<adapter, operation, item, surface, dependency, cmd>> /\ sibling' \subseteq Surfaces
    BY TypeParts DEF PurgeInv, StorageTyped, SiblingAppears, SiblingRemoved, rows
<1>2. HistoryTyped'
    BY PurgeAssumption, TypeParts DEF PurgeInv, HistoryTyped, SiblingAppears, SiblingRemoved, history
<1>3. TypeOK'
    <2>1. RowsTyped' /\ StorageTyped' /\ CommandsTyped'
        BY <1>1, TypeParts DEF PurgeInv, RowsTyped, StorageTyped, CommandsTyped, Busy
    <2>2. QED
        BY <1>2, <2>1, TypePartsNext
<1>4. PurgeInv'
    BY <1>1, <1>3
    DEF PurgeInv, RowsFit, Items, CommandsFit, Busy, ItemOf, RegistryOf, SurfaceOf, DeletionOrder,
        ItemsTellBytes, JournalAgrees, GoneForGood
<1>5. Forward
    BY <1>1, TypeParts, SameItemAdvances, SameSurfaceRecedes DEF PurgeInv, Forward
<1>6. QED
    BY <1>4, <1>5 DEF Onward

(***************************************************************************)
(* Steps that write the item.                                              *)
(***************************************************************************)

\* What a busy command may cite of its item, its surface and itself.
LEMMA BusyFacts ==
    ASSUME PurgeInv, NEW c \in Commands, Busy(c)
    PROVE  /\ cmd[c].op \in Operations /\ cmd[c].surface \in Surfaces
           /\ cmd[c].file \in {NoFile} \union AllFiles
           /\ ItemOf(c) \in Item /\ SurfaceOf(c) \in Surface
           /\ ItemOf(c).status # "none"
           /\ ItemFits(cmd[c].op, ItemOf(c), SurfaceOf(c))
           /\ CommandFits(cmd[c], ItemOf(c), RegistryOf(c), SurfaceOf(c))
BY BusyTyped DEF PurgeInv, CommandsFit, Items, RowsFit, ItemOf, SurfaceOf

\* An item is written: what follows for the rest, if it advances and fits.
LEMMA WriteLeaves ==
    ASSUME PurgeInv, NEW c \in Commands, Busy(c), NEW row \in Item, WriteItem(c, row),
           UNCHANGED <<adapter, operation, dependency, storage, history>>,
           Advances(ItemOf(c), row),
           ItemFits(cmd[c].op, row, SurfaceOf(c))
    PROVE  Leaves(c) /\ Keeps /\ item'[cmd[c].op][cmd[c].surface] = row
<1>1. row.status # "none"
    BY BusyFacts DEF Advances
<1>2. Standing' /\ RowsTyped' /\ Forward /\ item'[cmd[c].op][cmd[c].surface] = row
    BY <1>1, ItemFrame DEF storage
<1>3. StorageTyped' /\ HistoryTyped'
    BY HistoryStays, TypeParts DEF PurgeInv, StorageTyped, storage
<1>4. QED
    BY <1>2, <1>3 DEF Leaves, Keeps

\* A step that leaves the item as it is.
LEMMA SameLeaves ==
    ASSUME PurgeInv, NEW c \in Commands, UNCHANGED item,
           UNCHANGED <<adapter, operation, dependency, storage, history>>
    PROVE  Leaves(c) /\ Keeps
BY QuietLeaves, HistoryStays, TypeParts DEF PurgeInv, StorageTyped, storage

LEMMA IntentStep ==
    ASSUME PurgeInv, NEW c \in Commands, PersistMoveIntent(c)
    PROVE  Onward
<1>1. Busy(c) /\ UNCHANGED <<adapter, operation, dependency, storage, history>>
    BY DEF PersistMoveIntent, Busy
<1>2. CASE Goto(c, "block") /\ UNCHANGED item
    BY <1>1, <1>2, SameLeaves, GotoBlock
<1>3. CASE ItemOf(c).status = "registered"
    <2> DEFINE row == [ItemOf(c) EXCEPT !.status = "verified"]
    <2>1. /\ row \in Item /\ row.status = "verified" /\ row.next = ItemOf(c).next
          /\ row.inFlight = ItemOf(c).inFlight /\ row.bound = ItemOf(c).bound
          /\ row.directory = ItemOf(c).directory
        BY <1>1, BusyFacts DEF Item, ItemStatus, ActiveItemStatus
    <2>2. WriteItem(c, row) /\ Goto(c, "load")
        BY <1>3 DEF PersistMoveIntent
    <2> HIDE DEF row
    <2>3. Advances(ItemOf(c), row)
        BY <1>1, <1>3, <2>1, BusyFacts DEF Advances, NotMoved, Item
    <2>4. ItemFits(cmd[c].op, row, SurfaceOf(c))
        BY <1>1, <1>3, <2>1, BusyFacts DEF ItemFits, NotMoved, Claimed, Journal
    <2>5. Leaves(c) /\ Keeps /\ item'[cmd[c].op][cmd[c].surface] = row
        BY <1>1, <2>1, <2>2, <2>3, <2>4, WriteLeaves
    <2>6. GoesOn(c, "load", cmd[c].surface, cmd[c].file)
        BY <2>2, GotoFacts DEF PurgeInv, Phases
    <2>7. cmd[c].surface = "source" => RegistryOf(c)'.status = "completed"
        BY <2>5, <2>6, <1>1, BusyFacts, SourceAllowed
        DEF PersistMoveIntent, Working, GoesOn, RegistryOf, Leaves, Forward, Advances, Surfaces
    <2>8. CommandFits(cmd'[c], ItemOf(c)', RegistryOf(c)', SurfaceOf(c)')
        BY <2>6, <2>7 DEF GoesOn, CommandFits, Moving, Bound
    <2>9. QED
        BY <1>1, <2>2, <2>5, <2>8, GotoFrame DEF FileKnown, Phases
<1>4. QED
    BY <1>2, <1>3 DEF PersistMoveIntent

LEMMA BindStep ==
    ASSUME PurgeInv, NEW c \in Commands, BindMoveIntent(c)
    PROVE  Onward
<1>1. /\ Busy(c) /\ cmd[c].phase \in Working
      /\ UNCHANGED <<adapter, operation, dependency, storage, history>>
    BY DEF BindMoveIntent, Busy, Working, Moving
<1>2. CASE Goto(c, "block") /\ UNCHANGED item
    BY <1>1, <1>2, SameLeaves, GotoBlock
<1>3. CASE ItemOf(c).status = "tombstone_bound" /\ cmd' = FirstFile(c) /\ UNCHANGED item
    <2>1. item'[cmd[c].op][cmd[c].surface].bound
        BY <1>1, <1>3, BusyFacts DEF ItemFits, Claimed, ItemOf
    <2>2. QED
        BY <1>1, <1>3, <2>1, SameLeaves, FirstFrame
<1>4. CASE ItemOf(c).status = "verified" /\ cmd' = FirstFile(c)
    <2> DEFINE row == [ItemOf(c) EXCEPT !.status = "tombstone_bound", !.bound = TRUE]
    <2>1. /\ row \in Item /\ row.status = "tombstone_bound" /\ row.next = ItemOf(c).next
          /\ row.inFlight = ItemOf(c).inFlight /\ row.bound
          /\ row.directory = ItemOf(c).directory
        BY <1>1, BusyFacts DEF Item, ItemStatus, ActiveItemStatus
    <2>2. WriteItem(c, row)
        BY <1>4 DEF BindMoveIntent
    <2> HIDE DEF row
    <2>3. Advances(ItemOf(c), row)
        BY <1>1, <1>4, <2>1, BusyFacts DEF Advances, NotMoved, Item
    <2>4. SurfaceOf(c).at \in {cmd[c].op, Gone}
        BY <1>1, BusyFacts DEF BindMoveIntent, CommandFits
    <2>5. ItemFits(cmd[c].op, row, SurfaceOf(c))
        BY <1>1, <1>4, <2>1, <2>4, BusyFacts DEF ItemFits, NotMoved, Journal
    <2>6. Leaves(c) /\ Keeps /\ item'[cmd[c].op][cmd[c].surface] = row
        BY <1>1, <2>1, <2>2, <2>3, <2>5, WriteLeaves
    <2>7. QED
        BY <1>1, <1>4, <2>1, <2>6, FirstFrame
<1>5. QED
    BY <1>2, <1>3, <1>4 DEF BindMoveIntent

\* The next file of a tombstone whose journal has come to this one.
LEMMA AfterFrame ==
    ASSUME PurgeInv, NEW c \in Commands, Leaves(c), Keeps, cmd' = AfterFile(c),
           cmd[c].phase \in {"entry", "record"},
           cmd[c].file <= item'[cmd[c].op][cmd[c].surface].next
    PROVE  Onward
<1>1. /\ Busy(c) /\ cmd[c].phase \in Working /\ cmd[c].phase \in Bound
      /\ cmd[c].file \in AllFiles /\ cmd[c].file # NoFile
    <2>1. Busy(c) /\ cmd[c].phase \in Working /\ cmd[c].phase \in Bound
        BY DEF Busy, Working, Moving, Bound
    <2>2. cmd[c].file # NoFile
        BY DEF PurgeInv, TypeOK
    <2>3. QED
        BY <2>1, <2>2, BusyFacts
<1>2. PICK phase \in {"directory", "entry"}, file \in {NoFile} \union AllFiles :
          /\ GoesOn(c, phase, cmd[c].surface, file)
          /\ phase = "directory" => cmd[c].file = Files /\ file = NoFile
          /\ phase = "entry" => cmd[c].file # Files /\ file = cmd[c].file + 1
    <2>1. cmd[c].file # Files => cmd[c].file + 1 \in AllFiles
        BY <1>1, PurgeAssumption DEF AllFiles
    <2>2. QED
        BY <1>1, <2>1, AfterFacts DEF PurgeInv
<1>3. /\ cmd[c].surface \in Surfaces /\ cmd[c].op \in Operations /\ "registry" \in Surfaces
    BY <1>1, BusyFacts DEF Surfaces
<1>4. /\ ItemOf(c)' = item'[cmd[c].op][cmd[c].surface]
      /\ RegistryOf(c)' = item'[cmd[c].op]["registry"]
    BY <1>2 DEF GoesOn, ItemOf, RegistryOf
<1>5. cmd[c].surface = "source" => RegistryOf(c)'.status = "completed"
    BY <1>1, <1>3, <1>4, SourceAllowed DEF Leaves, Forward, Advances, RegistryOf
<1>6. ItemOf(c)'.bound /\ ItemOf(c)'.status \notin NotMoved
    <2>1. ItemOf(c).bound /\ ItemOf(c).status \notin NotMoved
        BY <1>1, BusyFacts DEF CommandFits, Moving
    <2>2. Advances(ItemOf(c), ItemOf(c)')
        BY <1>3, <1>4 DEF Leaves, Forward, ItemOf
    <2>3. QED
        BY <2>1, <2>2 DEF Advances
<1>7. ItemOf(c)'.next \in 0 .. Files /\ cmd[c].file <= ItemOf(c)'.next
    BY <1>3, <1>4 DEF Leaves, RowsTyped, Item
<1>8. FitsNow(c)'
    BY <1>1, <1>2, <1>5, <1>6, <1>7, PurgeAssumption
    DEF FitsNow, CommandFits, GoesOn, Moving, Bound, AllFiles
<1>9. phase \in Phases \ {"idle"} /\ FileKnown(phase, file)
    BY <1>1, <1>2, PurgeAssumption DEF Phases, FileKnown, NoFile, AllFiles
<1>10. QED
    BY <1>1, <1>2, <1>3, <1>8, <1>9, StepFrame

\* What a command that has its tombstone may cite.
LEMMA BoundFacts ==
    ASSUME PurgeInv, NEW c \in Commands, cmd[c].phase \in Bound
    PROVE  /\ Busy(c) /\ cmd[c].phase \in Working
           /\ ItemOf(c).bound /\ ItemOf(c).status \notin NotMoved
           /\ SurfaceOf(c).at \in {cmd[c].op, Gone}
           /\ cmd[c].phase \in {"entry", "unlink", "record"} =>
                 cmd[c].file \in 1 .. Files /\ cmd[c].file <= ItemOf(c).next + 1
<1>1. Busy(c) /\ cmd[c].phase \in Working /\ cmd[c].phase \in Moving
    BY DEF Busy, Working, Moving, Bound
<1>2. cmd[c].phase \in {"entry", "unlink", "record"} => cmd[c].file # NoFile
    BY DEF PurgeInv, TypeOK
<1>3. QED
    BY <1>1, <1>2, BusyFacts DEF CommandFits, ItemFits, AllFiles

LEMMA UnlinkIntentStep ==
    ASSUME PurgeInv, NEW c \in Commands, RecordUnlinkIntent(c)
    PROVE  Onward
<1> DEFINE f == cmd[c].file
           r == ItemOf(c)
<1>1. /\ cmd[c].phase = "entry" /\ cmd[c].phase \in Bound
      /\ UNCHANGED <<adapter, operation, dependency, storage, history>>
    BY DEF RecordUnlinkIntent, Bound
<1>2. CASE Goto(c, "block") /\ UNCHANGED item
    BY <1>1, <1>2, SameLeaves, GotoBlock, BoundFacts
<1>3. CASE NextSurface(c) /\ UNCHANGED item
    BY <1>1, <1>3, SameLeaves, NextFrame, BoundFacts
<1>4. CASE r.next >= f /\ cmd' = AfterFile(c) /\ UNCHANGED item
    <2>1. f <= r.next
        BY <1>1, <1>4, BusyFacts, BoundFacts DEF Item
    <2>2. f <= item'[cmd[c].op][cmd[c].surface].next
        BY <1>4, <2>1 DEF ItemOf
    <2>3. QED
        BY <1>1, <1>4, <2>2, SameLeaves, AfterFrame
<1>5. ASSUME r.status # "completed", r.next = f - 1, r.inFlight \in {NoFile, f},
             WriteItem(c, [r EXCEPT !.status = "deleting", !.inFlight = f]),
             cmd' = [cmd EXCEPT ![c].phase = "unlink", ![c].retry = r.inFlight = f]
      PROVE  Onward
    <2> DEFINE row == [r EXCEPT !.status = "deleting", !.inFlight = f]
    <2>1. f \in 1 .. Files /\ Busy(c) /\ r \in Item /\ r.bound /\ r.status \notin NotMoved
        BY <1>1, BoundFacts, BusyFacts
    <2>2. /\ row \in Item /\ row.status = "deleting" /\ row.next = r.next
          /\ row.inFlight = f /\ row.bound /\ row.directory = r.directory
        BY <2>1 DEF Item, ItemStatus, ActiveItemStatus, AllFiles
    <2> HIDE DEF row
    <2>3. Advances(r, row)
        BY <1>5, <2>1, <2>2 DEF Advances, NotMoved, Item
    <2>4. ItemFits(cmd[c].op, row, SurfaceOf(c))
        BY <1>5, <2>1, <2>2, BusyFacts DEF ItemFits, NotMoved, Journal, Item
    <2>5. Leaves(c) /\ Keeps /\ item'[cmd[c].op][cmd[c].surface] = row
        BY <1>1, <1>5, <2>1, <2>2, <2>3, <2>4, WriteLeaves DEF row
    <2>6. GoesOn(c, "unlink", cmd[c].surface, f)
        <3>1. PICK b \in BOOLEAN : cmd' = [cmd EXCEPT ![c].phase = "unlink", ![c].retry = b]
            BY <1>5
        <3>2. QED
            BY <3>1, RetryFacts DEF PurgeInv, Phases
    <2>7. ItemOf(c)' = row /\ RegistryOf(c)' = item'[cmd[c].op]["registry"]
        BY <2>5, <2>6 DEF GoesOn, ItemOf, RegistryOf
    <2>8. cmd[c].surface = "source" => RegistryOf(c)'.status = "completed"
        BY <1>1, <2>1, <2>5, <2>7, BusyFacts, BoundFacts, SourceAllowed
        DEF RegistryOf, Leaves, Forward, Advances, Surfaces
    <2>9. FitsNow(c)'
        BY <1>5, <2>1, <2>2, <2>6, <2>7, <2>8
        DEF FitsNow, CommandFits, GoesOn, Moving, Bound, NotMoved, Item
    <2>10. "unlink" \in Phases \ {"idle"} /\ FileKnown("unlink", f) /\ f \in AllFiles
        BY <2>1 DEF Phases, FileKnown, NoFile, AllFiles
    <2>11. QED
        BY <2>1, <2>5, <2>6, <2>9, <2>10, BusyFacts, StepFrame
<1>6. QED
    BY <1>2, <1>3, <1>4, <1>5 DEF RecordUnlinkIntent

LEMMA RecordStep ==
    ASSUME PurgeInv, NEW c \in Commands, RecordUnlink(c)
    PROVE  Onward
<1> DEFINE f == cmd[c].file
           r == ItemOf(c)
           u == SurfaceOf(c)
           top == IF r.next > f THEN r.next ELSE f
           row == [r EXCEPT !.next = top, !.inFlight = NoFile]
<1>1. /\ cmd[c].phase = "record" /\ cmd[c].phase \in Bound
      /\ UNCHANGED <<adapter, operation, dependency, storage, history>>
      /\ WriteItem(c, row) /\ cmd' = AfterFile(c)
    BY DEF RecordUnlink, Bound, WriteItem
<1>2. /\ f \in 1 .. Files /\ f <= r.next + 1 /\ Busy(c) /\ r \in Item
      /\ r.bound /\ r.status \notin NotMoved /\ f \notin u.files
      /\ cmd[c].op \in Operations /\ u \in Surface
    BY <1>1, BoundFacts, BusyFacts DEF CommandFits
<1>3. /\ row \in Item /\ row.status = r.status /\ row.inFlight = NoFile
      /\ row.bound /\ row.directory = r.directory
      /\ row.next = top
    <2>1. top \in 0 .. Files
        BY <1>2, PurgeAssumption DEF Item
    <2> HIDE DEF top
    <2>2. QED
        BY <1>2, <2>1 DEF Item
<1> HIDE DEF row
<1>4. Advances(r, row) /\ f <= row.next
    BY <1>2, <1>3 DEF Advances, NotMoved, Item
<1>5. Journal(cmd[c].op, row, u)
    <2>1. CASE row.next = r.next
        BY <1>1, <1>2, <2>1, BusyFacts DEF ItemFits, Journal
    <2>2. CASE row.next = r.next + 1 /\ f = r.next + 1
        <3> SUFFICES ASSUME u.at = cmd[c].op
                     PROVE  /\ \A g \in 1 .. row.next : g \notin u.files
                            /\ \A g \in row.next + 1 .. Files : g \in u.files \/ g = row.next + 1
            BY DEF Journal
        <3>1. /\ \A g \in 1 .. r.next : g \notin u.files
              /\ \A g \in r.next + 1 .. Files : g \in u.files \/ g = r.next + 1
            BY <1>2, BusyFacts DEF ItemFits, Journal
        <3>2. r.next \in Nat /\ Files \in Nat
            BY <1>2, PurgeAssumption DEF Item
        <3>3. QED
            BY <1>2, <2>2, <3>1, <3>2
    <2>3. QED
        BY <1>2, <1>3, <2>1, <2>2 DEF Item
<1>6. ItemFits(cmd[c].op, row, u)
    BY <1>2, <1>3, <1>5, BusyFacts DEF ItemFits
<1>7. Leaves(c) /\ Keeps /\ item'[cmd[c].op][cmd[c].surface] = row
    BY <1>1, <1>2, <1>3, <1>4, <1>6, WriteLeaves
<1>8. QED
    BY <1>1, <1>4, <1>7, AfterFrame

LEMMA DirectoryIntentStep ==
    ASSUME PurgeInv, NEW c \in Commands, RecordDirectoryIntent(c)
    PROVE  Onward
<1> DEFINE r == ItemOf(c)
           row == [r EXCEPT !.directory = TRUE]
<1>1. /\ cmd[c].phase = "directory" /\ cmd[c].phase \in Bound
      /\ UNCHANGED <<adapter, operation, dependency, storage, history>>
    BY DEF RecordDirectoryIntent, Bound
<1>2. CASE Goto(c, "block") /\ UNCHANGED item
    BY <1>1, <1>2, SameLeaves, GotoBlock, BoundFacts
<1>3. ASSUME r.next = Files, r.inFlight = NoFile, WriteItem(c, row),
             cmd' = [cmd EXCEPT ![c].phase = "rmdir", ![c].retry = DirectoryMayBeMissing(c)]
      PROVE  Onward
    <2>1. Busy(c) /\ r \in Item /\ r.bound /\ r.status \notin NotMoved
        BY <1>1, BoundFacts, BusyFacts
    <2>2. /\ row \in Item /\ row.status = r.status /\ row.next = r.next
          /\ row.inFlight = r.inFlight /\ row.bound
        BY <2>1 DEF Item
    <2> HIDE DEF row
    <2>3. Advances(r, row)
        BY <2>1, <2>2 DEF Advances, NotMoved, Item
    <2>4. ItemFits(cmd[c].op, row, SurfaceOf(c))
        BY <2>1, <2>2, BusyFacts DEF ItemFits, Journal
    <2>5. Leaves(c) /\ Keeps /\ item'[cmd[c].op][cmd[c].surface] = row
        BY <1>1, <1>3, <2>1, <2>2, <2>3, <2>4, WriteLeaves
    <2>6. GoesOn(c, "rmdir", cmd[c].surface, cmd[c].file)
        <3>1. DirectoryMayBeMissing(c) \in BOOLEAN
            BY <2>1 DEF DirectoryMayBeMissing, Item
        <3>2. PICK b \in BOOLEAN : cmd' = [cmd EXCEPT ![c].phase = "rmdir", ![c].retry = b]
            BY <1>3, <3>1
        <3>3. QED
            BY <3>2, RetryFacts DEF PurgeInv, Phases
    <2>7. ItemOf(c)' = row /\ RegistryOf(c)' = item'[cmd[c].op]["registry"]
        BY <2>5, <2>6 DEF GoesOn, ItemOf, RegistryOf
    <2>8. cmd[c].surface = "source" => RegistryOf(c)'.status = "completed"
        BY <1>1, <2>1, <2>5, <2>7, BusyFacts, BoundFacts, SourceAllowed
        DEF RegistryOf, Leaves, Forward, Advances, Surfaces
    <2>9. FitsNow(c)'
        BY <1>3, <2>1, <2>2, <2>6, <2>7, <2>8 DEF FitsNow, CommandFits, GoesOn, Moving, Bound
    <2>10. "rmdir" \in Phases \ {"idle"} /\ FileKnown("rmdir", cmd[c].file)
        BY DEF Phases, FileKnown
    <2>11. QED
        BY <2>1, <2>5, <2>6, <2>9, <2>10, BusyFacts, StepFrame
<1>4. QED
    BY <1>2, <1>3 DEF RecordDirectoryIntent

LEMMA CompleteStep ==
    ASSUME PurgeInv, NEW c \in Commands, CompleteItem(c)
    PROVE  Onward
<1> DEFINE r == ItemOf(c)
           row == [r EXCEPT !.status = "completed", !.inFlight = NoFile]
<1>1. /\ cmd[c].phase = "complete" /\ cmd[c].phase \in Bound
      /\ UNCHANGED <<adapter, operation, dependency, storage, history>>
      /\ WriteItem(c, row) /\ NextSurface(c)
    BY DEF CompleteItem, Bound
<1>2. /\ Busy(c) /\ r \in Item /\ r.bound /\ r.status \notin NotMoved
      /\ SurfaceOf(c).at = Gone /\ cmd[c].op \in Operations
    BY <1>1, BoundFacts, BusyFacts DEF CommandFits
<1>3. /\ row \in Item /\ row.status = "completed" /\ row.next = r.next
      /\ row.inFlight = NoFile /\ row.bound
    BY <1>2 DEF Item, ItemStatus
<1> HIDE DEF row
<1>4. Advances(r, row)
    BY <1>2, <1>3 DEF Advances, NotMoved, Item
<1>5. ItemFits(cmd[c].op, row, SurfaceOf(c))
    BY <1>2, <1>3, PurgeAssumption DEF ItemFits, Journal, Operations, Gone, NotMoved
<1>6. Leaves(c) /\ Keeps
    BY <1>1, <1>2, <1>3, <1>4, <1>5, WriteLeaves
<1>7. QED
    BY <1>1, <1>2, <1>6, NextFrame

LEMMA BlockStep ==
    ASSUME PurgeInv, NEW c \in Commands, BlockItem(c)
    PROVE  Onward
<1> DEFINE r == ItemOf(c)
           row == [r EXCEPT !.status = "blocked", !.blockedAt = TRUE]
<1>1. /\ Busy(c) /\ NextSurface(c)
      /\ UNCHANGED <<adapter, operation, dependency, storage, history>>
    BY DEF BlockItem, Busy
<1>2. CASE UNCHANGED item
    BY <1>1, <1>2, SameLeaves, NextFrame
<1>3. CASE r.status # "completed" /\ WriteItem(c, row)
    <2>1. r \in Item
        BY <1>1, BusyFacts
    <2>2. /\ row \in Item /\ row.status = "blocked" /\ row.next = r.next
          /\ row.inFlight = r.inFlight /\ row.bound = r.bound /\ row.directory = r.directory
        BY <2>1 DEF Item, ItemStatus
    <2> HIDE DEF row
    <2>3. Advances(r, row)
        BY <1>3, <2>1, <2>2 DEF Advances, NotMoved, Item
    <2>4. ItemFits(cmd[c].op, row, SurfaceOf(c))
        BY <1>1, <2>1, <2>2, BusyFacts DEF ItemFits, Journal, NotMoved, Claimed
    <2>5. Leaves(c) /\ Keeps
        BY <1>1, <1>3, <2>2, <2>3, <2>4, WriteLeaves
    <2>6. QED
        BY <1>1, <2>5, NextFrame
<1>4. QED
    BY <1>2, <1>3 DEF BlockItem

(***************************************************************************)
(* Steps that change the bytes.                                            *)
(***************************************************************************)

LEMMA SurfaceLeaves ==
    ASSUME PurgeInv, NEW c \in Commands, Busy(c), NEW u \in Surface, WriteSurface(c, u),
           UNCHANGED <<rows, sibling, history>>,
           Recedes(SurfaceOf(c), u), u.at # Final,
           \A n \in Operations : Journal(n, item[n][cmd[c].surface], u),
           \/ SurfaceOf(c).at = Final /\ u.at = cmd[c].op
              /\ ItemOf(c).status \notin NotMoved
              /\ (cmd[c].surface = "source" => RegistryOf(c).status = "completed")
           \/ SurfaceOf(c).at # Final /\ u.at \in {SurfaceOf(c).at, Gone}
    PROVE  Leaves(c) /\ Keeps /\ surface'[cmd[c].surface] = u
<1>1. \A n \in Operations : ItemFits(n, item[n][cmd[c].surface], u)
    <2> TAKE n \in Operations
    <2> DEFINE r == item[n][cmd[c].surface]
    <2>1. ItemFits(n, r, SurfaceOf(c)) /\ r \in Item /\ cmd[c].op \in Operations
        BY BusyFacts, TypeParts DEF PurgeInv, Items, SurfaceOf, RowsTyped
    <2>2. n # Final /\ Gone # Final /\ n # Gone
        BY PurgeAssumption DEF Operations, Gone, Final
    <2>3. r.bound => u.at \in {n, Gone}
        BY <2>1, <2>2 DEF ItemFits, Recedes
    <2>4. u.at = n => r.status \notin NotMoved
        BY <2>1, <2>2 DEF ItemFits, ItemOf
    <2>5. r.status = "completed" => u.at = Gone
        BY <2>1, <2>2 DEF ItemFits, Recedes
    <2>6. QED
        BY <2>1, <2>3, <2>4, <2>5 DEF ItemFits
<1>2. Standing' /\ RowsTyped' /\ Forward /\ surface'[cmd[c].surface] = u
          /\ surface' \in [Surfaces -> Surface]
    BY <1>1, SurfaceFrame DEF rows
<1>3. StorageTyped' /\ HistoryTyped'
    BY <1>2, HistoryStays, TypeParts DEF PurgeInv, StorageTyped
<1>4. QED
    BY <1>2, <1>3 DEF Leaves, Keeps, rows

LEMMA MoveStep ==
    ASSUME PurgeInv, NEW c \in Commands, MoveSurface(c)
    PROVE  Onward
<1> DEFINE u == [SurfaceOf(c) EXCEPT !.at = cmd[c].op]
<1>1. /\ cmd[c].phase = "move" /\ cmd[c].phase \in Working /\ Busy(c)
      /\ SurfaceOf(c).at = Final /\ UNCHANGED <<rows, sibling, history>>
    BY DEF MoveSurface, Working, Moving, Busy
<1>2. CASE Stop(c) /\ UNCHANGED surface
    BY <1>1, <1>2, SameLeaves, StopFrame DEF rows, storage
<1>3. CASE WriteSurface(c, u) /\ Goto(c, "bind")
    <2>1. /\ cmd[c].op \in Operations /\ cmd[c].surface \in Surfaces /\ SurfaceOf(c) \in Surface
          /\ ItemOf(c).status \notin NotMoved
        BY <1>1, BusyFacts DEF CommandFits, Moving
    <2>2. /\ u \in Surface /\ u.at = cmd[c].op /\ u.files = SurfaceOf(c).files
          /\ u.files = AllFiles /\ u.at # Final
        BY <1>1, <2>1, PurgeAssumption
        DEF Surface, Operations, Final, Gone, PurgeInv, RowsFit, SurfaceOf
    <2> HIDE DEF u
    <2>3. Recedes(SurfaceOf(c), u)
        BY <1>1, <2>2, PurgeAssumption DEF Recedes, Final, Gone, Operations
    <2>4. \A n \in Operations : Journal(n, item[n][cmd[c].surface], u)
        <3> TAKE n \in Operations
        <3> DEFINE r == item[n][cmd[c].surface]
        <3>1. ~r.bound /\ r.next = 0
            BY <1>1, <2>1, PurgeAssumption
            DEF PurgeInv, Items, ItemFits, SurfaceOf, Operations, Gone, Final
        <3>2. QED
            BY <2>2, <3>1 DEF Journal, AllFiles
    <2>5. Leaves(c) /\ Keeps /\ surface'[cmd[c].surface] = u
        BY <1>1, <1>3, <2>1, <2>2, <2>3, <2>4, SourceAllowed, SurfaceLeaves
    <2>6. GoesOn(c, "bind", cmd[c].surface, cmd[c].file)
        BY <1>3, GotoFacts DEF PurgeInv, Phases
    <2>7. CommandFits(cmd'[c], ItemOf(c)', RegistryOf(c)', SurfaceOf(c)')
        BY <1>1, <2>1, <2>2, <2>5, <2>6, SourceAllowed
        DEF CommandFits, GoesOn, Moving, Bound, ItemOf, RegistryOf, SurfaceOf, rows
    <2>8. QED
        BY <1>1, <1>3, <2>5, <2>7, GotoFrame DEF FileKnown, Phases
<1>4. QED
    BY <1>2, <1>3 DEF MoveSurface

LEMMA UnlinkStep ==
    ASSUME PurgeInv, NEW c \in Commands, UnlinkFile(c)
    PROVE  Onward
<1> DEFINE f == cmd[c].file
           u == [SurfaceOf(c) EXCEPT !.files = @ \ {f}]
<1>1. cmd[c].phase = "unlink" /\ cmd[c].phase \in Bound /\ UNCHANGED <<rows, sibling, history>>
    BY DEF UnlinkFile, Bound
<1>2. /\ Busy(c) /\ cmd[c].phase \in Working /\ ItemOf(c).bound /\ ItemOf(c).status \notin NotMoved
      /\ f \in 1 .. Files /\ f <= ItemOf(c).next + 1
      /\ cmd[c].op \in Operations /\ cmd[c].surface \in Surfaces
      /\ SurfaceOf(c) \in Surface /\ ItemOf(c) \in Item
    BY <1>1, BoundFacts, BusyFacts
<1>3. CASE Stop(c) /\ UNCHANGED surface
    BY <1>1, <1>3, SameLeaves, StopFrame DEF rows, storage
<1>4. CASE Goto(c, "block") /\ UNCHANGED surface
    BY <1>1, <1>2, <1>4, SameLeaves, GotoBlock DEF rows, storage
<1>5. ASSUME Leaves(c), Keeps, Goto(c, "record"), f \notin surface'[cmd[c].surface].files
      PROVE  Onward
    <2>1. GoesOn(c, "record", cmd[c].surface, f)
        BY <1>5, GotoFacts DEF PurgeInv, Phases
    <2>2. CommandFits(cmd'[c], ItemOf(c)', RegistryOf(c)', SurfaceOf(c)')
        BY <1>1, <1>2, <1>5, <2>1, SourceAllowed
        DEF CommandFits, GoesOn, Moving, Bound, ItemOf, RegistryOf, SurfaceOf, rows
    <2>3. QED
        BY <1>2, <1>5, <2>2, GotoFrame DEF FileKnown, Phases, NoFile
<1>6. CASE f \notin SurfaceOf(c).files /\ Goto(c, "record") /\ UNCHANGED surface
    BY <1>1, <1>5, <1>6, SameLeaves DEF rows, storage, SurfaceOf
<1>7. CASE SurfaceOf(c).at = cmd[c].op /\ WriteSurface(c, u) /\ Goto(c, "record")
    <2>1. /\ u \in Surface /\ u.at = SurfaceOf(c).at /\ u.files = SurfaceOf(c).files \ {f}
          /\ u.at # Final
        BY <1>2, <1>7, PurgeAssumption DEF Surface, Operations, Final
    <2> HIDE DEF u
    <2>2. Recedes(SurfaceOf(c), u)
        BY <2>1 DEF Recedes
    <2>3. \A n \in Operations : Journal(n, item[n][cmd[c].surface], u)
        <3> TAKE n \in Operations
        <3> SUFFICES ASSUME u.at = n PROVE Journal(n, item[n][cmd[c].surface], u)
            BY DEF Journal
        <3>1. n = cmd[c].op
            BY <1>7, <2>1
        <3>2. Journal(n, ItemOf(c), SurfaceOf(c)) /\ ItemOf(c).next \in 0 .. Files
            BY <1>2, <3>1, BusyFacts DEF ItemFits, Item
        <3>3. Journal(n, ItemOf(c), u)
            BY <1>2, <2>1, <3>2, PurgeAssumption DEF Journal
        <3>4. QED
            BY <3>1, <3>3 DEF ItemOf
    <2>4. Leaves(c) /\ Keeps /\ surface'[cmd[c].surface] = u
        BY <1>1, <1>2, <1>7, <2>1, <2>2, <2>3, SurfaceLeaves
    <2>5. QED
        BY <1>5, <1>7, <2>1, <2>4
<1>8. QED
    BY <1>3, <1>4, <1>6, <1>7 DEF UnlinkFile

LEMMA DirectoryStep ==
    ASSUME PurgeInv, NEW c \in Commands, RemoveDirectory(c)
    PROVE  Onward
<1> DEFINE u == [SurfaceOf(c) EXCEPT !.at = Gone]
<1>1. cmd[c].phase = "rmdir" /\ cmd[c].phase \in Bound /\ UNCHANGED <<rows, sibling, history>>
    BY DEF RemoveDirectory, Bound
<1>2. /\ Busy(c) /\ cmd[c].phase \in Working /\ ItemOf(c).bound /\ ItemOf(c).status \notin NotMoved
      /\ SurfaceOf(c).at \in {cmd[c].op, Gone}
      /\ cmd[c].op \in Operations /\ cmd[c].surface \in Surfaces
      /\ SurfaceOf(c) \in Surface /\ ItemOf(c) \in Item
    BY <1>1, BoundFacts, BusyFacts
<1>3. CASE Goto(c, "block") /\ UNCHANGED surface
    BY <1>1, <1>2, <1>3, SameLeaves, GotoBlock DEF rows, storage
<1>4. ASSUME Leaves(c), Keeps, Goto(c, "complete"), surface'[cmd[c].surface].at = Gone
      PROVE  Onward
    <2>1. GoesOn(c, "complete", cmd[c].surface, cmd[c].file)
        BY <1>4, GotoFacts DEF PurgeInv, Phases
    <2>2. CommandFits(cmd'[c], ItemOf(c)', RegistryOf(c)', SurfaceOf(c)')
        BY <1>1, <1>2, <1>4, <2>1, SourceAllowed
        DEF CommandFits, GoesOn, Moving, Bound, ItemOf, RegistryOf, SurfaceOf, rows
    <2>3. QED
        BY <1>2, <1>4, <2>2, GotoFrame DEF FileKnown, Phases
<1>5. CASE SurfaceOf(c).at # cmd[c].op /\ Goto(c, "complete") /\ UNCHANGED surface
    BY <1>1, <1>2, <1>4, <1>5, SameLeaves DEF rows, storage, SurfaceOf
<1>6. CASE SurfaceOf(c).at = cmd[c].op /\ WriteSurface(c, u) /\ Goto(c, "complete")
    <2>1. /\ u \in Surface /\ u.at = Gone /\ u.files = SurfaceOf(c).files
          /\ u.at # Final /\ SurfaceOf(c).at # Final
        BY <1>2, <1>6, PurgeAssumption DEF Surface, Operations, Final, Gone
    <2> HIDE DEF u
    <2>2. Recedes(SurfaceOf(c), u)
        BY <2>1 DEF Recedes
    <2>3. \A n \in Operations : Journal(n, item[n][cmd[c].surface], u)
        BY <2>1, PurgeAssumption DEF Journal, Operations, Gone
    <2>4. Leaves(c) /\ Keeps /\ surface'[cmd[c].surface] = u
        BY <1>1, <1>2, <1>6, <2>1, <2>2, <2>3, SurfaceLeaves
    <2>5. QED
        BY <1>4, <1>6, <2>1, <2>4
<1>7. QED
    BY <1>3, <1>5, <1>6 DEF RemoveDirectory

(***************************************************************************)
(* Steps that change the rows of the adapter and its operations.           *)
(***************************************************************************)

\* Only the operations, the adapter and its dependency change.
LEMMA RowsLeave ==
    ASSUME PurgeInv, UNCHANGED <<item, storage>>, RowsTyped', RowsFit', HistoryTyped',
           adapter.status # "validated" => adapter'.status # "validated",
           adapter'.status = "purged" => \A s \in Surfaces : surface[s].at = Gone,
           dependency' = "released" => adapter'.status = "purged"
    PROVE  Standing' /\ StorageTyped' /\ Forward
<1>1. Items' /\ DeletionOrder' /\ StorageTyped'
    BY TypeParts DEF PurgeInv, Items, DeletionOrder, storage, StorageTyped
<1>2. ItemsTellBytes'
    BY <1>1, ItemsTell DEF storage
<1>3. Forward
    BY SameItemAdvances, SameSurfaceRecedes, TypeParts DEF PurgeInv, Forward, storage
<1>4. QED
    BY <1>1, <1>2, <1>3 DEF Standing

LEMMA BeginFrame ==
    ASSUME PurgeInv, NEW c \in Commands, NEW n \in Operations, Leaves(c), Keeps,
           operation'[n].status # "none", Begin(c, n)
    PROVE  Onward
<1> DEFINE k == [IdleCommand EXCEPT !.phase = "mark", !.op = n]
<1>1. k \in Command /\ k.phase = "mark" /\ k.op = n
    BY DEF IdleCommand, Command, Phases, Surfaces
<1>2. cmd' = [cmd EXCEPT ![c] = k]
    BY DEF Begin
<1> HIDE DEF k
<1>3. Only(c) /\ cmd'[c] = k
    BY <1>1, <1>2 DEF Only, PurgeInv, TypeOK
<1>4. CommandsTyped'
    <2>1. /\ Busy(c)' /\ cmd'[c].op # 0
          /\ operation'[cmd'[c].op].status # "none"
          /\ cmd'[c].phase \notin {"entry", "unlink", "record"}
        BY <1>1, <1>3, PurgeAssumption DEF Busy, Operations
    <2>2. ASSUME NEW d \in Commands \ {c}
          PROVE  /\ Busy(d)' <=> cmd'[d].op # 0
                 /\ Busy(d)' => operation'[cmd'[d].op].status # "none"
                 /\ cmd'[d].phase \in {"entry", "unlink", "record"} => cmd'[d].file # NoFile
        BY <1>3, BusyTyped DEF Only, Busy, PurgeInv, TypeOK, Keeps
    <2>3. QED
        BY <1>3, <2>1, <2>2 DEF CommandsTyped, Only
<1>5. FitsNow(c)'
    BY <1>1, <1>3, RestingFits DEF FitsNow
<1>6. CommandsFit'
    BY <1>3, <1>5, CommandsFrame DEF Leaves, FitsNow
<1>7. TypeOK'
    BY <1>4, TypePartsNext DEF Leaves
<1>8. QED
    BY <1>6, <1>7 DEF Onward, PurgeInv, Leaves, Standing

LEMMA ResumeStep ==
    ASSUME PurgeInv, NEW c \in Commands, Resume(c)
    PROVE  Onward
<1>1. PICK n \in ActiveOperations : Begin(c, n)
    BY DEF Resume
<1>2. n \in Operations /\ operation[n].status # "none"
    BY DEF ActiveOperations, ActiveOperationStatus
<1>3. UNCHANGED <<rows, storage, faults, stops>> /\ disturbed' \in BOOLEAN
    BY <1>1 DEF Resume, Begin
<1>4. HistoryTyped'
    BY <1>3, TypeParts DEF PurgeInv, HistoryTyped
<1>5. Leaves(c) /\ Keeps
    BY <1>3, <1>4, QuietLeaves, TypeParts DEF PurgeInv, rows, storage, StorageTyped
<1>6. QED
    BY <1>1, <1>2, <1>3, <1>5, BeginFrame DEF rows

LEMMA NewItems ==
    /\ NoItem \in Item /\ NoItem.status = "none" /\ NoItem.next = 0
    /\ NoItem.inFlight = NoFile /\ ~NoItem.bound /\ ~NoItem.directory
    /\ RegisteredItem \in Item /\ RegisteredItem.status = "registered" /\ RegisteredItem.next = 0
    /\ RegisteredItem.inFlight = NoFile /\ ~RegisteredItem.bound /\ ~RegisteredItem.directory
<1>1. /\ NoItem \in Item /\ NoItem.status = "none" /\ NoItem.next = 0
      /\ NoItem.inFlight = NoFile /\ ~NoItem.bound /\ ~NoItem.directory
    BY PurgeAssumption DEF NoItem, Item, ItemStatus
<1>2. "registered" \in ItemStatus
    BY DEF ItemStatus, ActiveItemStatus
<1>3. QED
    BY <1>1, <1>2 DEF RegisteredItem, Item

LEMMA RegisterStep ==
    ASSUME PurgeInv, NEW c \in Commands, Register(c)
    PROVE  Onward
<1> DEFINE row(n) == [status |-> "registered", pending |-> adapter.status = "purge_pending",
                      expected |-> adapter.version + 1]
<1>1. PICK n \in Operations :
          /\ operation[n].status = "none"
          /\ operation' = [operation EXCEPT ![n] = row(n)]
          /\ item' = [item EXCEPT ![n] = [s \in Surfaces |-> RegisteredItem]]
          /\ Begin(c, n)
    BY DEF Register
<1>2. /\ adapter' = [status |-> "purge_pending", version |-> adapter.version + 1]
      /\ UNCHANGED <<dependency, storage, faults, stops>> /\ disturbed' \in BOOLEAN
      /\ adapter.status # "purged"
    BY <1>1 DEF Register, Begin, Eligible
<1>3. RowsTyped /\ StorageTyped /\ HistoryTyped
    BY TypeParts DEF PurgeInv
<1>4. /\ RegisteredItem \in Item /\ RegisteredItem.status = "registered"
      /\ RegisteredItem.next = 0 /\ RegisteredItem.inFlight = NoFile
      /\ ~RegisteredItem.bound /\ ~RegisteredItem.directory
    BY NewItems
<1>5. row(n) \in Operation /\ row(n).status = "registered"
    BY <1>3 DEF Operation, ActiveOperationStatus, RowsTyped
<1>6. /\ operation' \in [Operations -> Operation] /\ operation'[n].status = "registered"
      /\ \A m \in Operations \ {n} : operation'[m] = operation[m]
    BY <1>1, <1>3, <1>5 DEF RowsTyped
<1>7. /\ item' \in [Operations -> [Surfaces -> Item]]
      /\ \A s \in Surfaces : item'[n][s] = RegisteredItem
      /\ \A m \in Operations \ {n} : item'[m] = item[m]
    BY <1>1, <1>3, <1>4 DEF RowsTyped
<1>8. RowsTyped'
    BY <1>2, <1>3, <1>6, <1>7 DEF RowsTyped
<1>9. HistoryTyped' /\ StorageTyped'
    BY <1>2, <1>3 DEF HistoryTyped, StorageTyped, storage
<1>10. /\ \A s \in Surfaces : item[n][s].status = "none" /\ item[n][s] = NoItem
       /\ NoItem.next = 0 /\ NoItem.status = "none" /\ ~NoItem.bound
    BY <1>1, NewItems DEF PurgeInv, RowsFit
<1>11. Forward
    <2>1. ASSUME NEW m \in Operations, NEW s \in Surfaces
          PROVE  Advances(item[m][s], item'[m][s])
        <3>1. CASE m = n
            BY <1>4, <1>7, <1>10, <3>1 DEF Advances, NotMoved
        <3>2. CASE m # n
            BY <1>3, <1>7, <3>2, SameItemAdvances
        <3>3. QED
            BY <3>1, <3>2
    <2>2. QED
        BY <1>2, <2>1, SameSurfaceRecedes DEF Forward, storage
<1>12. Items'
    <2>1. ASSUME NEW m \in Operations, NEW s \in Surfaces
          PROVE  ItemFits(m, item'[m][s], surface[s])
        <3>1. CASE m = n
            <4>1. surface[s].at # n
                BY <1>10 DEF PurgeInv, Items, ItemFits, NotMoved
            <4>2. QED
                BY <1>4, <1>7, <3>1, <4>1 DEF ItemFits, Claimed, Journal
        <3>2. CASE m # n
            BY <1>7, <3>2 DEF PurgeInv, Items
        <3>3. QED
            BY <3>1, <3>2
    <2>2. QED
        BY <1>2, <2>1 DEF Items, storage
<1>13. RowsFit'
    <2>1. ASSUME NEW m \in Operations
          PROVE  /\ operation'[m].status = "none" => \A s \in Surfaces : item'[m][s] = NoItem
                 /\ operation'[m].status # "none" =>
                       adapter'.status # "validated" /\ \A s \in Surfaces : item'[m][s].status # "none"
                 /\ operation'[m].status = "completed" => adapter'.status = "purged"
        <3>1. CASE m = n
            BY <1>2, <1>4, <1>6, <1>7, <3>1
        <3>2. CASE m # n
            BY <1>2, <1>6, <1>7, <3>2 DEF PurgeInv, RowsFit
        <3>3. QED
            BY <3>1, <3>2
    <2>2. QED
        BY <1>2, <2>1 DEF PurgeInv, RowsFit, storage
<1>14. DeletionOrder'
    BY <1>2, <1>7, <1>10 DEF PurgeInv, DeletionOrder, storage
<1>15. ItemsTellBytes'
    BY <1>2, <1>12, ItemsTell DEF PurgeInv, ItemsTellBytes, GoneForGood
<1>16. Leaves(c) /\ Keeps
    BY <1>6, <1>8, <1>9, <1>11, <1>12, <1>13, <1>14, <1>15 DEF Leaves, Keeps, Standing
<1>17. QED
    BY <1>1, <1>6, <1>16, BeginFrame

LEMMA MarkStep ==
    ASSUME PurgeInv, NEW c \in Commands, MarkOperationDeleting(c)
    PROVE  Onward
<1> DEFINE n == cmd[c].op
<1>1. /\ Busy(c) /\ Goto(c, "pick") /\ UNCHANGED <<adapter, item, dependency, storage, history>>
    BY DEF MarkOperationDeleting, Busy
<1>2. n \in Operations /\ RowsTyped /\ RowsFit /\ operation[n].status # "none"
    BY <1>1, BusyTyped, TypeParts DEF PurgeInv
<1>3. /\ operation' \in [Operations -> Operation]
      /\ \A m \in Operations : operation'[m] # operation[m] =>
            operation[m].status = "registered" /\ operation'[m].status = "deleting"
    BY ZenonT(40), <1>2 DEF RowsTyped, MarkOperationDeleting, Operation, ActiveOperationStatus
<1>4. RowsTyped'
    BY <1>1, <1>2, <1>3 DEF RowsTyped
<1>5. RowsFit'
    <2>1. \A m \in Operations :
              /\ operation'[m].status = "none" <=> operation[m].status = "none"
              /\ operation'[m].status = "completed" => operation[m].status = "completed"
        BY <1>3
    <2>2. QED
        BY <1>1, <1>2, <2>1 DEF RowsFit, storage
<1>6. Leaves(c) /\ Keeps
    BY <1>1, <1>3, <1>4, <1>5, RowsLeave, HistoryStays
    DEF Leaves, Keeps, PurgeInv, ItemsTellBytes, GoneForGood
<1>7. CommandFits(cmd'[c], ItemOf(c)', RegistryOf(c)', SurfaceOf(c)')
    BY <1>1, GotoFacts, RestingFits DEF PurgeInv, GoesOn, Phases
<1>8. QED
    BY <1>1, <1>6, <1>7, GotoFrame DEF Phases, FileKnown

LEMMA FinalizeStep ==
    ASSUME PurgeInv, NEW c \in Commands, FinalizeOperation(c)
    PROVE  Onward
<1> DEFINE n == cmd[c].op
<1>1. Busy(c) /\ Stop(c) /\ UNCHANGED <<item, dependency, storage, history>>
    BY DEF FinalizeOperation, Busy
<1>2. n \in Operations /\ RowsTyped /\ RowsFit /\ operation[n].status # "none"
    BY <1>1, BusyTyped, TypeParts DEF PurgeInv
<1>3. CASE UNCHANGED operation /\ UNCHANGED adapter
    BY <1>1, <1>3, SameLeaves, StopFrame
<1>4. CASE PurgeEnds(n) /\ operation' = [operation EXCEPT ![n].status = "completed"]
           /\ adapter' = [status |-> "purged", version |-> adapter.version + 1]
    <2>1. /\ operation' \in [Operations -> Operation] /\ operation'[n].status = "completed"
          /\ \A m \in Operations \ {n} : operation'[m] = operation[m]
        BY <1>2, <1>4 DEF RowsTyped, Operation, ActiveOperationStatus
    <2>2. RowsTyped' /\ adapter'.status = "purged"
        BY <1>1, <1>2, <1>4, <2>1 DEF RowsTyped
    <2>3. RowsFit'
        <3>1. \A m \in Operations : operation'[m].status = "none" <=> operation[m].status = "none"
            BY <1>2, <2>1
        <3>2. QED
            BY <1>1, <1>2, <2>2, <3>1 DEF RowsFit, storage
    <2>4. \A s \in Surfaces : surface[s].at = Gone
        BY <1>2, <1>4 DEF PurgeEnds, Statuses, PurgeInv, ItemsTellBytes, GoneForGood
    <2>5. Leaves(c) /\ Keeps
        BY <1>1, <1>2, <2>1, <2>2, <2>3, <2>4, RowsLeave, HistoryStays DEF Leaves, Keeps
    <2>6. QED
        BY <1>1, <2>5, StopFrame
<1>5. CASE operation' = [operation EXCEPT ![n].status = "completed_with_blocks"]
           /\ UNCHANGED adapter
    <2>1. /\ operation' \in [Operations -> Operation]
          /\ operation'[n].status = "completed_with_blocks"
          /\ \A m \in Operations \ {n} : operation'[m] = operation[m]
        BY <1>2, <1>5 DEF RowsTyped, Operation, ActiveOperationStatus
    <2>2. RowsTyped'
        BY <1>1, <1>2, <1>5, <2>1 DEF RowsTyped
    <2>3. RowsFit'
        <3>1. \A m \in Operations :
                  /\ operation'[m].status = "none" <=> operation[m].status = "none"
                  /\ operation'[m].status = "completed" => operation[m].status = "completed"
            BY <1>2, <2>1
        <3>2. QED
            BY <1>1, <1>2, <1>5, <3>1 DEF RowsFit, storage
    <2>4. Leaves(c) /\ Keeps
        BY <1>1, <1>2, <1>5, <2>1, <2>2, <2>3, RowsLeave, HistoryStays
        DEF Leaves, Keeps, PurgeInv, ItemsTellBytes, GoneForGood
    <2>5. QED
        BY <1>1, <2>4, StopFrame
<1>6. QED
    BY <1>3, <1>4, <1>5 DEF FinalizeOperation

LEMMA ReleaseStep ==
    ASSUME PurgeInv, ReleaseDependency
    PROVE  Onward
<1>1. /\ UNCHANGED <<operation, item, storage, cmd, history>>
      /\ adapter.status = "purged" /\ dependency' = "released"
      /\ adapter' = [adapter EXCEPT !.version = @ + 1]
    BY DEF ReleaseDependency, Releasable, LifecyclePurged
<1>2. RowsTyped' /\ adapter'.status = "purged"
    BY <1>1, TypeParts DEF PurgeInv, RowsTyped
<1>3. RowsFit'
    BY <1>1, <1>2 DEF PurgeInv, RowsFit, storage
<1>4. Standing' /\ StorageTyped' /\ HistoryTyped' /\ Forward
    BY <1>1, <1>2, <1>3, RowsLeave, HistoryStays DEF PurgeInv, ItemsTellBytes, GoneForGood
<1>5. CommandsFit' /\ CommandsTyped'
    BY <1>1, TypeParts
    DEF PurgeInv, CommandsFit, CommandsTyped, Busy, ItemOf, RegistryOf, SurfaceOf, storage
<1>6. QED
    BY <1>2, <1>4, <1>5, TypePartsNext DEF Onward, PurgeInv, Standing

(***************************************************************************)
(* The invariant and what it gives.                                        *)
(***************************************************************************)

LEMMA InitPurge == Init => PurgeInv
<1> SUFFICES ASSUME Init PROVE PurgeInv
    OBVIOUS
<1> USE PurgeAssumption
<1>1. /\ NoItem \in Item /\ NoItem.status = "none" /\ NoItem.next = 0
      /\ NoItem.inFlight = NoFile /\ ~NoItem.bound /\ ~NoItem.directory
    BY NewItems
<1>2. NoOperation \in Operation /\ NoOperation.status = "none"
    BY DEF NoOperation, Operation
<1>3. IdleCommand \in Command /\ IdleCommand.phase = "idle" /\ IdleCommand.op = 0
    BY DEF IdleCommand, Command, Phases, Surfaces
<1>4. [at |-> Final, files |-> AllFiles] \in Surface
    BY DEF Surface, Final, Gone
<1>5. RowsTyped
    BY <1>1, <1>2 DEF Init, RowsTyped
<1>6. StorageTyped /\ HistoryTyped
    <2>1. StorageTyped
        BY <1>4 DEF Init, StorageTyped
    <2>2. HistoryTyped
        <3>1. 0 \in 0 .. MaxFaults /\ 0 \in 0 .. MaxStops
            OBVIOUS
        <3>2. faults = 0 /\ stops = 0 /\ disturbed = FALSE
            BY DEF Init
        <3>3. QED
            BY <3>1, <3>2 DEF HistoryTyped
    <2>3. QED
        BY <2>1, <2>2
<1>7. CommandsTyped /\ CommandsFit
    BY <1>3 DEF Init, CommandsTyped, CommandsFit, Busy
<1>8. RowsFit
    BY <1>2 DEF Init, RowsFit
<1>9. Items
    BY <1>1 DEF Init, Items, ItemFits, Claimed, Journal, Final, Operations
<1>10. DeletionOrder /\ ItemsTellBytes
    BY <1>1 DEF Init, DeletionOrder, ItemsTellBytes, JournalAgrees, GoneForGood, Final, Operations, Surfaces
<1>11. QED
    BY <1>5, <1>6, <1>7, <1>8, <1>9, <1>10, TypeParts DEF PurgeInv

LEMMA CommandStepKeeps ==
    ASSUME PurgeInv, NEW c \in Commands, CommandStep(c)
    PROVE  Onward
BY MarkStep, PickStep, LoadStep, InspectStep, IntentStep, RecheckStep, MoveStep, RecoverStep,
   BindStep, UnlinkIntentStep, UnlinkStep, RecordStep, DirectoryIntentStep, DirectoryStep,
   CompleteStep, BlockStep, FinalizeStep
DEF CommandStep

LEMMA NextOnward == PurgeInv /\ [Next]_vars => Onward
<1> SUFFICES ASSUME PurgeInv, [Next]_vars PROVE Onward
    OBVIOUS
<1>1. CASE UNCHANGED vars
    <2>1. TypeOK' /\ RowsFit' /\ Items' /\ DeletionOrder' /\ ItemsTellBytes'
        BY <1>1 DEF vars, PurgeInv, TypeOK, RowsFit, Items, DeletionOrder, ItemsTellBytes,
                    JournalAgrees, GoneForGood
    <2>2. CommandsFit'
        BY <1>1 DEF vars, PurgeInv, CommandsFit, Busy, ItemOf, RegistryOf, SurfaceOf
    <2>3. Forward
        BY <1>1, TypeParts, SameItemAdvances, SameSurfaceRecedes DEF vars, PurgeInv, Forward
    <2>4. QED
        BY <2>1, <2>2, <2>3 DEF Onward, PurgeInv
<1>2. CASE Next
    BY <1>2, RegisterStep, ResumeStep, CommandStepKeeps, FailureStep, SiblingStep, ReleaseStep DEF Next
<1>3. QED
    BY <1>1, <1>2

\* The invariant TLC checks on two commands, files and operations, for any.
THEOREM PurgeInvariant == Spec => []PurgeInv
<1>1. PurgeInv /\ [Next]_vars => PurgeInv'
    BY NextOnward DEF Onward
<1>2. QED
    BY <1>1, InitPurge, PTL DEF Spec

\* Every reachable state is typed; a busy command has an operation somebody
\* registered, and a file whenever it is about to unlink one.
THEOREM PurgeTyped == Spec => []TypeOK
<1>1. PurgeInv => TypeOK
    BY DEF PurgeInv
<1>2. QED
    BY <1>1, PurgeInvariant, PTL

\* However many commands work on a purge, and wherever they stop, the source
\* final leaves its place only after the registry is gone, and neither leaves
\* before its item says so.
THEOREM DeletionOrderHolds == Spec => []DeletionOrder
<1>1. PurgeInv => DeletionOrder
    BY DEF PurgeInv
<1>2. QED
    BY <1>1, PurgeInvariant, PTL

\* The journal never counts a file that is still there, and a completed item,
\* a purged adapter and a released dependency mean that the bytes are gone.
THEOREM ItemsTellBytesHolds == Spec => []ItemsTellBytes
<1>1. PurgeInv => ItemsTellBytes
    BY DEF PurgeInv
<1>2. QED
    BY <1>1, PurgeInvariant, PTL

(***************************************************************************)
(* What is history stays history.                                          *)
(***************************************************************************)

EndedStays ==
    /\ \A n \in Operations :
          operation[n].status \in {"completed", "completed_with_blocks"} =>
              operation'[n] = operation[n]
    /\ adapter.status = "purged" => adapter'.status = "purged"

LEMMA NextEnded == PurgeInv /\ [Next]_vars => EndedStays
<1> SUFFICES ASSUME PurgeInv, [Next]_vars PROVE EndedStays
    OBVIOUS
<1>1. RowsTyped
    BY TypeParts DEF PurgeInv
<1>2. CASE UNCHANGED <<adapter, operation>>
    BY <1>2 DEF EndedStays
<1>3. ASSUME NEW c \in Commands, Register(c)
      PROVE  EndedStays
    <2>1. PICK n \in Operations :
              operation[n].status = "none" /\ \E row : operation' = [operation EXCEPT ![n] = row]
        BY <1>3 DEF Register
    <2>2. \A m \in Operations : operation'[m] # operation[m] => m = n
        BY <1>1, <2>1 DEF RowsTyped
    <2>3. adapter.status # "purged"
        BY <1>3 DEF Register, Eligible
    <2>4. QED
        BY <2>1, <2>2, <2>3 DEF EndedStays
<1>4. ASSUME NEW c \in Commands, MarkOperationDeleting(c) \/ FinalizeOperation(c)
      PROVE  EndedStays
    <2> DEFINE n == cmd[c].op
    <2>1. \A m \in Operations : operation'[m] # operation[m] =>
              m = n /\ operation[m].status \in ActiveOperationStatus
        BY <1>1, <1>4
        DEF MarkOperationDeleting, FinalizeOperation, RowsTyped, ActiveOperationStatus
    <2>2. adapter'.status \in {adapter.status, "purged"}
        BY <1>1, <1>4 DEF MarkOperationDeleting, FinalizeOperation
    <2>3. QED
        BY <2>1, <2>2 DEF EndedStays, ActiveOperationStatus
<1>5. CASE ReleaseDependency
    BY <1>1, <1>5 DEF ReleaseDependency, RowsTyped, EndedStays
<1>6. CASE \E c \in Commands :
              \/ PickItem(c) \/ LoadItem(c) \/ InspectSurface(c) \/ RecheckMove(c)
              \/ RecoverTombstone(c) \/ MoveSurface(c) \/ UnlinkFile(c) \/ RemoveDirectory(c)
              \/ Resume(c) \/ StoreFails(c) \/ CommandStops(c)
    BY <1>2, <1>6
    DEF PickItem, LoadItem, InspectSurface, RecheckMove, RecoverTombstone, MoveSurface,
        UnlinkFile, RemoveDirectory, Resume, StoreFails, CommandStops, rows
<1>7. CASE \E c \in Commands :
              \/ PersistMoveIntent(c) \/ BindMoveIntent(c) \/ RecordUnlinkIntent(c)
              \/ RecordUnlink(c) \/ RecordDirectoryIntent(c) \/ CompleteItem(c) \/ BlockItem(c)
    BY <1>2, <1>7
    DEF PersistMoveIntent, BindMoveIntent, RecordUnlinkIntent, RecordUnlink,
        RecordDirectoryIntent, CompleteItem, BlockItem
<1>8. CASE \E s \in Surfaces : SiblingAppears(s) \/ SiblingRemoved(s)
    BY <1>2, <1>8 DEF SiblingAppears, SiblingRemoved, rows
<1>9. CASE UNCHANGED vars
    BY <1>2, <1>9 DEF vars
<1>10. QED
    BY <1>3, <1>4, <1>5, <1>6, <1>7, <1>8, <1>9 DEF Next, CommandStep

\* No late command takes up an operation that ended or an item that is
\* completed, no final comes back to its place, and purged is for good.
THEOREM PurgeHistoryHolds == Spec => PurgeHistory
<1> DEFINE Past ==
        /\ \A n \in Operations :
              operation[n].status \in {"completed", "completed_with_blocks"} =>
                  operation'[n] = operation[n]
        /\ \A n \in Operations, s \in Surfaces :
              item[n][s].status = "completed" => item'[n][s].status = "completed"
        /\ \A s \in Surfaces : surface[s].at # Final => surface'[s].at # Final
        /\ adapter.status = "purged" => adapter'.status = "purged"
<1>1. PurgeInv /\ [Next]_vars => [Past]_vars
    BY NextOnward, NextEnded DEF Onward, Forward, Advances, Recedes, EndedStays
<1>2. QED
    BY <1>1, PurgeInvariant, PTL DEF Spec, PurgeHistory

(***************************************************************************)
(* Commands that never meet and meet no error.                             *)
(***************************************************************************)

\* The operations and items of a calm state.
CalmRows ==
    /\ \A m, n \in Operations :
          operation[m].status # "none" /\ operation[n].status # "none" => m = n
    /\ \A n \in Operations :
          /\ operation[n].status # "completed_with_blocks"
          /\ operation[n].status # "none" =>
                \A s \in Surfaces : CalmItem(n, item[n][s], surface[s])
CalmNow(c) == CalmCommand(cmd[c], ItemOf(c), RegistryOf(c), SurfaceOf(c))

LEMMA CalmFacts ==
    ASSUME PurgeInv, Calm, NEW c \in Commands, Busy(c)
    PROVE  /\ CalmItem(cmd[c].op, ItemOf(c), SurfaceOf(c))
           /\ CalmNow(c) /\ CalmRows
           /\ \A d \in Commands \ {c} : ~Busy(d)
BY BusyTyped DEF PurgeInv, Calm, CalmRows, CalmNow, ItemOf, SurfaceOf

\* The step of the only command there is.
LEMMA CalmStep ==
    ASSUME PurgeInv, Calm, NEW c \in Commands, Only(c), Busy(c), CalmRows',
           Busy(c)' => CalmNow(c)'
    PROVE  Calm'
<1>1. \A d \in Commands \ {c} : ~Busy(d)'
    BY CalmFacts DEF Only, Busy
<1>2. QED
    BY <1>1 DEF Calm, CalmRows, CalmNow

LEMMA CalmStop ==
    ASSUME PurgeInv, Calm, NEW c \in Commands, Busy(c), CalmRows', Stop(c)
    PROVE  Calm'
<1>1. Only(c) /\ ~Busy(c)'
    BY StopFacts DEF PurgeInv, Busy, IdleCommand
<1>2. QED
    BY <1>1, CalmStep

\* Phases of which a calm state says nothing but that the registry went first.
Easy == {"mark", "pick", "load", "entry", "directory", "complete", "finalize"}

LEMMA CalmEasy ==
    ASSUME PurgeInv, Calm, NEW c \in Commands, Busy(c), CalmRows', Forward,
           NEW phase \in Easy, NEW file, GoesOn(c, phase, cmd[c].surface, file)
    PROVE  Calm'
<1>1. cmd[c].surface = "source" => RegistryOf(c)'.status = "completed"
    BY CalmFacts, BusyFacts
    DEF CalmNow, CalmCommand, GoesOn, RegistryOf, Forward, Advances, Surfaces
<1>2. CalmNow(c)'
    BY <1>1 DEF CalmNow, CalmCommand, GoesOn, Easy
<1>3. QED
    BY <1>2, CalmStep DEF GoesOn

LEMMA CalmNext ==
    ASSUME PurgeInv, Calm, NEW c \in Commands, Busy(c), CalmRows', Forward, NextSurface(c),
           item'[cmd[c].op][cmd[c].surface].status = "completed"
    PROVE  Calm'
<1>1. PICK phase \in {"pick", "finalize"} : GoesOn(c, phase, "source", NoFile)
    BY NextFacts DEF PurgeInv
<1>2. RegistryOf(c)'.status = "completed"
    <2>1. CASE cmd[c].surface = "registry"
        BY <1>1, <2>1 DEF GoesOn, RegistryOf
    <2>2. CASE cmd[c].surface = "source"
        BY <1>1, <2>2, CalmFacts, BusyFacts
        DEF CalmNow, CalmCommand, GoesOn, RegistryOf, Forward, Advances, Surfaces
    <2>3. QED
        BY <2>1, <2>2, BusyFacts DEF Surfaces
<1>3. CalmNow(c)'
    BY <1>1, <1>2 DEF CalmNow, CalmCommand, GoesOn
<1>4. QED
    BY <1>1, <1>3, CalmStep DEF GoesOn

LEMMA CalmSame ==
    ASSUME CalmRows, UNCHANGED <<operation, item, surface>>
    PROVE  CalmRows'
BY DEF CalmRows

LEMMA CalmWrite ==
    ASSUME PurgeInv, Calm, NEW c \in Commands, Busy(c), NEW row, WriteItem(c, row),
           UNCHANGED <<operation, surface>>, CalmItem(cmd[c].op, row, SurfaceOf(c))
    PROVE  CalmRows' /\ item'[cmd[c].op][cmd[c].surface] = row
<1>1. /\ item'[cmd[c].op][cmd[c].surface] = row
      /\ \A n \in Operations, s \in Surfaces :
            n # cmd[c].op \/ s # cmd[c].surface => item'[n][s] = item[n][s]
    BY BusyFacts DEF PurgeInv, TypeOK, WriteItem
<1>2. QED
    BY <1>1, CalmFacts DEF CalmRows, SurfaceOf

LEMMA CalmSurface ==
    ASSUME PurgeInv, Calm, NEW c \in Commands, Busy(c), NEW u, WriteSurface(c, u),
           UNCHANGED <<operation, item>>, CalmItem(cmd[c].op, ItemOf(c), u)
    PROVE  CalmRows' /\ surface'[cmd[c].surface] = u
<1>1. /\ surface'[cmd[c].surface] = u
      /\ \A s \in Surfaces : s # cmd[c].surface => surface'[s] = surface[s]
    BY BusyFacts DEF PurgeInv, TypeOK, WriteSurface
<1>2. cmd[c].op \in Operations /\ operation[cmd[c].op].status # "none"
    BY BusyTyped DEF PurgeInv
<1>3. QED
    BY <1>1, <1>2, CalmFacts DEF CalmRows, ItemOf

\* The registry has gone first, and stays gone.
LEMMA CalmSource ==
    ASSUME PurgeInv, Calm, NEW c \in Commands, Busy(c), Forward,
           NEW phase, NEW file, GoesOn(c, phase, cmd[c].surface, file)
    PROVE  /\ cmd'[c].surface = "source" => RegistryOf(c)'.status = "completed"
           /\ ItemOf(c)' = item'[cmd[c].op][cmd[c].surface]
           /\ SurfaceOf(c)' = surface'[cmd[c].surface]
<1>1. cmd'[c].op = cmd[c].op /\ cmd'[c].surface = cmd[c].surface
    BY DEF GoesOn
<1>2. ItemOf(c)' = item'[cmd[c].op][cmd[c].surface] /\ SurfaceOf(c)' = surface'[cmd[c].surface]
    BY <1>1 DEF ItemOf, SurfaceOf
<1>3. cmd[c].op \in Operations /\ "registry" \in Surfaces
    BY BusyFacts DEF Surfaces
<1>4. item[cmd[c].op]["registry"].status = "completed" =>
          item'[cmd[c].op]["registry"].status = "completed"
    BY <1>3 DEF Forward, Advances
<1>5. cmd[c].surface = "source" => item[cmd[c].op]["registry"].status = "completed"
    BY CalmFacts DEF CalmNow, CalmCommand, RegistryOf
<1>6. QED
    BY <1>1, <1>2, <1>4, <1>5 DEF RegistryOf

LEMMA CalmMark ==
    ASSUME PurgeInv, Calm, Onward, NEW c \in Commands, MarkOperationDeleting(c)
    PROVE  Calm'
<1>1. Busy(c) /\ GoesOn(c, "pick", cmd[c].surface, cmd[c].file) /\ UNCHANGED <<item, surface>>
    BY GotoFacts DEF PurgeInv, MarkOperationDeleting, Busy, Phases, storage
<1>2. \A m \in Operations :
          /\ operation'[m].status = "none" <=> operation[m].status = "none"
          /\ operation'[m].status = "completed_with_blocks" =>
                operation[m].status = "completed_with_blocks"
    BY <1>1, BusyFacts DEF PurgeInv, TypeOK, MarkOperationDeleting
<1>3. CalmRows'
    BY <1>1, <1>2, CalmFacts DEF CalmRows
<1>4. QED
    BY <1>1, <1>3, CalmEasy DEF Easy, Onward

LEMMA CalmPick ==
    ASSUME PurgeInv, Calm, Onward, NEW c \in Commands, PickItem(c)
    PROVE  Calm'
<1>1. Busy(c) /\ UNCHANGED <<operation, item, surface>>
    BY DEF PickItem, Busy, rows, storage
<1>2. CalmRows'
    BY <1>1, CalmFacts, CalmSame
<1>3. ~SourceHeld(c)
    BY <1>1, CalmFacts DEF SourceHeld, CalmNow, CalmCommand, RegistryOf
<1>4. CASE ItemOf(c).status \notin ActiveItemStatus
    <2>1. ItemOf(c).status = "completed"
        BY <1>1, <1>4, CalmFacts, BusyFacts DEF CalmItem, Item, ItemStatus
    <2>2. QED
        BY <1>1, <1>2, <1>4, <2>1, CalmNext DEF PickItem, Onward, ItemOf
<1>5. CASE ItemOf(c).status \in ActiveItemStatus
    <2>1. GoesOn(c, "load", cmd[c].surface, cmd[c].file)
        BY <1>3, <1>5, GotoFacts DEF PurgeInv, PickItem, Phases
    <2>2. QED
        BY <1>1, <1>2, <2>1, CalmEasy DEF Easy, Onward
<1>6. QED
    BY <1>4, <1>5

LEMMA CalmLoad ==
    ASSUME PurgeInv, Calm, Onward, NEW c \in Commands, LoadItem(c)
    PROVE  Calm'
<1>1. Busy(c) /\ UNCHANGED <<operation, item, surface>>
    BY DEF LoadItem, Busy, rows, storage
<1>2. CalmRows'
    BY <1>1, CalmFacts, CalmSame
<1>3. CASE ItemOf(c).status = "completed" /\ NextSurface(c)
    BY <1>1, <1>2, <1>3, CalmNext DEF Onward, ItemOf
<1>4. ASSUME NEW phase \in {"inspect", "recheck"}, Goto(c, phase),
             phase = "inspect" => ItemOf(c).status = "registered",
             phase = "recheck" => ItemOf(c).status = "verified"
      PROVE  Calm'
    <2>1. GoesOn(c, phase, cmd[c].surface, cmd[c].file)
        BY <1>4, GotoFacts DEF PurgeInv, Phases
    <2>2. CalmNow(c)'
        BY <1>1, <1>4, <2>1, CalmSource DEF CalmNow, CalmCommand, GoesOn, Onward, ItemOf
    <2>3. QED
        BY <1>1, <1>2, <2>1, <2>2, CalmStep DEF GoesOn
<1>5. CASE ItemOf(c).status \in {"tombstone_bound", "deleting", "blocked"}
    <2>1. ItemOf(c).bound
        BY <1>1, <1>5, CalmFacts, BusyFacts DEF CalmItem, ItemFits, Claimed
    <2>2. GoesOn(c, "entry", cmd[c].surface, 1)
        BY <1>5, <2>1, FirstFacts DEF LoadItem, PurgeInv
    <2>3. QED
        BY <1>1, <1>2, <2>2, CalmEasy DEF Easy, Onward
<1>6. QED
    BY <1>3, <1>4, <1>5 DEF LoadItem

LEMMA CalmInspect ==
    ASSUME PurgeInv, Calm, Onward, NEW c \in Commands, InspectSurface(c)
    PROVE  Calm'
<1>1. Busy(c) /\ UNCHANGED <<operation, item, surface>>
    BY DEF InspectSurface, Busy, rows, storage
<1>2. ItemOf(c).status = "registered" /\ SurfaceOf(c).at = Final
    BY <1>1, CalmFacts DEF InspectSurface, CalmNow, CalmCommand, CalmItem
<1>3. GoesOn(c, "intent", cmd[c].surface, cmd[c].file)
    BY <1>2, GotoFacts DEF PurgeInv, InspectSurface, Phases
<1>4. CalmNow(c)'
    BY <1>1, <1>2, <1>3, CalmSource DEF CalmNow, CalmCommand, GoesOn, Onward, ItemOf
<1>5. QED
    BY <1>1, <1>3, <1>4, CalmFacts, CalmSame, CalmStep DEF GoesOn

LEMMA CalmIntent ==
    ASSUME PurgeInv, Calm, Onward, NEW c \in Commands, PersistMoveIntent(c)
    PROVE  Calm'
<1> DEFINE row == [ItemOf(c) EXCEPT !.status = "verified"]
<1>1. Busy(c) /\ UNCHANGED <<operation, surface>>
    BY DEF PersistMoveIntent, Busy, storage
<1>2. ItemOf(c).status = "registered" /\ SurfaceOf(c).at = Final
    BY <1>1, CalmFacts DEF PersistMoveIntent, CalmNow, CalmCommand, CalmItem
<1>3. SurfaceOf(c).files = AllFiles /\ cmd[c].op # Final /\ Final # Gone
    BY <1>1, <1>2, BusyFacts, PurgeAssumption
    DEF PurgeInv, RowsFit, SurfaceOf, Operations, Final, Gone
<1>4. row.status = "verified" /\ WriteItem(c, row)
    BY <1>1, <1>2, BusyFacts DEF PersistMoveIntent, Item
<1>5. GoesOn(c, "load", cmd[c].surface, cmd[c].file)
    BY <1>2, GotoFacts DEF PurgeInv, PersistMoveIntent, Phases
<1> HIDE DEF row
<1>6. CalmItem(cmd[c].op, row, SurfaceOf(c))
    BY <1>2, <1>3, <1>4 DEF CalmItem
<1>7. QED
    BY <1>1, <1>4, <1>5, <1>6, CalmWrite, CalmEasy DEF Easy, Onward

LEMMA CalmRecheck ==
    ASSUME PurgeInv, Calm, Onward, NEW c \in Commands, RecheckMove(c)
    PROVE  Calm'
<1>1. Busy(c) /\ UNCHANGED <<operation, item, surface>>
    BY DEF RecheckMove, Busy, rows, storage
<1>2. ItemOf(c).status = "verified"
    BY <1>1, CalmFacts DEF RecheckMove, CalmNow, CalmCommand
<1>3. GoesOn(c, "move", cmd[c].surface, cmd[c].file)
    BY <1>2, GotoFacts DEF PurgeInv, RecheckMove, Phases
<1>4. CalmNow(c)'
    BY <1>1, <1>2, <1>3, CalmSource DEF CalmNow, CalmCommand, GoesOn, Onward, ItemOf
<1>5. QED
    BY <1>1, <1>3, <1>4, CalmFacts, CalmSame, CalmStep DEF GoesOn

\* A surface that is bound next, in its tombstone.
LEMMA CalmToBind ==
    ASSUME PurgeInv, Calm, Onward, NEW c \in Commands, Busy(c), Goto(c, "bind"),
           UNCHANGED item, CalmRows', ItemOf(c).status = "verified"
    PROVE  Calm'
<1>1. GoesOn(c, "bind", cmd[c].surface, cmd[c].file)
    BY GotoFacts DEF PurgeInv, Phases
<1>2. CalmNow(c)'
    BY <1>1, CalmSource DEF CalmNow, CalmCommand, GoesOn, Onward, ItemOf
<1>3. QED
    BY <1>1, <1>2, CalmStep DEF GoesOn

LEMMA CalmMove ==
    ASSUME PurgeInv, Calm, Onward, NEW c \in Commands, MoveSurface(c)
    PROVE  Calm'
<1> DEFINE u == [SurfaceOf(c) EXCEPT !.at = cmd[c].op]
<1>1. Busy(c) /\ UNCHANGED <<operation, item>> /\ SurfaceOf(c).at = Final
    BY DEF MoveSurface, Busy, rows
<1>2. ItemOf(c).status = "verified"
    BY <1>1, CalmFacts DEF MoveSurface, CalmNow, CalmCommand
<1>3. CASE Stop(c) /\ UNCHANGED surface
    BY <1>1, <1>3, CalmFacts, CalmSame, CalmStop
<1>4. CASE WriteSurface(c, u) /\ Goto(c, "bind")
    <2>1. /\ SurfaceOf(c).files = AllFiles /\ SurfaceOf(c) \in Surface
          /\ cmd[c].op \in Operations /\ ItemOf(c) \in Item
        BY <1>1, BusyFacts DEF PurgeInv, RowsFit, SurfaceOf
    <2>2. u.at = cmd[c].op /\ u.files = AllFiles
        BY <2>1 DEF Surface
    <2> HIDE DEF u
    <2>3. cmd[c].op # Gone
        BY <2>1, PurgeAssumption DEF Operations, Gone
    <2>4. ItemOf(c).next < Files => ItemOf(c).next + 1 \in AllFiles
        BY <2>1, PurgeAssumption DEF Item, AllFiles
    <2>5. CalmItem(cmd[c].op, ItemOf(c), u)
        BY <1>2, <2>2, <2>3, <2>4 DEF CalmItem
    <2>6. QED
        BY <1>1, <1>2, <1>4, <2>5, CalmSurface, CalmToBind
<1>5. QED
    BY <1>3, <1>4 DEF MoveSurface

LEMMA CalmRecover ==
    ASSUME PurgeInv, Calm, Onward, NEW c \in Commands, RecoverTombstone(c)
    PROVE  Calm'
<1>1. Busy(c) /\ UNCHANGED <<operation, item, surface>>
    BY DEF RecoverTombstone, Busy, rows, storage
<1>2. /\ ItemOf(c).status = "verified"
      /\ SurfaceOf(c).at = cmd[c].op /\ SurfaceOf(c).files = AllFiles
    BY <1>1, CalmFacts DEF RecoverTombstone, CalmNow, CalmCommand, CalmItem
<1>3. CalmRows'
    BY <1>1, CalmFacts, CalmSame
<1>4. Stop(c) \/ Goto(c, "bind")
    BY <1>2 DEF RecoverTombstone
<1>5. QED
    BY <1>1, <1>2, <1>3, <1>4, CalmStop, CalmToBind

LEMMA CalmBind ==
    ASSUME PurgeInv, Calm, Onward, NEW c \in Commands, BindMoveIntent(c)
    PROVE  Calm'
<1> DEFINE row == [ItemOf(c) EXCEPT !.status = "tombstone_bound", !.bound = TRUE]
<1>1. Busy(c) /\ UNCHANGED <<operation, surface>>
    BY DEF BindMoveIntent, Busy, storage
<1>2. ItemOf(c).status = "verified" /\ ItemOf(c) \in Item
    BY <1>1, CalmFacts, BusyFacts DEF BindMoveIntent, CalmNow, CalmCommand
<1>3. WriteItem(c, row) /\ GoesOn(c, "entry", cmd[c].surface, 1)
    BY <1>2, FirstFacts DEF BindMoveIntent, PurgeInv
<1>4. /\ row.status = "tombstone_bound" /\ row.next = ItemOf(c).next
      /\ row.inFlight = ItemOf(c).inFlight /\ row.directory = ItemOf(c).directory
    BY <1>2 DEF Item
<1> HIDE DEF row
<1>5. CalmItem(cmd[c].op, row, SurfaceOf(c))
    BY <1>1, <1>4, CalmFacts DEF CalmItem
<1>6. QED
    BY <1>1, <1>3, <1>5, CalmWrite, CalmEasy DEF Easy, Onward

\* The next file, or the directory.
LEMMA CalmAfter ==
    ASSUME PurgeInv, Calm, Onward, NEW c \in Commands, Busy(c), cmd[c].file # NoFile,
           cmd' = AfterFile(c), CalmRows'
    PROVE  Calm'
<1>1. PICK phase \in {"directory", "entry"}, file \in {NoFile, cmd[c].file + 1} :
          GoesOn(c, phase, cmd[c].surface, file)
    BY AfterFacts DEF PurgeInv
<1>2. QED
    BY <1>1, CalmEasy DEF Easy, Onward

LEMMA CalmUnlinkIntent ==
    ASSUME PurgeInv, Calm, Onward, NEW c \in Commands, RecordUnlinkIntent(c)
    PROVE  Calm'
<1> DEFINE f == cmd[c].file
           r == ItemOf(c)
           row == [r EXCEPT !.status = "deleting", !.inFlight = f]
<1>1. UNCHANGED <<operation, surface>> /\ cmd[c].phase = "entry" /\ cmd[c].phase \in Bound
    BY DEF RecordUnlinkIntent, Bound, storage
<1>2. Busy(c) /\ r \in Item /\ f \in 1 .. Files /\ f <= r.next + 1 /\ f # NoFile
    BY <1>1, BoundFacts, BusyFacts DEF NoFile
<1>3. r.inFlight \in {NoFile, r.next + 1}
    BY <1>2, BusyFacts DEF ItemFits
<1>4. CASE r.status = "completed" /\ NextSurface(c) /\ UNCHANGED item
    BY <1>1, <1>2, <1>4, CalmFacts, CalmSame, CalmNext DEF Onward, ItemOf
<1>5. CASE cmd' = AfterFile(c) /\ UNCHANGED item
    BY <1>1, <1>2, <1>5, CalmFacts, CalmSame, CalmAfter
<1>6. CASE r.next < f /\ (r.next # f - 1 \/ r.inFlight \notin {NoFile, f})
    BY <1>2, <1>3, <1>6 DEF Item
<1>7. ASSUME r.next = f - 1, WriteItem(c, row),
             cmd' = [cmd EXCEPT ![c].phase = "unlink", ![c].retry = r.inFlight = f]
      PROVE  Calm'
    <2>1. row.status = "deleting" /\ row.inFlight = f /\ row.directory = r.directory
        BY <1>2 DEF Item
    <2> HIDE DEF row
    <2>2. CalmItem(cmd[c].op, row, SurfaceOf(c))
        BY <1>2, <2>1, CalmFacts DEF CalmItem
    <2>3. CalmRows' /\ item'[cmd[c].op][cmd[c].surface] = row
        BY <1>1, <1>2, <1>7, <2>2, CalmWrite
    <2>4. PICK b \in BOOLEAN :
              (b <=> r.inFlight = f) /\ cmd' = [cmd EXCEPT ![c].phase = "unlink", ![c].retry = b]
        BY <1>7
    <2>5. GoesOn(c, "unlink", cmd[c].surface, f) /\ cmd'[c].retry = b
        BY <2>4, RetryFacts DEF PurgeInv, Phases
    <2>6. ~b /\ SurfaceOf(c).at = cmd[c].op => f \in SurfaceOf(c).files
        <3> SUFFICES ASSUME ~b, SurfaceOf(c).at = cmd[c].op PROVE f \in SurfaceOf(c).files
            OBVIOUS
        <3>1. r.inFlight = NoFile /\ r.next < Files /\ r.next + 1 = f
            BY <1>2, <1>3, <1>7, <2>4, PurgeAssumption DEF Item
        <3>2. QED
            BY <1>2, <3>1, CalmFacts DEF CalmItem
    <2>7. CalmNow(c)'
        BY <1>1, <1>2, <2>1, <2>3, <2>5, <2>6, CalmSource
        DEF CalmNow, CalmCommand, GoesOn, Onward, SurfaceOf
    <2>8. QED
        BY <1>2, <2>3, <2>5, <2>7, CalmStep DEF GoesOn
<1>8. QED
    BY <1>4, <1>5, <1>6, <1>7 DEF RecordUnlinkIntent

LEMMA CalmUnlink ==
    ASSUME PurgeInv, Calm, Onward, NEW c \in Commands, UnlinkFile(c)
    PROVE  Calm'
<1> DEFINE f == cmd[c].file
           u == [SurfaceOf(c) EXCEPT !.files = @ \ {f}]
<1>1. cmd[c].phase = "unlink" /\ cmd[c].phase \in Bound /\ UNCHANGED <<operation, item>>
    BY DEF UnlinkFile, Bound, rows
<1>2. /\ Busy(c) /\ ItemOf(c) \in Item /\ SurfaceOf(c) \in Surface
      /\ f \in 1 .. Files /\ f # NoFile
      /\ ItemOf(c).bound /\ ItemOf(c).status \notin NotMoved \union {"verified"}
    BY <1>1, BoundFacts, BusyFacts DEF NoFile, ItemFits
<1>3. /\ ItemOf(c).inFlight = f
      /\ ~cmd[c].retry /\ SurfaceOf(c).at = cmd[c].op => f \in SurfaceOf(c).files
    BY <1>1, <1>2, CalmFacts DEF CalmNow, CalmCommand
<1>4. CASE Stop(c) /\ UNCHANGED surface
    BY <1>1, <1>2, <1>4, CalmFacts, CalmSame, CalmStop
<1>5. ASSUME CalmRows', Goto(c, "record")
      PROVE  Calm'
    <2>1. GoesOn(c, "record", cmd[c].surface, f)
        BY <1>5, GotoFacts DEF PurgeInv, Phases
    <2>2. CalmNow(c)'
        BY <1>1, <1>2, <1>3, <2>1, CalmSource DEF CalmNow, CalmCommand, GoesOn, Onward, ItemOf
    <2>3. QED
        BY <1>2, <1>5, <2>1, <2>2, CalmStep DEF GoesOn
<1>6. CASE SurfaceOf(c).at = cmd[c].op /\ WriteSurface(c, u) /\ Goto(c, "record")
    <2>1. u.at = SurfaceOf(c).at
        BY <1>2 DEF Surface
    <2> HIDE DEF u
    <2>2. CalmItem(cmd[c].op, ItemOf(c), u)
        BY <1>2, <1>3, <2>1, CalmFacts DEF CalmItem, NotMoved
    <2>3. QED
        BY <1>1, <1>2, <1>5, <1>6, <2>2, CalmSurface
<1>7. CASE /\ SurfaceOf(c).at = cmd[c].op /\ f \notin SurfaceOf(c).files
           /\ Goto(c, IF cmd[c].retry THEN "record" ELSE "block") /\ UNCHANGED surface
    BY <1>1, <1>2, <1>3, <1>5, <1>7, CalmFacts, CalmSame
<1>8. QED
    BY <1>4, <1>6, <1>7 DEF UnlinkFile

LEMMA CalmRecord ==
    ASSUME PurgeInv, Calm, Onward, NEW c \in Commands, RecordUnlink(c)
    PROVE  Calm'
<1> DEFINE f == cmd[c].file
           r == ItemOf(c)
           u == SurfaceOf(c)
           top == IF r.next > f THEN r.next ELSE f
           row == [r EXCEPT !.next = top, !.inFlight = NoFile]
<1>1. /\ cmd[c].phase = "record" /\ cmd[c].phase \in Bound
      /\ UNCHANGED <<operation, surface>>
      /\ WriteItem(c, row) /\ cmd' = AfterFile(c)
    BY DEF RecordUnlink, Bound, WriteItem, storage
<1>2. /\ Busy(c) /\ r \in Item /\ f \in 1 .. Files /\ f # NoFile
      /\ r.bound /\ r.status \notin NotMoved \union {"verified"}
      /\ r.inFlight \in {NoFile, r.next + 1}
    BY <1>1, BoundFacts, BusyFacts DEF NoFile, ItemFits
<1>3. r.next + 1 = f
    BY <1>1, <1>2, CalmFacts DEF CalmNow, CalmCommand
<1>4. row.status = r.status /\ row.next = f /\ row.directory = r.directory
    <2>1. top = f
        BY <1>2, <1>3 DEF Item
    <2> HIDE DEF top
    <2>2. QED
        BY <1>2, <2>1 DEF Item
<1> HIDE DEF row
<1>5. u.at = cmd[c].op /\ f < Files => f + 1 \in u.files
    <2> SUFFICES ASSUME u.at = cmd[c].op, f < Files PROVE f + 1 \in u.files
        OBVIOUS
    <2>1. \A g \in r.next + 1 .. Files : g \in u.files \/ g = r.next + 1
        BY <1>2, BusyFacts DEF ItemFits, Journal
    <2>2. f + 1 \in r.next + 1 .. Files /\ f + 1 # r.next + 1
        BY <1>2, <1>3, PurgeAssumption DEF Item
    <2>3. QED
        BY <2>1, <2>2
<1>6. CalmItem(cmd[c].op, row, u)
    BY <1>2, <1>4, <1>5, CalmFacts DEF CalmItem, NotMoved
<1>7. QED
    BY <1>1, <1>2, <1>6, CalmWrite, CalmAfter

LEMMA CalmDirectoryIntent ==
    ASSUME PurgeInv, Calm, Onward, NEW c \in Commands, RecordDirectoryIntent(c)
    PROVE  Calm'
<1> DEFINE r == ItemOf(c)
           row == [r EXCEPT !.directory = TRUE]
<1>1. /\ cmd[c].phase = "directory" /\ cmd[c].phase \in Bound
      /\ UNCHANGED <<operation, surface>>
    BY DEF RecordDirectoryIntent, Bound, storage
<1>2. /\ Busy(c) /\ r \in Item /\ r.next = Files
      /\ r.inFlight \in {NoFile, r.next + 1}
      /\ SurfaceOf(c).at \in {cmd[c].op, Gone}
    BY <1>1, BoundFacts, BusyFacts DEF CommandFits, ItemFits
<1>3. r.inFlight = NoFile
    BY <1>2, PurgeAssumption DEF Item, AllFiles
<1>4. /\ WriteItem(c, row)
      /\ cmd' = [cmd EXCEPT ![c].phase = "rmdir", ![c].retry = DirectoryMayBeMissing(c)]
    BY <1>2, <1>3 DEF RecordDirectoryIntent
<1>5. /\ row.status = r.status /\ row.next = r.next
      /\ row.inFlight = r.inFlight /\ row.directory
    BY <1>2 DEF Item
<1> HIDE DEF row
<1>6. CalmItem(cmd[c].op, row, SurfaceOf(c))
    BY <1>2, <1>5, CalmFacts DEF CalmItem
<1>7. CalmRows' /\ item'[cmd[c].op][cmd[c].surface] = row
    BY <1>1, <1>2, <1>4, <1>6, CalmWrite
<1>8. DirectoryMayBeMissing(c) \in BOOLEAN
    BY <1>2 DEF DirectoryMayBeMissing, Item
<1>9. PICK b \in BOOLEAN :
          b = r.directory /\ cmd' = [cmd EXCEPT ![c].phase = "rmdir", ![c].retry = b]
    BY <1>4, <1>8 DEF DirectoryMayBeMissing
<1>10. GoesOn(c, "rmdir", cmd[c].surface, cmd[c].file) /\ cmd'[c].retry = b
    BY <1>9, RetryFacts DEF PurgeInv, Phases
<1>11. ~b => SurfaceOf(c).at = cmd[c].op
    BY <1>2, <1>9, CalmFacts DEF CalmItem
<1>12. CalmNow(c)'
    BY <1>1, <1>2, <1>5, <1>7, <1>10, <1>11, CalmSource
    DEF CalmNow, CalmCommand, GoesOn, Onward, SurfaceOf
<1>13. QED
    BY <1>2, <1>7, <1>10, <1>12, CalmStep DEF GoesOn

LEMMA CalmDirectory ==
    ASSUME PurgeInv, Calm, Onward, NEW c \in Commands, RemoveDirectory(c)
    PROVE  Calm'
<1> DEFINE u == [SurfaceOf(c) EXCEPT !.at = Gone]
           r == ItemOf(c)
<1>1. cmd[c].phase = "rmdir" /\ cmd[c].phase \in Bound /\ UNCHANGED <<operation, item>>
    BY DEF RemoveDirectory, Bound, rows
<1>2. /\ Busy(c) /\ r \in Item /\ SurfaceOf(c) \in Surface /\ r.next = Files
      /\ r.bound /\ r.status \notin NotMoved \union {"verified"}
      /\ cmd[c].op \in Operations
    BY <1>1, BoundFacts, BusyFacts DEF CommandFits, ItemFits
<1>3. r.directory /\ (~cmd[c].retry => SurfaceOf(c).at = cmd[c].op)
    BY <1>1, <1>2, CalmFacts DEF CalmNow, CalmCommand
<1>4. SurfaceOf(c).at = cmd[c].op => SurfaceOf(c).files = {}
    <2> SUFFICES ASSUME SurfaceOf(c).at = cmd[c].op PROVE SurfaceOf(c).files = {}
        OBVIOUS
    <2>1. \A g \in 1 .. Files : g \notin SurfaceOf(c).files
        BY <1>2, BusyFacts DEF ItemFits, Journal
    <2>2. QED
        BY <1>2, <2>1 DEF Surface, AllFiles
<1>5. ASSUME CalmRows', Goto(c, "complete")
      PROVE  Calm'
    <2>1. GoesOn(c, "complete", cmd[c].surface, cmd[c].file)
        BY <1>5, GotoFacts DEF PurgeInv, Phases
    <2>2. QED
        BY <1>2, <1>5, <2>1, CalmEasy DEF Easy, Onward
<1>6. CASE SurfaceOf(c).at = cmd[c].op
    <2>1. WriteSurface(c, u) /\ Goto(c, "complete")
        BY <1>4, <1>6 DEF RemoveDirectory
    <2>2. u.at = Gone /\ cmd[c].op # Gone
        BY <1>2, PurgeAssumption DEF Surface, Operations, Gone
    <2> HIDE DEF u
    <2>3. CalmItem(cmd[c].op, r, u)
        BY <1>2, <1>3, <2>2, CalmFacts DEF CalmItem, NotMoved
    <2>4. QED
        BY <1>1, <1>2, <1>5, <2>1, <2>3, CalmSurface
<1>7. CASE SurfaceOf(c).at # cmd[c].op
    <2>1. Goto(c, "complete") /\ UNCHANGED surface
        BY <1>3, <1>7 DEF RemoveDirectory
    <2>2. QED
        BY <1>1, <1>2, <1>5, <2>1, CalmFacts, CalmSame
<1>8. QED
    BY <1>6, <1>7

LEMMA CalmComplete ==
    ASSUME PurgeInv, Calm, Onward, NEW c \in Commands, CompleteItem(c)
    PROVE  Calm'
<1> DEFINE r == ItemOf(c)
           row == [r EXCEPT !.status = "completed", !.inFlight = NoFile]
<1>1. /\ cmd[c].phase = "complete" /\ cmd[c].phase \in Bound
      /\ UNCHANGED <<operation, surface>> /\ WriteItem(c, row) /\ NextSurface(c)
    BY DEF CompleteItem, Bound, storage
<1>2. Busy(c) /\ r \in Item /\ SurfaceOf(c).at = Gone /\ cmd[c].op \in Operations
    BY <1>1, BoundFacts, BusyFacts DEF CommandFits
<1>3. row.status = "completed" /\ row.directory = r.directory
    BY <1>2 DEF Item
<1> HIDE DEF row
<1>4. cmd[c].op # Gone
    BY <1>2, PurgeAssumption DEF Operations, Gone
<1>5. CalmItem(cmd[c].op, row, SurfaceOf(c))
    BY <1>2, <1>3, <1>4, CalmFacts DEF CalmItem
<1>6. QED
    BY <1>1, <1>2, <1>3, <1>5, CalmWrite, CalmNext DEF Onward

LEMMA CalmFinalize ==
    ASSUME PurgeInv, Calm, NEW c \in Commands, FinalizeOperation(c)
    PROVE  Calm'
<1> DEFINE n == cmd[c].op
<1>1. Busy(c) /\ Stop(c) /\ UNCHANGED <<item, surface>>
    BY DEF FinalizeOperation, Busy, storage
<1>2. n \in Operations /\ operation[n].status # "none" /\ operation \in [Operations -> Operation]
    BY <1>1, BusyTyped DEF PurgeInv, TypeOK
<1>3. "blocked" \notin Statuses(n) /\ Statuses(n) # {}
    BY <1>1, <1>2, CalmFacts DEF CalmRows, CalmItem, Statuses, Surfaces
<1>4. UNCHANGED operation \/ operation' = [operation EXCEPT ![n].status = "completed"]
    BY <1>3 DEF FinalizeOperation, PurgeEnds
<1>5. \A m \in Operations :
          /\ operation'[m].status = "none" <=> operation[m].status = "none"
          /\ operation'[m].status = "completed_with_blocks" =>
                operation[m].status = "completed_with_blocks"
    BY <1>2, <1>4 DEF Operation
<1>6. CalmRows'
    BY <1>1, <1>5, CalmFacts DEF CalmRows
<1>7. QED
    BY <1>1, <1>6, CalmStop

\* The first step of a command that finds no other at work.
LEMMA CalmBegin ==
    ASSUME PurgeInv, NEW c \in Commands, NEW n \in Operations, Begin(c, n), ~disturbed',
           CalmRows'
    PROVE  Calm'
<1> DEFINE k == [IdleCommand EXCEPT !.phase = "mark", !.op = n]
<1>1. k \in Command /\ k.phase = "mark" /\ k.op = n /\ k.surface = "registry"
    BY DEF IdleCommand, Command, Phases, Surfaces
<1>2. cmd' = [cmd EXCEPT ![c] = k] /\ ~Overlaps(c)
    BY DEF Begin
<1> HIDE DEF k
<1>3. cmd'[c] = k /\ \A d \in Commands \ {c} : cmd'[d] = cmd[d]
    BY <1>1, <1>2 DEF PurgeInv, TypeOK
<1>4. \A d \in Commands \ {c} : ~Busy(d)'
    BY <1>2, <1>3 DEF Overlaps, Busy
<1>5. CalmNow(c)'
    BY <1>1, <1>3 DEF CalmNow, CalmCommand
<1>6. QED
    BY <1>4, <1>5 DEF Calm, CalmRows, CalmNow

LEMMA CalmResume ==
    ASSUME PurgeInv, Calm, NEW c \in Commands, Resume(c), ~disturbed'
    PROVE  Calm'
<1>1. PICK n \in Operations : Begin(c, n)
    BY DEF Resume, ActiveOperations
<1>2. CalmRows'
    BY DEF Calm, CalmRows, Resume, rows, storage
<1>3. QED
    BY <1>1, <1>2, CalmBegin

\* A purge that is registered in a calm state is the first: one that ended
\* without a block has left the adapter purged.
LEMMA CalmRegister ==
    ASSUME PurgeInv, Calm, NEW c \in Commands, Register(c), ~disturbed'
    PROVE  Calm'
<1>1. PICK n \in Operations :
          /\ operation' = [operation EXCEPT ![n] =
                [status |-> "registered", pending |-> adapter.status = "purge_pending",
                 expected |-> adapter.version + 1]]
          /\ item' = [item EXCEPT ![n] = [s \in Surfaces |-> RegisteredItem]]
          /\ Begin(c, n)
    BY DEF Register
<1>2. \A m \in Operations : operation[m].status = "none"
    BY DEF Register, Eligible, ActiveOperations, Calm, PurgeInv, RowsFit, TypeOK, Operation
<1>3. \A s \in Surfaces : surface[s].at = Final /\ surface'[s] = surface[s]
    BY <1>2, NewItems DEF PurgeInv, RowsFit, DeletionOrder, Register, storage
<1>4. /\ operation'[n].status = "registered"
      /\ \A m \in Operations \ {n} : operation'[m].status = "none"
      /\ \A s \in Surfaces : item'[n][s] = RegisteredItem
    BY <1>1, <1>2 DEF PurgeInv, TypeOK
<1>5. \A s \in Surfaces : CalmItem(n, RegisteredItem, surface'[s])
    BY <1>3, NewItems, PurgeAssumption DEF CalmItem, Operations, Final, Gone
<1>6. CalmRows'
    BY <1>4, <1>5 DEF CalmRows
<1>7. QED
    BY <1>1, <1>6, CalmBegin

\* Nobody works on the rows or the bytes.
LEMMA CalmStays ==
    ASSUME Calm, UNCHANGED <<operation, item, surface, cmd>>
    PROVE  Calm'
BY DEF Calm, Busy, ItemOf, RegistryOf, SurfaceOf

LEMMA CalmCommandStep ==
    ASSUME PurgeInv, Calm, Onward, NEW c \in Commands, CommandStep(c)
    PROVE  Calm'
<1>1. ~BlockItem(c)
    BY CalmFacts DEF BlockItem, Busy, CalmNow, CalmCommand
<1>2. QED
    BY <1>1, CalmMark, CalmPick, CalmLoad, CalmInspect, CalmIntent, CalmRecheck, CalmMove,
       CalmRecover, CalmBind, CalmUnlinkIntent, CalmUnlink, CalmRecord, CalmDirectoryIntent,
       CalmDirectory, CalmComplete, CalmFinalize
    DEF CommandStep

LEMMA NextCalm == CalmInv /\ [Next]_vars => CalmInv'
<1> SUFFICES ASSUME CalmInv, [Next]_vars, ~disturbed' PROVE Calm'
    BY NextOnward DEF CalmInv, Onward
<1>1. PurgeInv /\ Onward
    BY NextOnward DEF CalmInv
<1>2. ASSUME NEW c \in Commands, Register(c) PROVE Calm'
    BY <1>1, <1>2, CalmRegister DEF CalmInv, Register, Begin
<1>3. ASSUME NEW c \in Commands, Resume(c) PROVE Calm'
    BY <1>1, <1>3, CalmResume DEF CalmInv, Resume, Begin
<1>4. ASSUME NEW c \in Commands, CommandStep(c) PROVE Calm'
    <2>1. disturbed' = disturbed
        BY <1>4
        DEF CommandStep, MarkOperationDeleting, PickItem, LoadItem, InspectSurface,
            PersistMoveIntent, RecheckMove, MoveSurface, RecoverTombstone, BindMoveIntent,
            RecordUnlinkIntent, UnlinkFile, RecordUnlink, RecordDirectoryIntent,
            RemoveDirectory, CompleteItem, BlockItem, FinalizeOperation, history
    <2>2. QED
        BY <1>1, <1>4, <2>1, CalmCommandStep DEF CalmInv
<1>5. ASSUME NEW c \in Commands, CommandStops(c) PROVE Calm'
    <2>1. Calm /\ Busy(c) /\ Stop(c) /\ UNCHANGED <<operation, item, surface>>
        BY <1>5 DEF CalmInv, CommandStops, Busy, rows, storage
    <2>2. QED
        BY <1>1, <2>1, CalmFacts, CalmSame, CalmStop
<1>6. \A c \in Commands : ~StoreFails(c)
    BY DEF StoreFails
<1>7. CASE \/ \E s \in Surfaces : SiblingAppears(s) \/ SiblingRemoved(s)
           \/ ReleaseDependency \/ UNCHANGED vars
    <2>1. UNCHANGED <<operation, item, surface, cmd, disturbed>>
        BY <1>7 DEF SiblingAppears, SiblingRemoved, ReleaseDependency, vars, rows, storage, history
    <2>2. QED
        BY <2>1, CalmStays DEF CalmInv
<1>8. QED
    BY <1>2, <1>3, <1>4, <1>5, <1>6, <1>7 DEF Next

\* "A crash after an unlink or directory removal is accepted only for the
\* matching durable step": commands that never overlap, on a file system
\* that works, may stop anywhere, and none of them ever blocks an item.
THEOREM CrashesNeverBlockHolds == Spec => []CrashesNeverBlock
<1>1. Init => CalmInv
    <2>1. ASSUME Init PROVE Calm
        BY <2>1 DEF Init, Calm, Busy, IdleCommand, NoOperation
    <2>2. QED
        BY <2>1, InitPurge DEF CalmInv
<1>2. CalmInv => CrashesNeverBlock
    BY NewItems DEF CalmInv, PurgeInv, RowsFit, Calm, CalmItem, CrashesNeverBlock
<1>3. QED
    BY <1>1, <1>2, NextCalm, PTL DEF Spec
=============================================================================
