---------------------------- MODULE RosbagImport ----------------------------
(***************************************************************************)
(* The import of a rosbag2 recording: inspectRosbag2() and importRosbag2() *)
(* (rosbag2_importer.cpp) on the worker thread that SerialSession starts   *)
(* (serial_session.cpp:2840-3035), its cancellation, and the closures the  *)
(* worker posts to the thread of the user interface.                       *)
(*                                                                         *)
(* The bag belongs to somebody else, who may add a message while it is     *)
(* read; each query sees the database as it is when the query begins.  The *)
(* destination may come into being at any moment too.  Left out: text and  *)
(* CDR decoding (a message is mapped, damaged or of an unknown type), the  *)
(* limits on sizes and counters, progress reports, topics added to a bag   *)
(* meanwhile, what an inspection says of metadata.yaml, and the removal of *)
(* the temporary directory failing, which the code ignores.                *)
(***************************************************************************)
EXTENDS Integers, Sequences, FiniteSets, SequencesExt

CONSTANTS
    Databases,   \* 1..n, in the order of their file names
    Topics,
    Cdr,         \* the topics whose serialization format is "cdr"
    Listed,      \* of each database, the topics it lists: some may have no message
    Bag,         \* the messages the databases hold at first
    Added,       \* <<database, message>> pairs that its owner may add
    Declared,    \* message counts that metadata.yaml may give; -1: there is no such file
    MaxTasks     \* bound: inspections and imports started

Kinds == {"mapped", "damaged", "unknown"}
Message == [time : Nat, row : Nat, topic : Topics, kind : Kinds]

(* The order of (timestamp, id), in which a database delivers its messages. *)
Before(a, b) == a.time < b.time \/ (a.time = b.time /\ a.row < b.row)
InOrder(list) == \A i, j \in DOMAIN list : i < j => Before(list[i], list[j])

ASSUME DatabasesAssumption == 
    IsFiniteSet(Databases) /\ Databases # {} /\ Databases = 1..Cardinality(Databases)
ASSUME TopicsAssumption == Cdr \subseteq Topics /\ Listed \in [Databases -> SUBSET Topics]
ASSUME BagAssumption ==
    /\ Bag \in [Databases -> Seq(Message)]
    /\ \A d \in Databases : InOrder(Bag[d])
ASSUME AddedAssumption == Added \subseteq Databases \X Message
ASSUME DeclaredAssumption == Declared \subseteq Int
ASSUME MaxTasksAssumption == MaxTasks \in Nat

VARIABLES
    bag,         \* the messages of each database, sorted by (timestamp, id)
    declared,    \* the count in metadata.yaml
    recording,   \* recorder_.isRecording()
    replaying,   \* a session is open for replay
    importing,   \* rosbagImporting_
    call,        \* the operation of the user interface that waits in join(): "none" if it is idle
    worker,      \* where the thread of rosbagImportWorker_ stands
    stop,        \* its stop token
    task,        \* its options: [kind, selection]
    position,    \* the next database of a loop
    cursors,     \* the rows each cursor still has to deliver
    result,      \* Rosbag2ImportResult: counts, and what became of the task
    log,         \* raw/stream.ldraw in the temporary directory
    temporary,   \* whether that directory exists
    destination, \* "absent", "session", or somebody's: an "empty" directory, or anything "other"
    published,   \* the session at the destination: its log, its counts, its validation status and,
                 \* as history, what the cursors were offered
    inbox,       \* results posted to the user interface
    snapshot,    \* history: what the cursors of this import started with
    tasks        \* history: tasks started

bagVars == <<bag, declared>>
ui == <<recording, replaying, importing, call>>
thread == <<worker, stop, task, position, cursors, result, log>>
disk == <<temporary, destination, published>>
vars == <<bagVars, ui, thread, disk, inbox, snapshot, tasks>>

(* The messages of some topics, in their order. *)
Of(list, selection) ==
    LET first[n \in 0..Len(list)] ==    \* those of the first n
            IF n = 0 THEN <<>>
            ELSE IF list[n].topic \in selection THEN Append(first[n - 1], list[n]) ELSE first[n - 1]
    IN  first[Len(list)]

nothing == [messages |-> 0, all |-> 0, topics |-> {}, samples |-> 0, failures |-> 0,
            status |-> "none", outcome |-> "running"]
emptySession == [log |-> <<>>, messages |-> 0, samples |-> 0, failures |-> 0, status |-> "none",
                 offered |-> [d \in Databases |-> <<>>]]

Init ==
    /\ bag = Bag /\ declared \in Declared
    /\ recording = FALSE /\ replaying = FALSE /\ importing = FALSE /\ call = "none"
    /\ worker = "none" /\ stop = FALSE /\ task = [kind |-> "none", selection |-> {}]
    /\ position = 1 /\ cursors = [d \in Databases |-> <<>>] /\ result = nothing /\ log = <<>>
    /\ temporary = FALSE /\ destination = "absent" /\ published = emptySession
    /\ inbox = <<>> /\ snapshot = [d \in Databases |-> <<>>] /\ tasks = 0

----------------------------------------------------------------------------
(* The user interface *)

Idle == call = "none"

(* inspectRosbag2() and importRosbag2(): refused while recording or while a task is under way;
   then they wait for the thread of the last task. *)
Begin(kind, selection) ==
    /\ Idle /\ tasks < MaxTasks
    /\ ~recording
    /\ kind = "import" => selection # {}
    /\ ~importing
    /\ importing' = TRUE /\ call' = "start"
    /\ task' = [kind |-> kind, selection |-> selection]
    /\ tasks' = tasks + 1
    /\ UNCHANGED <<bagVars, recording, replaying, worker, stop, position, cursors, result, log, disk,
                   inbox, snapshot>>

Spawn ==
    /\ call = "start" /\ worker \in {"none", "exited"}
    /\ call' = "none"
    /\ worker' = IF task.kind = "inspect" THEN "inspect" ELSE "check"
    /\ stop' = FALSE /\ position' = 1 /\ result' = nothing /\ log' = <<>>
    /\ cursors' = [d \in Databases |-> <<>>] /\ snapshot' = cursors'
    /\ UNCHANGED <<bagVars, recording, replaying, importing, task, disk, inbox, tasks>>

(* cancelRosbag2Import() *)
Cancel ==
    /\ Idle /\ importing /\ worker # "none"
    /\ stop' = TRUE
    /\ UNCHANGED <<bagVars, ui, worker, task, position, cursors, result, log, disk, inbox, snapshot,
                   tasks>>

(* The posted closure: the flag is lowered, and a finished import is opened for replay, which
   openReplaySession() refuses while recording. *)
FlagLowered == FALSE
HandleResult ==
    /\ Idle /\ inbox # <<>>
    /\ inbox' = Tail(inbox)
    /\ importing' = FlagLowered
    /\ replaying' = (replaying \/ (Head(inbox) = "imported" /\ ~recording))
    /\ UNCHANGED <<bagVars, recording, call, thread, disk, snapshot, tasks>>

(* A recording may begin while an import runs: startSession() asks only for the replay. *)
ToggleRecording ==
    /\ Idle
    /\ recording \/ ~replaying
    /\ recording' = ~recording
    /\ UNCHANGED <<bagVars, replaying, importing, call, thread, disk, inbox, snapshot, tasks>>

(* ~SerialSession(): the thread is told to stop and joined; what it posts is never handled. *)
Quit ==
    /\ Idle
    /\ importing' = FALSE /\ call' = "quit"
    /\ stop' = (worker # "none")
    /\ UNCHANGED <<bagVars, recording, replaying, worker, task, position, cursors, result, log, disk,
                   inbox, snapshot, tasks>>

JoinAtQuit ==
    /\ call = "quit" /\ worker \in {"none", "exited"}
    /\ call' = "gone" /\ worker' = "none" /\ inbox' = <<>>
    /\ UNCHANGED <<bagVars, recording, replaying, importing, stop, task, position, cursors, result,
                   log, disk, snapshot, tasks>>

----------------------------------------------------------------------------
(* The worker *)

workerRest == <<bagVars, ui, stop, task, tasks>>

(* Returning from either function destroys its locals, TemporaryTree the last of them. *)
LeftBehind == temporary
CleanedUp == FALSE
Ends(outcome) ==
    /\ worker' = "post"
    /\ result' = [result EXCEPT !.outcome = outcome]
    /\ temporary' = CleanedUp
    /\ UNCHANGED <<position, cursors, log, destination, published, inbox, snapshot>>

(* A file, a directory or a query that cannot be opened, read or written. *)
IOFails ==
    /\ worker \in {"inspect", "check", "count", "countAll", "select", "compare", "merge", "publish"}
    /\ Ends("failed")
    /\ UNCHANGED workerRest

(* inspectRosbag2(): cancellation is looked for before each database and at the end. *)
Inspect ==
    /\ worker = "inspect"
    /\ IF stop \/ position > Cardinality(Databases)
       THEN Ends(IF stop THEN "cancelled" ELSE "inspected")
       ELSE /\ result' = [result EXCEPT !.messages = @ + Len(bag[position]),
                                        !.topics = @ \cup Listed[position]]
            /\ position' = position + 1
            /\ UNCHANGED <<worker, cursors, log, disk, inbox, snapshot>>
    /\ UNCHANGED workerRest

(* importRosbag2() begins: the destination must not exist; the temporary directory is created. *)
Unchecked == TRUE                           \* a mutant: the rename is trusted to refuse
DestinationFree == destination = "absent"

CheckDestination ==
    /\ worker = "check"
    /\ IF DestinationFree
       THEN /\ worker' = "count" /\ temporary' = TRUE
            /\ UNCHANGED <<position, cursors, result, log, destination, published, inbox, snapshot>>
       ELSE Ends("failed")
    /\ UNCHANGED workerRest

(* Of each database: what is selected is counted; if metadata.yaml gives a count, a second query
   counts everything ... *)
Selected == task.selection \cap Cdr

CountMessages ==
    /\ worker = "count"
    /\ result' = [result EXCEPT !.messages = @ + Len(Of(bag[position], Selected)),
                                !.topics = @ \cup (Listed[position] \cap Selected)]
    /\ worker' = IF declared >= 0 THEN "countAll" ELSE "select"
    /\ UNCHANGED <<position, cursors, log, disk, inbox, snapshot, workerRest>>

CountAll ==
    /\ worker = "countAll"
    /\ result' = [result EXCEPT !.all = @ + Len(bag[position])]
    /\ worker' = "select"
    /\ UNCHANGED <<position, cursors, log, disk, inbox, snapshot, workerRest>>

(* ... and a last one delivers the selected messages in the order of (timestamp, id). *)
StartCursor ==
    /\ worker = "select"
    /\ cursors' = [cursors EXCEPT ![position] = Of(bag[position], Selected)]
    /\ snapshot' = cursors'
    /\ position' = position + 1
    /\ worker' = IF position = Cardinality(Databases) THEN "compare" ELSE "count"
    /\ UNCHANGED <<result, log, disk, inbox, workerRest>>

(* validateMetadata(): metadata.yaml may give no count, the right one or another. *)
Validation == IF declared < 0 THEN "not-present" ELSE IF declared = result.all THEN "validated" ELSE "warning"

(* The selection is compared with what was found. *)
CompareCatalog ==
    /\ worker = "compare"
    /\ IF result.topics # task.selection
       THEN Ends("failed")
       ELSE /\ result' = [result EXCEPT !.status = Validation]
            /\ worker' = "merge"
            /\ UNCHANGED <<position, cursors, log, disk, inbox, snapshot>>
    /\ UNCHANGED workerRest

Waiting == {d \in Databases : cursors[d] # <<>>}

(* A mutant: the databases are read one after the other. *)
FirstFile(d, e) == d <= e

(* The record of database d comes no later than that of e: by timestamp, then by file, then by row,
   which the query of each file already orders. *)
ComesFirst(d, e) ==
    LET a == Head(cursors[d])
        b == Head(cursors[e])
    IN  a.time < b.time \/ (a.time = b.time /\ d <= e)

(* One turn of the loop: cancellation is looked for before every record. *)
MergeRecord ==
    /\ worker = "merge" /\ Waiting # {}
    /\ IF stop THEN Ends("cancelled")
       ELSE LET d == CHOOSE x \in Waiting : \A e \in Waiting : ComesFirst(x, e)
                m == Head(cursors[d])
            IN  /\ log' = Append(log, [database |-> d, message |-> m, sequence |-> Len(log)])
                /\ result' = [result EXCEPT !.samples = @ + (IF m.kind = "mapped" THEN 1 ELSE 0),
                                            !.failures = @ + (IF m.kind = "damaged" THEN 1 ELSE 0)]
                /\ cursors' = [cursors EXCEPT ![d] = Tail(@)]
                /\ UNCHANGED <<worker, position, disk, inbox, snapshot>>
    /\ UNCHANGED workerRest

(* After the last one: what was written must be what was counted; then the files are closed and
   writeSessionFiles() completes the temporary directory. *)
CountHolds == Len(log) = result.messages

FinishMerge ==
    /\ worker = "merge" /\ Waiting = {}
    /\ IF CountHolds
       THEN worker' = "publish"
            /\ UNCHANGED <<position, cursors, result, log, disk, inbox, snapshot>>
       ELSE Ends("failed")
    /\ UNCHANGED workerRest

(* What metadata.json, rosbag2.json and the log of the temporary directory say. *)
SessionFiles ==
    [log |-> log, messages |-> result.messages, samples |-> result.samples,
     failures |-> result.failures, status |-> result.status, offered |-> snapshot]

(* rename(2) replaces an empty directory and nothing else; where it does not replace even that,
   IOFails stands for it. *)
MayRename == destination \in {"absent", "empty"}

Publish ==
    /\ worker = "publish"
    /\ IF MayRename
       THEN /\ destination' = "session"
            /\ published' = SessionFiles
            /\ temporary' = FALSE
            /\ worker' = "post" /\ result' = [result EXCEPT !.outcome = "imported"]
            /\ UNCHANGED <<position, cursors, log, inbox, snapshot>>
       ELSE Ends("failed")
    /\ UNCHANGED workerRest

(* A mutant: the call waits until the user interface has run the closure. *)
OnceHandled == Idle
AtAnyTime == TRUE

PostResult ==
    /\ worker = "post" /\ AtAnyTime
    /\ inbox' = Append(inbox, result.outcome)
    /\ worker' = "posted"
    /\ UNCHANGED <<position, cursors, result, log, disk, snapshot, workerRest>>

(* The thread may still be there when its result is handled. *)
Exit ==
    /\ worker = "posted"
    /\ worker' = "exited"
    /\ UNCHANGED <<position, cursors, result, log, disk, inbox, snapshot, workerRest>>

WorkerStep ==
    \/ IOFails \/ Inspect \/ CheckDestination \/ CountMessages \/ CountAll \/ StartCursor
    \/ CompareCatalog \/ MergeRecord \/ FinishMerge \/ Publish \/ PostResult \/ Exit

----------------------------------------------------------------------------
(* Others *)

(* The owner of the bag adds a message: its id is new, its time may be any, and it stands where
   the next query will deliver it. *)
BagGrows ==
    /\ \E a \in Added :
         LET d == a[1]
         IN  /\ a[2].row \notin {m.row : m \in ToSet(bag[d])}
             /\ \E i \in 1..(Len(bag[d]) + 1) :
                  LET grown == InsertAt(bag[d], i, a[2])
                  IN  InOrder(grown) /\ bag' = [bag EXCEPT ![d] = grown]
    /\ UNCHANGED <<declared, ui, thread, disk, inbox, snapshot, tasks>>

(* Somebody creates the destination directory, and may put something there. *)
DestinationAppears ==
    /\ destination = "absent"
    /\ destination' \in {"empty", "other"}
    /\ UNCHANGED <<bagVars, ui, thread, temporary, published, inbox, snapshot, tasks>>

UserStep ==
    \/ Begin("inspect", {})
    \/ \E selection \in SUBSET Topics : Begin("import", selection)
    \/ Spawn \/ Cancel \/ HandleResult \/ ToggleRecording \/ Quit \/ JoinAtQuit

Next == UserStep \/ WorkerStep \/ BagGrows \/ DestinationAppears

(* The thread runs, and the event loop handles what is posted. *)
Fairness ==
    /\ WF_vars(WorkerStep) /\ WF_vars(Spawn) /\ WF_vars(HandleResult) /\ WF_vars(JoinAtQuit)

Spec == Init /\ [][Next]_vars
FairSpec == Spec /\ Fairness

----------------------------------------------------------------------------
(* Properties *)

Stages == {"none", "inspect", "check", "count", "countAll", "select", "compare", "merge", "publish",
           "post", "posted", "exited"}
Outcomes == {"failed", "cancelled", "inspected", "imported"}
Statuses == {"none", "not-present", "validated", "warning"}
Places == {"absent", "empty", "other", "session"}
Entry == [database : Databases, message : Message, sequence : Nat]

BagOK == bag \in [Databases -> Seq(Message)] /\ declared \in Int
UiOK ==
    /\ recording \in BOOLEAN /\ replaying \in BOOLEAN /\ importing \in BOOLEAN
    /\ call \in {"none", "start", "quit", "gone"} /\ inbox \in Seq(Outcomes) /\ tasks \in 0..MaxTasks
ThreadOK ==
    /\ worker \in Stages /\ stop \in BOOLEAN
    /\ task \in [kind : {"none", "inspect", "import"}, selection : SUBSET Topics]
    /\ position \in Nat \ {0}
    /\ worker \in {"check", "count", "countAll", "select"} => position \in Databases
    /\ cursors \in [Databases -> Seq(Message)] /\ snapshot \in [Databases -> Seq(Message)]
    /\ log \in Seq(Entry)
    /\ result \in [messages : Nat, all : Nat, topics : SUBSET Topics, samples : Nat, failures : Nat,
                   status : Statuses, outcome : Outcomes \cup {"running"}]
    /\ worker = "post" => result.outcome # "running"
DiskOK ==
    /\ temporary \in BOOLEAN /\ destination \in Places
    /\ published \in [log : Seq(Entry), messages : Nat, samples : Nat, failures : Nat,
                      status : Statuses, offered : [Databases -> Seq(Message)]]
TypeOK == BagOK /\ UiOK /\ ThreadOK /\ DiskOK

Earlier(a, b) ==
    \/ a.message.time < b.message.time
    \/ a.message.time = b.message.time /\ a.database < b.database
    \/ a.database = b.database /\ Before(a.message, b.message)

Offered(d, m) == [database |-> d, message |-> m]
OfferedBy(lists) == UNION {{Offered(d, lists[d][i]) : i \in DOMAIN lists[d]} : d \in Databases}
Written(entries) == {Offered(entries[i].database, entries[i].message) : i \in DOMAIN entries}
OfKind(entries, kind) == {i \in DOMAIN entries : entries[i].message.kind = kind}

(* A published session is whole, whatever was cancelled, failed or changed meanwhile: its log holds
   every selected message that the cursors saw, once, in the order of (time, file, row) and
   numbered from 0; its counts are those of the log (rosbag2_importer.cpp:1127-1212). *)
PublishedIsWhole ==
    destination = "session" =>
        LET entries == published.log
        IN  /\ Written(entries) = OfferedBy(published.offered)
            /\ \A i, j \in DOMAIN entries : i < j => Earlier(entries[i], entries[j])
            /\ \A i \in DOMAIN entries : entries[i].sequence = i - 1
            /\ published.messages = Len(entries)
            /\ published.samples = Cardinality(OfKind(entries, "mapped"))
            /\ published.failures = Cardinality(OfKind(entries, "damaged"))

(* No temporary directory is left when a task is over, and none exists without its task. *)
NothingLeftBehind ==
    temporary => worker \in {"count", "countAll", "select", "compare", "merge", "publish"}

(* One task at a time: a call that begins one waits at most for the end of a thread that has posted
   its result (the joins at serial_session.cpp:2862 and 2948); while the window may begin one, none
   is under way and no result is on its way; and a task that is under way has one result to come. *)
Done == {"none", "posted", "exited"}
OneTask ==
    /\ call = "start" => worker \in Done
    /\ Idle /\ ~importing => worker \in Done /\ inbox = <<>>
    /\ Idle /\ importing => IF worker \in Done THEN Len(inbox) = 1 ELSE inbox = <<>>

(* An import that finds its destination taken when it begins, be it by an earlier session or by an
   empty directory, which the rename would replace, leaves it as it is, and so does every import
   after it (docs/ROSBAG2.md:14).  What appears after the check at rosbag2_importer.cpp:1022 has
   only the rename to protect it. *)
TakenIsKept ==
    \A place \in Places \ {"absent"} :
        []((worker = "check" /\ destination = place) => [](destination = place))

(* Every task is over some time, and the next one may begin: its result arrives, or the session is
   destroyed and its thread joined, although the thread posts to the one that joins it. *)
TasksEnd == (importing \/ call = "quit") ~> (~importing /\ call # "quit")
=============================================================================
