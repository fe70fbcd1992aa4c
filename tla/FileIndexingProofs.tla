-------------------------- MODULE FileIndexingProofs --------------------------
(***************************************************************************)
(* Proofs about FileIndexing, for any set of uploads and of deletions, any *)
(* finite set of workers, any queue size and any number of restarts.       *)
(***************************************************************************)
EXTENDS FileIndexing, TLAPS

USE IndexingAssumption

-----------------------------------------------------------------------------
(* An update of a function of functions.                                   *)
LEMMA NestedUpdate ==
    ASSUME NEW A, NEW B, NEW C, NEW g \in [A -> [B -> C]], NEW a \in A, NEW b \in B, NEW c \in C
    PROVE  [g EXCEPT ![a][b] = c] \in [A -> [B -> C]]
<1>1. [g[a] EXCEPT ![b] = c] \in [B -> C]
  OBVIOUS
<1> QED
  BY <1>1

-----------------------------------------------------------------------------
(* Type correctness.                                                       *)

(* The records of workers, as in TypeOK.                                   *)
WorkerStates  == {"recv", "mark", "load", "store", "finish", "exited"}
WorkerRecords == [at : WorkerStates, file : Files \cup {None}, status : Statuses]

LEMMA InitType == Init => TypeOK
BY DEF Init, TypeOK, StartupInit, Phases, BootStages, Collections, Statuses, Terminal, Idle,
       NoRun, Told

LEMMA UploadType ==
    ASSUME TypeOK, NEW f \in Files, UploadNext(f)
    PROVE  TypeOK'
<1> USE DEF TypeOK, UploadTo, Told, process, disc, handlers, pool
<1>1. CASE Save(f)
  BY <1>1 DEF Save
<1>2. CASE InsertRow(f)
  BY <1>2 DEF InsertRow, Statuses
<1>3. CASE ReadRowBack(f)
  BY <1>3 DEF ReadRowBack
<1>4. CASE UndoSave(f)
  BY <1>4 DEF UndoSave
<1>5. CASE Enqueue(f)
  BY <1>5 DEF Enqueue
<1>6. CASE RefuseTask(f) \/ SendOnClosed(f)
  BY <1>6 DEF RefuseTask, SendOnClosed
<1> QED
  BY <1>1, <1>2, <1>3, <1>4, <1>5, <1>6 DEF UploadNext, Submit

LEMMA DeleteType ==
    ASSUME TypeOK, NEW d \in Deletes, DeleteNext(d)
    PROVE  TypeOK'
<1> USE DEF TypeOK, DeleteTo, process, disc, handlers, pool
<1>1. CASE FindRow(d)
  BY <1>1 DEF FindRow
<1>2. CASE DeleteRow(d)
  <2>1. delete' \in [Deletes -> [at : {"new", "found", "gone", "done"}, file : Files \cup {None}]]
    BY <1>2 DEF DeleteRow
  <2>2. row' \in [Files -> Statuses \cup {"absent"}]
    BY <1>2 DEF DeleteRow
  <2> QED
    BY <1>2, <2>1, <2>2 DEF DeleteRow
<1>3. CASE DeletePath(d)
  BY <1>3 DEF DeletePath
<1> QED
  BY <1>1, <1>2, <1>3 DEF DeleteNext

(* A status write leaves a row and a history that are of their types.      *)
LEMMA UpdateType ==
    ASSUME TypeOK, NEW f \in Files \cup {None}, NEW status \in Statuses,
           UpdateFileStatus(f, status)
    PROVE  /\ row' \in [Files -> Statuses \cup {"absent"}]
           /\ mishap' \in [Files -> {"none", "write", "restart"}]
<1>1. row' \in [Files -> Statuses \cup {"absent"}]
  BY DEF TypeOK, UpdateFileStatus
<1>2. mishap' \in [Files -> {"none", "write", "restart"}]
  BY DEF TypeOK, UpdateFileStatus
<1> QED
  BY <1>1, <1>2

(* A worker that moves on stays a record of its type.                      *)
LEMMA MoveType ==
    ASSUME TypeOK, NEW w \in Workers, NEW status \in Statuses,
           NEW state \in WorkerStates
    PROVE  /\ [worker EXCEPT ![w].at = state] \in [Workers -> WorkerRecords]
           /\ [worker EXCEPT ![w].at = state, ![w].status = status] \in [Workers -> WorkerRecords]
<1>1. worker \in [Workers -> WorkerRecords]
  BY DEF TypeOK, WorkerRecords, WorkerStates
<1>2. [worker EXCEPT ![w].at = state] \in [Workers -> WorkerRecords]
  BY <1>1 DEF WorkerRecords
<1>3. [worker EXCEPT ![w].at = state, ![w].status = status] \in [Workers -> WorkerRecords]
  BY <1>1 DEF WorkerRecords
<1> QED
  BY <1>2, <1>3

LEMMA WorkerType ==
    ASSUME TypeOK, NEW w \in Workers, WorkerNext(w)
    PROVE  TypeOK'
<1> USE DEF TypeOK, WorkerTo, process, disc, handlers, pool
<1>1. CASE Receive(w)
  <2>1. Head(tasks) \in Files /\ Tail(tasks) \in Seq(Files) /\ Len(Tail(tasks)) <= QueueSize
    BY <1>1 DEF Receive
  <2> QED
    BY <1>1, <2>1 DEF Receive, Statuses
<1>2. CASE MarkIndexing(w)
  <2>1. UpdateFileStatus(worker[w].file, "indexing") /\ "indexing" \in Statuses
    BY <1>2 DEF MarkIndexing, Statuses
  <2> QED
    BY <1>2, <2>1, UpdateType DEF MarkIndexing
<1>3. CASE LoadChunks(w)
  <2>1. worker' \in [Workers -> WorkerRecords]
    <3>1. /\ [worker EXCEPT ![w].at = "store"] \in [Workers -> WorkerRecords]
          /\ [worker EXCEPT ![w].at = "finish", ![w].status = "failed"] \in [Workers -> WorkerRecords]
      BY MoveType DEF Statuses, Terminal, WorkerStates
    <3> QED
      BY <1>3, <3>1 DEF LoadChunks
  <2>2. branch' \in [Files -> [Stores -> {"none", "running", "ok", "failed"}]]
    BY <1>3 DEF LoadChunks
  <2> QED
    BY <1>3, <2>1, <2>2 DEF LoadChunks, WorkerRecords, WorkerStates
<1>4. CASE InvokeReturns(w)
  <2>1. PICK status \in Terminal :
          worker' = [worker EXCEPT ![w].at = "finish", ![w].status = status]
    BY <1>4 DEF InvokeReturns
  <2>2. worker' \in [Workers -> WorkerRecords]
    BY <2>1, MoveType DEF Statuses, WorkerStates
  <2> QED
    BY <1>4, <2>2 DEF InvokeReturns, WorkerRecords, WorkerStates
<1>5. CASE FinishIndex(w)
  <2>1. UpdateFileStatus(worker[w].file, worker[w].status)
    BY <1>5 DEF FinishIndex
  <2> QED
    BY <1>5, <2>1, UpdateType DEF FinishIndex, Idle, Statuses
<1>6. CASE WorkerExit(w)
  BY <1>6, MoveType DEF WorkerExit, Statuses, WorkerRecords, WorkerStates
<1> QED
  BY <1>1, <1>2, <1>3, <1>4, <1>5, <1>6 DEF WorkerNext

LEMMA StoreType ==
    ASSUME TypeOK, NEW f \in Files, NEW s \in Stores, StoreChunks(f, s)
    PROVE  TypeOK'
<1>1. branch' \in [Files -> [Stores -> {"none", "running", "ok", "failed"}]]
  <2>1. \A end \in {"none", "running", "ok", "failed"} : [branch EXCEPT ![f][s] = end]
           \in [Files -> [Stores -> {"none", "running", "ok", "failed"}]]
    BY NestedUpdate DEF TypeOK
  <2> QED
    BY <2>1 DEF StoreChunks
<1>2. chunks' \in [Files -> [Stores -> {"none", "some", "all"}]]
  <2>1. \A held \in {"none", "some", "all"} :
           [chunks EXCEPT ![f][s] = held] \in [Files -> [Stores -> {"none", "some", "all"}]]
    BY NestedUpdate DEF TypeOK
  <2> QED
    BY <2>1 DEF StoreChunks
<1> QED
  BY <1>1, <1>2 DEF TypeOK, StoreChunks, process, handlers

(* What a start-up may do to the collection and to the chunks in it.       *)
LEMMA StartupType ==
    ASSUME TypeOK, NEW lost \in BOOLEAN, LoseChunks(lost), StartAgain(lost) \/ StartupStep(lost)
    PROVE  /\ boot' \in BootStages /\ collection' \in Collections
           /\ dropped' \subseteq Files
           /\ chunks' \in [Files -> [Stores -> {"none", "some", "all"}]]
<1>1. boot' \in BootStages /\ collection' \in Collections
  BY DEF TypeOK, StartAgain, StartupStep, Probe, CheckIndexer, OpenIndexer, OpenRetriever, Keep,
         Drop, BootStages, Collections
<1>2. dropped' \subseteq Files /\ chunks' \in [Files -> [Stores -> {"none", "some", "all"}]]
  BY DEF TypeOK, LoseChunks
<1> QED
  BY <1>1, <1>2

LEMMA ProcessType ==
    ASSUME TypeOK, MainNext \/ ProcessEnds \/ Restart \/ Boot
    PROVE  TypeOK'
<1>1. CASE MainNext
  BY <1>1 DEF TypeOK, MainNext, StopServing, CloseTasks, WaitWorkers, CancelContext, MainTo,
              Phases, disc, handlers, pool
<1>2. CASE ProcessEnds
  <2>1. tasks' \in Seq(Files) /\ Len(tasks') <= QueueSize
    BY <1>2 DEF ProcessEnds
  <2>2. worker' \in [Workers -> [at : {"recv", "mark", "load", "store", "finish", "exited"},
                               file : Files \cup {None}, status : Statuses]]
    BY <1>2 DEF ProcessEnds, Idle, Statuses
  <2>3. upload' \in [Files -> {"new", "saved", "inserted", "undo", "recorded"} \cup Told]
    BY <1>2 DEF ProcessEnds, Told
  <2>4. delete' \in [Deletes -> [at : {"new", "found", "gone", "done"}, file : Files \cup {None}]]
    BY <1>2 DEF TypeOK, ProcessEnds
  <2>5. mishap' \in [Files -> {"none", "write", "restart"}]
    BY <1>2 DEF TypeOK, ProcessEnds
  <2> QED
    BY <1>2, <2>1, <2>2, <2>3, <2>4, <2>5 DEF TypeOK, ProcessEnds, disc, NoRun, Phases
<1>3. CASE Restart
  BY <1>3, StartupType DEF TypeOK, Restart, Phases, handlers, pool
<1>4. CASE Boot
  BY <1>4, StartupType DEF TypeOK, Boot, Phases, handlers, pool
<1> QED
  BY <1>1, <1>2, <1>3, <1>4

LEMMA NextType == TypeOK /\ [Next]_vars => TypeOK'
<1> SUFFICES ASSUME TypeOK, [Next]_vars PROVE TypeOK'
  OBVIOUS
<1>1. CASE UNCHANGED vars
  BY <1>1 DEF TypeOK, vars, process, disc, pool, handlers
<1> QED
  BY <1>1, UploadType, DeleteType, WorkerType, StoreType, ProcessType DEF Next, StaysDown

(* Rows, queue, workers, handlers and stores keep their shape, and the     *)
(* queue its bound.                                                        *)
THEOREM TypeCorrect == Spec => []TypeOK
BY InitType, NextType, PTL DEF Spec
-----------------------------------------------------------------------------
(* The inductive invariant.                                                *)

Inv == TypeOK /\ IndexInv

LEMMA InitIndex == Init => IndexInv
<1> SUFFICES ASSUME Init PROVE IndexInv
  OBVIOUS
<1>1. tasks = <<>> /\ DOMAIN tasks = {}
  BY DEF Init
<1>2. /\ \A w \in Workers : worker[w] = Idle
      /\ \A f \in Files : branch[f] = NoRun /\ row[f] = "absent" /\ upload[f] = "new"
      /\ \A d \in Deletes : delete[d].at = "new"
  BY DEF Init
<1>3. TaskInv
  BY <1>1, <1>2 DEF TaskInv
<1>4. WorkerInv
  BY <1>2 DEF WorkerInv, Idle
<1>5. UploadInv /\ DeleteInv
  BY <1>2 DEF UploadInv, DeleteInv
<1>6. StoreInv
  BY <1>2 DEF StoreInv, NoRun, Stores
<1>7. PhaseInv
  BY <1>2 DEF PhaseInv, Idle, Init
<1> QED
  BY <1>3, <1>4, <1>5, <1>6, <1>7 DEF IndexInv

(* What a file cannot be while its upload is not recorded and accepted.    *)
LEMMA NotCreated ==
    ASSUME Inv, NEW f \in Files, upload[f] # "created"
    PROVE  /\ \A i \in DOMAIN tasks : tasks[i] # f
           /\ \A w \in Workers : worker[w].file # f
           /\ branch[f] = NoRun
BY DEF Inv, TypeOK, IndexInv, TaskInv, WorkerInv

(* A step of an upload's handler before its task is queued leaves what     *)
(* concerns tasks and workers as it was.                                   *)
LEMMA HandlerFrame ==
    ASSUME Inv, NEW f \in Files, upload[f] # "created",
           \A g \in Files \ {f} : upload'[g] = upload[g] /\ row'[g] = row[g],
           UNCHANGED <<tasks, worker, branch, phase>>
    PROVE  TaskInv' /\ WorkerInv' /\ PhaseInv'
<1> USE DEF Inv, TypeOK, IndexInv
<1>1. /\ \A i \in DOMAIN tasks : tasks[i] \in Files \ {f}
      /\ \A w \in Workers : worker[w].file # None => worker[w].file \in Files \ {f}
      /\ branch[f] = NoRun
  BY NotCreated
<1>2. TaskInv'
  BY <1>1 DEF TaskInv, Holders
<1>3. WorkerInv'
  BY <1>1 DEF WorkerInv
<1>4. PhaseInv'
  BY DEF PhaseInv
<1> QED
  BY <1>2, <1>3, <1>4

LEMMA SaveIndex ==
    ASSUME Inv, NEW f \in Files, Save(f)
    PROVE  IndexInv'
<1> USE DEF Inv, TypeOK, Save, UploadTo, process, pool
<1>1. TaskInv' /\ WorkerInv' /\ PhaseInv'
  BY HandlerFrame
<1>2. UploadInv'
  BY DEF IndexInv, UploadInv
<1>3. DeleteInv'
  BY DEF IndexInv, DeleteInv
<1>4. StoreInv'
  BY DEF IndexInv, StoreInv
<1> QED
  BY <1>1, <1>2, <1>3, <1>4 DEF IndexInv

LEMMA InsertRowIndex ==
    ASSUME Inv, NEW f \in Files, InsertRow(f)
    PROVE  IndexInv'
<1> USE DEF Inv, TypeOK, InsertRow, UploadTo, process, pool
<1>1. TaskInv' /\ WorkerInv' /\ PhaseInv'
  BY HandlerFrame
<1>2. UploadInv'
  BY DEF IndexInv, UploadInv
<1>3. DeleteInv'
  BY DEF IndexInv, DeleteInv
<1>4. StoreInv'
  BY DEF IndexInv, StoreInv
<1> QED
  BY <1>1, <1>2, <1>3, <1>4 DEF IndexInv

LEMMA ReadRowBackIndex ==
    ASSUME Inv, NEW f \in Files, ReadRowBack(f)
    PROVE  IndexInv'
<1> USE DEF Inv, TypeOK, ReadRowBack, UploadTo, process, disc, pool
<1>1. TaskInv' /\ WorkerInv' /\ PhaseInv'
  BY HandlerFrame
<1>2. UploadInv'
  BY DEF IndexInv, UploadInv
<1>3. DeleteInv'
  BY DEF IndexInv, DeleteInv
<1>4. StoreInv'
  BY DEF IndexInv, StoreInv
<1> QED
  BY <1>1, <1>2, <1>3, <1>4 DEF IndexInv

LEMMA UndoSaveIndex ==
    ASSUME Inv, NEW f \in Files, UndoSave(f)
    PROVE  IndexInv'
<1> USE DEF Inv, TypeOK, UndoSave, UploadTo, process, pool
<1>1. TaskInv' /\ WorkerInv' /\ PhaseInv'
  BY HandlerFrame
<1>2. UploadInv'
  BY DEF IndexInv, UploadInv
<1>3. DeleteInv'
  BY DEF IndexInv, DeleteInv
<1>4. StoreInv'
  BY DEF IndexInv, StoreInv
<1> QED
  BY <1>1, <1>2, <1>3, <1>4 DEF IndexInv

LEMMA RefusedIndex ==
    ASSUME Inv, NEW f \in Files, RefuseTask(f) \/ SendOnClosed(f)
    PROVE  IndexInv'
<1> USE DEF Inv, TypeOK, RefuseTask, SendOnClosed, UploadTo, process, disc, pool
<1>1. TaskInv' /\ WorkerInv' /\ PhaseInv'
  BY HandlerFrame
<1>2. UploadInv'
  BY DEF IndexInv, UploadInv
<1>3. DeleteInv'
  BY DEF IndexInv, DeleteInv
<1>4. StoreInv'
  BY DEF IndexInv, StoreInv
<1> QED
  BY <1>1, <1>2, <1>3, <1>4 DEF IndexInv

(* The entries of a sequence that grows by one, and of a tail.             *)
LEMMA AppendEntries ==
    ASSUME NEW S, NEW q \in Seq(S), NEW e \in S
    PROVE  /\ DOMAIN Append(q, e) = DOMAIN q \cup {Len(q) + 1}
           /\ Len(q) + 1 \notin DOMAIN q
           /\ \A i \in DOMAIN q : Append(q, e)[i] = q[i]
           /\ Append(q, e)[Len(q) + 1] = e
OBVIOUS

LEMMA TailEntries ==
    ASSUME NEW S, NEW q \in Seq(S), q # <<>>
    PROVE  /\ 1 \in DOMAIN q /\ Head(q) = q[1]
           /\ \A i \in DOMAIN Tail(q) : i + 1 \in DOMAIN q /\ Tail(q)[i] = q[i + 1] /\ i + 1 # 1
           /\ \A i \in DOMAIN q : i # 1 => i - 1 \in DOMAIN Tail(q) /\ Tail(q)[i - 1] = q[i]
           /\ \A i, j \in DOMAIN Tail(q) : i + 1 = j + 1 => i = j
OBVIOUS

LEMMA EnqueueIndex ==
    ASSUME Inv, NEW f \in Files, Enqueue(f)
    PROVE  IndexInv'
<1> USE DEF Inv, TypeOK, Enqueue, UploadTo, process, disc
<1>1. /\ \A i \in DOMAIN tasks : tasks[i] # f
      /\ \A w \in Workers : worker[w].file # f
      /\ branch[f] = NoRun
  BY NotCreated
<1>2. row[f] \in {"pending", "absent"}
  BY DEF IndexInv, UploadInv
<1>3. /\ DOMAIN tasks' = DOMAIN tasks \cup {Len(tasks) + 1}
      /\ Len(tasks) + 1 \notin DOMAIN tasks
      /\ \A i \in DOMAIN tasks : tasks'[i] = tasks[i]
      /\ tasks'[Len(tasks) + 1] = f
  BY AppendEntries
<1>4. TaskInv'
  BY <1>1, <1>2, <1>3 DEF IndexInv, TaskInv, Holders
<1>5. WorkerInv'
  BY <1>1 DEF IndexInv, WorkerInv
<1>6. UploadInv'
  BY DEF IndexInv, UploadInv
<1>7. DeleteInv'
  BY DEF IndexInv, DeleteInv
<1>8. StoreInv'
  BY DEF IndexInv, StoreInv
<1>9. PhaseInv'
  BY DEF IndexInv, PhaseInv, TasksOpen
<1> QED
  BY <1>4, <1>5, <1>6, <1>7, <1>8, <1>9 DEF IndexInv

LEMMA FindRowIndex ==
    ASSUME Inv, NEW d \in Deletes, FindRow(d)
    PROVE  IndexInv'
<1> USE DEF Inv, TypeOK, FindRow, process, disc, pool
<1>1. TaskInv' /\ WorkerInv'
  BY DEF IndexInv, TaskInv, WorkerInv, Holders
<1>2. UploadInv' /\ StoreInv' /\ PhaseInv'
  BY DEF IndexInv, UploadInv, StoreInv, PhaseInv
<1>3. DeleteInv'
  BY DEF IndexInv, DeleteInv, UploadInv
<1> QED
  BY <1>1, <1>2, <1>3 DEF IndexInv

LEMMA DeleteRowIndex ==
    ASSUME Inv, NEW d \in Deletes, DeleteRow(d)
    PROVE  IndexInv'
<1> USE DEF Inv, TypeOK, DeleteRow, DeleteTo, process, pool
<1>1. \A f \in Files : row'[f] = row[f] \/ row'[f] = "absent"
  OBVIOUS
<1>2. TaskInv' /\ WorkerInv' /\ PhaseInv'
  BY <1>1 DEF IndexInv, TaskInv, WorkerInv, PhaseInv, Holders
<1>3. UploadInv' /\ StoreInv'
  BY <1>1 DEF IndexInv, UploadInv, StoreInv
<1>4. DeleteInv'
  <2>1. delete'[d].file = delete[d].file
    OBVIOUS
  <2>2. \A e \in Deletes \ {d} : delete'[e] = delete[e]
    OBVIOUS
  <2>3. delete'[d].at = "gone" => row'[delete[d].file] = "absent"
    BY DEF IndexInv, DeleteInv
  <2> QED
    BY <1>1, <2>1, <2>2, <2>3 DEF IndexInv, DeleteInv
<1> QED
  BY <1>2, <1>3, <1>4 DEF IndexInv

LEMMA DeletePathIndex ==
    ASSUME Inv, NEW d \in Deletes, DeletePath(d)
    PROVE  IndexInv'
<1> USE DEF Inv, TypeOK, DeletePath, DeleteTo, process, pool
<1>1. TaskInv' /\ WorkerInv' /\ PhaseInv'
  BY DEF IndexInv, TaskInv, WorkerInv, PhaseInv, Holders
<1>2. UploadInv'
  BY DEF IndexInv, UploadInv, DeleteInv
<1>3. DeleteInv'
  BY DEF IndexInv, DeleteInv
<1>4. StoreInv'
  BY DEF IndexInv, StoreInv
<1> QED
  BY <1>1, <1>2, <1>3, <1>4 DEF IndexInv

(* A worker takes the first task off the channel.                          *)
LEMMA ReceiveIndex ==
    ASSUME Inv, NEW w \in Workers, Receive(w)
    PROVE  IndexInv'
<1> USE DEF Inv, TypeOK, Receive, process, disc, handlers
<1> DEFINE f == Head(tasks)
<1>1. /\ worker'[w] = [at |-> "mark", file |-> f, status |-> "pending"]
      /\ \A v \in Workers \ {w} : worker'[v] = worker[v]
  OBVIOUS
<1>2. /\ 1 \in DOMAIN tasks /\ f = tasks[1] /\ f \in Files
      /\ \A i \in DOMAIN tasks' : i + 1 \in DOMAIN tasks /\ tasks'[i] = tasks[i + 1] /\ i + 1 # 1
      /\ \A i, j \in DOMAIN tasks' : i + 1 = j + 1 => i = j
  BY TailEntries
<1>3. /\ upload[f] = "created" /\ row[f] \in {"pending", "absent"}
      /\ \A v \in Workers : worker[v].file # f
      /\ branch[f] = NoRun
  BY <1>2 DEF IndexInv, TaskInv, Holders
<1>4. \A i \in DOMAIN tasks' : tasks'[i] # f
  BY <1>2 DEF IndexInv, TaskInv
<1>5. TaskInv'
  <2>1. \A i, j \in DOMAIN tasks' : tasks'[i] = tasks'[j] => i = j
    BY <1>2 DEF IndexInv, TaskInv
  <2>2. \A i \in DOMAIN tasks' :
          /\ upload[tasks'[i]] = "created" /\ row[tasks'[i]] \in {"pending", "absent"}
          /\ \A v \in Workers : worker[v].file # tasks'[i]
          /\ branch[tasks'[i]] = NoRun
    BY <1>2 DEF IndexInv, TaskInv, Holders
  <2>3. \A i \in DOMAIN tasks' : \A v \in Workers : worker'[v].file # tasks'[i]
    BY <1>1, <1>4, <2>2
  <2> QED
    BY <2>1, <2>2, <2>3 DEF IndexInv, TaskInv, Holders
<1>6. WorkerInv'
  <2>1. f # None
    BY <1>2, IndexingAssumption
  <2> QED
    BY <1>1, <1>3, <2>1 DEF IndexInv, WorkerInv
<1>7. UploadInv' /\ DeleteInv' /\ StoreInv'
  BY DEF IndexInv, UploadInv, DeleteInv, StoreInv
<1>8. PhaseInv'
  BY <1>1 DEF IndexInv, PhaseInv
<1> QED
  BY <1>5, <1>6, <1>7, <1>8 DEF IndexInv

(* The file in a worker's hands is in no task and no other worker's hands. *)
LEMMA HeldFile ==
    ASSUME Inv, NEW w \in Workers, worker[w].at \notin {"recv", "exited"}
    PROVE  /\ worker[w].file \in Files
           /\ \A i \in DOMAIN tasks : tasks[i] # worker[w].file
           /\ \A v \in Workers \ {w} : worker[v].file # worker[w].file
           /\ upload[worker[w].file] = "created"
           /\ row[worker[w].file] \in {"pending", "indexing", "absent"}
<1> USE DEF Inv, TypeOK, IndexInv
<1>1. worker[w].file # None /\ worker[w].file \in Files
  BY DEF WorkerInv
<1>2. \A i \in DOMAIN tasks : tasks[i] # worker[w].file
  BY DEF TaskInv, Holders
<1> QED
  BY <1>1, <1>2 DEF WorkerInv

(* What UpdateFileStatus leaves of the table.                              *)
LEMMA UpdateRow ==
    ASSUME Inv, NEW f \in Files, NEW status, UpdateFileStatus(f, status)
    PROVE  /\ \A g \in Files \ {f} : row'[g] = row[g]
           /\ row'[f] = row[f] \/ (row[f] # "absent" /\ row'[f] = status)
           /\ \A g \in Files : row[g] = "absent" => row'[g] = "absent"
<1>1. row \in [Files -> Statuses \cup {"absent"}]
  BY DEF Inv, TypeOK
<1>2. row' = row \/ (row[f] # "absent" /\ row' = [row EXCEPT ![f] = status])
  BY DEF UpdateFileStatus
<1> QED
  BY <1>1, <1>2

LEMMA MarkIndexingIndex ==
    ASSUME Inv, NEW w \in Workers, MarkIndexing(w)
    PROVE  IndexInv'
<1> DEFINE f == worker[w].file
<1>1. /\ f \in Files /\ upload[f] = "created" /\ row[f] \in {"pending", "absent"}
      /\ \A i \in DOMAIN tasks : tasks[i] # f
      /\ \A v \in Workers \ {w} : worker[v].file # f
      /\ branch[f] = NoRun
  BY HeldFile DEF MarkIndexing, Inv, IndexInv, WorkerInv
<1>2. /\ worker[w].at = "mark" /\ worker'[w].at = "load" /\ worker'[w].file = f
      /\ \A v \in Workers \ {w} : worker'[v] = worker[v]
  BY DEF MarkIndexing, WorkerTo, Inv, TypeOK
<1>3. /\ \A g \in Files \ {f} : row'[g] = row[g]
      /\ row'[f] = row[f] \/ (row[f] # "absent" /\ row'[f] = "indexing")
      /\ \A g \in Files : row[g] = "absent" => row'[g] = "absent"
  BY <1>1, UpdateRow DEF MarkIndexing
<1>4. UNCHANGED <<process, disk, chunks, tasks, branch, handlers>>
  BY DEF MarkIndexing
<1> USE DEF Inv, process, handlers, IndexInv
<1> HIDE DEF f
<1>files. \A v \in Workers : worker'[v].file = worker[v].file
  BY <1>2 DEF f
<1>5. TaskInv'
  <2>1. \A i \in DOMAIN tasks : tasks[i] \in Files \ {f}
    BY <1>1 DEF TypeOK
  <2> QED
    BY <1>3, <1>4, <1>files, <2>1 DEF TaskInv, Holders
<1>6. WorkerInv'
  <2>1. f # None
    BY <1>1, IndexingAssumption
  <2>3. \A v \in Workers : worker'[v].file = None <=> worker'[v].at \in {"recv", "exited"}
    BY <1>2, <2>1 DEF WorkerInv
  <2>4. \A v \in Workers \ {w} : worker[v].file # None => row'[worker[v].file] = row[worker[v].file]
    BY <1>1, <1>3 DEF TypeOK
  <2>5. \A v \in Workers \ {w} : worker[v].file # None =>
           row'[worker[v].file] \in {"pending", "indexing", "absent"}
           /\ (worker[v].at = "mark" => row'[worker[v].file] # "indexing")
    BY <2>4 DEF WorkerInv
  <2>6. row'[f] \in {"pending", "indexing", "absent"}
    BY <1>1, <1>3
  <2>7. \A u, v \in Workers : worker'[u].file = worker'[v].file /\ worker'[u].file # None => u = v
    BY <1>files DEF WorkerInv
  <2>8. \A v \in Workers \ {w} : worker[v].file # None => 
           /\ worker[v].at \in {"mark", "load"} => branch[worker[v].file] = NoRun
           /\ worker[v].at = "finish" =>
                \/ worker[v].status = "failed"
                \/ /\ worker[v].status = "indexed"
                   /\ \A s \in Stores : branch[worker[v].file][s] = "ok"
    BY DEF WorkerInv
  <2>9. \A v \in Workers : worker[v].file # None => upload[worker[v].file] = "created"
    BY DEF WorkerInv
  <2>10. \A v \in Workers \ {w} : worker'[v].file # None =>
           /\ upload'[worker'[v].file] = "created"
           /\ row'[worker'[v].file] \in {"pending", "indexing", "absent"}
           /\ worker'[v].at = "mark" => row'[worker'[v].file] # "indexing"
           /\ worker'[v].at \in {"mark", "load"} => branch'[worker'[v].file] = NoRun
           /\ worker'[v].at = "finish" =>
                \/ worker'[v].status = "failed"
                \/ /\ worker'[v].status = "indexed"
                   /\ \A s \in Stores : branch'[worker'[v].file][s] = "ok"
    BY <1>2, <1>4, <2>5, <2>8, <2>9
  <2>11. /\ upload'[f] = "created" /\ branch'[f] = NoRun
         /\ worker'[w].file = f /\ worker'[w].at = "load"
    BY <1>1, <1>2, <1>4
  <2> QED
    BY <2>3, <2>6, <2>7, <2>10, <2>11 DEF WorkerInv
<1>7. UploadInv' /\ StoreInv'
  BY <1>1, <1>3, <1>4 DEF UploadInv, StoreInv
<1>8. DeleteInv'
  BY <1>3, <1>4 DEF DeleteInv
<1>9. PhaseInv'
  BY <1>2, <1>4 DEF PhaseInv
<1> QED
  BY <1>5, <1>6, <1>7, <1>8, <1>9

LEMMA FinishIndexIndex ==
    ASSUME Inv, NEW w \in Workers, FinishIndex(w)
    PROVE  IndexInv'
<1> DEFINE f == worker[w].file
<1>1. /\ f \in Files /\ upload[f] = "created" /\ row[f] \in {"pending", "indexing", "absent"}
      /\ \A i \in DOMAIN tasks : tasks[i] # f
      /\ \A v \in Workers \ {w} : worker[v].file # f
      /\ worker[w].status = "indexed" => \A s \in Stores : branch[f][s] = "ok"
      /\ worker[w].status \in Terminal
  BY HeldFile DEF FinishIndex, Inv, IndexInv, WorkerInv, Terminal
<1>2. /\ worker[w].at = "finish" /\ worker'[w].at = "recv" /\ worker'[w].file = None
      /\ \A v \in Workers \ {w} : worker'[v] = worker[v]
  BY DEF FinishIndex, Idle, Inv, TypeOK
<1>3. /\ \A g \in Files \ {f} : row'[g] = row[g]
      /\ row'[f] = row[f] \/ (row[f] # "absent" /\ row'[f] = worker[w].status)
      /\ \A g \in Files : row[g] = "absent" => row'[g] = "absent"
  BY <1>1, UpdateRow DEF FinishIndex
<1>4. UNCHANGED <<process, disk, chunks, tasks, branch, handlers>>
  BY DEF FinishIndex
<1> USE DEF Inv, process, handlers, IndexInv
<1> HIDE DEF f
<1>5. TaskInv'
  <2>1. \A i \in DOMAIN tasks : tasks[i] \in Files \ {f} /\ row'[tasks[i]] = row[tasks[i]]
    BY <1>1, <1>3 DEF TypeOK
  <2>2. \A i \in DOMAIN tasks : \A v \in Workers : worker'[v].file # tasks[i]
    BY <1>2, <2>1, IndexingAssumption DEF TaskInv, Holders
  <2> QED
    BY <1>4, <2>1, <2>2 DEF TaskInv, Holders
<1>6. WorkerInv'
  <2>1. \A v \in Workers \ {w} : worker[v].file # None => row'[worker[v].file] = row[worker[v].file]
    BY <1>1, <1>3 DEF TypeOK
  <2>2. \A v \in Workers : worker'[v].file # None => v # w /\ worker'[v] = worker[v]
    BY <1>2
  <2>3. \A v \in Workers : worker'[v].file = None <=> worker'[v].at \in {"recv", "exited"}
    BY <1>2 DEF WorkerInv
  <2> QED
    BY <1>1, <1>3, <1>4, <2>1, <2>2, <2>3 DEF WorkerInv
<1>7. UploadInv'
  BY <1>1, <1>3, <1>4 DEF UploadInv
<1>8. StoreInv'
  BY <1>1, <1>3, <1>4 DEF StoreInv
<1>9. DeleteInv'
  BY <1>3, <1>4 DEF DeleteInv
<1>10. PhaseInv'
  BY <1>2, <1>4 DEF PhaseInv
<1> QED
  BY <1>5, <1>6, <1>7, <1>8, <1>9, <1>10

(* A worker that goes on with the file it holds, or without one.           *)
LEMMA MovedWorker ==
    ASSUME Inv, NEW w \in Workers,
           \A v \in Workers : worker'[v].file = worker[v].file,
           \A v \in Workers \ {w} :
               /\ worker'[v] = worker[v]
               /\ worker[v].file # None => branch'[worker[v].file] = branch[worker[v].file],
           UNCHANGED <<upload, row>>,
           worker'[w].at \in {"recv", "exited"} <=> worker[w].at \in {"recv", "exited"},
           worker'[w].at \notin {"mark", "load"},
           worker'[w].at = "finish" =>
               \/ worker'[w].status = "failed"
               \/ /\ worker'[w].status = "indexed"
                  /\ \A s \in Stores : branch'[worker[w].file][s] = "ok"
    PROVE  WorkerInv'
<1>1. WorkerInv
  BY DEF Inv, IndexInv
<1>2. \A v \in Workers : worker'[v].file = None <=> worker'[v].at \in {"recv", "exited"}
  BY <1>1 DEF WorkerInv
<1>3. \A u, v \in Workers : worker'[u].file = worker'[v].file /\ worker'[u].file # None => u = v
  BY <1>1 DEF WorkerInv
<1>4. \A v \in Workers : worker'[v].file # None =>
           /\ upload'[worker'[v].file] = "created"
           /\ row'[worker'[v].file] \in {"pending", "indexing", "absent"}
           /\ worker'[v].at = "mark" => row'[worker'[v].file] # "indexing"
  BY <1>1 DEF WorkerInv
<1>5. \A v \in Workers \ {w} : worker'[v].file # None =>
           /\ worker'[v].at \in {"mark", "load"} => branch'[worker'[v].file] = NoRun
           /\ worker'[v].at = "finish" =>
                \/ worker'[v].status = "failed"
                \/ /\ worker'[v].status = "indexed"
                   /\ \A s \in Stores : branch'[worker'[v].file][s] = "ok"
  BY <1>1 DEF WorkerInv
<1> QED
  BY <1>2, <1>3, <1>4, <1>5 DEF WorkerInv

LEMMA LoadChunksIndex ==
    ASSUME Inv, NEW w \in Workers, LoadChunks(w)
    PROVE  IndexInv'
<1> DEFINE f == worker[w].file
<1>1. /\ f \in Files /\ upload[f] = "created" /\ row[f] \in {"pending", "indexing", "absent"}
      /\ \A i \in DOMAIN tasks : tasks[i] # f
      /\ \A v \in Workers \ {w} : worker[v].file # f
      /\ branch[f] = NoRun
  BY HeldFile DEF LoadChunks, Inv, IndexInv, WorkerInv
<1>2. /\ worker[w].at = "load" /\ worker'[w].file = f
      /\ worker'[w].at \in {"store", "finish"}
      /\ worker'[w].at = "finish" => worker'[w].status = "failed"
      /\ \A v \in Workers \ {w} : worker'[v] = worker[v]
  BY DEF LoadChunks, WorkerTo, Inv, TypeOK
<1>3. /\ \A g \in Files \ {f} : branch'[g] = branch[g]
      /\ \A s \in Stores : branch'[f][s] \in {"none", "running"}
  BY <1>1 DEF LoadChunks, Inv, TypeOK, NoRun
<1>4. UNCHANGED <<process, disc, tasks, handlers>>
  BY DEF LoadChunks
<1>5. \A v \in Workers : worker'[v].file = worker[v].file
  BY <1>2 DEF f
<1> USE DEF Inv, process, handlers, disc, IndexInv
<1> HIDE DEF f
<1>6. TaskInv'
  <2>1. \A i \in DOMAIN tasks : tasks[i] \in Files \ {f}
    BY <1>1 DEF TypeOK
  <2> QED
    BY <1>1, <1>3, <1>4, <1>5, <2>1 DEF TaskInv, Holders
<1>7. WorkerInv'
  <2>1. \A v \in Workers \ {w} : worker[v].file # None => branch'[worker[v].file] = branch[worker[v].file]
    BY <1>1, <1>3 DEF TypeOK
  <2> QED
    BY <1>2, <1>4, <1>5, <2>1, MovedWorker
<1>8. UploadInv' /\ DeleteInv'
  BY <1>4 DEF UploadInv, DeleteInv
<1>9. StoreInv'
  BY <1>1, <1>3, <1>4 DEF StoreInv, Stores
<1>10. PhaseInv'
  BY <1>2, <1>4 DEF PhaseInv
<1> QED
  BY <1>6, <1>7, <1>8, <1>9, <1>10

LEMMA InvokeReturnsIndex ==
    ASSUME Inv, NEW w \in Workers, InvokeReturns(w)
    PROVE  IndexInv'
<1> DEFINE f == worker[w].file
<1>1. /\ worker[w].at = "store" /\ worker'[w].file = f /\ worker'[w].at = "finish"
      /\ worker'[w].status \in Terminal
      /\ worker'[w].status = "indexed" => \A s \in Stores : branch[f][s] = "ok"
      /\ \A v \in Workers \ {w} : worker'[v] = worker[v]
  BY DEF InvokeReturns, Inv, TypeOK
<1>2. UNCHANGED <<process, disc, tasks, branch, handlers>>
  BY DEF InvokeReturns
<1>3. \A v \in Workers : worker'[v].file = worker[v].file
  BY <1>1 DEF f
<1> USE DEF Inv, process, handlers, disc, IndexInv
<1> HIDE DEF f
<1>4. TaskInv'
  BY <1>2, <1>3 DEF TaskInv, Holders
<1>5. WorkerInv'
  BY <1>1, <1>2, <1>3, MovedWorker DEF f, Terminal
<1>6. UploadInv' /\ DeleteInv' /\ StoreInv'
  BY <1>2 DEF UploadInv, DeleteInv, StoreInv
<1>7. PhaseInv'
  <2>1. worker[w].at # "exited" /\ worker'[w].at # "exited"
    BY <1>1
  <2> QED
    BY <1>1, <1>2, <2>1 DEF PhaseInv
<1> QED
  BY <1>4, <1>5, <1>6, <1>7

LEMMA WorkerExitIndex ==
    ASSUME Inv, NEW w \in Workers, WorkerExit(w)
    PROVE  IndexInv'
<1>1. /\ worker[w].at = "recv" /\ worker'[w].at = "exited" /\ worker'[w].file = worker[w].file
      /\ \A v \in Workers \ {w} : worker'[v] = worker[v]
  BY DEF WorkerExit, WorkerTo, Inv, TypeOK
<1>2. UNCHANGED <<process, disc, tasks, branch, handlers>>
  BY DEF WorkerExit
<1>3. \A v \in Workers : worker'[v].file = worker[v].file
  BY <1>1
<1>4. phase = "closed" /\ tasks = <<>>
  BY <1>1 DEF WorkerExit, Inv, IndexInv, PhaseInv
<1> USE DEF Inv, process, handlers, disc, IndexInv
<1>5. TaskInv'
  BY <1>2, <1>3 DEF TaskInv, Holders
<1>6. WorkerInv'
  BY <1>1, <1>2, <1>3, MovedWorker
<1>7. UploadInv' /\ DeleteInv' /\ StoreInv'
  BY <1>2 DEF UploadInv, DeleteInv, StoreInv
<1>8. PhaseInv'
  BY <1>1, <1>2, <1>4 DEF PhaseInv
<1> QED
  BY <1>5, <1>6, <1>7, <1>8

LEMMA StoreChunksIndex ==
    ASSUME Inv, NEW f \in Files, NEW s \in Stores, StoreChunks(f, s)
    PROVE  IndexInv'
<1>1. branch[f][s] = "running" /\ branch'[f][s] \in {"ok", "failed"}
  BY DEF StoreChunks, Inv, TypeOK
<1>2. /\ \A g \in Files \ {f} : branch'[g] = branch[g] /\ chunks'[g] = chunks[g]
      /\ \A t \in Stores \ {s} : branch'[f][t] = branch[f][t] /\ chunks'[f][t] = chunks[f][t]
      /\ branch'[f][s] = "ok" => chunks'[f][s] = "all"
  BY DEF StoreChunks, Inv, TypeOK
<1>3. UNCHANGED <<process, row, tasks, worker, handlers>> /\ disk' = disk
  BY DEF StoreChunks
<1> USE DEF Inv, IndexInv
<1>4. branch[f] # NoRun /\ upload[f] = "created"
  BY <1>1 DEF TaskInv, NoRun
<1>5. TaskInv'
  <2>1. \A i \in DOMAIN tasks : tasks[i] \in Files \ {f}
    BY <1>4 DEF TaskInv, TypeOK
  <2> QED
    BY <1>2, <1>3, <1>4, <2>1 DEF TaskInv, Holders, process, handlers
<1>6. WorkerInv'
  <2>1. \A w \in Workers : worker[w].at \in {"mark", "load"} /\ worker[w].file # None =>
                             branch'[worker[w].file] = branch[worker[w].file]
    BY <1>2, <1>4 DEF WorkerInv, TypeOK
  <2>2. \A g \in Files, t \in Stores : branch[g][t] = "ok" => branch'[g][t] = "ok"
    BY <1>1, <1>2
  <2>3. \A w \in Workers : worker[w].file # None => worker[w].file \in Files
    BY DEF TypeOK
  <2> QED
    BY <1>3, <2>1, <2>2, <2>3 DEF WorkerInv, handlers
<1>7. UploadInv' /\ DeleteInv'
  BY <1>3 DEF UploadInv, DeleteInv, handlers
<1>8. StoreInv'
  BY <1>1, <1>2, <1>3 DEF StoreInv, Stores, process
<1>9. PhaseInv'
  BY <1>3 DEF PhaseInv, process
<1> QED
  BY <1>5, <1>6, <1>7, <1>8, <1>9

LEMMA MainNextIndex ==
    ASSUME Inv, MainNext
    PROVE  IndexInv'
<1> USE DEF Inv, IndexInv
<1>1. UNCHANGED <<dropped, disc, pool, handlers>>
  BY DEF MainNext, StopServing, CloseTasks, WaitWorkers, CancelContext, MainTo
<1>2. TaskInv' /\ WorkerInv'
  BY <1>1 DEF TaskInv, WorkerInv, Holders, disc, pool, handlers
<1>3. UploadInv' /\ DeleteInv' /\ StoreInv'
  BY <1>1 DEF UploadInv, DeleteInv, StoreInv, disc, pool, handlers
<1>4. PhaseInv'
  BY <1>1 DEF PhaseInv, pool, MainNext, StopServing, CloseTasks, WaitWorkers, CancelContext, MainTo
<1> QED
  BY <1>2, <1>3, <1>4

LEMMA ProcessEndsIndex ==
    ASSUME Inv, ProcessEnds
    PROVE  IndexInv'
<1> USE DEF Inv, IndexInv
<1>1. tasks' = <<>> /\ DOMAIN tasks' = {} /\ phase' = "down"
  BY DEF ProcessEnds
<1>2. /\ \A w \in Workers : worker'[w] = Idle
      /\ \A f \in Files : branch'[f] = NoRun
      /\ \A f \in Files : upload'[f] = upload[f] \/ upload'[f] = "lost"
      /\ \A d \in Deletes : delete'[d].at \in {"new", "done"}
  BY DEF ProcessEnds
<1>3. UNCHANGED <<row, disk, chunks, dropped>>
  BY DEF ProcessEnds, disc
<1>4. TaskInv'
  BY <1>1, <1>2 DEF TaskInv
<1>5. WorkerInv'
  BY <1>2 DEF WorkerInv, Idle
<1>6. UploadInv'
  BY <1>2, <1>3 DEF UploadInv
<1>7. DeleteInv'
  BY <1>2 DEF DeleteInv
<1>8. StoreInv'
  BY <1>2, <1>3 DEF StoreInv, NoRun, Stores
<1>9. PhaseInv'
  BY <1>1, <1>2 DEF PhaseInv, Idle
<1> QED
  BY <1>4, <1>5, <1>6, <1>7, <1>8, <1>9

(* A start-up that drops the chunks in Milvus says so.                     *)
LEMMA StartIndex ==
    ASSUME Inv, Restart \/ Boot
    PROVE  IndexInv'
<1> USE DEF Inv, IndexInv
<1>1. /\ UNCHANGED <<row, disk, pool, handlers>>
      /\ phase \in {"down", "booting"} /\ phase' \in {"booting", "serving"}
  BY DEF Restart, Boot
<1>2. /\ dropped \subseteq dropped'
      /\ \A f \in Files : /\ chunks'[f]["es"] = chunks[f]["es"]
                          /\ chunks[f]["milvus"] = "all" =>
                               chunks'[f]["milvus"] = "all" \/ f \in dropped'
  <2>1. PICK lost \in BOOLEAN : LoseChunks(lost)
    BY DEF Restart, Boot
  <2> QED
    BY <2>1 DEF LoseChunks, TypeOK, Stores
<1>3. TaskInv' /\ WorkerInv'
  BY <1>1 DEF TaskInv, WorkerInv, Holders, pool, handlers
<1>4. UploadInv' /\ DeleteInv'
  BY <1>1 DEF UploadInv, DeleteInv, handlers
<1>5. StoreInv'
  BY <1>1, <1>2 DEF StoreInv, pool
<1>6. PhaseInv'
  BY <1>1 DEF PhaseInv, pool
<1> QED
  BY <1>3, <1>4, <1>5, <1>6

LEMMA NextIndex == Inv /\ [Next]_vars => IndexInv'
<1> SUFFICES ASSUME Inv, [Next]_vars PROVE IndexInv'
  OBVIOUS
<1>1. ASSUME NEW f \in Files, UploadNext(f) PROVE IndexInv'
  BY <1>1, SaveIndex, InsertRowIndex, ReadRowBackIndex, UndoSaveIndex, EnqueueIndex, RefusedIndex
     DEF UploadNext, Submit
<1>2. ASSUME NEW d \in Deletes, DeleteNext(d) PROVE IndexInv'
  BY <1>2, FindRowIndex, DeleteRowIndex, DeletePathIndex DEF DeleteNext
<1>3. ASSUME NEW w \in Workers, WorkerNext(w) PROVE IndexInv'
  BY <1>3, ReceiveIndex, MarkIndexingIndex, LoadChunksIndex, InvokeReturnsIndex,
     FinishIndexIndex, WorkerExitIndex DEF WorkerNext
<1>4. CASE UNCHANGED vars
  <2>1. UNCHANGED <<process, disc, pool, handlers>>
    BY <1>4 DEF vars
  <2>2. TaskInv' /\ WorkerInv'
    BY <2>1 DEF Inv, IndexInv, TaskInv, WorkerInv, Holders, disc, pool, handlers
  <2>3. UploadInv' /\ DeleteInv' /\ StoreInv' /\ PhaseInv'
    BY <2>1 DEF Inv, IndexInv, UploadInv, DeleteInv, StoreInv, PhaseInv, process, disc, pool, handlers
  <2> QED
    BY <2>2, <2>3 DEF IndexInv
<1> QED
  BY <1>1, <1>2, <1>3, <1>4, StoreChunksIndex, MainNextIndex, ProcessEndsIndex, StartIndex
     DEF Next, StaysDown

LEMMA NextInv == Inv /\ [Next]_vars => Inv'
BY NextType, NextIndex DEF Inv

(* Tasks, workers, handlers, stores and phases agree with each other: the  *)
(* inductive invariant the theorems below rest on.                         *)
THEOREM IndexCorrect == Spec => []Inv
<1>1. Init => Inv
  BY InitType, InitIndex DEF Inv
<1> QED
  BY <1>1, NextInv, PTL DEF Spec
-----------------------------------------------------------------------------
(* The properties the runs check.                                          *)

(* A file is handed to the graph once: FileWorker.Submit, the channel and  *)
(* the workers never hold its task twice.                                  *)
THEOREM IndexedOnce == Spec => []OneIndexer
<1>1. ASSUME Inv PROVE OneIndexer
  <2> USE DEF Inv, IndexInv
  <2> SUFFICES ASSUME NEW f \in Files
               PROVE  /\ \A i, j \in DOMAIN tasks : tasks[i] = f /\ tasks[j] = f => i = j
                      /\ \A v, w \in Holders(f) : v = w
                      /\ Queued(f) => Holders(f) = {} /\ \A s \in Stores : branch[f][s] = "none"
                      /\ Queued(f) \/ Holders(f) # {} => upload[f] = "created"
    BY DEF OneIndexer
  <2>1. \A i, j \in DOMAIN tasks : tasks[i] = f /\ tasks[j] = f => i = j
    BY <1>1 DEF TaskInv
  <2>2. \A v, w \in Holders(f) : v = w
    BY <1>1, IndexingAssumption DEF WorkerInv, Holders
  <2>3. Queued(f) => Holders(f) = {} /\ branch[f] = NoRun /\ upload[f] = "created"
    BY <1>1 DEF TaskInv, Queued
  <2>4. Holders(f) # {} => upload[f] = "created"
    BY <1>1, IndexingAssumption DEF WorkerInv, Holders
  <2> QED
    BY <2>1, <2>2, <2>3, <2>4 DEF NoRun
<1> QED
  BY <1>1, IndexCorrect, PTL

(* Only CreateFile, DeleteFile and the two status writes of index touch    *)
(* table files.                                                            *)
LEMMA RowKept ==
    ASSUME [Next]_vars
    PROVE  \/ UNCHANGED row
           \/ \E f \in Files : InsertRow(f)
           \/ \E d \in Deletes : DeleteRow(d)
           \/ \E w \in Workers : MarkIndexing(w) \/ FinishIndex(w)
<1> USE DEF disc
<1>1. ASSUME NEW f \in Files, UploadNext(f) PROVE UNCHANGED row \/ InsertRow(f)
  BY <1>1 DEF UploadNext, Save, ReadRowBack, UndoSave, Submit, Enqueue, RefuseTask, SendOnClosed
<1>2. ASSUME NEW d \in Deletes, DeleteNext(d) PROVE UNCHANGED row \/ DeleteRow(d)
  BY <1>2 DEF DeleteNext, FindRow, DeletePath
<1>3. ASSUME NEW w \in Workers, WorkerNext(w)
      PROVE  UNCHANGED row \/ MarkIndexing(w) \/ FinishIndex(w)
  BY <1>3 DEF WorkerNext, Receive, LoadChunks, InvokeReturns, WorkerExit
<1>4. ASSUME NEW f \in Files, NEW s \in Stores, StoreChunks(f, s) PROVE UNCHANGED row
  BY <1>4 DEF StoreChunks
<1>5. MainNext \/ ProcessEnds \/ Restart \/ Boot \/ StaysDown \/ UNCHANGED vars => UNCHANGED row
  BY DEF MainNext, StopServing, CloseTasks, WaitWorkers, CancelContext, MainTo, ProcessEnds,
         Restart, Boot, StaysDown, vars
<1> QED
  BY <1>1, <1>2, <1>3, <1>4, <1>5 DEF Next

(* What each of these writes does to a status.                             *)
LEMMA RowWrites ==
    ASSUME Inv, [Next]_vars, NEW f \in Files, row'[f] # row[f]
    PROVE  \/ InsertRow(f) /\ row[f] = "absent" /\ row'[f] = "pending" /\ upload[f] = "saved"
           \/ row'[f] = "absent"
           \/ \E w \in Workers : /\ MarkIndexing(w) /\ worker[w].file = f
                                 /\ row[f] = "pending" /\ row'[f] = "indexing"
           \/ \E w \in Workers : /\ FinishIndex(w) /\ worker[w].file = f
                                 /\ row[f] \in {"pending", "indexing"}
                                 /\ row'[f] = worker[w].status
<1>0. row \in [Files -> Statuses \cup {"absent"}]
  BY DEF Inv, TypeOK
<1>1. ASSUME NEW g \in Files, InsertRow(g)
      PROVE  f = g /\ row[f] = "absent" /\ row'[f] = "pending" /\ upload[f] = "saved"
  <2>1. row' = row \/ row' = [row EXCEPT ![g] = "pending"]
    BY <1>1 DEF InsertRow
  <2>2. f = g /\ row'[f] = "pending" /\ upload[f] = "saved"
    BY <1>0, <1>1, <2>1 DEF InsertRow
  <2> QED
    BY <2>2 DEF Inv, IndexInv, UploadInv
<1>2. ASSUME NEW d \in Deletes, DeleteRow(d)
      PROVE  row'[f] = "absent"
  BY <1>0, <1>2 DEF DeleteRow
<1>3. ASSUME NEW w \in Workers, MarkIndexing(w)
      PROVE  worker[w].file = f /\ row[f] = "pending" /\ row'[f] = "indexing"
  <2>1. /\ worker[w].file \in Files /\ row[worker[w].file] \in {"pending", "absent"}
    BY <1>3, HeldFile DEF MarkIndexing, Inv, IndexInv, WorkerInv
  <2> QED
    BY <1>3, <2>1, UpdateRow DEF MarkIndexing
<1>4. ASSUME NEW w \in Workers, FinishIndex(w)
      PROVE  /\ worker[w].file = f /\ row[f] \in {"pending", "indexing"}
             /\ row'[f] = worker[w].status
  <2>1. /\ worker[w].file \in Files /\ row[worker[w].file] \in {"pending", "indexing", "absent"}
    BY <1>4, HeldFile DEF FinishIndex
  <2> QED
    BY <1>4, <2>1, UpdateRow DEF FinishIndex
<1> QED
  BY <1>1, <1>2, <1>3, <1>4, RowKept

(* A worker that writes its result has one, and "indexed" means that both  *)
(* nodes of the graph ended well.                                          *)
LEMMA Results ==
    ASSUME Inv, NEW w \in Workers, FinishIndex(w)
    PROVE  /\ worker[w].status \in Terminal
           /\ worker[w].status = "indexed" => \A s \in Stores : branch[worker[w].file][s] = "ok"
<1>1. worker[w].at = "finish"
  BY DEF FinishIndex
<1>2. worker[w].file # None
  BY <1>1, HeldFile, IndexingAssumption
<1> QED
  BY <1>1, <1>2 DEF Inv, IndexInv, WorkerInv, Terminal

(* The status of a row only moves forward, and no write of a late worker   *)
(* brings a deleted row back.                                              *)
THEOREM NeverBackwards == Spec => StatusMovesForward
<1>1. ASSUME Inv, [Next]_vars
      PROVE  [\A f \in Files : row'[f] # row[f] =>
                \/ row[f] = "absent" /\ row'[f] = "pending" /\ upload[f] = "saved"
                \/ row[f] = "pending" /\ row'[f] = "indexing"
                \/ row[f] \in {"pending", "indexing"} /\ row'[f] \in Terminal
                \/ row'[f] = "absent"]_vars
  BY <1>1, RowWrites, Results
<1> QED
  BY <1>1, IndexCorrect, PTL DEF Spec, StatusMovesForward

(* Who removes a path: UploadFile when CreateFile failed, and DeleteFile   *)
(* after the row is gone.                                                  *)
LEMMA PathRemoved ==
    ASSUME Inv, [Next]_vars, NEW f \in Files, f \in disk, f \notin disk'
    PROVE  upload'[f] = "failed" \/ row'[f] = "absent"
<1> USE DEF disc
<1>1. ASSUME NEW g \in Files, UploadNext(g) PROVE upload'[f] = "failed"
  <2>1. UndoSave(g)
    BY <1>1 DEF UploadNext, Save, InsertRow, ReadRowBack, Submit, Enqueue, RefuseTask, SendOnClosed
  <2> QED
    BY <2>1 DEF UndoSave, UploadTo, Inv, TypeOK
<1>2. ASSUME NEW d \in Deletes, DeleteNext(d) PROVE row'[f] = "absent"
  <2>1. DeletePath(d)
    BY <1>2 DEF DeleteNext, FindRow, DeleteRow
  <2> QED
    BY <2>1 DEF DeletePath, Inv, IndexInv, DeleteInv
<1>3. ASSUME NEW w \in Workers, WorkerNext(w) PROVE UNCHANGED disk
  BY <1>3 DEF WorkerNext, Receive, MarkIndexing, LoadChunks, InvokeReturns, FinishIndex, WorkerExit
<1>4. ASSUME NEW g \in Files, NEW s \in Stores, StoreChunks(g, s) PROVE UNCHANGED disk
  BY <1>4 DEF StoreChunks
<1>5. MainNext \/ ProcessEnds \/ Restart \/ Boot \/ StaysDown \/ UNCHANGED vars => UNCHANGED disk
  BY DEF MainNext, StopServing, CloseTasks, WaitWorkers, CancelContext, MainTo, ProcessEnds,
         Restart, Boot, StaysDown, vars
<1> QED
  BY <1>1, <1>2, <1>3, <1>4, <1>5 DEF Next

(* An upload that was answered with an error keeps that answer.            *)
LEMMA FailedStays ==
    ASSUME Inv, [Next]_vars, NEW f \in Files, upload[f] \in Told
    PROVE  upload'[f] = upload[f]
<1> USE DEF handlers, Told
<1>1. ASSUME NEW g \in Files, UploadNext(g) PROVE upload'[f] = upload[f]
  <2>1. upload[g] \notin Told /\ \E state : upload' = [upload EXCEPT ![g] = state]
    BY <1>1 DEF UploadNext, Save, InsertRow, ReadRowBack, UndoSave, Submit, Enqueue, RefuseTask,
                SendOnClosed, UploadTo
  <2> QED
    BY <2>1
<1>2. ASSUME NEW d \in Deletes, DeleteNext(d) PROVE UNCHANGED upload
  BY <1>2 DEF DeleteNext, FindRow, DeleteRow, DeletePath
<1>3. ASSUME NEW w \in Workers, WorkerNext(w) PROVE UNCHANGED upload
  BY <1>3 DEF WorkerNext, Receive, MarkIndexing, LoadChunks, InvokeReturns, FinishIndex, WorkerExit
<1>4. ASSUME NEW g \in Files, NEW s \in Stores, StoreChunks(g, s) PROVE UNCHANGED upload
  BY <1>4 DEF StoreChunks
<1>5. MainNext \/ Restart \/ Boot \/ StaysDown \/ UNCHANGED vars => UNCHANGED upload
  BY DEF MainNext, StopServing, CloseTasks, WaitWorkers, CancelContext, MainTo,
         Restart, Boot, StaysDown, vars
<1>6. ProcessEnds => upload'[f] = upload[f]
  BY DEF ProcessEnds
<1> QED
  BY <1>1, <1>2, <1>3, <1>4, <1>5, <1>6 DEF Next

(* A row points to a file that exists, whatever crashes or fails in the    *)
(* middle of UploadFile or DeleteFile, with one exception: CreateFile      *)
(* failed after its INSERT.                                                *)
THEOREM RowsHaveFiles == Spec => []RowHasFile
<1>1. Init => RowHasFile
  BY DEF Init, RowHasFile
<1>2. ASSUME Inv, [Next]_vars, RowHasFile PROVE RowHasFile'
  <2> SUFFICES ASSUME NEW f \in Files, row'[f] # "absent", f \notin disk'
               PROVE  upload'[f] = "failed"
    BY DEF RowHasFile
  <2>1. CASE f \in disk
    BY <1>2, <2>1, PathRemoved
  <2>2. CASE f \notin disk /\ row[f] # "absent"
    BY <1>2, <2>2, FailedStays DEF RowHasFile, Told
  <2>3. CASE f \notin disk /\ row[f] = "absent"
    <3>1. InsertRow(f) /\ upload[f] = "saved"
      BY <1>2, <2>3, RowWrites
    <3> QED
      BY <1>2, <2>3, <3>1 DEF Inv, IndexInv, UploadInv
  <2> QED
    BY <2>1, <2>2, <2>3
<1> QED
  BY <1>1, <1>2, IndexCorrect, PTL DEF Spec

(* What the stores hold of a file whose row is indexed stays, but for what *)
(* a start-up drops.                                                       *)
LEMMA ChunksStay ==
    ASSUME Inv, [Next]_vars, NEW f \in Files, \A s \in Stores : branch[f][s] # "running"
    PROVE  /\ chunks'[f]["es"] = chunks[f]["es"]
           /\ f \in dropped => f \in dropped'
           /\ chunks[f]["milvus"] = "all" => chunks'[f]["milvus"] = "all" \/ f \in dropped'
<1> USE DEF process, disc
<1>1. ASSUME NEW g \in Files, UploadNext(g) PROVE UNCHANGED <<chunks, dropped>>
  BY <1>1 DEF UploadNext, Save, InsertRow, ReadRowBack, UndoSave, Submit, Enqueue, RefuseTask,
              SendOnClosed
<1>2. ASSUME NEW d \in Deletes, DeleteNext(d) PROVE UNCHANGED <<chunks, dropped>>
  BY <1>2 DEF DeleteNext, FindRow, DeleteRow, DeletePath
<1>3. ASSUME NEW w \in Workers, WorkerNext(w) PROVE UNCHANGED <<chunks, dropped>>
  BY <1>3 DEF WorkerNext, Receive, MarkIndexing, LoadChunks, InvokeReturns, FinishIndex, WorkerExit
<1>4. ASSUME NEW g \in Files, NEW s \in Stores, StoreChunks(g, s)
      PROVE  chunks'[f] = chunks[f] /\ dropped' = dropped
  <2>1. g # f
    BY <1>4 DEF StoreChunks
  <2>2. chunks \in [Files -> [Stores -> {"none", "some", "all"}]]
    BY DEF Inv, TypeOK
  <2> QED
    BY <1>4, <2>1, <2>2 DEF StoreChunks
<1>5. MainNext \/ ProcessEnds \/ StaysDown \/ UNCHANGED vars => UNCHANGED <<chunks, dropped>>
  BY DEF MainNext, StopServing, CloseTasks, WaitWorkers, CancelContext, MainTo, ProcessEnds,
         StaysDown, vars
<1>6. ASSUME Restart \/ Boot
      PROVE  /\ chunks'[f]["es"] = chunks[f]["es"]
             /\ f \in dropped => f \in dropped'
             /\ chunks[f]["milvus"] = "all" => chunks'[f]["milvus"] = "all" \/ f \in dropped'
  <2>1. PICK lost \in BOOLEAN : LoseChunks(lost)
    BY <1>6 DEF Restart, Boot
  <2> QED
    BY <2>1 DEF LoseChunks, Inv, TypeOK, Stores
<1> QED
  BY <1>1, <1>2, <1>3, <1>4, <1>5, <1>6 DEF Next

(* A file shown as indexed has been written to both stores to its end;     *)
(* from Milvus only a later start-up takes it away.                        *)
THEOREM IndexedIsStored == Spec => []IndexedMeansStored
<1>1. Init => IndexedMeansStored
  BY DEF Init, IndexedMeansStored
<1>2. ASSUME Inv, [Next]_vars, IndexedMeansStored PROVE IndexedMeansStored'
  <2> SUFFICES ASSUME NEW f \in Files, row'[f] = "indexed"
               PROVE  /\ chunks'[f]["es"] = "all"
                      /\ chunks'[f]["milvus"] = "all" \/ f \in dropped'
    BY DEF IndexedMeansStored
  <2>1. /\ chunks[f]["es"] = "all"
        /\ chunks[f]["milvus"] = "all" \/ f \in dropped
        /\ \A s \in Stores : branch[f][s] # "running"
    <3>1. CASE row[f] = "indexed"
      BY <1>2, <3>1 DEF IndexedMeansStored, Inv, IndexInv, StoreInv
    <3>2. CASE row[f] # "indexed"
      <4>1. \A s \in Stores : branch[f][s] = "ok"
        BY <1>2, <3>2, RowWrites, Results
      <4> QED
        BY <1>2, <4>1 DEF Inv, IndexInv, StoreInv, Stores
    <3> QED
      BY <3>1, <3>2
  <2> QED
    BY <1>2, <2>1, ChunksStay
<1> QED
  BY <1>1, <1>2, IndexCorrect, PTL DEF Spec

(* How a file gets out of the hands of those who were going to settle it.  *)
LEMMA LeavesProcess ==
    ASSUME Inv, [Next]_vars, NEW f \in Files, InProcess(f), ~InProcess(f)'
    PROVE  \/ upload'[f] \in Told \ {"created"}
           \/ mishap'[f] # "none"
           \/ row'[f] \in Terminal \cup {"absent"}
<1> USE DEF process, disc, pool, handlers, Told
<1>1. ASSUME NEW g \in Files, UploadNext(g) PROVE upload'[f] \in Told \ {"created"}
  <2>1. UNCHANGED worker
    BY <1>1 DEF UploadNext, Save, InsertRow, ReadRowBack, UndoSave, Submit, Enqueue, RefuseTask,
                SendOnClosed
  <2>2. \A i \in DOMAIN tasks : i \in DOMAIN tasks' /\ tasks'[i] = tasks[i]
    BY <1>1, AppendEntries DEF UploadNext, Save, InsertRow, ReadRowBack, UndoSave, Submit,
                Enqueue, RefuseTask, SendOnClosed, Inv, TypeOK
  <2>3. upload[f] \in {"inserted", "recorded", "undo"} /\ upload'[f] \notin {"inserted", "recorded", "undo"}
    BY <2>1, <2>2 DEF InProcess
  <2>4. g = f
    BY <1>1, <2>3 DEF UploadNext, Save, InsertRow, ReadRowBack, UndoSave, Submit, Enqueue,
                RefuseTask, SendOnClosed, UploadTo, Inv, TypeOK
  <2>5. ~Enqueue(f)
    <3> SUFFICES ASSUME Enqueue(f) PROVE FALSE
      OBVIOUS
    <3>1. Len(tasks) + 1 \in DOMAIN tasks' /\ tasks'[Len(tasks) + 1] = f
      BY AppendEntries DEF Enqueue, Inv, TypeOK
    <3> QED
      BY <3>1 DEF InProcess
  <2>6. UndoSave(f) \/ RefuseTask(f) \/ SendOnClosed(f)
    BY <1>1, <2>3, <2>4, <2>5 DEF UploadNext, Save, InsertRow, ReadRowBack, Submit, UploadTo, Inv, TypeOK
  <2> QED
    BY <2>6 DEF UndoSave, RefuseTask, SendOnClosed, UploadTo, Inv, TypeOK
<1>2. ASSUME NEW d \in Deletes, DeleteNext(d) PROVE FALSE
  BY <1>2 DEF DeleteNext, FindRow, DeleteRow, DeletePath, InProcess
<1>3. ASSUME NEW w \in Workers, WorkerNext(w), ~FinishIndex(w) PROVE FALSE
  <2>1. UNCHANGED upload
    BY <1>3 DEF WorkerNext, Receive, MarkIndexing, LoadChunks, InvokeReturns, WorkerExit
  <2>2. CASE Receive(w)
    <3>1. worker[w].file = None /\ worker'[w].file = Head(tasks)
      BY <2>2 DEF Receive, Inv, TypeOK, IndexInv, WorkerInv
    <3>2. \A v \in Workers \ {w} : worker'[v] = worker[v]
      BY <2>2 DEF Receive, Inv, TypeOK
    <3>3. /\ Head(tasks) = tasks[1]
          /\ \A i \in DOMAIN tasks : i # 1 => i - 1 \in DOMAIN tasks' /\ tasks'[i - 1] = tasks[i]
      BY <2>2, TailEntries DEF Receive, Inv, TypeOK
    <3> QED
      BY <2>1, <3>1, <3>2, <3>3, IndexingAssumption DEF InProcess
  <2>3. CASE MarkIndexing(w) \/ LoadChunks(w) \/ InvokeReturns(w) \/ WorkerExit(w)
    <3>1. UNCHANGED tasks
      BY <2>3 DEF MarkIndexing, LoadChunks, InvokeReturns, WorkerExit
    <3>2. \A v \in Workers : worker'[v].file = worker[v].file
      <4>1. worker \in [Workers -> [at : {"recv", "mark", "load", "store", "finish", "exited"},
                                    file : Files \cup {None}, status : Statuses]]
        BY DEF Inv, TypeOK
      <4>2. MarkIndexing(w) \/ WorkerExit(w) => \A v \in Workers : worker'[v].file = worker[v].file
        BY <4>1 DEF MarkIndexing, WorkerExit, WorkerTo
      <4>3. LoadChunks(w) \/ InvokeReturns(w) => \A v \in Workers : worker'[v].file = worker[v].file
        BY <4>1 DEF LoadChunks, InvokeReturns, WorkerTo
      <4> QED
        BY <2>3, <4>2, <4>3
    <3> QED
      BY <2>1, <3>1, <3>2 DEF InProcess
  <2> QED
    BY <1>3, <2>2, <2>3 DEF WorkerNext
<1>4. ASSUME NEW w \in Workers, FinishIndex(w)
      PROVE  mishap'[f] # "none" \/ row'[f] \in Terminal \cup {"absent"}
  <2>1. worker[w].file = f
    <3>1. \A v \in Workers \ {w} : worker'[v] = worker[v]
      BY <1>4 DEF FinishIndex, Inv, TypeOK
    <3> QED
      BY <1>4, <3>1 DEF InProcess, FinishIndex
  <2>2. \/ row' = IF row[f] = "absent" THEN row ELSE [row EXCEPT ![f] = worker[w].status]
        \/ mishap' = [mishap EXCEPT ![f] = "write"]
    BY <1>4, <2>1 DEF FinishIndex, UpdateFileStatus
  <2> QED
    BY <1>4, <2>2, Results DEF Inv, TypeOK
<1>5. ASSUME NEW g \in Files, NEW s \in Stores, StoreChunks(g, s) PROVE FALSE
  BY <1>5 DEF StoreChunks, InProcess
<1>6. MainNext \/ Restart \/ Boot \/ StaysDown \/ UNCHANGED vars => FALSE
  BY DEF MainNext, StopServing, CloseTasks, WaitWorkers, CancelContext, MainTo,
         Restart, Boot, StaysDown, vars, InProcess
<1>7. ProcessEnds => mishap'[f] = "restart"
  BY DEF ProcessEnds
<1> QED
  BY <1>1, <1>2, <1>3, <1>4, <1>5, <1>6, <1>7 DEF Next

(* A lost status write or an end of the process is remembered.             *)
LEMMA MishapStays ==
    ASSUME Inv, [Next]_vars, NEW f \in Files, mishap[f] # "none"
    PROVE  mishap'[f] # "none"
<1>1. ASSUME NEW g \in Files, UploadNext(g) PROVE UNCHANGED mishap
  BY <1>1 DEF UploadNext, Save, InsertRow, ReadRowBack, UndoSave, Submit, Enqueue, RefuseTask,
              SendOnClosed
<1>2. ASSUME NEW d \in Deletes, DeleteNext(d) PROVE UNCHANGED mishap
  BY <1>2 DEF DeleteNext, FindRow, DeleteRow, DeletePath
<1>3. ASSUME NEW w \in Workers, WorkerNext(w) PROVE mishap'[f] # "none"
  <2>1. mishap' = mishap \/ mishap' = [mishap EXCEPT ![worker[w].file] = "write"]
    BY <1>3 DEF WorkerNext, Receive, MarkIndexing, LoadChunks, InvokeReturns, FinishIndex,
                WorkerExit, UpdateFileStatus
  <2>2. mishap \in [Files -> {"none", "write", "restart"}]
    BY DEF Inv, TypeOK
  <2> QED
    BY <2>1, <2>2
<1>4. ASSUME NEW g \in Files, NEW s \in Stores, StoreChunks(g, s) PROVE UNCHANGED mishap
  BY <1>4 DEF StoreChunks
<1>5. MainNext \/ Restart \/ Boot \/ StaysDown \/ UNCHANGED vars => UNCHANGED mishap
  BY DEF MainNext, StopServing, CloseTasks, WaitWorkers, CancelContext, MainTo,
         Restart, Boot, StaysDown, vars
<1>6. ProcessEnds => mishap'[f] # "none"
  BY DEF ProcessEnds
<1> QED
  BY <1>1, <1>2, <1>3, <1>4, <1>5, <1>6 DEF Next

(* A row is left in pending or indexing only while a handler, the queue or *)
(* a worker still has the file, or for one of the reasons listed there.    *)
THEOREM UnsettledRows == Spec => []UnsettledHasCause
<1>1. Init => UnsettledHasCause
  BY DEF Init, UnsettledHasCause
<1>2. ASSUME Inv, [Next]_vars, UnsettledHasCause PROVE UnsettledHasCause'
  <2> SUFFICES ASSUME NEW f \in Files, row'[f] \in {"pending", "indexing"}, ~InProcess(f)'
               PROVE  upload'[f] \in Told \ {"created"} \/ mishap'[f] # "none"
    BY DEF UnsettledHasCause
  <2>1. CASE InProcess(f)
    BY <1>2, <2>1, LeavesProcess DEF Terminal
  <2>2. CASE ~InProcess(f) /\ row[f] \in {"pending", "indexing"}
    BY <1>2, <2>2, FailedStays, MishapStays DEF UnsettledHasCause
  <2>3. CASE ~InProcess(f) /\ row[f] \notin {"pending", "indexing"}
    <3>1. InsertRow(f)
      BY <1>2, <2>3, RowWrites, Results DEF Terminal
    <3>2. upload'[f] = "inserted" \/ row' = row
      BY <1>2, <3>1 DEF InsertRow, UploadTo, Inv, TypeOK
    <3> QED
      BY <2>3, <3>2 DEF InProcess
  <2> QED
    BY <2>1, <2>2, <2>3
<1> QED
  BY <1>1, <1>2, IndexCorrect, PTL DEF Spec

(* When the Close of the worker has returned, every queued task is settled *)
(* and the cancel() of main cuts nothing off.                              *)
THEOREM CloseIsComplete == Spec => []CloseSettles
<1>1. ASSUME Inv, UnsettledHasCause PROVE CloseSettles
  <2> SUFFICES ASSUME phase \in {"drained", "cancelled"}
               PROVE  /\ tasks = <<>>
                      /\ \A w \in Workers : worker[w].file = None
                      /\ \A f \in Files : upload[f] = "created" /\ mishap[f] = "none" =>
                            row[f] \in Terminal \cup {"absent"}
    BY DEF CloseSettles
  <2>1. tasks = <<>> /\ DOMAIN tasks = {}
    BY <1>1, IndexingAssumption DEF Inv, IndexInv, PhaseInv
  <2>2. \A w \in Workers : worker[w].file = None
    BY <1>1 DEF Inv, IndexInv, PhaseInv, WorkerInv
  <2>3. \A f \in Files : upload[f] = "created" => ~InProcess(f)
    BY <2>1, <2>2, IndexingAssumption DEF InProcess
  <2>4. \A f \in Files : row[f] \in {"pending", "indexing", "absent"} \cup Terminal
    BY <1>1 DEF Inv, TypeOK, Statuses
  <2> QED
    BY <1>1, <2>1, <2>2, <2>3, <2>4 DEF UnsettledHasCause
<1> QED
  BY <1>1, IndexCorrect, UnsettledRows, PTL
=============================================================================
