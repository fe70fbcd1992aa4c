---------------------------- MODULE FileIndexing ----------------------------
(***************************************************************************)
(* Uploaded files from the HTTP handlers to the search stores:             *)
(*   App.UploadFile and App.DeleteFile (internal/controller/app.go), the   *)
(*   rows of table files (internal/dao/db.go), LocalStorage, the           *)
(*   FileIndexWorker (internal/worker/file_index_worker.go), the indexing  *)
(*   graph (rag/rag_flow/index.go), the deferred calls of main, and its    *)
(*   start-up as far as it touches the stores (StoreStartup).              *)
(* Rows, files on disk and chunks survive the process; the queue, the      *)
(* workers and the handlers do not.  Any database or store call may fail.  *)
(***************************************************************************)
EXTENDS Naturals, Sequences, FiniteSets, StoreStartup

CONSTANTS
    Files,        \* upload requests, and the row and path each one creates
    Deletes,      \* requests of DELETE /api/files/{id}
    Workers,      \* goroutines started by NewFileIndexWorker
    QueueSize,    \* capacity of the channel w.tasks
    MaxRestarts,  \* bound of the model on restarts of the process
    None          \* no file

ASSUME IndexingAssumption ==
    /\ IsFiniteSet(Workers) /\ Workers # {}
    /\ QueueSize \in Nat \ {0}
    /\ MaxRestarts \in Nat
    /\ None \notin Files

Stores   == {"milvus", "es"}
Terminal == {"indexed", "failed"}
Statuses == {"pending", "indexing"} \cup Terminal

(* What the client of an upload was told: 201; 202 with an error text that *)
(* is not stored; 500; 500 by the recovery of a panic; nothing.            *)
Told == {"created", "accepted", "failed", "panic", "lost"}

VARIABLES
    phase,     \* of the process, see Phases
    restarts,  \* how often the process was started again
    row,       \* files.status, or "absent" when there is no row
    disk,      \* the paths that exist under UPLOAD_DIR
    chunks,    \* how much of a file the indexer of each store has written
    tasks,     \* the buffered channel w.tasks
    worker,    \* the workers: control state, file, status to write last
    branch,    \* the store nodes of the graph run on each file
    upload,    \* where the handler of each upload is, or what it told
    delete,    \* the delete handlers: control state and file
    mishap,    \* history: why the status of a row may have been left behind
    dropped    \* history: files whose chunks in Milvus a start-up dropped

disc     == <<row, disk, chunks>>
handlers == <<upload, delete>>
pool     == <<tasks, worker, branch>>
process  == <<phase, restarts, boot, collection, dropped>>
vars     == <<process, disc, pool, handlers, mishap>>

(* Starting up; server.Run() running; returned; close(w.tasks) done;       *)
(* wg.Wait() returned; cancel() called; process gone.                      *)
Phases    == {"booting", "serving", "stopped", "closed", "drained", "cancelled", "down"}
TasksOpen == phase \in {"serving", "stopped"}
Up        == phase # "down"

Idle   == [at |-> "recv", file |-> None, status |-> "pending"]
NoRun  == [s \in Stores |-> "none"]

(* What the variables hold: the index queue never more than QueueSize      *)
(* tasks, and each row one of the states of files.status.                  *)
TypeOK ==
    /\ phase \in Phases /\ restarts \in 0..MaxRestarts
    /\ boot \in BootStages /\ collection \in Collections
    /\ dropped \subseteq Files
    /\ row \in [Files -> Statuses \cup {"absent"}]
    /\ disk \subseteq Files
    /\ chunks \in [Files -> [Stores -> {"none", "some", "all"}]]
    /\ tasks \in Seq(Files) /\ Len(tasks) <= QueueSize
    /\ worker \in [Workers -> [at : {"recv", "mark", "load", "store", "finish", "exited"},
                               file : Files \cup {None}, status : Statuses]]
    /\ branch \in [Files -> [Stores -> {"none", "running", "ok", "failed"}]]
    /\ upload \in [Files -> {"new", "saved", "inserted", "undo", "recorded"} \cup Told]
    /\ delete \in [Deletes -> [at : {"new", "found", "gone", "done"}, file : Files \cup {None}]]
    /\ mishap \in [Files -> {"none", "write", "restart"}]

Init ==
    /\ phase = "booting" /\ restarts = 0
    /\ StartupInit /\ dropped = {}
    /\ row = [f \in Files |-> "absent"]
    /\ disk = {}
    /\ chunks = [f \in Files |-> NoRun]
    /\ tasks = <<>>
    /\ worker = [w \in Workers |-> Idle]
    /\ branch = [f \in Files |-> NoRun]
    /\ upload = [f \in Files |-> "new"]
    /\ delete = [d \in Deletes |-> [at |-> "new", file |-> None]]
    /\ mishap = [f \in Files |-> "none"]

UploadTo(f, state) == upload' = [upload EXCEPT ![f] = state]
DeleteTo(d, state) == delete' = [delete EXCEPT ![d].at = state]
WorkerTo(w, state) == worker' = [worker EXCEPT ![w].at = state]

-----------------------------------------------------------------------------
(* Plausible slips in the code, for the properties to catch; no            *)
(* specification below uses them.                                          *)

(* INSERT ... ON DUPLICATE KEY UPDATE in place of the UPDATE.              *)
UpsertFileStatus(f, status) ==
    /\ row' = [row EXCEPT ![f] = status]
    /\ mishap' = mishap

(* A list in place of the bounded channel.                                 *)
EnqueueUnbounded(f) ==
    /\ upload[f] = "recorded" /\ TasksOpen
    /\ tasks' = Append(tasks, f)
    /\ UploadTo(f, "created")
    /\ UNCHANGED <<process, disc, worker, branch, delete, mishap>>

(* A refused task is cleaned up as a failed CreateFile is.                 *)
RefuseTaskAndDelete(f) ==
    /\ upload[f] = "recorded"
    /\ TasksOpen /\ Len(tasks) = QueueSize
    /\ UploadTo(f, "accepted")
    /\ disk' = disk \ {f}
    /\ UNCHANGED <<process, row, chunks, pool, delete, mishap>>

(* The task is looked at and left in the queue.                            *)
ReceiveWithoutRemoving(w) ==
    /\ Up /\ worker[w].at = "recv"
    /\ tasks # <<>>
    /\ worker' = [worker EXCEPT ![w] =
                    [at |-> "mark", file |-> Head(tasks), status |-> "pending"]]
    /\ UNCHANGED <<process, disc, tasks, branch, handlers, mishap>>

(* An error of the graph that is returned and not written to the row.      *)
LoadChunksSilently(w) ==
    /\ Up /\ worker[w].at = "load"
    /\ \/ /\ worker[w].file \in disk
          /\ WorkerTo(w, "store")
          /\ branch' = [branch EXCEPT ![worker[w].file] = [s \in Stores |-> "running"]]
       \/ worker' = [worker EXCEPT ![w] = Idle] /\ branch' = branch
    /\ UNCHANGED <<process, disc, tasks, handlers, mishap>>

(* The graph compiled with AnyPredecessor: Merge runs at the first result. *)
InvokeReturnsAtFirst(w) ==
    /\ Up /\ worker[w].at = "store"
    /\ \E s \in Stores : branch[worker[w].file][s] = "ok"
    /\ worker' = [worker EXCEPT ![w].at = "finish", ![w].status = "indexed"]
    /\ UNCHANGED <<process, disc, tasks, branch, handlers, mishap>>

(* Merge waits for two results, and no error ends the run.                 *)
InvokeReturnsWhenOk(w) ==
    /\ Up /\ worker[w].at = "store"
    /\ \A s \in Stores : branch[worker[w].file][s] = "ok"
    /\ worker' = [worker EXCEPT ![w].at = "finish", ![w].status = "indexed"]
    /\ UNCHANGED <<process, disc, tasks, branch, handlers, mishap>>

(* cancel() deferred so that it runs before Close.                         *)
WorkerExitAtSignal(w) ==
    /\ worker[w].at = "recv"
    /\ phase \in {"closed", "cancelled"}
    /\ WorkerTo(w, "exited")
    /\ UNCHANGED <<process, disc, tasks, branch, handlers, mishap>>

-----------------------------------------------------------------------------
(* dao.UpdateFileStatus: an UPDATE by id, so a row that is gone stays gone; *)
(* an error is logged or dropped and the status stays as it was.            *)
UpdateFileStatus(f, status) ==
    \/ /\ row' = IF row[f] = "absent" THEN row ELSE [row EXCEPT ![f] = status]
       /\ mishap' = mishap
    \/ /\ row' = row
       /\ mishap' = [mishap EXCEPT ![f] = "write"]

-----------------------------------------------------------------------------
(* UploadFile.                                                             *)

(* LocalStorage.Save writes a path of its own (a fresh uuid), or fails and *)
(* leaves nothing.                                                         *)
Save(f) ==
    /\ phase = "serving"
    /\ upload[f] = "new"
    /\ \/ UploadTo(f, "saved") /\ disk' = disk \cup {f}
       \/ UploadTo(f, "failed") /\ disk' = disk
    /\ UNCHANGED <<process, row, chunks, pool, delete, mishap>>

(* dao.CreateFile: the INSERT, and then GetFileByID of the new row.        *)
InsertRow(f) ==
    /\ Up /\ upload[f] = "saved"
    /\ \/ UploadTo(f, "inserted") /\ row' = [row EXCEPT ![f] = "pending"]
       \/ UploadTo(f, "undo") /\ row' = row
    /\ UNCHANGED <<process, disk, chunks, pool, delete, mishap>>

(* The row may be gone by now: another request of the user can list and    *)
(* delete it.                                                              *)
ReadRowBack(f) ==
    /\ Up /\ upload[f] = "inserted"
    /\ \/ UploadTo(f, "recorded") /\ row[f] # "absent"
       \/ UploadTo(f, "undo")
    /\ UNCHANGED <<process, disc, pool, delete, mishap>>

(* CreateFile failed: Storage.Delete, whose own error is dropped.          *)
UndoSave(f) ==
    /\ Up /\ upload[f] = "undo"
    /\ disk' \in {disk, disk \ {f}}
    /\ UploadTo(f, "failed")
    /\ UNCHANGED <<process, row, chunks, pool, delete, mishap>>

(* FileWorker.Submit: a send is ready when there is room, and panics when  *)
(* the channel is closed; w.ctx is done only after cancel().               *)
Enqueue(f) ==
    /\ upload[f] = "recorded"
    /\ TasksOpen /\ Len(tasks) < QueueSize
    /\ tasks' = Append(tasks, f)
    /\ UploadTo(f, "created")
    /\ UNCHANGED <<process, disc, worker, branch, delete, mishap>>

RefuseTask(f) ==
    /\ upload[f] = "recorded"
    /\ (TasksOpen /\ Len(tasks) = QueueSize) \/ phase = "cancelled"
    /\ UploadTo(f, "accepted")
    /\ UNCHANGED <<process, disc, pool, delete, mishap>>

SendOnClosed(f) ==
    /\ upload[f] = "recorded"
    /\ Up /\ ~TasksOpen
    /\ UploadTo(f, "panic")
    /\ UNCHANGED <<process, disc, pool, delete, mishap>>

Submit(f) == Enqueue(f) \/ RefuseTask(f) \/ SendOnClosed(f)

-----------------------------------------------------------------------------
(* DeleteFile.                                                             *)

FindRow(d) ==
    /\ phase = "serving"
    /\ delete[d].at = "new"
    /\ \E f \in Files :
         /\ row[f] # "absent"
         /\ delete' = [delete EXCEPT ![d] = [at |-> "found", file |-> f]]
    /\ UNCHANGED <<process, disc, pool, upload, mishap>>

DeleteRow(d) ==
    /\ Up /\ delete[d].at = "found"
    /\ \/ DeleteTo(d, "gone") /\ row' = [row EXCEPT ![delete[d].file] = "absent"]
       \/ DeleteTo(d, "done") /\ row' = row
    /\ UNCHANGED <<process, disk, chunks, pool, upload, mishap>>

(* Storage.Delete: an error is only logged.                                *)
DeletePath(d) ==
    /\ Up /\ delete[d].at = "gone"
    /\ disk' \in {disk, disk \ {delete[d].file}}
    /\ DeleteTo(d, "done")
    /\ UNCHANGED <<process, row, chunks, pool, upload, mishap>>

-----------------------------------------------------------------------------
(* FileIndexWorker.worker and index.                                       *)

Receive(w) ==
    /\ Up /\ worker[w].at = "recv"
    /\ tasks # <<>>
    /\ worker' = [worker EXCEPT ![w] =
                    [at |-> "mark", file |-> Head(tasks), status |-> "pending"]]
    /\ tasks' = Tail(tasks)
    /\ UNCHANGED <<process, disc, branch, handlers, mishap>>

MarkIndexing(w) ==
    /\ Up /\ worker[w].at = "mark"
    /\ UpdateFileStatus(worker[w].file, "indexing")
    /\ WorkerTo(w, "load")
    /\ UNCHANGED <<process, disk, chunks, tasks, branch, handlers>>

(* Loader, Parser and Splitter: they need the path, and may fail anyway.   *)
LoadChunks(w) ==
    /\ Up /\ worker[w].at = "load"
    /\ \/ /\ worker[w].file \in disk
          /\ WorkerTo(w, "store")
          /\ branch' = [branch EXCEPT ![worker[w].file] = [s \in Stores |-> "running"]]
       \/ /\ worker' = [worker EXCEPT ![w].at = "finish", ![w].status = "failed"]
          /\ branch' = branch
    /\ UNCHANGED <<process, disc, tasks, handlers, mishap>>

(* The two indexer nodes run side by side; one that fails may have written *)
(* some of the chunks.  Milvus takes none without a collection of the      *)
(* model's dimension.                                                      *)
StoreChunks(f, s) ==
    /\ Up /\ branch[f][s] = "running"
    /\ \/ /\ s = "milvus" => Usable
          /\ branch' = [branch EXCEPT ![f][s] = "ok"]
          /\ chunks' = [chunks EXCEPT ![f][s] = "all"]
       \/ /\ branch' = [branch EXCEPT ![f][s] = "failed"]
          /\ \E held \in {"none", "some"} : chunks' = [chunks EXCEPT ![f][s] = held]
    /\ UNCHANGED <<process, row, disk, tasks, worker, handlers, mishap>>

(* Merge waits for all its predecessors; the first error ends Invoke, and  *)
(* a node still running is left to itself.                                 *)
InvokeReturns(w) ==
    /\ Up /\ worker[w].at = "store"
    /\ \E status \in Terminal :
         /\ IF status = "indexed"
              THEN \A s \in Stores : branch[worker[w].file][s] = "ok"
              ELSE \E s \in Stores : branch[worker[w].file][s] = "failed"
         /\ worker' = [worker EXCEPT ![w].at = "finish", ![w].status = status]
    /\ UNCHANGED <<process, disc, tasks, branch, handlers, mishap>>

FinishIndex(w) ==
    /\ Up /\ worker[w].at = "finish"
    /\ UpdateFileStatus(worker[w].file, worker[w].status)
    /\ worker' = [worker EXCEPT ![w] = Idle]
    /\ UNCHANGED <<process, disk, chunks, tasks, branch, handlers>>

(* The channel is closed and empty, or w.ctx is done.                      *)
WorkerExit(w) ==
    /\ worker[w].at = "recv"
    /\ (phase = "closed" /\ tasks = <<>>) \/ phase = "cancelled"
    /\ WorkerTo(w, "exited")
    /\ UNCHANGED <<process, disc, tasks, branch, handlers, mishap>>

-----------------------------------------------------------------------------
(* main, and the end and the restart of the process.                       *)

MainTo(p) ==
    /\ phase' = p
    /\ UNCHANGED <<restarts, boot, collection, dropped, disc, pool, handlers, mishap>>

StopServing == phase = "serving" /\ MainTo("stopped")
CloseTasks  == phase = "stopped" /\ MainTo("closed")

WaitWorkers ==
    /\ phase = "closed"
    /\ \A w \in Workers : worker[w].at = "exited"
    /\ MainTo("drained")

(* chatPool.Close() has run in between; see ChatTaskPool.                  *)
CancelContext == phase = "drained" /\ MainTo("cancelled")

(* A file whose row some goroutine was still going to settle.              *)
InProcess(f) ==
    \/ upload[f] \in {"inserted", "recorded", "undo"}
    \/ \E i \in DOMAIN tasks : tasks[i] = f
    \/ \E w \in Workers : worker[w].file = f

(* main returns, or the process is killed, or a panic takes it down.       *)
ProcessEnds ==
    /\ Up
    /\ phase' = "down"
    /\ tasks' = <<>>
    /\ worker' = [w \in Workers |-> Idle]
    /\ branch' = [f \in Files |-> NoRun]
    /\ upload' = [f \in Files |-> IF upload[f] \in Told \cup {"new"} THEN upload[f] ELSE "lost"]
    /\ delete' = [d \in Deletes |->
                    IF delete[d].at = "new" THEN delete[d] ELSE [at |-> "done", file |-> None]]
    /\ mishap' = [f \in Files |-> IF InProcess(f) THEN "restart" ELSE mishap[f]]
    /\ UNCHANGED <<restarts, boot, collection, dropped, disc>>

(* The effect of a call at start-up on the chunks in Milvus.               *)
LoseChunks(lost) ==
    IF lost
      THEN /\ chunks' = [f \in Files |-> [chunks[f] EXCEPT !["milvus"] = "none"]]
           /\ dropped' = dropped \cup {f \in Files : chunks[f]["milvus"] # "none"}
      ELSE UNCHANGED <<chunks, dropped>>

(* Start-up opens the stores and looks at no row of table files.           *)
Restart ==
    /\ phase = "down" /\ restarts < MaxRestarts
    /\ phase' = "booting"
    /\ restarts' = restarts + 1
    /\ \E lost \in BOOLEAN : StartAgain(lost) /\ LoseChunks(lost)
    /\ UNCHANGED <<row, disk, pool, handlers, mishap>>

Boot ==
    /\ phase = "booting"
    /\ \E lost \in BOOLEAN : StartupStep(lost) /\ LoseChunks(lost)
    /\ phase' = IF boot' = "ready" THEN "serving" ELSE "booting"
    /\ UNCHANGED <<restarts, row, disk, pool, handlers, mishap>>

StaysDown == phase = "down" /\ restarts = MaxRestarts /\ UNCHANGED vars

UploadNext(f) == Save(f) \/ InsertRow(f) \/ ReadRowBack(f) \/ UndoSave(f) \/ Submit(f)

DeleteNext(d) == FindRow(d) \/ DeleteRow(d) \/ DeletePath(d)

WorkerNext(w) ==
    \/ Receive(w) \/ MarkIndexing(w) \/ LoadChunks(w) \/ InvokeReturns(w)
    \/ FinishIndex(w) \/ WorkerExit(w)

MainNext == StopServing \/ CloseTasks \/ WaitWorkers \/ CancelContext

Next ==
    \/ \E f \in Files : UploadNext(f)
    \/ \E d \in Deletes : DeleteNext(d)
    \/ \E w \in Workers : WorkerNext(w)
    \/ \E f \in Files, s \in Stores : StoreChunks(f, s)
    \/ MainNext \/ ProcessEnds \/ Restart \/ Boot \/ StaysDown

Spec == Init /\ [][Next]_vars

(* Every goroutine that can run does; calls of the stores and of the       *)
(* database end, with or without an error.                                 *)
Fairness ==
    /\ \A f \in Files :
         WF_vars(InsertRow(f) \/ ReadRowBack(f) \/ UndoSave(f) \/ Submit(f))
    /\ \A w \in Workers : WF_vars(WorkerNext(w))
    /\ \A f \in Files, s \in Stores : WF_vars(StoreChunks(f, s))
    /\ WF_vars(WaitWorkers \/ CancelContext)

FairSpec == Spec /\ Fairness

(* The best of worlds: the process keeps serving, no call of the database  *)
(* or of a store fails, and nothing is deleted.                            *)
CalmNext ==
    /\ Next
    /\ phase' \in {"booting", "serving"} /\ mishap' = mishap
    /\ \A f \in Files : upload'[f] \notin {"undo", "failed", "lost"}
    /\ \A w \in Workers : worker'[w].status # "failed"
    /\ \A f \in Files, s \in Stores : branch'[f][s] # "failed"
    /\ phase' = "serving" => collection' = "present"

CalmSpec == Init /\ [][CalmNext]_vars /\ Fairness

-----------------------------------------------------------------------------
(* Properties.                                                             *)

(* The three entries of chunks, tasks and worker that can hold a file.     *)
Queued(f)  == \E i \in DOMAIN tasks : tasks[i] = f
Holders(f) == {w \in Workers : worker[w].file = f}

(* A file shown as indexed has been written to both stores to its end,     *)
(* also when one node of the graph fails first and the other is still      *)
(* writing, and when the process has no usable collection; from Milvus     *)
(* only a later start-up takes it away.  (What later files do to its       *)
(* chunks in Elasticsearch is in KnowledgeBase.)                           *)
IndexedMeansStored ==
    \A f \in Files : row[f] = "indexed" =>
        /\ chunks[f]["es"] = "all"
        /\ chunks[f]["milvus"] = "all" \/ f \in dropped

(* A file is handed to the graph once: its task is in the channel, with    *)
(* one worker, or gone, and a refused upload has none.                     *)
OneIndexer ==
    \A f \in Files :
        /\ \A i, j \in DOMAIN tasks : tasks[i] = f /\ tasks[j] = f => i = j
        /\ \A v, w \in Holders(f) : v = w
        /\ Queued(f) => Holders(f) = {} /\ \A s \in Stores : branch[f][s] = "none"
        /\ Queued(f) \/ Holders(f) # {} => upload[f] = "created"

(* A row points to a file that exists, whatever crashes or fails in the    *)
(* middle of an upload or of a deletion, with one exception: CreateFile    *)
(* failed after its INSERT, and the handler removed the file.              *)
RowHasFile ==
    \A f \in Files : row[f] # "absent" /\ f \notin disk => upload[f] = "failed"

(* A row is left in pending or indexing only while somebody is going to    *)
(* settle it, or for a reason on this list: the queue was full, the upload *)
(* was answered with an error, the process ended, a status write failed.   *)
UnsettledHasCause ==
    \A f \in Files : row[f] \in {"pending", "indexing"} =>
        \/ InProcess(f)
        \/ upload[f] \in Told \ {"created"}
        \/ mishap[f] # "none"

(* The deferred Close of the worker returns only when every task that was  *)
(* queued is settled: cancel() comes later and cuts nothing off.           *)
CloseSettles ==
    phase \in {"drained", "cancelled"} =>
        /\ tasks = <<>>
        /\ \A w \in Workers : worker[w].file = None
        /\ \A f \in Files : upload[f] = "created" /\ mishap[f] = "none" =>
              row[f] \in Terminal \cup {"absent"}

(* A status only moves forward, and nothing a late worker writes brings a  *)
(* deleted row back.                                                       *)
StatusMovesForward ==
    [][\A f \in Files : row'[f] # row[f] =>
         \/ row[f] = "absent" /\ row'[f] = "pending" /\ upload[f] = "saved"
         \/ row[f] = "pending" /\ row'[f] = "indexing"
         \/ row[f] \in {"pending", "indexing"} /\ row'[f] \in Terminal
         \/ row'[f] = "absent"]_vars

(* Liveness: an upload answered with 201 is indexed, failed or deleted,    *)
(* unless the process ends or a status write is lost.                      *)
CreatedSettles ==
    \A f \in Files :
        upload[f] = "created" ~>
            (row[f] \in Terminal \cup {"absent"} \/ mishap[f] # "none")

(* README.md:202-206 says that an uploaded file goes from pending through  *)
(* the queue to indexed or failed: so it should when nothing goes wrong.   *)
EveryUploadSettles ==
    \A f \in Files : row[f] = "pending" ~> row[f] \in Terminal

(* retriever/milvus.go:58-59 says that without a dimension only the        *)
(* comparison of dimensions is left out: a start-up takes the chunks of an *)
(* indexed file away only when the embedding model has changed.            *)
StartupKeepsChunks ==
    [][\A f \in dropped' \ dropped : collection \in {"stale", "renamed"}]_vars
-----------------------------------------------------------------------------
(* The inductive invariant of FileIndexingProofs, in parts.                *)

(* The task of an upload that was accepted is in the channel, once, or     *)
(* with one worker, or gone; the graph has not run on a file before that.  *)
TaskInv ==
    /\ \A i, j \in DOMAIN tasks : tasks[i] = tasks[j] => i = j
    /\ \A i \in DOMAIN tasks :
         /\ upload[tasks[i]] = "created" /\ row[tasks[i]] \in {"pending", "absent"}
         /\ Holders(tasks[i]) = {} /\ branch[tasks[i]] = NoRun
    /\ \A f \in Files : branch[f] # NoRun => upload[f] = "created"

(* What a worker holds agrees with the row of the file and with the run of *)
(* the graph on it.                                                        *)
WorkerInv ==
    /\ \A w \in Workers : worker[w].file = None <=> worker[w].at \in {"recv", "exited"}
    /\ \A v, w \in Workers : worker[v].file = worker[w].file /\ worker[v].file # None => v = w
    /\ \A w \in Workers : worker[w].file # None =>
         /\ upload[worker[w].file] = "created"
         /\ row[worker[w].file] \in {"pending", "indexing", "absent"}
         /\ worker[w].at = "mark" => row[worker[w].file] # "indexing"
         /\ worker[w].at \in {"mark", "load"} => branch[worker[w].file] = NoRun
         /\ worker[w].at = "finish" =>
              \/ worker[w].status = "failed"
              \/ /\ worker[w].status = "indexed"
                 /\ \A s \in Stores : branch[worker[w].file][s] = "ok"

(* Row and path of an upload, as far as its handler has got.               *)
UploadInv ==
    \A f \in Files :
        /\ upload[f] \in {"new", "saved"} => row[f] = "absent"
        /\ upload[f] = "saved" => f \in disk
        /\ upload[f] \in {"inserted", "recorded", "undo"} => row[f] \in {"pending", "absent"}

(* A deletion that has found its row keeps to that file, whose row does    *)
(* not come back.                                                          *)
DeleteInv ==
    \A d \in Deletes : delete[d].at \in {"found", "gone"} =>
        /\ delete[d].file \in Files
        /\ upload[delete[d].file] \notin {"new", "saved"}
        /\ delete[d].at = "gone" => row[delete[d].file] = "absent"

(* A node that ended well has written its store to the end, and nothing    *)
(* writes to the stores for a file whose row is indexed.                   *)
StoreInv ==
    \A f \in Files :
        /\ branch[f]["es"] = "ok" => chunks[f]["es"] = "all"
        /\ branch[f]["milvus"] = "ok" => chunks[f]["milvus"] = "all" \/ f \in dropped
        /\ row[f] = "indexed" => \A s \in Stores : branch[f][s] # "running"

(* Workers leave only when the channel is closed and empty.                *)
PhaseInv ==
    /\ \A w \in Workers : worker[w].at = "exited" =>
         phase \in {"closed", "drained", "cancelled"} /\ tasks = <<>>
    /\ phase \in {"drained", "cancelled"} => \A w \in Workers : worker[w].at = "exited"

IndexInv == TaskInv /\ WorkerInv /\ UploadInv /\ DeleteInv /\ StoreInv /\ PhaseInv
=============================================================================
