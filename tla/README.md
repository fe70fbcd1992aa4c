# A TLA+ model of QQQAI

This directory specifies, model-checks and proves parts of the backend of QQQAI: a Go server that answers chat
messages from a web console and from QQ (OneBot), with retrieval over uploaded files. Paths below are relative to
`src/`. Every definition of a module names, in `PROJECT.json` under `map`, the lines of the source it stands for.

## 1. Inventory

| Component | State it keeps | Operations | Talks to |
|---|---|---|---|
| `ChatTaskPool` (`internal/worker/chat_task_pool.go`) | bounded channel of tasks, a Result channel per task, workers | `Submit`, `Close`, `worker` | `App.ChatOnce`, `generateChatReply` (callers), `ChatService.Chat` |
| `FileIndexWorker` (`internal/worker/file_index_worker.go`) | bounded channel of file tasks, workers, context | `Submit`, `Close`, `worker`, `index` | `App.UploadFile`, indexing graph, table `files` |
| HTTP handlers (`internal/controller/app.go`) | none of their own | chat, stream, upload, delete, SQL, admin | pool, worker, DAO, `LocalStorage` |
| DAO (`internal/dao/db.go`) | MySQL tables `users`, `conversations`, `messages`, `files`, `model_call_logs` | one statement or two per call, no transaction | handlers, worker |
| `LocalStorage` (`internal/storage/local_storage.go`) | files under the upload directory | `Save`, `Delete` | upload and delete handlers, loader |
| Indexing graph (`rag/rag_flow/index.go`) | chunks in Milvus and Elasticsearch | loader, parser, splitter, two indexers side by side, merge | index worker, QQ group files |
| `ChatService` (`internal/service/chat_service.go`) | none | `Chat` (final graph, then fallback), `Stream` | pool, streams |
| Chat history (`ai/chat.go`) | `sync.Map` from session to messages | `GenerateReply`, `saveTurn` | fallback and chat branch of `ChatService` |
| RAG memory (`tool/memory`, `flow/rag_chat.go`) | a `Session` (summary and messages) in memory | load, rewrite, compress, append, save | RAG branch of the final graph |
| Final graph (`flow/final_graph.go`, `flow/sql_react.go`, `flow/analyst_graph.go`) | state of one run, checkpoints | intent, branch, RAG, chat, SQL, approval interrupt | `ChatService` |
| OneBot gateway (`handler/router.go`, `adapter/onebot.go`, `main.go`) | a socket with a write mutex, goroutines per message | route, reply, download and index group files | pool, indexing graph |
| `main` (`main.go`) | the process | start-up, `server.Run`, deferred closes in reverse order | everything |
| Retrieval and ranking (`rag/rag_flow/retriever.go`, `algorithm/`) | none | two retrievers side by side, reciprocal rank fusion, BM25 | RAG branch |
| SELECT guard (`internal/service/sql_service.go`) | none | `ValidateSelectSQL` | SQL endpoints |
| Stores with fallback (`tool/storage`) | Redis, or a map in memory | get, set, expire | retrieval cache, checkpoints |
| Web console (`web/`) | React state | login, chat, files, admin | HTTP API |

What is hard here, and what makes each part correct:

- **Pool.** `Submit` races with cancellation, with a full queue and with `Close`, which main runs while HTTP handlers
  and QQ goroutines may still submit. A send on a closed channel panics: the HTTP handler's panic becomes a 500
  (`middleware.Recovery`), a QQ goroutine's ends the process. Correct means that an admitted request is run exactly
  once, its caller gets one answer, no worker blocks on a caller that left, and `Close` returns only when everything
  admitted has been run.
- **Files.** A row, a file on disk, a task in memory and chunks in two stores are written one after the other with no
  transaction; each write may fail, a delete may come at any time, and the process may end between two of them.
  Correct means that `indexed` is never shown for a file that is not in both stores, that a row points to a file, that
  a row left unsettled has one of a short list of causes, and that a deleted row stays deleted.
- **Streams.** A handler and a producer goroutine meet on an unbuffered channel, and both watch a context that the
  client or the handler's return ends. Correct means that no cut-off answer is stored and no goroutine leaks.
- **Conversations.** A chat request is five statements with the model call between them, and the conversation it found
  may be deleted meanwhile. Correct means that an answer never stands without its prompt, that one the model gave is
  missing only for a reason, and that the log agrees with what the caller heard.
- **History.** Histories are loaded and stored without a lock over both. Correct means whole turns only, and a turn is
  lost only to the bound or to an overlapping call.
- **Knowledge base.** Two stores, two indexers and two retrievers that a start-up may leave without a collection.
  Correct means that an indexed file stays findable, and that the fused list respects the order of both searches.
- **OneBot.** A goroutine per event, all replies of a connection through one socket that may go at any time. Correct
  means one writer, no temporary file left behind, no file indexed cut off, and a reply to everyone who can get one.

The full list of what is hard to test, each at its line, is `hazards` in `PROJECT.json`.

## 2. Modules

| Module | Stands for | Notes |
|---|---|---|
| `ChatDispatch` | what the pool promises | abstract: a line of admitted requests, begun first in first out; each caller hears one outcome |
| `ChatTaskPool` | pool, its callers, shutdown | `Dispatch == INSTANCE ChatDispatch WITH ...` is the refinement mapping |
| `ChatTaskPoolProofs` | theorems about the pool | type correctness, inductive invariant, safety properties |
| `ChatTaskPoolRefinement` | the refinement theorem | every step of the pool is a step of the dispatcher or a stutter |
| `FileIndexing` | uploads, deletions, index worker, graph, process restarts | |
| `WebChat` | `/api/chat/stream` and its producer, `/api/chat`, `/api/conversations`, their tables | composed with the pool: `Pool == INSTANCE ChatDispatch WITH ...` |
| `StoreStartup` | what a start-up does to the Milvus collection | extended by `FileIndexing` and `KnowledgeBase` |
| `KnowledgeBase` | chunks in both stores, the retrievers, rank fusion | extends `StoreStartup` |
| `OneBotGateway` | connections, events, group files and replies of QQ | |
| `ChatSessions` | histories of `ai/chat.go` | composed below |
| `ChatGraph` | `ChatService.Chat`: final graph, its branches, the fallback | `History == INSTANCE ChatSessions WITH ...`, two calls for a request |
| `RagMemory` | memory of a RAG session and its background compression | |
| `FileIndexingProofs`, `OneBotGatewayProofs`, `WebChatProofs`, `RagMemoryProofs`, `KnowledgeBaseProofs`, `ChatGraphProofs` | theorems about the module of that name | the inductive invariant is at the end of the module it is about; `ChatGraphProofs` is about `ChatSessions` too |
| `MC*` | instances for TLC | symmetry sets and small functions, one `.cfg` per question |

### ChatTaskPool

`tasks` is the channel `p.tasks`, `result[r]` the content of the one-place Result channel of `r`'s task, `caller[r]`
where the goroutine of `r` is in `Submit` (its first select, its second, or how it returned), `worker[w]` where a
worker is in its loop and with which task, and `phase` how far main has got with its deferred calls. `Accept`,
`RefuseFull`, `SendOnClosed` and the first half of `GiveUp` are the outcomes of the first select (a done context and
room in the queue leave the choice to the runtime, and so to TLC); `TakeResult` and the second half of `GiveUp` are
the second select. `Receive`, `ChatReturns`, `Deliver`, `DropResult` are one round of a worker, and `WorkerExit` its
`range` loop ending on a closed and empty channel. `started[r]` counts the runs of Chat; only properties read it.

### FileIndexing

`row[f]` is `files.status` or `absent`, `disk` the paths that exist, `chunks[f][s]` how much of the file the
indexer of store `s` has written (what later files do to it is in `KnowledgeBase`), `branch[f][s]` the indexer node of the run on `f`. An upload walks through `Save`, `InsertRow`, `ReadRowBack`
(`CreateFile` is two statements), and then `Enqueue`, `RefuseTask` or `SendOnClosed`; `UndoSave` is the handler's
clean-up. A worker walks through `Receive`, `MarkIndexing`, `LoadChunks`, `InvokeReturns`, `FinishIndex` while
`StoreChunks` moves the two store nodes on their own: the first error ends Invoke and leaves the other node running.
`ProcessEnds` forgets all that lives in memory and keeps `row`, `disk` and `chunks`; `Restart` and `Boot` look at no
row, as start-up does not, but the calls of `StoreStartup` may drop the Milvus collection: `boot` is the next call of
`initBotDataPipeline`, `collection` what the stored collection is to the configured embedding model, and `dropped`
the files whose chunks went with it. `mishap` records, for the properties only, that a status write failed or the process ended.

### WebChat

`handler[r]` is where the handler of a request is, `told[r]` the status its client got, `target[r]` its conversation.
`InsertConversation` and `ReadConversationBack`, or `FindConversation`, are `ensureConversation`; each statement may
fail, needs a context that is not done, and may come after a `DeleteConversation` of the same user. `Listing` is what
the user is then shown. From `SavePrompt` on the two kinds of requests part. A stream's select is `TakeChunk`,
`TakeDone`, `SeeContext` and `SeeClose`; sends on an unbuffered channel happen together with the receive; a reply is its
length in characters, cut by `NextPiece` as `splitForPseudoStream` does (0 is an error of Chat, which never returns an
empty reply). A plain chat goes through the pool, which here is what `ChatDispatch` promises of it, and no more:
`ChatTaskPool` is shown and proved to implement that module, so the safety shown here holds with the pool in its place; that `full` and `panic` are heard
only while the channel is open or closed, and `cancelled` only with a done context, are guards of `ChatTaskPool` repeated
in `SubmitReturns`.
`Return` also ends the request's context, as net/http does. `left` and `failed` are read by properties only.

### KnowledgeBase

`es` says whose chunk Elasticsearch has under each id, `milvus` which chunks the collection has, `seeker[g]` what the
Milvus retriever of graph `g` was made of at start-up. The ids of `ChunksOf` are the splitter's: the parse node drops
the document's id, so chunk `i` of every file has the same one. `WriteEs` replaces document by document (the indexer's
bulk), `InsertMilvus` adds all at once, `InvokeReturns` is the merge, which leaves the other branch running when one
has failed. `SearchMilvus` and `SearchEs` may return any list that what is stored allows, since nothing is said of
relevance. `Rerank` is computed exactly: `Share` is what a list adds to the score of an id, `Score` their sum as a fraction, `Kept` is the choice among objects of
one id, `Sorted` all orders an unstable sort may leave, `CutTo` the cut. `FusionRanks` compares it with what reciprocal
rank fusion is for, stated without scores: `Outranks`.

### OneBotGateway

`at[e]` is where the goroutine of event `e` is: waiting for Chat, at one of the four stages of a group file, or in
`sendReply` (`Lock`, `SetWriteDeadline`, `WriteMessage` with the deferred `Unlock`). `declared`, `body` and `copied` are
the sizes of a group file in the event, on the server and on disk; `ReadSize` is the `io.LimitReader` of one byte more.
`ReadFails` is any end of the read loop, which does not wait for the goroutines of its events; `broken` is the write
error that a gorilla connection keeps. `ProcessEnds` also stands for a panic in one of the goroutines.

### ChatSessions

`AskModel` is the read of the history and the call of the model, which fails at once when the context is done
(`over`), `ModelReturns` its end, `LoadHistory` and `StoreHistory` the two halves of `saveTurn`, which look at no
context. Messages carry the call they belong to and nothing else. The copies `prompt` and
`loaded` end with their use.

### ChatGraph

`at[r]` is the node the run of request `r` is at, `fallback`, or how `Chat` returned; `ragTurns` the requests whose
turn the RAG branch put in its own Session. Nodes that only read are one step each (`Node`, `Classify`), since requests
share nothing there; the chat branch and the fallback run the steps of `ChatSessions` (`History!CallStep`), one call
for each of the two, so a request can put its question to a model twice. `Approve` interrupts the run: without a
checkpoint id that is an error of Invoke like any other, and the nodes behind it are never reached.

`ended` are the requests whose context is done: of web requests (`WebRequests`) at any time, of a QQ message never, since
`handler/router.go:51` gives it the background context. The graph looks at the context in front of every node, so a
chat branch that has saved its turn may still end in an error (`ChatReturns`), and the fallback asks again for a
question the history has. What keeps that question single is that the fallback has the same context, with which its
model call fails: this is what `QuestionOnce` is about, and `OutcomeMatchesMemory` names it as the one case in which a
caller hears an error for a turn that is remembered. A retry with a context of its own would break both.

### RagMemory

The in-memory store hands out pointers, so the model has a heap: `history[o]` and `summary[o]` are the fields of the
Session that turn `o` may allocate, `session[t]` is the pointer turn `t` works on, `stored` the one in the map. Nothing
locks the fields: each append is a read (`ReadForAppend`) and a write (`StoreUser`, `StoreReply`), the compression
reads the length (`CheckLength`), reads the history again for its two slices (`ReadForCut`), writes what is left (`Cut`),
reads the summary before the model call (`AskSummary`) and writes it after (`SummaryReturns`).

An `append` writes in place while the array has room, and a slice header is three words. So when two turns are between
the read and the write of one History, one may overwrite what the other has stored, a header with an old length may grow
over entries it has never seen, and a header may be half of each. `ReadToWrite` notices this, as a race detector would,
and puts the Session into `raced` for good; from then on a history has a length, which is one word and the last one
written, and entries that may be anything (`None`, by `Known`). What is claimed of such a Session is about lengths only.
Without a race every append extends the array behind the header it has read, so a history is the value it seems.
Compressing turns may also overlap in the model call, which is no race on History and is followed exactly.

Taken as they come in the order of the steps are the reads for the prompt (`rag_chat.go:99`, `:128`), which are not kept,
those of Summary, and the memory operations themselves: what a processor may still reorder without a lock, and that a
half-read header or string may crash the process, is left out. A summary is the set of messages it
accounts for, as if the model's summaries were perfect.

## 3. Runs

All passing runs are exhaustive over their bounds. Symmetry is used in runs without liveness only. A property that
needs the model call to end has `ChatEnds` as its hypothesis, so one run serves both worlds.

| Run | Bounds | What it shows |
|---|---|---|
| `chat_task_pool` | 2 web requests, 1 QQ request, 2 workers, queue of 2 | the pool implements `ChatDispatch` (once, in order, one outcome each); no stranded caller; close drains; a cancelled caller returns even if Chat hangs; if Chat ends, every Submit returns and the deferred Close lets main exit |
| `file_indexing` | 2 uploads, 1 delete, 2 workers, queue of 1, 1 restart | safety of files, through failures and restarts |
| `file_indexing_fair` | no deletes | an upload answered with 201 is settled |
| `file_indexing_calm` | nothing fails, no deletes | **violated**: an upload refused by a full queue stays pending |
| `file_startup` | 1 upload, 1 restart | **violated**: a start-up takes chunks away only when the embedding model has changed |
| `web_chat` | 1 stream, 1 plain chat, 1 delete, replies of up to 3 characters in pieces of 2 | what is stored, shown and logged; a left handler returns even if Chat hangs; if Chat ends, a stream ends and leaks no goroutine |
| `chat_graph` | 3 web requests of a session, bound of 5 messages | whole turns, each question once also when clients leave; why turns get lost; what a caller hears agrees with what is remembered |
| `chat_graph_sql` | 1 web and 1 QQ request, of two sessions | **violated**: a question taken for SQL is answered by that branch |
| `rag_memory` | 4 turns of a session | nothing forgotten without overlap or failure; order while nothing races; bound and range of the cut whatever races |
| `knowledge_base` | files of 1 and 3 chunks, 1 query, results cut to 2, 1 restart | what is left of an indexed file; order of the fused list; answers without Milvus |
| `chunk_ids` | the same, no restart | **violated**: an indexed file is whole in Elasticsearch |
| `onebot_gateway` | 2 events, 2 connections, sizes up to 1 and bodies up to 3 bytes | one writer, temporary files, whole files, replies and their causes; every event ends when its calls do |

Why these bounds are enough:

- A queue of one or two with more requests than places is full, empty and closed with a task inside in the same run,
  and one of two has an order; two workers are enough for two to compete for one task and for one to finish while the
  other hangs. The liveness of the pool is checked in the same run, without symmetry, which is what limits it to three
  requests.
- Two uploads against a queue of one force a refusal; one restart shows what is left by one end of the process, and a
  second end of the process meets the same states (nothing counts restarts).
- Three characters in pieces of two have replies of less than a piece, of exactly one, and of one and a rest. A
  stream and a plain chat may be in the same conversation or in two, before and after its deletion; requests share
  nothing but the tables.
- The third turn against a bound of five messages cuts the first turn in two, and any two turns of a session can
  overlap. Sessions share nothing but the locked map, and a request whose context never ends is one whose client stays.
- Of four turns of a RAG session one is saved first, and the other three share its Session: one with an old copy of the
  history, one that compresses it, and one that comes between.
- Files of one and of three chunks have ids in common and ids of their own, so that an id may be replaced and another
  stay; lists of up to two results of four chunks have ties, shared and single hits, and more than two ids to cut.
- Two events may share a connection or have one each. A body is shorter than the declared size of one byte, equal to
  it, one byte longer and two bytes longer, the last of which the limited reader cannot tell from the one before.

Bounds of the model itself: `MaxRestarts` (process restarts), `MaxLength` (characters of a reply), `MaxConversations`
(ids of conversations) and `MaxSize` (bytes of a group file). Everything else is the code's own parameter.

### Fairness

`SchedulerFairness` and its like are weak fairness of each goroutine's next step: the Go scheduler is preemptive and
runs what is runnable. A select with two ready cases is a free choice; no property needs more than weak fairness of the
whole select. That a model call, a database call or a store call ends is assumed only in the specifications that say so
(`FairSpec` of `FileIndexing` and of `WebChat`, for statements), and for the model call by the hypothesis `ChatEnds`;
`CancelledReturns` and `LeftHandlerReturns` do without it. Of the pool `WebChat` assumes one thing, that Submit returns
when its context is done, which is `CancelledReturns` of the pool's own run. In `OneBotGateway` the calls with a timeout
are fair (the two HTTP clients of group files have one, and a write has its deadline, without which it would hold
`writeMu` for good: `config.GetWriteTimeout` gives 10 seconds when nothing is set); Submit, which is called with a
background context, and the indexing graph have none, and `EventsEnd` has their ending as its hypothesis `CallsEnd`.
`Lock` needs no more than weak fairness of each goroutine there, because as many replies wait as there are events.
Nothing is assumed of clients (arriving, leaving), of connections and of the operating system (stopping).

### Disagreements with the documents and comments

- `file_indexing_calm`: `README.md:202-206` draws pending, queue, indexed or failed. A full queue leaves a row pending
  that nothing will ever settle (`internal/controller/app.go:312-316`): the reason is sent to the client and not stored.
- `file_startup`: `rag/rag_tools/retriever/milvus.go:58-59` says that without a dimension the comparison of dimensions
  is left out. Line 217 compares with 0, and the collection of all files is dropped; their rows stay `indexed`.
- `chat_graph_sql`: `README.md:11` says the final graph routes between chat, RAG and SQL analysis. The SQL branch ends
  in an interrupt that nothing resumes, and the question is answered by the plain chat of the fallback.
- `chunk_ids`: `tool/document/splitter.go:23` says that every chunk gets a unique id. The id of the document is lost in
  `rag/rag_flow/parse.go:14-54`, chunk i of every file is `doc_chunk_i`, and the file indexed last replaces the others'
  chunks in Elasticsearch; `IndexedOrReplaced` is what is left to hold.

Two more show without a run. `README.md:284` says the pool controls the concurrency of the AI requests of all users;
streamed requests do not go through it (`internal/controller/app.go:232`). `tool/memory/compressor.go:33-34` says the
latest three rounds are kept; `History` has an entry per message, and three messages are kept (`Cut` of
`RagMemory`), already in the second turn.

## 4. Proofs

Every invariant and every action property that a run checks is proved for all values of the constants, and so is the
refinement. The theorems rest on the named assumptions of the modules, which every run evaluates, and on nothing else
but where it is said below. Each component has one inductive invariant, `Inv` in its proof module, made of named parts;
TLC has checked the parts on the instance of the run before they were proved.

**`ChatTaskPoolProofs`**, from `PoolAssumption` (finitely many workers and at least one, a queue of at least one, no
request both web and QQ):

- `TypeCorrect`, `PlaceCorrect`: `Spec => []TypeOK` and `Spec => []PlaceInv`. `PlaceInv` says where the task of each
  request is, seen from the channel (`ChannelInv`: no task twice, only of callers admitted and not yet run), from the
  workers (`WorkerInv`: no two with one task, an answer only with an empty Result channel), from the callers
  (`CallerInv`: a waiting caller's request is queued, held or answered) and from main (`PhaseInv`: after Close returned
  the channel is empty and the workers are gone). `TypeOK /\ PlaceInv` is inductive; none of the parts is by itself,
  since each step moves a task from one side to another.
- `RunsOnceHolds`, `NoStrandedCallerHolds`, `DeliverNeverBlocksHolds`, `CloseDrainsHolds`: consequences of it.
- `ReturnIsFinalHolds`: an action property, from the same invariant.

`RunsOnce`, `ReturnIsFinal`, `DeliverNeverBlocks` and `PlaceInv` are proved and not in a run: as far as they are
promises to a caller, a run checks them as part of `ImplementsDispatch`.

**`ChatTaskPoolRefinement`** proves `Spec => ImplementsDispatch`: initial states map to initial states, and under the
invariant `Receive` maps to `Begin`, `Accept` to `Admit`, `ChatReturns` to `Finish`, a caller's return to `Hear`,
`CloseTasks` to `Shut`, and all other steps to stutters. `WebChat` uses the dispatcher in the pool's place.

**`FileIndexingProofs`**, from `IndexingAssumption` (finitely many workers and at least one, a queue of at least one):
`IndexedOnce`, `NeverBackwards`, `RowsHaveFiles`, `IndexedIsStored`, `UnsettledRows` and `CloseIsComplete`. `OneIndexer` is not
inductive: that no two workers get one file needs that the channel has no task twice, that a queued task is with nobody
and that the graph has not run on it (`TaskInv`); what a worker writes is right because the row, the run and the status
it holds agree (`WorkerInv`), and rows stay gone because a deletion keeps to a file whose upload is past its row
(`UploadInv`, `DeleteInv`). `StoreInv` says that no node still writes for a file shown as indexed; it survives a start-up
that drops the collection because `dropped` remembers. `CloseSettles` rests on `PhaseInv` (workers leave only when the
channel is closed and empty) and on `UnsettledHasCause`.

**`OneBotGatewayProofs`**, from `GatewayAssumption`: `WritersExclude`, `TempFilesCollected`, `IndexedWhole`,
`RepliesCorrect`. `LockInv` ties the mutex of a connection to the goroutine between `Lock` and `Unlock` there, and the
deadline to it from `SetWriteDeadline` on; `ReplyInv` says of every frame that its event is done with, and of every event
done with that it has a frame or a reason. `TempFilesOwned` and `NothingCut` are inductive together with the stage and
the sizes of each event (`EventInv`).

**`WebChatProofs`**, from `WebChatAssumption`; that no request is both a stream and a plain chat, and that "heard
nothing yet" is no outcome, are part of it. `ChatInv` is a statement about one request at a time, and most of the
proof is that no step of another request changes it, although they share the tables, the pool and the conversations:
where its conversation comes from (`TargetInv`), which rows it has written so far (`RowInv`), what handler and producer of a stream have
handed over (`StreamInv`), how what a plain chat heard fits what the pool did (`OnceInv`). `AnswersFollow`,
`MissingHasCause` and `LogMatches` follow.

**`RagMemoryProofs`**, from `MemoryAssumption`. `OrderKeeps` is about Sessions without a race. `MessagesOnce` needs what
`OnceInv` adds: only one turn is about to write, its copy still is the history, and the summary a compression has asked
for has nothing in common with what the others hold. `BoundsHold` holds whatever races, and is about lengths only. Of the
two parts of `HistoryInBounds`, `BoundedAtRest` needs that a history over its bound has somebody who will still look at it (`BoundInv`);
`CutInBounds` that no write makes a history shorter than three once it was longer: who shares a Session has found two
messages in it, and only the first turn of a Session, whom nobody else can know, starts from fewer (`LengthInv`).
`NothingIsForgotten` is about turns that do not overlap: `AloneInv` says that then there is no race, that one turn is at
work, and which of history, summary and copies has each message.

**`KnowledgeBaseProofs`**, from `KnowledgeAssumption`:

- `IndexedStays`. `IndexedOrReplaced` is not inductive: it needs that below the mark `written[f]` no id of
  Elasticsearch is free, that whoever took an id has got beyond it, and that a branch which ended well is complete
  (`IndexInv`).
- `FusionIsFair`, with one more hypothesis, `TopK <= K + 1`: the rank constant of the code is 60, and with `TopK` of 62
  an id found last by both searches ties with one found first by one. The default of `MilvusConf.TopK` is 5, and 10
  when it cannot be parsed; a configuration may set any number, and beyond 61 `FusionRanks` is not promised. The proof
  has three parts: `OutrankingScores` (an id that outranks another has the greater fraction: `SumBeatsOne`,
  `SumsCompare`), `FusionIsRanking` (what the Reranker returns is the beginning of an injective, sorted list of one hit
  for each id), and counting.
- `AnswersFromEs`: fusing with an empty list changes nothing. It rests on `IncreasingIsIdentity`, an increasing map of
  `1..n` to itself is the identity, which needs no induction: both `1..x` and `x..n` are counted.

**`ChatGraphProofs`**, from `GraphAssumption`: `HistoriesAreTurns`, `QuestionsOnce`, `OutcomesAreRemembered` and the action property
`LossesAreExplained`. `SavedInv` says of every history, of every prompt and of every copy that `saveTurn` has read that
it is a row of whole turns of distinct calls that have ended by then: so the call that appends its turn cannot be in the
copy it appends to. `RowAppended` and `RowCut` are the lemmas about the sequences: a turn appended to a row, and the
last messages of one, make a row. `RequestInv` says that a backend is not called before its turn, and the fallback
only after the other one was skipped, has failed, or has saved its turn for a context that is done; in the last case the
fallback's call cannot get an answer, whence never both save.

Only model-checked: the liveness properties (`CancelledReturns`, `SubmitReturns`, `CloseReturns`, `CreatedSettles`,
`LeftHandlerReturns`, `StreamEnds`, `EventsEnd`), since the prover handles neither fairness nor `ENABLED`. The
properties of the runs that expect a violation are false and cannot be proved.

## 5. Plan

Done so far: the modules, runs and theorems above. What is left:

1. Refinements: that the histories of `ChatSessions` implement an atomic append as long as calls do not overlap, as
   `RagMemory` shows for its Session, and that the two store branches of `FileIndexing` are the ones of `KnowledgeBase`.
2. Safety lemmas for the liveness properties, in the form of invariants that say who can take the next step (the pool
   has one in `NoStrandedCaller`; `WebChat` and `OneBotGateway` could have theirs).

## 6. Not modelled

- Accounts, SQL and admin handlers: each decodes a request and runs one statement or one model call; no second step can
  come between. Password hashing and tokens are library calls.
- The SELECT guard: regular expressions over the text of a statement, with no state.
- Redis and its fallbacks: nothing initialises the client, so every store is its in-memory branch; the retrieval cache
  is never filled (no context carries the value it looks for), no run has a checkpoint id, and the session store has no
  caller.
- `tool/sft` and `tool/document/pdf_multimodal.go`: nothing imports or calls them. `algorithm/`: the same; the Reranker
  has the formula of `algorithm/rrf.go` inline.
- What is behind the approval of a statement (`flow/analyst_graph.go`, `tool/analyst_tools`, the MCP tool): no run gets
  there (`chat_graph_sql`).
- What the properties except and therefore do not watch: files in `dropped`, whose chunks a start-up has taken away
  or made unfindable (`IndexedMeansStored`, `IndexedOrReplaced`); a status write that failed (`CreatedSettles`); the
  messages of a compression whose model call failed (`NothingForgotten`). `UnsettledHasCause` and the run
  `file_startup` say of the first two when they happen.
- Elasticsearch's bulk API can refuse single documents of a request that succeeds. Whether the indexer library reports
  that is not in this repository: an indexer that returns no error has written everything, here.
- The chunks of a deleted file: `DeleteFile` leaves them in both stores, as `README.md:419` says.
- Paging of lists (`ListMessages` gives the oldest 100, `internal/dao/db.go:258`; `Listing` has all), titles and times of conversations, statistics, JSON and SSE framing, wording, prompts, document
  parsing, configuration, tracing and the web pages: plain data or library calls with no order of their own.

`components` in `PROJECT.json` gives the state of each part.
