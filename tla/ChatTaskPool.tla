---------------------------- MODULE ChatTaskPool ----------------------------
(***************************************************************************)
(* internal/worker/chat_task_pool.go: the bounded pool that runs chat      *)
(* requests, with the two kinds of goroutine that call Submit              *)
(*   - the HTTP handler ChatOnce, whose context the client can cancel and  *)
(*     whose panics middleware.Recovery turns into a 500, and              *)
(*   - the goroutine HandleWSMessage starts for a QQ message, which runs   *)
(*     under context.Background() and which nothing recovers,              *)
(* and the deferred calls of main that close the pool while both may still *)
(* be running.  What Chat answers is the nondeterministic choice of        *)
(* ChatReturns; the routing behind it is a component of its own.           *)
(***************************************************************************)
EXTENDS Naturals, Sequences, FiniteSets

CONSTANTS
    WebRequests,   \* requests of POST /api/chat
    QQRequests,    \* text messages of the OneBot socket that route to a reply
    Workers,       \* goroutines started by NewChatTaskPool
    QueueSize,     \* capacity of the channel p.tasks
    None           \* no task, no result

Requests == WebRequests \cup QQRequests

(* What ChatService.Chat gives back: a reply, or an error.                 *)
Answers == {"reply", "error"}

(* How a call of Submit ends, for its caller.                              *)
Returned == Answers \cup {"full", "cancelled", "panic"}

(* NewChatTaskPool replaces a size or a worker count that is not positive. *)
ASSUME PoolAssumption ==
    /\ IsFiniteSet(Workers) /\ Workers # {}
    /\ QueueSize \in Nat \ {0}
    /\ WebRequests \cap QQRequests = {}
    /\ None \notin Requests \cup Returned

VARIABLES
    phase,      \* of main: see Phases
    tasks,      \* the buffered channel p.tasks
    cancelled,  \* requests whose context is done
    caller,     \* where the goroutine of each request is
    result,     \* content of each task's Result channel (capacity one)
    worker,     \* the workers: control state, task, and answer to deliver
    started     \* history: how often Chat was started for each request

vars == <<phase, tasks, cancelled, caller, result, worker, started>>

(* server.Run() running; returned; close(p.tasks) done; wg.Wait() returned; *)
(* main returned; a goroutine panicked and took the process down.          *)
Phases == {"serving", "stopped", "closed", "drained", "exited", "crashed"}

Alive      == phase \notin {"exited", "crashed"}
TasksOpen  == phase \in {"serving", "stopped"}

Idle == [at |-> "recv", task |-> None, answer |-> None]

(* What the variables hold: the channel never more than QueueSize tasks, a *)
(* Result channel at most one outcome, and only web contexts are cancelled.*)
TypeOK ==
    /\ phase \in Phases
    /\ tasks \in Seq(Requests) /\ Len(tasks) <= QueueSize
    /\ cancelled \subseteq WebRequests
    /\ caller \in [Requests -> {"new", "submit", "wait"} \cup Returned]
    /\ result \in [Requests -> Answers \cup {None}]
    /\ worker \in [Workers -> [at : {"recv", "chat", "deliver", "exited"},
                               task : Requests \cup {None},
                               answer : Answers \cup {None}]]
    /\ started \in [Requests -> Nat]

Init ==
    /\ phase = "serving"
    /\ tasks = <<>>
    /\ cancelled = {}
    /\ caller = [r \in Requests |-> "new"]
    /\ result = [r \in Requests |-> None]
    /\ worker = [w \in Workers |-> Idle]
    /\ started = [r \in Requests |-> 0]

CallerTo(r, state) == caller' = [caller EXCEPT ![r] = state]

-----------------------------------------------------------------------------
(* Plausible slips in the code, for the properties to catch; no            *)
(* specification below uses them.                                          *)

(* A list in place of the bounded channel.                                 *)
AcceptUnbounded(r) ==
    /\ caller[r] = "submit"
    /\ TasksOpen
    /\ tasks' = Append(tasks, r)
    /\ CallerTo(r, "wait")
    /\ UNCHANGED <<phase, cancelled, result, worker, started>>

(* The second select of Submit loses its ctx.Done() case.                  *)
GiveUpAtSendOnly(r) ==
    /\ Alive
    /\ caller[r] = "submit"
    /\ r \in cancelled
    /\ CallerTo(r, "cancelled")
    /\ UNCHANGED <<phase, tasks, cancelled, result, worker, started>>

(* A stack in place of the queue.                                          *)
ReceiveNewest(w) ==
    /\ Alive
    /\ worker[w].at = "recv"
    /\ tasks # <<>>
    /\ worker' = [worker EXCEPT ![w] =
                    [at |-> "chat", task |-> tasks[Len(tasks)], answer |-> None]]
    /\ started' = [started EXCEPT ![tasks[Len(tasks)]] = @ + 1]
    /\ tasks' = SubSeq(tasks, 1, Len(tasks) - 1)
    /\ UNCHANGED <<phase, cancelled, caller, result>>

(* The worker's select has a default case.                                 *)
DropResultAlways(w) ==
    /\ Alive
    /\ worker[w].at = "deliver"
    /\ worker' = [worker EXCEPT ![w] = Idle]
    /\ UNCHANGED <<phase, tasks, cancelled, caller, result, started>>

(* Workers stop at the signal to close, not at the end of the channel.     *)
WorkerExitAtSignal(w) ==
    /\ phase = "closed"
    /\ worker[w].at = "recv"
    /\ worker' = [worker EXCEPT ![w].at = "exited"]
    /\ UNCHANGED <<phase, tasks, cancelled, caller, result, started>>

(* A plain receive in a loop, which never sees the channel close.          *)
WorkerExitNever(w) == FALSE /\ worker[w].at = "recv" /\ UNCHANGED vars

-----------------------------------------------------------------------------
(* The callers.                                                            *)

(* A request reaches its call of Submit.  The HTTP server hands out no     *)
(* request once Run has returned; the sockets it has hijacked go on        *)
(* reading until the process ends.                                         *)
Arrive(r) ==
    /\ Alive
    /\ caller[r] = "new"
    /\ r \in WebRequests => phase = "serving"
    /\ CallerTo(r, "submit")
    /\ UNCHANGED <<phase, tasks, cancelled, result, worker, started>>

(* The HTTP client goes away: net/http cancels the request's context.      *)
Cancel(r) ==
    /\ Alive
    /\ r \in WebRequests \ cancelled
    /\ caller[r] \in {"submit", "wait"}
    /\ cancelled' = cancelled \cup {r}
    /\ UNCHANGED <<phase, tasks, caller, result, worker, started>>

(* The first select of Submit.  A send is ready on a channel with room and *)
(* on a closed channel (where it panics); when the context is done too,    *)
(* select picks either; the default case needs that nothing is ready.      *)
Accept(r) ==
    /\ caller[r] = "submit"
    /\ TasksOpen
    /\ Len(tasks) < QueueSize
    /\ tasks' = Append(tasks, r)
    /\ CallerTo(r, "wait")
    /\ UNCHANGED <<phase, cancelled, result, worker, started>>

RefuseFull(r) ==
    /\ caller[r] = "submit"
    /\ TasksOpen
    /\ Len(tasks) = QueueSize
    /\ r \notin cancelled
    /\ CallerTo(r, "full")
    /\ UNCHANGED <<phase, tasks, cancelled, result, worker, started>>

SendOnClosed(r) ==
    /\ caller[r] = "submit"
    /\ phase \in {"closed", "drained"}
    /\ CallerTo(r, "panic")
    /\ phase' = IF r \in QQRequests THEN "crashed" ELSE phase
    /\ UNCHANGED <<tasks, cancelled, result, worker, started>>

(* Either select of Submit sees ctx.Done().                                *)
GiveUp(r) ==
    /\ Alive
    /\ caller[r] \in {"submit", "wait"}
    /\ r \in cancelled
    /\ CallerTo(r, "cancelled")
    /\ UNCHANGED <<phase, tasks, cancelled, result, worker, started>>

(* The second select of Submit receives the result.                        *)
TakeResult(r) ==
    /\ Alive
    /\ caller[r] = "wait"
    /\ result[r] # None
    /\ CallerTo(r, result[r])
    /\ result' = [result EXCEPT ![r] = None]
    /\ UNCHANGED <<phase, tasks, cancelled, worker, started>>

Submit(r) == Accept(r) \/ RefuseFull(r) \/ SendOnClosed(r)

-----------------------------------------------------------------------------
(* The workers: for task := range p.tasks { Chat; select }.                *)

Receive(w) ==
    /\ Alive
    /\ worker[w].at = "recv"
    /\ tasks # <<>>
    /\ worker' = [worker EXCEPT ![w] =
                    [at |-> "chat", task |-> Head(tasks), answer |-> None]]
    /\ started' = [started EXCEPT ![Head(tasks)] = @ + 1]
    /\ tasks' = Tail(tasks)
    /\ UNCHANGED <<phase, cancelled, caller, result>>

ChatReturns(w) ==
    /\ Alive
    /\ worker[w].at = "chat"
    /\ \E a \in Answers :
         worker' = [worker EXCEPT ![w] =
                      [at |-> "deliver", task |-> worker[w].task, answer |-> a]]
    /\ UNCHANGED <<phase, tasks, cancelled, caller, result, started>>

Deliver(w) ==
    /\ Alive
    /\ worker[w].at = "deliver"
    /\ result[worker[w].task] = None
    /\ result' = [result EXCEPT ![worker[w].task] = worker[w].answer]
    /\ worker' = [worker EXCEPT ![w] = Idle]
    /\ UNCHANGED <<phase, tasks, cancelled, caller, started>>

DropResult(w) ==
    /\ Alive
    /\ worker[w].at = "deliver"
    /\ worker[w].task \in cancelled
    /\ worker' = [worker EXCEPT ![w] = Idle]
    /\ UNCHANGED <<phase, tasks, cancelled, caller, result, started>>

(* A range over a closed channel ends when the buffer is empty.            *)
WorkerExit(w) ==
    /\ phase = "closed"
    /\ worker[w].at = "recv"
    /\ tasks = <<>>
    /\ worker' = [worker EXCEPT ![w].at = "exited"]
    /\ UNCHANGED <<phase, tasks, cancelled, caller, result, started>>

-----------------------------------------------------------------------------
(* main: server.Run() returns, then the deferred calls run.                *)

MainTo(p) ==
    /\ phase' = p
    /\ UNCHANGED <<tasks, cancelled, caller, result, worker, started>>

StopServing == phase = "serving" /\ MainTo("stopped")

CloseTasks  == phase = "stopped" /\ MainTo("closed")

WaitWorkers ==
    /\ phase = "closed"
    /\ \A w \in Workers : worker[w].at = "exited"
    /\ MainTo("drained")

Exit        == phase = "drained" /\ MainTo("exited")

(* A process that is gone takes no step.                                   *)
Gone == ~Alive /\ UNCHANGED vars

CallerNext(r) == Arrive(r) \/ Cancel(r) \/ Submit(r) \/ GiveUp(r) \/ TakeResult(r)

WorkerNext(w) ==
    Receive(w) \/ ChatReturns(w) \/ Deliver(w) \/ DropResult(w) \/ WorkerExit(w)

MainNext == StopServing \/ CloseTasks \/ WaitWorkers \/ Exit

Next ==
    \/ \E r \in Requests : CallerNext(r)
    \/ \E w \in Workers : WorkerNext(w)
    \/ MainNext
    \/ Gone

Spec == Init /\ [][Next]_vars

(* The Go scheduler runs every goroutine that can run; a select whose case *)
(* is ready is taken.                                                      *)
SchedulerFairness ==
    /\ \A r \in Requests : WF_vars(Submit(r) \/ GiveUp(r) \/ TakeResult(r))
    /\ \A w \in Workers :
         WF_vars(Receive(w) \/ Deliver(w) \/ DropResult(w) \/ WorkerExit(w))
    /\ WF_vars(WaitWorkers \/ Exit)

(* Chat need not return: no timeout is set on the model's HTTP client.     *)
FairSpec == Spec /\ SchedulerFairness

(* Every call of the model ends; a hypothesis of the properties that say so. *)
ChatEnds == \A w \in Workers : WF_vars(ChatReturns(w))

-----------------------------------------------------------------------------
(* The pool as an implementation of ChatDispatch.                          *)

Running == {worker[w].task : w \in {v \in Workers : worker[v].at = "chat"}}
Ran     == {r \in Requests : started[r] > 0} \ Running

Dispatch == INSTANCE ChatDispatch WITH
    Capacity <- QueueSize, Servers <- Cardinality(Workers),
    Refusals <- {"full", "panic"}, Cancelled <- "cancelled",
    open <- TasksOpen, line <- tasks, running <- Running, ran <- Ran,
    heard <- [r \in Requests |-> IF caller[r] \in Returned THEN caller[r] ELSE None]

(* Every step of the pool is a step of the bounded first-come-first-served *)
(* dispatcher, or one it does not see: the order of the channel, the bound *)
(* on concurrent calls of the model, and one truthful outcome per caller.  *)
ImplementsDispatch == Dispatch!DispatchSpec

-----------------------------------------------------------------------------
(* Properties.                                                             *)

Queued(r)  == \E i \in DOMAIN tasks : tasks[i] = r
Holders(r) == {w \in Workers : worker[w].task = r}

(* A request is run at most once, however callers, cancellations and       *)
(* workers interleave: a request still in the channel has not been run,    *)
(* and a request the caller was told was refused never will be.            *)
RunsOnce ==
    \A r \in Requests :
        /\ started[r] <= 1
        /\ Queued(r) => started[r] = 0
        /\ caller[r] \in {"full", "panic"} => started[r] = 0 /\ ~Queued(r)

(* A caller still waiting in Submit with a live context has its request in *)
(* exactly one place: once in the channel, with one worker, or answered in *)
(* its result channel.  So it can neither wait for ever nor get two        *)
(* answers.                                                                *)
NoStrandedCaller ==
    \A r \in Requests : caller[r] = "wait" /\ r \notin cancelled =>
        \/ /\ \E i \in DOMAIN tasks : \A j \in DOMAIN tasks : tasks[j] = r <=> j = i
           /\ Holders(r) = {} /\ result[r] = None
        \/ ~Queued(r) /\ (\E w \in Workers : Holders(r) = {w}) /\ result[r] = None
        \/ ~Queued(r) /\ Holders(r) = {} /\ result[r] # None

(* A worker with an answer finds room in the result channel, so a caller   *)
(* that has given up never blocks it: the buffer of one is enough.         *)
DeliverNeverBlocks ==
    \A w \in Workers : worker[w].at = "deliver" => result[worker[w].task] = None

(* Close returns only when every accepted request has been run: nothing is *)
(* left in the channel or with a worker, and whoever is still waiting has  *)
(* its answer in the result channel.                                       *)
CloseDrains ==
    phase \in {"drained", "exited"} =>
        /\ tasks = <<>>
        /\ \A w \in Workers : worker[w].task = None
        /\ \A r \in Requests : caller[r] = "wait" /\ r \notin cancelled =>
              started[r] = 1 /\ result[r] # None

(* Whoever was told a reply or an error was run to the end, and what it    *)
(* was told is final: no later step moves a returned call.                 *)
ReturnIsFinal ==
    [][\A r \in Requests :
         /\ caller[r] \in Returned => caller'[r] = caller[r]
         /\ caller'[r] \in Answers =>
              started'[r] = 1 /\ \A w \in Workers : worker'[w].task # r]_vars

(* The strengthening the proofs use: where each request is, told from the  *)
(* side of the channel, of the workers, of the callers and of main.        *)
Busy(w) == worker[w].at \in {"chat", "deliver"}

(* The channel holds a request at most once, and only one that was         *)
(* accepted, has not been run and has no answer yet.                       *)
ChannelInv ==
    /\ \A i, j \in DOMAIN tasks : tasks[i] = tasks[j] => i = j
    /\ \A i \in DOMAIN tasks :
         /\ started[tasks[i]] = 0
         /\ result[tasks[i]] = None
         /\ caller[tasks[i]] \in {"wait", "cancelled"}

(* A busy worker holds a request of its own, started once and unanswered.  *)
WorkerInv ==
    /\ \A w \in Workers : Busy(w) <=> worker[w].task # None
    /\ \A w \in Workers : worker[w].at = "deliver" => worker[w].answer # None
    /\ \A v, w \in Workers :
         worker[v].task = worker[w].task /\ worker[v].task # None => v = w
    /\ \A w \in Workers : Busy(w) =>
         /\ started[worker[w].task] = 1
         /\ result[worker[w].task] = None
         /\ caller[worker[w].task] \in {"wait", "cancelled"}

(* What a caller knows agrees with what was done with its request.         *)
CallerInv ==
    \A r \in Requests :
        /\ started[r] \in {0, 1}
        /\ caller[r] \in {"new", "submit", "full", "panic"} => started[r] = 0
        /\ caller[r] \in Answers => started[r] = 1 /\ result[r] = None
        /\ caller[r] = "cancelled" => r \in cancelled
        /\ result[r] # None =>
             /\ started[r] = 1 /\ caller[r] \in {"wait", "cancelled"}
             /\ \A w \in Workers : worker[w].task # r
        /\ caller[r] = "wait" /\ r \notin cancelled =>
             Queued(r) \/ result[r] # None \/ \E w \in Workers : worker[w].task = r

(* Workers leave only when the channel is closed and empty.                *)
PhaseInv ==
    /\ \A w \in Workers : worker[w].at = "exited" =>
         ~TasksOpen /\ tasks = <<>>
    /\ phase \in {"drained", "exited"} => \A w \in Workers : worker[w].at = "exited"

(* Each request is in one place, and channel, workers, callers and main    *)
(* agree on which: the inductive invariant behind the properties above.    *)
PlaceInv == ChannelInv /\ WorkerInv /\ CallerInv /\ PhaseInv

(* Liveness, model answering or not: a web request whose client has gone   *)
(* leaves Submit, whatever the pool is doing.                              *)
CancelledReturns ==
    \A r \in WebRequests :
        r \in cancelled ~> (caller[r] \in Returned \/ ~Alive)

(* Liveness, when calls of the model end: a request in Submit gets its     *)
(* outcome before the process is gone.                                     *)
SubmitReturns ==
    ChatEnds => \A r \in Requests :
        caller[r] \in {"submit", "wait"} ~> (caller[r] \in Returned \/ ~Alive)

(* Liveness, when calls of the model end: the deferred Close returns and   *)
(* main exits, unless a late QQ message takes the process down.            *)
CloseReturns == ChatEnds => (phase = "closed" ~> ~Alive)
=============================================================================
