----------------------- MODULE ChatTaskPoolRefinement -----------------------
(***************************************************************************)
(* The chat task pool implements ChatDispatch: every step of the pool is   *)
(* one step of the dispatcher, or leaves what the dispatcher shows alone.  *)
(***************************************************************************)
EXTENDS ChatTaskPoolProofs, FiniteSetTheorems

USE PoolAssumption DEF Requests, Answers, Returned

ChatWorkers == {v \in Workers : worker[v].at = "chat"}

Heard == [r \in Requests |-> IF caller[r] \in Returned THEN caller[r] ELSE None]

Shown == <<TasksOpen, tasks, Running, Ran, Heard>>

(* A worker that is free to receive leaves room among the running.         *)
LEMMA FreeWorkerBoundsRunning ==
    ASSUME TypeOK, NEW w \in Workers, worker[w].at # "chat"
    PROVE  Cardinality(Running) < Cardinality(Workers)
<1> DEFINE f == [v \in ChatWorkers |-> worker[v].task]
<1>1. /\ IsFiniteSet(Workers \ {w})
      /\ Cardinality(Workers \ {w}) = Cardinality(Workers) - 1
      /\ Cardinality(Workers) \in Nat /\ Cardinality(Workers \ {w}) \in Nat
  BY FS_RemoveElement, FS_CardinalityType
<1>2. ChatWorkers \in SUBSET (Workers \ {w})
  BY DEF ChatWorkers
<1>3. /\ IsFiniteSet(ChatWorkers)
      /\ Cardinality(ChatWorkers) <= Cardinality(Workers \ {w})
      /\ Cardinality(ChatWorkers) \in Nat
  BY <1>1, <1>2, FS_Subset, FS_CardinalityType
<1>4. f \in Surjection(ChatWorkers, Running)
  BY DEF Surjection, Running, ChatWorkers
<1>5. IsFiniteSet(Running) /\ Cardinality(Running) <= Cardinality(ChatWorkers)
  BY <1>3, <1>4, FS_Surjection
<1>6. Cardinality(Running) \in Nat
  BY <1>5, FS_CardinalityType
<1> QED
  BY <1>1, <1>3, <1>5, <1>6

(* Running and Ran tell apart the requests that were started.              *)
LEMMA RunningStarted ==
    ASSUME Inv
    PROVE  /\ Running \subseteq {r \in Requests : started[r] = 1}
           /\ \A r \in Requests : started[r] = 0 =>
                r \notin Running /\ r \notin Ran
           /\ \A r \in Requests :
                started[r] = 1 /\ (\A w \in Workers : worker[w].task # r) => r \in Ran
<1> USE DEF Inv, TypeOK, PlaceInv
<1>1. \A w \in Workers : worker[w].at = "chat" =>
         worker[w].task \in Requests /\ started[worker[w].task] = 1
  BY DEF WorkerInv, Busy
<1> QED
  BY <1>1 DEF Running, Ran

LEMMA InitShown == Init => Dispatch!Start0
<1> SUFFICES ASSUME Init PROVE Dispatch!Start0
  OBVIOUS
<1>1. Running = {}
  BY DEF Init, Running, Idle
<1>2. Ran = {}
  BY DEF Init, Ran
<1>3. Heard = [r \in Requests |-> None]
  BY DEF Init, Heard
<1> QED
  BY <1>1, <1>2, <1>3 DEF Init, Dispatch!Start0, TasksOpen, Heard

(* Hearing an outcome is the only change of a step that ends a call.       *)
LEMMA CallerShown ==
    ASSUME Inv, NEW r \in Requests, CallerNext(r)
    PROVE  Dispatch!DispatchNext \/ UNCHANGED Shown
<1> USE DEF Inv, TypeOK, CallerTo
<1>1. ASSUME UNCHANGED <<worker, started>>
      PROVE  Running' = Running /\ Ran' = Ran
  BY <1>1 DEF Running, Ran
<1>2. ASSUME UNCHANGED <<tasks, worker, started>>, TasksOpen' = TasksOpen,
             NEW o \in Returned, caller' = [caller EXCEPT ![r] = o],
             caller[r] \in {"submit", "wait"},
             o \in Answers => r \in Ran,
             o \in {"full", "panic"} => ~Dispatch!Admitted(r)
      PROVE  Dispatch!DispatchNext
  <2>1. Heard[r] = None
    BY <1>2 DEF Heard
  <2>2. Heard' = [Heard EXCEPT ![r] = o]
    BY <1>2 DEF Heard
  <2>3. Dispatch!Hear(r, o)
    BY <1>1, <1>2, <2>1, <2>2 DEF Dispatch!Hear, Heard
  <2> QED
    BY <2>3 DEF Dispatch!DispatchNext
<1>3. started[r] = 0 /\ caller[r] = "submit" => ~Dispatch!Admitted(r)
  BY RunningStarted DEF PlaceInv, ChannelInv, Dispatch!Admitted
<1>4. caller[r] = "submit" => started[r] = 0
  BY DEF PlaceInv, CallerInv
<1>5. CASE Arrive(r)
  <2>1. Heard' = Heard
    BY <1>5 DEF Heard, Arrive
  <2> QED
    BY <1>1, <1>5, <2>1 DEF Arrive, Shown, TasksOpen
<1>6. CASE Cancel(r)
  BY <1>1, <1>6 DEF Cancel, Shown, TasksOpen, Heard
<1>7. CASE Accept(r)
  <2>1. Heard' = Heard /\ Heard[r] = None
    BY <1>7 DEF Heard, Accept
  <2>2. Dispatch!Admit(r)
    BY <1>1, <1>3, <1>4, <1>7, <2>1 DEF Accept, Dispatch!Admit, TasksOpen, Heard
  <2> QED
    BY <2>2 DEF Dispatch!DispatchNext
<1>8. CASE RefuseFull(r)
  BY <1>2, <1>3, <1>4, <1>8 DEF RefuseFull, TasksOpen
<1>9. CASE SendOnClosed(r)
  <2>1. TasksOpen' = TasksOpen
    BY <1>9 DEF SendOnClosed, TasksOpen
  <2> QED
    BY <1>2, <1>3, <1>4, <1>9, <2>1 DEF SendOnClosed
<1>10. CASE GiveUp(r)
  BY <1>2, <1>10 DEF GiveUp, TasksOpen
<1>11. CASE TakeResult(r)
  <2>1. result[r] \in Answers /\ r \in Ran
    BY <1>11, RunningStarted DEF TakeResult, PlaceInv, CallerInv
  <2> QED
    BY <1>2, <1>11, <2>1 DEF TakeResult, TasksOpen
<1> QED
  BY <1>5, <1>6, <1>7, <1>8, <1>9, <1>10, <1>11 DEF CallerNext, Submit

LEMMA WorkerShown ==
    ASSUME Inv, NEW w \in Workers, WorkerNext(w)
    PROVE  Dispatch!DispatchNext \/ UNCHANGED Shown
<1> USE DEF Inv, TypeOK
<1>1. ASSUME UNCHANGED started,
             \A v \in Workers :
               /\ worker'[v].at = "chat" <=> worker[v].at = "chat"
               /\ worker[v].at = "chat" => worker'[v].task = worker[v].task
      PROVE  Running' = Running /\ Ran' = Ran
  <2>1. Running' = Running
    BY <1>1 DEF Running
  <2> QED
    BY <1>1, <2>1 DEF Ran
<1>2. CASE Receive(w)
  <2> DEFINE h == Head(tasks)
  <2>1. h \in Requests /\ started[h] = 0
    <3>1. 1 \in DOMAIN tasks /\ h = tasks[1]
      BY <1>2, TailEntries DEF Receive
    <3> QED
      BY <3>1 DEF PlaceInv, ChannelInv
  <2>2. /\ worker'[w] = [at |-> "chat", task |-> h, answer |-> None]
        /\ \A v \in Workers \ {w} : worker'[v] = worker[v]
        /\ worker[w].at # "chat"
    BY <1>2 DEF Receive
  <2>3. Running' = Running \cup {h}
    <3>1. {v \in Workers : worker'[v].at = "chat"} = ChatWorkers \cup {w}
      BY <2>2 DEF ChatWorkers
    <3>2. \A v \in ChatWorkers : worker'[v].task = worker[v].task
      BY <2>2 DEF ChatWorkers
    <3>3. worker'[w].task = h
      BY <2>2
    <3> HIDE DEF h
    <3> QED
      BY <3>1, <3>2, <3>3 DEF Running, ChatWorkers
  <2>4. started' = [started EXCEPT ![h] = 1]
    BY <1>2, <2>1 DEF Receive
  <2>5. Ran' = Ran
    BY <2>1, <2>3, <2>4 DEF Ran
  <2>6. Cardinality(Running) < Cardinality(Workers)
    BY <2>2, FreeWorkerBoundsRunning
  <2>7. UNCHANGED <<TasksOpen, Heard>> /\ tasks # <<>> /\ tasks' = Tail(tasks)
    BY <1>2 DEF Receive, TasksOpen, Heard
  <2>8. Dispatch!Cardinality(Running) = Cardinality(Running)
    BY DEF Dispatch!Cardinality, Cardinality
  <2>9. Dispatch!Begin
    BY <2>8, <2>3, <2>5, <2>6, <2>7 DEF Dispatch!Begin, Heard
  <2> QED
    BY <2>9 DEF Dispatch!DispatchNext
<1>3. CASE ChatReturns(w)
  <2> DEFINE t == worker[w].task
  <2>1. PICK a \in Answers :
          worker' = [worker EXCEPT ![w] = [at |-> "deliver", task |-> t, answer |-> a]]
    BY <1>3 DEF ChatReturns
  <2>2. /\ worker'[w].at = "deliver"
        /\ \A v \in Workers \ {w} : worker'[v] = worker[v]
        /\ worker[w].at = "chat"
    BY <1>3, <2>1 DEF ChatReturns
  <2>3. t \in Requests /\ started[t] = 1 /\ \A v \in Workers \ {w} : worker[v].task # t
    BY <2>2 DEF PlaceInv, WorkerInv, Busy
  <2>4. t \in Running /\ Running' = Running \ {t}
    BY <2>2, <2>3 DEF Running
  <2>5. Ran' = Ran \cup {t}
    BY <1>3, <2>3, <2>4 DEF Ran, ChatReturns
  <2>6. Dispatch!Finish(t)
    BY <1>3, <2>4, <2>5 DEF ChatReturns, Dispatch!Finish, TasksOpen, Heard
  <2> QED
    BY <2>3, <2>6 DEF Dispatch!DispatchNext
<1>4. CASE Deliver(w)
  <2>1. Running' = Running /\ Ran' = Ran
    BY <1>1, <1>4 DEF Deliver, Idle
  <2> QED
    BY <1>4, <2>1 DEF Deliver, Shown, TasksOpen, Heard
<1>5. CASE DropResult(w)
  <2>1. Running' = Running /\ Ran' = Ran
    BY <1>1, <1>5 DEF DropResult, Idle
  <2> QED
    BY <1>5, <2>1 DEF DropResult, Shown, TasksOpen, Heard
<1>6. CASE WorkerExit(w)
  <2>1. Running' = Running /\ Ran' = Ran
    BY <1>1, <1>6 DEF WorkerExit, Idle
  <2> QED
    BY <1>6, <2>1 DEF WorkerExit, Shown, TasksOpen, Heard
<1> QED
  BY <1>2, <1>3, <1>4, <1>5, <1>6 DEF WorkerNext

LEMMA MainShown ==
    ASSUME Inv, MainNext
    PROVE  Dispatch!DispatchNext \/ UNCHANGED Shown
<1>1. Running' = Running /\ Ran' = Ran /\ Heard' = Heard /\ tasks' = tasks
  BY DEF MainNext, StopServing, CloseTasks, WaitWorkers, Exit, MainTo, Running, Ran, Heard
<1>2. CASE CloseTasks
  <2>1. Dispatch!Shut
    BY <1>1, <1>2 DEF CloseTasks, MainTo, Dispatch!Shut, TasksOpen, Heard
  <2> QED
    BY <2>1 DEF Dispatch!DispatchNext
<1>3. CASE StopServing \/ WaitWorkers \/ Exit
  BY <1>1, <1>3 DEF StopServing, WaitWorkers, Exit, MainTo, Shown, TasksOpen
<1> QED
  BY <1>2, <1>3 DEF MainNext

LEMMA NextShown == Inv /\ [Next]_vars => [Dispatch!DispatchNext]_(Dispatch!dispatchVars)
<1> SUFFICES ASSUME Inv, [Next]_vars PROVE Dispatch!DispatchNext \/ UNCHANGED Shown
  BY DEF Dispatch!dispatchVars, Shown, Heard
<1>1. CASE UNCHANGED vars
  BY <1>1 DEF vars, Shown, TasksOpen, Running, Ran, Heard
<1> QED
  BY <1>1, CallerShown, WorkerShown, MainShown DEF Next, Gone

(* The pool keeps what the dispatcher promises: a line of at most          *)
(* QueueSize served in order, at most as many calls of the model at a time *)
(* as there are workers, and one truthful outcome for every caller.        *)
THEOREM PoolImplementsDispatch == Spec => ImplementsDispatch
<1>1. Spec => []Inv
  BY TypeCorrect, PlaceCorrect, PTL DEF Inv
<1> QED
  BY <1>1, InitShown, NextShown, PTL DEF Spec, ImplementsDispatch, Dispatch!DispatchSpec
=============================================================================
