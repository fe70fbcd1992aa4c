------------------------ MODULE ChatTaskPoolProofs --------------------------
(***************************************************************************)
(* Proofs about ChatTaskPool, for any set of requests, any finite set of   *)
(* workers and any queue size.                                             *)
(***************************************************************************)
EXTENDS ChatTaskPool, TLAPS

Inv == TypeOK /\ PlaceInv

USE PoolAssumption DEF Requests, Answers, Returned

-----------------------------------------------------------------------------
(* Type correctness.                                                       *)

LEMMA InitType == Init => TypeOK
BY DEF Init, TypeOK, Phases, Idle

LEMMA CallerType ==
    ASSUME TypeOK, NEW r \in Requests, CallerNext(r)
    PROVE  TypeOK'
<1>1. CASE Arrive(r)
  BY <1>1 DEF TypeOK, Arrive, CallerTo
<1>2. CASE Cancel(r)
  BY <1>2 DEF TypeOK, Cancel
<1>3. CASE Accept(r)
  BY <1>3 DEF TypeOK, Accept, CallerTo
<1>4. CASE RefuseFull(r)
  BY <1>4 DEF TypeOK, RefuseFull, CallerTo
<1>5. CASE SendOnClosed(r)
  BY <1>5 DEF TypeOK, SendOnClosed, CallerTo, Phases
<1>6. CASE GiveUp(r)
  BY <1>6 DEF TypeOK, GiveUp, CallerTo
<1>7. CASE TakeResult(r)
  BY <1>7 DEF TypeOK, TakeResult, CallerTo
<1> QED
  BY <1>1, <1>2, <1>3, <1>4, <1>5, <1>6, <1>7 DEF CallerNext, Submit

LEMMA WorkerType ==
    ASSUME TypeOK, NEW w \in Workers, WorkerNext(w)
    PROVE  TypeOK'
<1>1. CASE Receive(w)
  <2>1. Head(tasks) \in Requests /\ Tail(tasks) \in Seq(Requests)
        /\ Len(Tail(tasks)) <= QueueSize
    BY <1>1 DEF TypeOK, Receive
  <2> QED
    BY <1>1, <2>1 DEF TypeOK, Receive
<1>2. CASE ChatReturns(w)
  BY <1>2 DEF TypeOK, ChatReturns
<1>3. CASE Deliver(w)
  BY <1>3 DEF TypeOK, Deliver, Idle
<1>4. CASE DropResult(w)
  BY <1>4 DEF TypeOK, DropResult, Idle
<1>5. CASE WorkerExit(w)
  BY <1>5 DEF TypeOK, WorkerExit
<1> QED
  BY <1>1, <1>2, <1>3, <1>4, <1>5 DEF WorkerNext

LEMMA NextType == TypeOK /\ [Next]_vars => TypeOK'
<1> SUFFICES ASSUME TypeOK, [Next]_vars PROVE TypeOK'
  OBVIOUS
<1>1. CASE \E r \in Requests : CallerNext(r)
  BY <1>1, CallerType
<1>2. CASE \E w \in Workers : WorkerNext(w)
  BY <1>2, WorkerType
<1>3. CASE MainNext
  BY <1>3 DEF TypeOK, MainNext, StopServing, CloseTasks, WaitWorkers, Exit, MainTo, Phases
<1>4. CASE UNCHANGED vars
  BY <1>4 DEF TypeOK, vars
<1> QED
  BY <1>1, <1>2, <1>3, <1>4 DEF Next, Gone

(* The state of the pool, of its callers and of main keeps its shape.      *)
THEOREM TypeCorrect == Spec => []TypeOK
BY InitType, NextType, PTL DEF Spec

-----------------------------------------------------------------------------
(* The inductive invariant.                                                *)

LEMMA InitPlace == Init => PlaceInv
<1> SUFFICES ASSUME Init PROVE PlaceInv
  OBVIOUS
<1>1. tasks = <<>> /\ DOMAIN tasks = {}
  BY DEF Init
<1>2. \A w \in Workers : worker[w] = Idle
  BY DEF Init
<1>3. ChannelInv
  BY <1>1 DEF ChannelInv
<1>4. WorkerInv
  BY <1>2 DEF WorkerInv, Busy, Idle
<1>5. CallerInv
  BY DEF Init, CallerInv
<1>6. PhaseInv
  BY <1>2 DEF PhaseInv, Idle, Init
<1> QED
  BY <1>3, <1>4, <1>5, <1>6 DEF PlaceInv

(* Appending a request the channel does not hold keeps its entries apart.  *)
LEMMA AppendEntries ==
    ASSUME NEW S, NEW s \in Seq(S), NEW e \in S
    PROVE  /\ DOMAIN Append(s, e) = DOMAIN s \cup {Len(s) + 1}
           /\ Len(s) + 1 \notin DOMAIN s
           /\ \A i \in DOMAIN s : Append(s, e)[i] = s[i]
           /\ Append(s, e)[Len(s) + 1] = e
OBVIOUS

(* The entries of a tail are the later entries of the sequence.            *)
LEMMA TailEntries ==
    ASSUME NEW S, NEW s \in Seq(S), s # <<>>
    PROVE  /\ 1 \in DOMAIN s /\ Head(s) = s[1]
           /\ \A i \in DOMAIN Tail(s) : i + 1 \in DOMAIN s /\ Tail(s)[i] = s[i + 1] /\ i + 1 # 1
           /\ \A i \in DOMAIN s : i # 1 => i - 1 \in DOMAIN Tail(s) /\ Tail(s)[i - 1] = s[i]
           /\ \A i, j \in DOMAIN Tail(s) : i + 1 = j + 1 => i = j
OBVIOUS

LEMMA ArrivePlace ==
    ASSUME Inv, NEW r \in Requests, Arrive(r)
    PROVE  PlaceInv'
<1> USE DEF Inv, TypeOK, Arrive, CallerTo
<1>1. ChannelInv'
  BY DEF PlaceInv, ChannelInv
<1>2. WorkerInv'
  BY DEF PlaceInv, WorkerInv, Busy
<1>3. CallerInv'
  BY DEF PlaceInv, CallerInv, Queued
<1>4. PhaseInv'
  BY DEF PlaceInv, PhaseInv, TasksOpen
<1> QED
  BY <1>1, <1>2, <1>3, <1>4 DEF PlaceInv

LEMMA CancelPlace ==
    ASSUME Inv, NEW r \in Requests, Cancel(r)
    PROVE  PlaceInv'
<1> USE DEF Inv, TypeOK, Cancel
<1>1. ChannelInv'
  BY DEF PlaceInv, ChannelInv
<1>2. WorkerInv'
  BY DEF PlaceInv, WorkerInv, Busy
<1>3. CallerInv'
  BY DEF PlaceInv, CallerInv, Queued
<1>4. PhaseInv'
  BY DEF PlaceInv, PhaseInv, TasksOpen
<1> QED
  BY <1>1, <1>2, <1>3, <1>4 DEF PlaceInv

LEMMA AcceptPlace ==
    ASSUME Inv, NEW r \in Requests, Accept(r)
    PROVE  PlaceInv'
<1> USE DEF Inv, TypeOK, Accept, CallerTo
<1>1. /\ DOMAIN tasks' = DOMAIN tasks \cup {Len(tasks) + 1}
      /\ Len(tasks) + 1 \notin DOMAIN tasks
      /\ \A i \in DOMAIN tasks : tasks'[i] = tasks[i]
      /\ tasks'[Len(tasks) + 1] = r
  BY AppendEntries
<1>2. started[r] = 0 /\ result[r] = None /\ caller'[r] = "wait"
  BY DEF PlaceInv, CallerInv
<1>3. \A i \in DOMAIN tasks : tasks[i] # r /\ tasks[i] \in Requests
  BY DEF PlaceInv, ChannelInv
<1>4. ChannelInv'
  BY <1>1, <1>2, <1>3 DEF PlaceInv, ChannelInv
<1>5. WorkerInv'
  BY DEF PlaceInv, WorkerInv, Busy
<1>6. CallerInv'
  <2>1. \A q \in Requests : Queued(q) => Queued(q)'
    BY <1>1 DEF Queued
  <2>2. Queued(r)'
    BY <1>1 DEF Queued
  <2> QED
    BY <2>1, <2>2, <1>2 DEF PlaceInv, CallerInv
<1>7. PhaseInv'
  BY DEF PlaceInv, PhaseInv, TasksOpen
<1> QED
  BY <1>4, <1>5, <1>6, <1>7 DEF PlaceInv

LEMMA RefuseFullPlace ==
    ASSUME Inv, NEW r \in Requests, RefuseFull(r)
    PROVE  PlaceInv'
<1> USE DEF Inv, TypeOK, RefuseFull, CallerTo
<1>1. ChannelInv'
  BY DEF PlaceInv, ChannelInv
<1>2. WorkerInv'
  BY DEF PlaceInv, WorkerInv, Busy
<1>3. CallerInv'
  BY DEF PlaceInv, CallerInv, Queued
<1>4. PhaseInv'
  BY DEF PlaceInv, PhaseInv, TasksOpen
<1> QED
  BY <1>1, <1>2, <1>3, <1>4 DEF PlaceInv

LEMMA SendOnClosedPlace ==
    ASSUME Inv, NEW r \in Requests, SendOnClosed(r)
    PROVE  PlaceInv'
<1> USE DEF Inv, TypeOK, SendOnClosed, CallerTo
<1>1. ChannelInv'
  BY DEF PlaceInv, ChannelInv
<1>2. WorkerInv'
  BY DEF PlaceInv, WorkerInv, Busy
<1>3. CallerInv'
  BY DEF PlaceInv, CallerInv, Queued
<1>4. PhaseInv'
  BY DEF PlaceInv, PhaseInv, TasksOpen
<1> QED
  BY <1>1, <1>2, <1>3, <1>4 DEF PlaceInv

LEMMA GiveUpPlace ==
    ASSUME Inv, NEW r \in Requests, GiveUp(r)
    PROVE  PlaceInv'
<1> USE DEF Inv, TypeOK, GiveUp, CallerTo
<1>1. ChannelInv'
  BY DEF PlaceInv, ChannelInv
<1>2. WorkerInv'
  BY DEF PlaceInv, WorkerInv, Busy
<1>3. CallerInv'
  BY DEF PlaceInv, CallerInv, Queued
<1>4. PhaseInv'
  BY DEF PlaceInv, PhaseInv, TasksOpen
<1> QED
  BY <1>1, <1>2, <1>3, <1>4 DEF PlaceInv

LEMMA TakeResultPlace ==
    ASSUME Inv, NEW r \in Requests, TakeResult(r)
    PROVE  PlaceInv'
<1> USE DEF Inv, TypeOK, TakeResult, CallerTo
<1>1. started[r] = 1 /\ \A w \in Workers : worker[w].task # r
  BY DEF PlaceInv, CallerInv
<1>2. \A i \in DOMAIN tasks : tasks[i] # r
  BY <1>1 DEF PlaceInv, ChannelInv
<1>3. ChannelInv'
  BY <1>2 DEF PlaceInv, ChannelInv
<1>4. WorkerInv'
  BY <1>1 DEF PlaceInv, WorkerInv, Busy
<1>5. CallerInv'
  BY <1>1 DEF PlaceInv, CallerInv, Queued
<1>6. PhaseInv'
  BY DEF PlaceInv, PhaseInv, TasksOpen
<1> QED
  BY <1>3, <1>4, <1>5, <1>6 DEF PlaceInv

LEMMA ReceivePlace ==
    ASSUME Inv, NEW w \in Workers, Receive(w)
    PROVE  PlaceInv'
<1> USE DEF Inv, TypeOK, Receive
<1> DEFINE h == Head(tasks)
<1>1. /\ 1 \in DOMAIN tasks /\ h = tasks[1] /\ h \in Requests
      /\ \A i \in DOMAIN tasks' : i + 1 \in DOMAIN tasks /\ tasks'[i] = tasks[i + 1] /\ i + 1 # 1
      /\ \A i \in DOMAIN tasks : i # 1 => i - 1 \in DOMAIN tasks' /\ tasks'[i - 1] = tasks[i]
      /\ \A i, j \in DOMAIN tasks' : i + 1 = j + 1 => i = j
  BY TailEntries
<1>2. started[h] = 0 /\ result[h] = None /\ caller[h] \in {"wait", "cancelled"}
  BY <1>1 DEF PlaceInv, ChannelInv
<1>3. started' = [started EXCEPT ![h] = 1]
  BY <1>1, <1>2
<1>4. \A v \in Workers : worker[v].task # h
  BY <1>2, <1>1 DEF PlaceInv, WorkerInv
<1>5. \A i \in DOMAIN tasks' : tasks'[i] # h /\ tasks'[i] \in Requests
  BY <1>1 DEF PlaceInv, ChannelInv
<1>6. ChannelInv'
  BY <1>1, <1>3, <1>5 DEF PlaceInv, ChannelInv
<1>7. WorkerInv'
  <2>1. worker'[w] = [at |-> "chat", task |-> h, answer |-> None]
        /\ \A v \in Workers \ {w} : worker'[v] = worker[v]
    OBVIOUS
  <2>2. h # None
    BY <1>1
  <2> QED
    BY <2>1, <2>2, <1>2, <1>3, <1>4 DEF PlaceInv, WorkerInv, Busy
<1>8. CallerInv'
  <2>1. ASSUME NEW q \in Requests \ {h}, Queued(q) PROVE Queued(q)'
    <3>1. PICK i \in DOMAIN tasks : tasks[i] = q
      BY <2>1 DEF Queued
    <3>2. i # 1
      BY <3>1, <1>1
    <3> HIDE DEF h
    <3> QED
      BY <3>1, <3>2, <1>1 DEF Queued
  <2>2. worker'[w].task = h /\ \A v \in Workers \ {w} : worker'[v] = worker[v]
    OBVIOUS
  <2>3. worker[w].task = None
    BY DEF PlaceInv, WorkerInv, Busy
  <2> QED
    BY <2>1, <2>2, <2>3, <1>1, <1>2, <1>3 DEF PlaceInv, CallerInv
<1>9. PhaseInv'
  BY DEF PlaceInv, PhaseInv, TasksOpen, Alive
<1> QED
  BY <1>6, <1>7, <1>8, <1>9 DEF PlaceInv

LEMMA ChatReturnsPlace ==
    ASSUME Inv, NEW w \in Workers, ChatReturns(w)
    PROVE  PlaceInv'
<1> USE DEF Inv, TypeOK, ChatReturns
<1>1. PICK a \in Answers :
        worker' = [worker EXCEPT ![w] = [at |-> "deliver", task |-> worker[w].task, answer |-> a]]
  OBVIOUS
<1>2. /\ worker'[w] = [at |-> "deliver", task |-> worker[w].task, answer |-> a]
      /\ \A v \in Workers \ {w} : worker'[v] = worker[v]
  BY <1>1
<1>3. \A v \in Workers : worker'[v].task = worker[v].task
  BY <1>2
<1>4. ChannelInv'
  BY DEF PlaceInv, ChannelInv
<1>5. WorkerInv'
  <2>1. worker[w].task \in Requests /\ worker[w].task # None /\ a # None
    BY <1>1 DEF PlaceInv, WorkerInv, Busy
  <2>2. \A v \in Workers : (Busy(v) <=> worker[v].task # None)'
    BY <1>2, <2>1 DEF PlaceInv, WorkerInv, Busy
  <2>3. \A v \in Workers : worker'[v].at = "deliver" => worker'[v].answer # None
    BY <1>2, <2>1 DEF PlaceInv, WorkerInv
  <2>4. \A v \in Workers : Busy(v)' => Busy(v)
    BY <1>2 DEF Busy
  <2> QED
    BY <1>3, <2>2, <2>3, <2>4 DEF PlaceInv, WorkerInv
<1>6. CallerInv'
  BY <1>3 DEF PlaceInv, CallerInv, Queued
<1>7. PhaseInv'
  BY <1>2 DEF PlaceInv, PhaseInv, TasksOpen
<1> QED
  BY <1>4, <1>5, <1>6, <1>7 DEF PlaceInv

LEMMA DeliverPlace ==
    ASSUME Inv, NEW w \in Workers, Deliver(w)
    PROVE  PlaceInv'
<1> USE DEF Inv, TypeOK, Deliver
<1> DEFINE t == worker[w].task
<1>1. /\ t \in Requests /\ started[t] = 1 /\ caller[t] \in {"wait", "cancelled"}
      /\ worker[w].answer # None
      /\ \A v \in Workers \ {w} : worker[v].task # t
  BY DEF PlaceInv, WorkerInv, Busy
<1>2. worker'[w] = Idle /\ \A v \in Workers \ {w} : worker'[v] = worker[v]
  OBVIOUS
<1>3. result' = [result EXCEPT ![t] = worker[w].answer]
  OBVIOUS
<1>4. \A i \in DOMAIN tasks : tasks[i] # t
  BY <1>1 DEF PlaceInv, ChannelInv
<1>5. ChannelInv'
  BY <1>3, <1>4 DEF PlaceInv, ChannelInv
<1>6. WorkerInv'
  BY <1>1, <1>2, <1>3 DEF PlaceInv, WorkerInv, Busy, Idle
<1>7. CallerInv'
  <2>1. \A v \in Workers : worker'[v].task # t
    BY <1>1, <1>2 DEF Idle
  <2>2. result'[t] # None /\ \A r \in Requests \ {t} : result'[r] = result[r]
    BY <1>1, <1>3
  <2>3. \A r \in Requests \ {t}, v \in Workers :
           worker'[v].task = r <=> worker[v].task = r
    BY <1>2 DEF Idle, PlaceInv, WorkerInv
  <2>4. ASSUME NEW r \in Requests PROVE Queued(r)' <=> Queued(r)
    BY DEF Queued
  <2> QED
    BY <1>1, <2>1, <2>2, <2>3, <2>4 DEF PlaceInv, CallerInv
<1>8. PhaseInv'
  BY <1>2 DEF PlaceInv, PhaseInv, TasksOpen, Idle, Alive
<1> QED
  BY <1>5, <1>6, <1>7, <1>8 DEF PlaceInv

LEMMA DropResultPlace ==
    ASSUME Inv, NEW w \in Workers, DropResult(w)
    PROVE  PlaceInv'
<1> USE DEF Inv, TypeOK, DropResult
<1>1. worker'[w] = Idle /\ \A v \in Workers \ {w} : worker'[v] = worker[v]
  OBVIOUS
<1>2. ChannelInv'
  BY DEF PlaceInv, ChannelInv
<1>3. WorkerInv'
  BY <1>1 DEF PlaceInv, WorkerInv, Busy, Idle
<1>4. CallerInv'
  BY <1>1 DEF PlaceInv, CallerInv, Queued, Idle
<1>5. PhaseInv'
  BY <1>1 DEF PlaceInv, PhaseInv, TasksOpen, Idle, Alive
<1> QED
  BY <1>2, <1>3, <1>4, <1>5 DEF PlaceInv

LEMMA WorkerExitPlace ==
    ASSUME Inv, NEW w \in Workers, WorkerExit(w)
    PROVE  PlaceInv'
<1> USE DEF Inv, TypeOK, WorkerExit
<1>1. worker'[w].at = "exited" /\ \A v \in Workers \ {w} : worker'[v] = worker[v]
  OBVIOUS
<1>2. \A v \in Workers : worker'[v].task = worker[v].task
  OBVIOUS
<1>3. ChannelInv'
  BY DEF PlaceInv, ChannelInv
<1>4. WorkerInv'
  BY <1>1, <1>2 DEF PlaceInv, WorkerInv, Busy
<1>5. CallerInv'
  BY <1>2 DEF PlaceInv, CallerInv, Queued
<1>6. PhaseInv'
  BY <1>1 DEF PlaceInv, PhaseInv, TasksOpen
<1> QED
  BY <1>3, <1>4, <1>5, <1>6 DEF PlaceInv

LEMMA MainPlace ==
    ASSUME Inv, MainNext
    PROVE  PlaceInv'
<1> USE DEF Inv, TypeOK, MainNext, StopServing, CloseTasks, WaitWorkers, Exit, MainTo
<1>1. ChannelInv'
  BY DEF PlaceInv, ChannelInv
<1>2. WorkerInv'
  BY DEF PlaceInv, WorkerInv, Busy
<1>3. CallerInv'
  BY DEF PlaceInv, CallerInv, Queued
<1>4. PhaseInv'
  BY DEF PlaceInv, PhaseInv, TasksOpen
<1> QED
  BY <1>1, <1>2, <1>3, <1>4 DEF PlaceInv

LEMMA NextPlace == Inv /\ [Next]_vars => PlaceInv'
<1> SUFFICES ASSUME Inv, [Next]_vars PROVE PlaceInv'
  OBVIOUS
<1>1. ASSUME NEW r \in Requests, CallerNext(r) PROVE PlaceInv'
  BY <1>1, ArrivePlace, CancelPlace, AcceptPlace, RefuseFullPlace, SendOnClosedPlace,
     GiveUpPlace, TakeResultPlace DEF CallerNext, Submit
<1>2. ASSUME NEW w \in Workers, WorkerNext(w) PROVE PlaceInv'
  BY <1>2, ReceivePlace, ChatReturnsPlace, DeliverPlace, DropResultPlace, WorkerExitPlace
     DEF WorkerNext
<1>3. CASE MainNext
  BY <1>3, MainPlace
<1>4. CASE UNCHANGED vars
  BY <1>4 DEF Inv, PlaceInv, ChannelInv, WorkerInv, CallerInv, PhaseInv, Busy, Queued,
              TasksOpen, vars
<1> QED
  BY <1>1, <1>2, <1>3, <1>4 DEF Next, Gone

(* Channel, workers, callers and main agree, in every reachable state, on  *)
(* where each request is.                                                  *)
THEOREM PlaceCorrect == Spec => []PlaceInv
<1>1. Init => Inv
  BY InitType, InitPlace DEF Inv
<1>2. Inv /\ [Next]_vars => Inv'
  BY NextType, NextPlace DEF Inv
<1>3. Inv => PlaceInv
  BY DEF Inv
<1> QED
  BY <1>1, <1>2, <1>3, PTL DEF Spec

-----------------------------------------------------------------------------
(* What follows from the invariant.                                        *)

LEMMA InvImpliesRunsOnce == Inv => RunsOnce
BY DEF Inv, TypeOK, PlaceInv, ChannelInv, CallerInv, RunsOnce, Queued

LEMMA InvImpliesNoStrandedCaller == Inv => NoStrandedCaller
<1> SUFFICES ASSUME Inv, NEW r \in Requests, caller[r] = "wait", r \notin cancelled
             PROVE \/ /\ \E i \in DOMAIN tasks : \A j \in DOMAIN tasks : tasks[j] = r <=> j = i
                      /\ Holders(r) = {} /\ result[r] = None
                   \/ ~Queued(r) /\ (\E w \in Workers : Holders(r) = {w}) /\ result[r] = None
                   \/ ~Queued(r) /\ Holders(r) = {} /\ result[r] # None
  BY DEF NoStrandedCaller
<1> USE DEF Inv, PlaceInv
<1>1. CASE Queued(r)
  <2>1. PICK i \in DOMAIN tasks : tasks[i] = r
    BY <1>1 DEF Queued
  <2>2. \A j \in DOMAIN tasks : tasks[j] = r <=> j = i
    BY <2>1 DEF ChannelInv
  <2>3. started[r] = 0 /\ result[r] = None
    BY <2>1 DEF ChannelInv
  <2>4. Holders(r) = {}
    BY <2>3 DEF WorkerInv, Holders
  <2> QED
    BY <2>2, <2>3, <2>4
<1>2. CASE \E w \in Workers : worker[w].task = r
  <2>1. PICK w \in Workers : worker[w].task = r
    BY <1>2
  <2>2. Busy(w) /\ started[r] = 1 /\ result[r] = None
    BY <2>1 DEF WorkerInv
  <2>3. ~Queued(r)
    BY <2>2 DEF ChannelInv, Queued
  <2>4. Holders(r) = {w}
    BY <2>1 DEF WorkerInv, Holders
  <2> QED
    BY <2>2, <2>3, <2>4
<1>3. CASE result[r] # None
  <2>1. started[r] = 1 /\ \A w \in Workers : worker[w].task # r
    BY <1>3 DEF CallerInv
  <2> QED
    BY <1>3, <2>1 DEF ChannelInv, Queued, Holders
<1> QED
  BY <1>1, <1>2, <1>3 DEF CallerInv

LEMMA InvImpliesDeliverNeverBlocks == Inv => DeliverNeverBlocks
BY DEF Inv, PlaceInv, WorkerInv, Busy, DeliverNeverBlocks

LEMMA InvImpliesCloseDrains == Inv /\ Workers # {} => CloseDrains
<1> SUFFICES ASSUME Inv, phase \in {"drained", "exited"}
             PROVE /\ tasks = <<>>
                   /\ \A w \in Workers : worker[w].task = None
                   /\ \A r \in Requests : caller[r] = "wait" /\ r \notin cancelled =>
                         started[r] = 1 /\ result[r] # None
  BY DEF CloseDrains
<1> USE DEF Inv, PlaceInv
<1>1. \A w \in Workers : worker[w].at = "exited"
  BY DEF PhaseInv
<1>2. tasks = <<>>
  BY <1>1 DEF PhaseInv
<1>3. \A w \in Workers : worker[w].task = None
  BY <1>1 DEF WorkerInv, Busy
<1>4. \A r \in Requests : ~Queued(r)
  BY <1>2 DEF Queued
<1> QED
  BY <1>2, <1>3, <1>4 DEF CallerInv

(* A request is run at most once, and never after a refusal.               *)
THEOREM RunsOnceHolds == Spec => []RunsOnce
<1>1. Spec => []Inv
  BY TypeCorrect, PlaceCorrect, PTL DEF Inv
<1> QED
  BY <1>1, InvImpliesRunsOnce, PTL

(* A waiting caller's request is in the channel, with one worker, or       *)
(* answered, and in one of these places only.                              *)
THEOREM NoStrandedCallerHolds == Spec => []NoStrandedCaller
<1>1. Spec => []Inv
  BY TypeCorrect, PlaceCorrect, PTL DEF Inv
<1> QED
  BY <1>1, InvImpliesNoStrandedCaller, PTL

(* A worker never waits for room in a result channel.                      *)
THEOREM DeliverNeverBlocksHolds == Spec => []DeliverNeverBlocks
<1>1. Spec => []Inv
  BY TypeCorrect, PlaceCorrect, PTL DEF Inv
<1> QED
  BY <1>1, InvImpliesDeliverNeverBlocks, PTL

(* When Close has returned, every accepted request has been run.           *)
THEOREM CloseDrainsHolds == Spec => []CloseDrains
<1>1. Spec => []Inv
  BY TypeCorrect, PlaceCorrect, PTL DEF Inv
<1>2. Inv => CloseDrains
  BY InvImpliesCloseDrains
<1> QED
  BY <1>1, <1>2, PTL

-----------------------------------------------------------------------------
(* The outcome of a call is final.                                         *)

LEMMA StepKeepsReturns ==
    ASSUME Inv, Inv', [Next]_vars
    PROVE  \A r \in Requests :
             /\ caller[r] \in Returned => caller'[r] = caller[r]
             /\ caller'[r] \in Answers =>
                  started'[r] = 1 /\ \A w \in Workers : worker'[w].task # r
<1>1. \A r \in Requests : caller'[r] \in Answers =>
         started'[r] = 1 /\ \A w \in Workers : worker'[w].task # r
  BY DEF Inv, PlaceInv, CallerInv, WorkerInv, Busy
<1>2. ASSUME NEW r \in Requests, caller[r] \in Returned
      PROVE  caller'[r] = caller[r]
  <2> USE <1>2 DEF Inv, TypeOK
  <2>1. ASSUME NEW q \in Requests, CallerNext(q) PROVE caller'[r] = caller[r]
    BY <2>1 DEF CallerNext, Submit, Arrive, Cancel, Accept, RefuseFull, SendOnClosed,
                GiveUp, TakeResult, CallerTo
  <2>2. ASSUME NEW w \in Workers, WorkerNext(w) PROVE caller' = caller
    BY <2>2 DEF WorkerNext, Receive, ChatReturns, Deliver, DropResult, WorkerExit
  <2>3. CASE MainNext
    BY <2>3 DEF MainNext, StopServing, CloseTasks, WaitWorkers, Exit, MainTo
  <2>4. CASE UNCHANGED vars
    BY <2>4 DEF vars
  <2> QED
    BY <2>1, <2>2, <2>3, <2>4 DEF Next, Gone
<1> QED
  BY <1>1, <1>2

(* A call that has returned is never moved again, and an answer is heard   *)
(* only of a request that ran to its end.                                  *)
THEOREM ReturnIsFinalHolds == Spec => ReturnIsFinal
<1>1. Spec => []Inv
  BY TypeCorrect, PlaceCorrect, PTL DEF Inv
<1>2. Inv /\ Inv' /\ [Next]_vars =>
        [\A r \in Requests :
         /\ caller[r] \in Returned => caller'[r] = caller[r]
         /\ caller'[r] \in Answers =>
              started'[r] = 1 /\ \A w \in Workers : worker'[w].task # r]_vars
  BY StepKeepsReturns
<1> QED
  BY <1>1, <1>2, PTL DEF Spec, ReturnIsFinal
=============================================================================
