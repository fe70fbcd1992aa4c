--------------------------- MODULE RagMemoryProofs ---------------------------
(***************************************************************************)
(* Proofs about RagMemory, for every number of turns: the bounds of the    *)
(* histories whatever overlaps, their order while no two turns are between *)
(* read and write, and nothing forgotten when nothing overlaps.            *)
(***************************************************************************)
EXTENDS RagMemory, TLAPS

USE MemoryAssumption

Inv == TypeOK /\ OnceInv /\ LengthInv /\ BoundInv /\ FreshInv /\ AloneInv

-----------------------------------------------------------------------------
(* Sequences of entries.                                                   *)

LEMMA AppendEntries ==
    ASSUME NEW S, NEW q \in Seq(S), NEW e \in S
    PROVE  /\ Append(q, e) \in Seq(S) /\ Len(Append(q, e)) = Len(q) + 1
           /\ DOMAIN Append(q, e) = DOMAIN q \cup {Len(q) + 1}
           /\ \A i \in DOMAIN q : i < Len(q) + 1 /\ Append(q, e)[i] = q[i]
           /\ Append(q, e)[Len(q) + 1] = e
OBVIOUS

(* What is appended is the one new member, and comes after the others.     *)
LEMMA Appended ==
    ASSUME NEW q \in Seq(Entry), NEW m \in Message
    PROVE  /\ Append(q, m) \in Seq(Entry) /\ Len(Append(q, m)) = Len(q) + 1
           /\ Members(Append(q, m)) = Members(q) \cup {m}
           /\ InOrder(q) /\ m \notin Members(q)
              /\ (\A i \in DOMAIN q : q[i].of = m.of => q[i].role = "user")
              => InOrder(Append(q, m))
<1> DEFINE h == Append(q, m)
           n == Len(q) + 1
<1>1. /\ h \in Seq(Entry) /\ DOMAIN h = DOMAIN q \cup {n}
      /\ \A i \in DOMAIN q : i < n /\ h[i] = q[i]
      /\ h[n] = m
  BY AppendEntries DEF Entry
<1>2. n \in Nat /\ DOMAIN q \subseteq Nat
  OBVIOUS
<1> HIDE DEF h, n
<1>3. Members(h) = Members(q) \cup {m}
  BY <1>1 DEF Members
<1>4. ASSUME InOrder(q), m \notin Members(q),
             \A i \in DOMAIN q : q[i].of = m.of => q[i].role = "user"
      PROVE  InOrder(h)
  <2> SUFFICES ASSUME NEW i \in DOMAIN h, NEW j \in DOMAIN h
               PROVE  /\ h[i] = h[j] => i = j
                      /\ h[i].of = h[j].of /\ i < j => h[i].role = "user"
    BY DEF InOrder
  <2>1. CASE i \in DOMAIN q /\ j \in DOMAIN q
    BY <1>1, <1>4, <2>1 DEF InOrder
  <2>2. CASE i \in DOMAIN q /\ j = n
    BY <1>1, <1>4, <2>2 DEF Members
  <2>3. CASE i = n /\ j \in DOMAIN q
    BY <1>1, <1>2, <1>4, <2>3 DEF Members
  <2>4. CASE i = n /\ j = n
    BY <1>2, <2>4
  <2> QED
    BY <1>1, <2>1, <2>2, <2>3, <2>4
<1> QED
  BY <1>1, <1>3, <1>4 DEF h

(* A compression cuts a history in two: nothing is lost or held twice.     *)
LEMMA CutInTwo ==
    ASSUME NEW q \in Seq(Entry), Len(q) >= Recent
    PROVE  LET n     == Len(q)
               last  == SubSeq(q, n - Recent + 1, n)
               first == SubSeq(q, 1, n - Recent)
           IN  /\ last \in Seq(Entry) /\ first \in Seq(Entry) /\ Len(last) = Recent
               /\ Members(q) = Members(first) \cup Members(last)
               /\ InOrder(q) => InOrder(last) /\ Members(first) \cap Members(last) = {}
<1> DEFINE n     == Len(q)
           last  == SubSeq(q, n - Recent + 1, n)
           first == SubSeq(q, 1, n - Recent)
<1>1. n \in Nat /\ n >= 3 /\ DOMAIN q = 1..n
  BY DEF Recent
<1>2. /\ last \in Seq(Entry) /\ DOMAIN last = 1..3 /\ Len(last) = 3
      /\ \A i \in 1..3 : last[i] = q[i + (n - 3)]
  BY <1>1 DEF Recent
<1>3. /\ first \in Seq(Entry) /\ DOMAIN first = 1..(n - 3)
      /\ \A i \in 1..(n - 3) : first[i] = q[i]
  BY <1>1 DEF Recent
<1> HIDE DEF n, last, first
<1>4. Members(q) = Members(first) \cup Members(last)
  <2>1. \A i \in DOMAIN first : i \in DOMAIN q
    BY <1>1, <1>3
  <2>2. \A i \in DOMAIN last : i + (n - 3) \in DOMAIN q
    BY <1>1, <1>2
  <2>3. \A i \in DOMAIN q : \/ i \in DOMAIN first
                            \/ i - (n - 3) \in DOMAIN last /\ (i - (n - 3)) + (n - 3) = i
    BY <1>1, <1>2, <1>3
  <2> QED
    BY <1>2, <1>3, <2>1, <2>2, <2>3 DEF Members
<1>5. ASSUME InOrder(q) PROVE InOrder(last)
  <2> SUFFICES ASSUME NEW i \in 1..3, NEW j \in 1..3
               PROVE  /\ last[i] = last[j] => i = j
                      /\ last[i].of = last[j].of /\ i < j => last[i].role = "user"
    BY <1>2 DEF InOrder
  <2>1. i + (n - 3) \in DOMAIN q /\ j + (n - 3) \in DOMAIN q
    BY <1>1
  <2>2. /\ i + (n - 3) = j + (n - 3) => i = j
        /\ i < j => i + (n - 3) < j + (n - 3)
    BY <1>1
  <2> QED
    BY <1>2, <1>5, <2>1, <2>2 DEF InOrder
<1>6. ASSUME InOrder(q) PROVE Members(first) \cap Members(last) = {}
  <2> SUFFICES ASSUME NEW i \in DOMAIN first, NEW j \in DOMAIN last, first[i] = last[j]
               PROVE  FALSE
    BY DEF Members
  <2>1. i \in DOMAIN q /\ j + (n - 3) \in DOMAIN q /\ i # j + (n - 3)
    BY <1>1, <1>2, <1>3
  <2> QED
    BY <1>2, <1>3, <1>6, <2>1 DEF InOrder
<1> QED
  BY <1>2, <1>3, <1>4, <1>5, <1>6 DEF n, last, first, Recent

(* What is known of a history has its length, and is all of it while there *)
(* is no race.                                                             *)
LEMMA KnownEntries ==
    ASSUME NEW o, NEW h \in Seq(Entry)
    PROVE  /\ Known(o, h) \in Seq(Entry) /\ Len(Known(o, h)) = Len(h)
           /\ Members(Known(o, h)) \subseteq Entry
           /\ o \notin raced => Known(o, h) = h
<1>1. CASE o \notin raced
  BY <1>1 DEF Known, Members
<1>2. CASE o \in raced
  <2> DEFINE k == [i \in 1..Len(h) |-> None]
  <2>1. Len(h) \in Nat /\ DOMAIN h = 1..Len(h) /\ k \in [1..Len(h) -> Entry]
    BY DEF Entry
  <2>2. k \in Seq(Entry) /\ Len(k) = Len(h)
    BY <2>1
  <2>3. Known(o, h) = k
    BY <1>2, <2>1 DEF Known
  <2> HIDE DEF k
  <2> QED
    BY <1>2, <2>2, <2>3 DEF Members
<1> QED
  BY <1>1, <1>2

-----------------------------------------------------------------------------
(* The steps.                                                              *)

LEMMA Effect ==
    ASSUME TypeOK, NEW t \in Turns, NEW x \in Stages, To(t, x)
    PROVE  /\ at' \in [Turns -> Stages] /\ at'[t] = x
           /\ \A u \in Turns \ {t} : at'[u] = at[u]
BY DEF TypeOK, To

LEMMA TypeStep ==
    ASSUME TypeOK, BoundInv, NEW t \in Turns, Flow(t) \/ Compress(t)
    PROVE  TypeOK'
<1>1. CASE Begin(t)
  <2>1. "model" \in Stages /\ To(t, "model")
    BY <1>1 DEF Begin, Stages
  <2> QED
    BY <1>1, <2>1, Effect DEF Begin, TypeOK, Active
<1>2. CASE ModelReturns(t)
  <2>1. PICK x \in {"failed", "user"} : To(t, x)
    BY <1>2 DEF ModelReturns
  <2>2. x \in Stages /\ t \in Active
    BY <1>2 DEF ModelReturns, Stages, Active
  <2> QED
    BY <1>2, <2>1, <2>2, Effect DEF ModelReturns, TypeOK, Active
<1>3. CASE ReadForAppend(t) \/ ReadForCut(t)
  <2>1. PICK x \in {"storeUser", "storeReply", "cut"} : To(t, x)
    BY <1>3 DEF ReadForAppend, ReadForCut
  <2>2. x \in Stages /\ t \in Active /\ session[t] \in Turns
    BY <1>3 DEF ReadForAppend, ReadForCut, Stages, Active, TypeOK
  <2>3. /\ ReadToWrite(t)
        /\ UNCHANGED <<stored, history, summary, session, merged, overlap, dropped>>
    BY <1>3 DEF ReadForAppend, ReadForCut
  <2> QED
    BY <2>1, <2>2, <2>3, Effect DEF ReadToWrite, TypeOK, Active, Of
<1>4. CASE StoreUser(t)
  <2>1. "reply" \in Stages /\ To(t, "reply") /\ t \in Active
    BY <1>4 DEF StoreUser, Stages, Active
  <2>2. Append(held[t], User(t)) \in Seq(Entry)
    BY Appended DEF TypeOK, User, Message
  <2>3. Known(session[t], Append(held[t], User(t))) \in Seq(Entry)
    BY <2>2, KnownEntries
  <2> QED
    BY <1>4, <2>1, <2>3, Effect DEF StoreUser, TypeOK, Active, Of
<1>5. CASE StoreReply(t)
  <2>1. "compress" \in Stages /\ To(t, "compress") /\ t \in Active
    BY <1>5 DEF StoreReply, Stages, Active
  <2>2. Append(held[t], Assistant(t)) \in Seq(Entry)
    BY Appended DEF TypeOK, Assistant, Message
  <2>3. Known(session[t], Append(held[t], Assistant(t))) \in Seq(Entry)
    BY <2>2, KnownEntries
  <2> QED
    BY <1>5, <2>1, <2>3, Effect DEF StoreReply, TypeOK, Active, Of
<1>6. CASE CheckLength(t)
  <2>1. PICK x \in {"save", "tooLong"} : To(t, x)
    BY <1>6 DEF CheckLength
  <2>2. x \in Stages /\ t \in Active
    BY <1>6 DEF CheckLength, Stages, Active
  <2> QED
    BY <1>6, <2>1, <2>2, Effect DEF CheckLength, TypeOK, Active
<1>7. CASE Cut(t)
  <2> DEFINE last  == SubSeq(held[t], Len(held[t]) - Recent + 1, Len(held[t]))
             first == SubSeq(held[t], 1, Len(held[t]) - Recent)
  <2>1. "summarize" \in Stages /\ To(t, "summarize") /\ t \in Active
    BY <1>7 DEF Cut, Stages, Active
  <2>2. held[t] \in Seq(Entry) /\ Len(held[t]) >= Recent
    BY <1>7 DEF Cut, TypeOK, BoundInv
  <2>3. last \in Seq(Entry) /\ first \in Seq(Entry)
    BY <2>2, CutInTwo
  <2>4. /\ history' = [history EXCEPT ![session[t]] = Known(session[t], last)]
        /\ held' = [held EXCEPT ![t] = first]
        /\ UNCHANGED <<stored, summary, session, merged, overlap, dropped, raced>>
    BY <1>7 DEF Cut, Of
  <2> HIDE DEF last, first
  <2>5. Known(session[t], last) \in Seq(Entry)
    BY <2>3, KnownEntries
  <2> QED
    BY <2>1, <2>3, <2>4, <2>5, Effect DEF TypeOK, Active
<1>8. CASE AskSummary(t)
  <2>1. "asked" \in Stages /\ To(t, "asked") /\ t \in Active
    BY <1>8 DEF AskSummary, Stages, Active
  <2>2. session[t] \in Turns /\ Members(Known(session[t], held[t])) \subseteq Entry
    BY <2>1, KnownEntries DEF TypeOK
  <2> QED
    BY <1>8, <2>1, <2>2, Effect DEF AskSummary, TypeOK, Active, Of
<1>9. CASE SummaryReturns(t)
  <2>1. "save" \in Stages /\ To(t, "save") /\ t \in Active
    BY <1>9 DEF SummaryReturns, Stages, Active
  <2>2. session[t] \in Turns /\ Members(Known(session[t], held[t])) \subseteq Entry
    BY <2>1, KnownEntries DEF TypeOK
  <2> QED
    BY <1>9, <2>1, <2>2, Effect DEF SummaryReturns, TypeOK, Active, Of
<1>10. CASE Save(t)
  <2>1. "done" \in Stages /\ To(t, "done") /\ t \in Active
    BY <1>10 DEF Save, Stages, Active
  <2>2. session[t] \in Turns
    BY <2>1 DEF TypeOK
  <2> QED
    BY <1>10, <2>1, <2>2, Effect DEF Save, TypeOK, Active, Of
<1> QED
  BY <1>1, <1>2, <1>3, <1>4, <1>5, <1>6, <1>7, <1>8, <1>9, <1>10 DEF Flow, Compress

-----------------------------------------------------------------------------
(* What has been written, and where it is.                                 *)

LEMMA WrittenKept ==
    ASSUME NEW t \in Turns, \A u \in Turns \ {t} : at'[u] = at[u],
           \/ at[t] \in {"new", "model", "user"}
              /\ at'[t] \in {"model", "user", "storeUser", "failed"}
           \/ at[t] = "reply" /\ at'[t] = "storeReply"
           \/ at[t] \in {"compress", "tooLong", "cut", "summarize", "asked", "save"}
              /\ at'[t] \in {"tooLong", "cut", "summarize", "asked", "save", "done"}
    PROVE  Written' = Written
BY DEF Written, Message

LEMMA WritesUser ==
    ASSUME NEW t \in Turns, \A u \in Turns \ {t} : at'[u] = at[u],
           at[t] = "storeUser", at'[t] = "reply"
    PROVE  /\ Written' = Written \cup {User(t)} /\ User(t) \in Message
           /\ \A m \in Written : m.of # t
BY DEF Written, Message, User

LEMMA WritesReply ==
    ASSUME NEW t \in Turns, \A u \in Turns \ {t} : at'[u] = at[u],
           at[t] = "storeReply", at'[t] = "compress"
    PROVE  /\ Written' = Written \cup {Assistant(t)} /\ Assistant(t) \in Message
           /\ Assistant(t) \notin Written
           /\ \A m \in Written : m.of = t => m.role = "user"
BY DEF Written, Message, Assistant

(* What a step of t does to the other turns: nothing.                      *)
OthersKeep(t) ==
    \A u \in Turns \ {t} : /\ at'[u] = at[u] /\ session'[u] = session[u]
                           /\ held'[u] = held[u] /\ merged'[u] = merged[u]

(* A Session whose messages t neither has nor comes to have in hand.       *)
LEMMA OnceElsewhere ==
    ASSUME NEW t \in Turns, NEW o \in Turns, Once(o), OthersKeep(t),
           history'[o] = history[o], summary'[o] = summary[o], Written \subseteq Written',
           t \notin Writing(o)', t \notin Compressing(o)'
    PROVE  Once(o)'
<1>1. SessionOnce(o)'
  BY DEF Once, SessionOnce, InOrder, Members
<1>2. \A u \in Turns : /\ u \in Writing(o)' => u # t /\ u \in Writing(o)
                       /\ u \in Compressing(o)' => u # t /\ u \in Compressing(o)
  BY DEF OthersKeep, Writing, Compressing
<1>3. ASSUME NEW u \in Turns PROVE TurnOnce(u, o)'
  <2>1. TurnOnce(u, o)
    BY DEF Once
  <2> QED
    BY <1>2, <2>1 DEF TurnOnce, OthersKeep, Members
<1>4. ASSUME NEW u \in Turns, NEW v \in Turns \ {u} PROVE PairOnce(u, v, o)'
  <2>1. PairOnce(u, v, o)
    BY DEF Once
  <2> QED
    BY <1>2, <2>1 DEF PairOnce, OthersKeep, Members
<1> QED
  BY <1>1, <1>3, <1>4 DEF Once

(* The Session t works on.                                                 *)
LEMMA OnceHere ==
    ASSUME NEW t \in Turns, NEW o \in Turns, Once(o), OthersKeep(t),
           Written \subseteq Written', SessionOnce(o)', TurnOnce(t, o)',
           t \in Writing(o) \/ history'[o] = history[o],
           t \in Writing(o)' => Writing(o) \subseteq {t},
           \A u \in Compressing(o) \ {t} :
             /\ Members(held[u]) \cap (Members(history'[o]) \cup summary'[o]) = {}
             /\ at[u] = "asked" => merged[u] \cap Members(history'[o]) = {}
             /\ t \in Compressing(o)' =>
                  /\ Members(held'[t]) \cap Members(held[u]) = {}
                  /\ at'[t] = "asked" => merged'[t] \cap Members(held[u]) = {}
                  /\ at[u] = "asked" => merged[u] \cap Members(held'[t]) = {}
    PROVE  Once(o)'
<1>1. \A u \in Turns \ {t} : /\ u \in Writing(o)' <=> u \in Writing(o)
                             /\ u \in Compressing(o)' <=> u \in Compressing(o)
  BY DEF OthersKeep, Writing, Compressing
<1>2. ASSUME NEW u \in Turns PROVE TurnOnce(u, o)'
  <2>1. CASE u = t
    BY <2>1
  <2>2. CASE u # t
    <3>1. TurnOnce(u, o) /\ PairOnce(t, u, o)
      BY <2>2 DEF Once
    <3>2. u \in Writing(o) => held'[u] = history'[o]
      BY <2>2, <3>1 DEF TurnOnce, PairOnce, OthersKeep
    <3>3. u \in Compressing(o) =>
            /\ Members(held'[u]) \subseteq Written'
            /\ Members(held'[u]) \cap (Members(history'[o]) \cup summary'[o]) = {}
      BY <2>2, <3>1 DEF TurnOnce, OthersKeep
    <3>4. u \in Compressing(o) /\ at'[u] = "asked" =>
            merged'[u] \subseteq Written' /\ merged'[u] \cap Members(history'[o]) = {}
      BY <2>2, <3>1 DEF TurnOnce, OthersKeep
    <3> QED
      BY <1>1, <2>2, <3>2, <3>3, <3>4 DEF TurnOnce, Members
  <2> QED
    BY <2>1, <2>2
<1>3. ASSUME NEW u \in Turns, NEW v \in Turns \ {u} PROVE PairOnce(u, v, o)'
  <2>1. PairOnce(u, v, o)
    BY DEF Once
  <2>2. CASE u # t /\ v # t
    BY <1>1, <2>1, <2>2 DEF PairOnce, OthersKeep, Members
  <2>3. CASE u = t
    BY <1>1, <2>3 DEF PairOnce, OthersKeep, Members
  <2>4. CASE v = t
    BY <1>1, <2>4 DEF PairOnce, OthersKeep, Members
  <2> QED
    BY <2>2, <2>3, <2>4
<1> QED
  BY <1>2, <1>3 DEF Once

-----------------------------------------------------------------------------
(* The steps that leave messages where they are.                           *)
LEMMA OnceKept ==
    ASSUME Inv, NEW t \in Turns,
           Begin(t) \/ ModelReturns(t) \/ CheckLength(t) \/ Save(t)
    PROVE  OnceInv'
<1>1. TypeOK /\ OnceInv
  BY DEF Inv
<1>2. PICK x \in {"model", "user", "failed", "save", "tooLong", "done"} :
        /\ To(t, x)
        /\ \/ at[t] \in {"new", "model"} /\ x \in {"model", "user", "failed"}
           \/ at[t] = "compress" /\ x \in {"save", "tooLong"}
           \/ at[t] = "save" /\ x = "done"
  <2>1. CASE Begin(t) \/ ModelReturns(t)
    BY <2>1 DEF Begin, ModelReturns
  <2>2. CASE CheckLength(t)
    BY <2>2 DEF CheckLength
  <2>3. CASE Save(t)
    BY <2>3 DEF Save
  <2> QED
    BY <2>1, <2>2, <2>3
<1>3. /\ UNCHANGED <<history, summary, held, merged, raced>>
      /\ session' = session \/ \E o : session' = [session EXCEPT ![t] = o]
  BY DEF Begin, ModelReturns, CheckLength, Save
<1>4. at'[t] = x /\ \A u \in Turns \ {t} : at'[u] = at[u]
  BY <1>1, <1>2, Effect DEF Stages
<1>5. Written \subseteq Written'
  BY <1>2, <1>4, WrittenKept
<1>6. OthersKeep(t)
  BY <1>1, <1>3, <1>4 DEF OthersKeep, TypeOK
<1>7. \A o \in Turns : t \notin Writing(o)' /\ t \notin Compressing(o)'
  BY <1>2, <1>4 DEF Writing, Compressing
<1> QED
  BY <1>1, <1>3, <1>5, <1>6, <1>7, OnceElsewhere DEF OnceInv

(* A step of t on its Session: the others are as they were.                *)
LEMMA OnceWorking ==
    ASSUME Inv, NEW t \in Turns, NEW o \in Turns, o = session[t], session' = session,
           raced \subseteq raced', OthersKeep(t), Written \subseteq Written',
           \A p \in Turns \ {o} : history'[p] = history[p] /\ summary'[p] = summary[p],
           o \notin raced' => Once(o)'
    PROVE  OnceInv'
<1> SUFFICES ASSUME NEW p \in Turns \ raced', p # o PROVE Once(p)'
  BY DEF OnceInv
<1>1. Once(p)
  BY DEF Inv, OnceInv
<1>2. t \notin Writing(p)' /\ t \notin Compressing(p)'
  BY DEF Writing, Compressing
<1> QED
  BY <1>1, <1>2, OnceElsewhere

LEMMA OnceRead ==
    ASSUME Inv, NEW t \in Turns, ReadForAppend(t) \/ ReadForCut(t)
    PROVE  OnceInv'
<1>0. PICK o : o = session[t]
  OBVIOUS
<1>1. TypeOK /\ OnceInv
  BY DEF Inv
<1>2. /\ UNCHANGED <<history, summary, session, merged>>
      /\ held' = [held EXCEPT ![t] = history[o]]
      /\ raced \subseteq raced' /\ (o \notin raced' => Writing(o) = {})
      /\ \/ at[t] = "user" /\ To(t, "storeUser")
         \/ at[t] = "reply" /\ To(t, "storeReply")
         \/ at[t] = "tooLong" /\ To(t, "cut")
  BY <1>0 DEF ReadForAppend, ReadForCut, ReadToWrite, Of
<1>3. t \in Active /\ o \in Turns
  BY <1>0, <1>1, <1>2 DEF TypeOK, Active
<1>4. /\ \/ at[t] = "user" /\ at'[t] = "storeUser"
         \/ at[t] = "reply" /\ at'[t] = "storeReply"
         \/ at[t] = "tooLong" /\ at'[t] = "cut"
      /\ \A u \in Turns \ {t} : at'[u] = at[u]
  BY <1>1, <1>2, Effect DEF Stages
<1>5. Written' = Written
  BY <1>4, WrittenKept
<1>6. OthersKeep(t) /\ held'[t] = history[o]
  BY <1>1, <1>2, <1>4 DEF OthersKeep, TypeOK
<1>7. ASSUME o \notin raced' PROVE Once(o)'
  <2>1. Once(o)
    BY <1>1, <1>2, <1>3, <1>7 DEF OnceInv
  <2>2. SessionOnce(o)'
    BY <1>2, <1>5, <2>1 DEF Once, SessionOnce, InOrder, Members
  <2>3. TurnOnce(t, o)'
    BY <1>2, <1>4, <1>6 DEF TurnOnce, Compressing
  <2>4. Writing(o) = {} /\ t \notin Compressing(o)'
    BY <1>2, <1>4, <1>7 DEF Compressing
  <2>5. \A u \in Compressing(o) \ {t} :
          /\ Members(held[u]) \cap (Members(history'[o]) \cup summary'[o]) = {}
          /\ at[u] = "asked" => merged[u] \cap Members(history'[o]) = {}
    BY <1>2, <2>1 DEF Once, TurnOnce, Compressing
  <2> QED
    BY <1>2, <1>3, <1>5, <1>6, <2>1, <2>2, <2>3, <2>4, <2>5, OnceHere
<1> QED
  BY <1>0, <1>2, <1>3, <1>5, <1>6, <1>7, OnceWorking

LEMMA OnceStored ==
    ASSUME Inv, NEW t \in Turns, StoreUser(t) \/ StoreReply(t)
    PROVE  OnceInv'
<1>0. PICK o : o = session[t]
  OBVIOUS
<1>1. TypeOK /\ OnceInv
  BY DEF Inv
<1>2. PICK m \in {User(t), Assistant(t)} :
        /\ UNCHANGED <<summary, session, held, merged, raced>>
        /\ history' = [history EXCEPT ![o] = Known(o, Append(held[t], m))]
        /\ \/ at[t] = "storeUser" /\ m = User(t) /\ To(t, "reply")
           \/ at[t] = "storeReply" /\ m = Assistant(t) /\ To(t, "compress")
  BY <1>0 DEF StoreUser, StoreReply, Of
<1>3. t \in Active /\ o \in Turns
  BY <1>0, <1>1, <1>2 DEF TypeOK, Active
<1>4. /\ \/ at[t] = "storeUser" /\ m = User(t) /\ at'[t] = "reply"
         \/ at[t] = "storeReply" /\ m = Assistant(t) /\ at'[t] = "compress"
      /\ \A u \in Turns \ {t} : at'[u] = at[u]
  BY <1>1, <1>2, Effect DEF Stages
<1>5. /\ m \in Message /\ Written' = Written \cup {m} /\ m \notin Written /\ m.of = t
      /\ \A w \in Written : w.of = t => w.role = "user"
  <2>1. User(t).of = t /\ Assistant(t).of = t
    BY DEF User, Assistant
  <2> QED
    BY <1>4, <2>1, WritesUser, WritesReply
<1>6. OthersKeep(t) /\ \A p \in Turns \ {o} : history'[p] = history[p] /\ summary'[p] = summary[p]
  BY <1>1, <1>2, <1>4 DEF OthersKeep, TypeOK
<1>7. ASSUME o \notin raced' PROVE Once(o)'
  <2>1. Once(o) /\ t \in Writing(o)
    BY <1>0, <1>1, <1>2, <1>3, <1>7 DEF OnceInv, Writing
  <2>2. held[t] = history[o] /\ held[t] \in Seq(Entry)
    BY <1>1, <2>1 DEF Once, TurnOnce, TypeOK
  <2>3. history'[o] = Append(history[o], m)
    <3>1. Append(held[t], m) \in Seq(Entry)
      BY <1>5, <2>2, Appended
    <3>2. Known(o, Append(held[t], m)) = Append(held[t], m)
      BY <1>2, <1>7, <3>1, KnownEntries
    <3> QED
      BY <1>1, <1>2, <1>3, <2>2, <3>2 DEF TypeOK
  <2>4. /\ InOrder(history[o]) /\ Members(history[o]) \cup summary[o] \subseteq Written
        /\ Members(history[o]) \cap summary[o] = {}
    BY <2>1 DEF Once, SessionOnce
  <2>5. Members(history'[o]) = Members(history[o]) \cup {m} /\ InOrder(history'[o])
    <3>1. m \notin Members(history[o])
      BY <1>5, <2>4
    <3>2. \A i \in DOMAIN history[o] : history[o][i].of = m.of => history[o][i].role = "user"
      BY <1>5, <2>4 DEF Members
    <3> QED
      BY <1>5, <2>2, <2>3, <2>4, <3>1, <3>2, Appended
  <2>6. SessionOnce(o)'
    <3>1. /\ InOrder(history'[o]) /\ Members(history'[o]) \cup summary'[o] \subseteq Written'
          /\ Members(history'[o]) \cap summary'[o] = {}
      BY <1>2, <1>5, <2>4, <2>5
    <3> QED
      BY <3>1 DEF SessionOnce, InOrder, Members
  <2>7. t \notin Writing(o)' /\ t \notin Compressing(o)'
    BY <1>4 DEF Writing, Compressing
  <2>8. \A u \in Compressing(o) \ {t} :
          /\ Members(held[u]) \cap (Members(history'[o]) \cup summary'[o]) = {}
          /\ at[u] = "asked" => merged[u] \cap Members(history'[o]) = {}
    <3> SUFFICES ASSUME NEW u \in Compressing(o) \ {t}
                 PROVE  /\ Members(held[u]) \cap (Members(history'[o]) \cup summary'[o]) = {}
                        /\ at[u] = "asked" => merged[u] \cap Members(history'[o]) = {}
      OBVIOUS
    <3>1. TurnOnce(u, o)
      BY <2>1 DEF Once, Compressing
    <3> QED
      BY <1>2, <1>5, <2>5, <3>1 DEF TurnOnce
  <2> QED
    BY <1>3, <1>5, <1>6, <2>1, <2>6, <2>7, <2>8, OnceHere DEF TurnOnce
<1> QED
  BY <1>0, <1>2, <1>3, <1>5, <1>6, <1>7, OnceWorking

LEMMA OnceCut ==
    ASSUME Inv, NEW t \in Turns, Cut(t)
    PROVE  OnceInv'
<1>0. PICK o : o = session[t]
  OBVIOUS
<1> DEFINE q     == held[t]
           last  == SubSeq(q, Len(q) - Recent + 1, Len(q))
           first == SubSeq(q, 1, Len(q) - Recent)
<1>1. TypeOK /\ OnceInv
  BY DEF Inv
<1>2. /\ UNCHANGED <<summary, session, merged, raced>>
      /\ at[t] = "cut" /\ To(t, "summarize")
      /\ history' = [history EXCEPT ![o] = Known(o, last)]
      /\ held' = [held EXCEPT ![t] = first]
  BY <1>0 DEF Cut, Of
<1>3. t \in Active /\ o \in Turns
  BY <1>0, <1>1, <1>2 DEF TypeOK, Active
<1>4. at'[t] = "summarize" /\ \A u \in Turns \ {t} : at'[u] = at[u]
  BY <1>1, <1>2, Effect DEF Stages
<1>5. Written' = Written
  BY <1>2, <1>4, WrittenKept
<1>6. q \in Seq(Entry) /\ Len(q) >= Recent
  BY <1>1, <1>2 DEF Inv, TypeOK, BoundInv
<1>7. /\ last \in Seq(Entry)
      /\ Members(q) = Members(first) \cup Members(last)
      /\ InOrder(q) => InOrder(last) /\ Members(first) \cap Members(last) = {}
  BY <1>6, CutInTwo
<1> HIDE DEF last, first
<1>8. /\ OthersKeep(t) /\ held'[t] = first
      /\ \A p \in Turns \ {o} : history'[p] = history[p] /\ summary'[p] = summary[p]
  BY <1>1, <1>2, <1>4 DEF OthersKeep, TypeOK
<1>9. ASSUME o \notin raced' PROVE Once(o)'
  <2>1. Once(o) /\ t \in Writing(o)
    BY <1>0, <1>1, <1>2, <1>3, <1>9 DEF OnceInv, Writing
  <2>2. q = history[o]
    BY <2>1 DEF Once, TurnOnce
  <2>3. history'[o] = last
    BY <1>1, <1>2, <1>3, <1>7, <1>9, KnownEntries DEF TypeOK
  <2>4. /\ InOrder(q) /\ Members(q) \cup summary[o] \subseteq Written
        /\ Members(q) \cap summary[o] = {}
    BY <2>1, <2>2 DEF Once, SessionOnce
  <2>5. SessionOnce(o)'
    <3>1. /\ InOrder(history'[o]) /\ Members(history'[o]) \cup summary'[o] \subseteq Written'
          /\ Members(history'[o]) \cap summary'[o] = {}
      BY <1>2, <1>5, <1>7, <2>3, <2>4
    <3> QED
      BY <3>1 DEF SessionOnce, InOrder, Members
  <2>6. TurnOnce(t, o)'
    <3>1. /\ Members(held'[t]) \subseteq Written'
          /\ Members(held'[t]) \cap (Members(history'[o]) \cup summary'[o]) = {}
      BY <1>2, <1>5, <1>7, <1>8, <2>3, <2>4
    <3> QED
      BY <1>4, <3>1 DEF TurnOnce, Writing, Members
  <2>7. t \notin Writing(o)' /\ at'[t] # "asked"
    BY <1>4 DEF Writing
  <2>8. \A u \in Compressing(o) \ {t} :
          /\ Members(held[u]) \cap (Members(history'[o]) \cup summary'[o]) = {}
          /\ at[u] = "asked" => merged[u] \cap Members(history'[o]) = {}
          /\ Members(held'[t]) \cap Members(held[u]) = {}
          /\ at[u] = "asked" => merged[u] \cap Members(held'[t]) = {}
    <3> SUFFICES ASSUME NEW u \in Compressing(o) \ {t}
                 PROVE  /\ Members(held[u]) \cap (Members(last) \cup summary[o]) = {}
                        /\ at[u] = "asked" => merged[u] \cap Members(last) = {}
                        /\ Members(first) \cap Members(held[u]) = {}
                        /\ at[u] = "asked" => merged[u] \cap Members(first) = {}
      BY <1>2, <1>8, <2>3
    <3>1. TurnOnce(u, o)
      BY <2>1 DEF Once, Compressing
    <3> QED
      BY <1>7, <2>2, <3>1 DEF TurnOnce
  <2> QED
    BY <1>3, <1>5, <1>8, <2>1, <2>5, <2>6, <2>7, <2>8, OnceHere
<1> QED
  BY <1>0, <1>2, <1>3, <1>5, <1>8, <1>9, OnceWorking

LEMMA OnceSummary ==
    ASSUME Inv, NEW t \in Turns, AskSummary(t) \/ SummaryReturns(t)
    PROVE  OnceInv'
<1>0. PICK o : o = session[t]
  OBVIOUS
<1>1. TypeOK /\ OnceInv
  BY DEF Inv
<1>2. /\ UNCHANGED <<history, session, held, raced>>
      /\ \/ /\ at[t] = "summarize" /\ To(t, "asked") /\ UNCHANGED summary
            /\ merged' = [merged EXCEPT ![t] = summary[o] \cup Members(Known(o, held[t]))]
         \/ /\ at[t] = "asked" /\ To(t, "save") /\ UNCHANGED merged
            /\ summary' = summary \/ summary' = [summary EXCEPT ![o] = merged[t]]
  BY <1>0 DEF AskSummary, SummaryReturns, Of
<1>3. t \in Active /\ o \in Turns
  BY <1>0, <1>1, <1>2 DEF TypeOK, Active
<1>4. /\ \A u \in Turns \ {t} : at'[u] = at[u]
      /\ \/ /\ at[t] = "summarize" /\ at'[t] = "asked" /\ summary'[o] = summary[o]
            /\ merged'[t] = summary[o] \cup Members(Known(o, held[t]))
         \/ /\ at[t] = "asked" /\ at'[t] = "save"
            /\ summary'[o] = summary[o] \/ summary'[o] = merged[t]
  BY <1>1, <1>2, <1>3, Effect DEF Stages, TypeOK
<1>5. Written' = Written
  BY <1>4, WrittenKept
<1>6. OthersKeep(t) /\ \A p \in Turns \ {o} : history'[p] = history[p] /\ summary'[p] = summary[p]
  BY <1>1, <1>2, <1>4 DEF OthersKeep, TypeOK
<1>7. ASSUME o \notin raced' PROVE Once(o)'
  <2>1. Once(o) /\ t \in Compressing(o) /\ t \notin Writing(o)'
    BY <1>0, <1>1, <1>2, <1>3, <1>4, <1>7 DEF OnceInv, Compressing, Writing
  <2>2. Known(o, held[t]) = held[t]
    BY <1>1, <1>2, <1>7, KnownEntries DEF TypeOK
  <2>3. SessionOnce(o) /\ TurnOnce(t, o)
    BY <2>1 DEF Once
  <2>4. SessionOnce(o)'
    <3>1. /\ InOrder(history'[o]) /\ Members(history'[o]) \cup summary'[o] \subseteq Written'
          /\ Members(history'[o]) \cap summary'[o] = {}
      BY <1>2, <1>4, <1>5, <2>1, <2>3 DEF SessionOnce, TurnOnce
    <3> QED
      BY <3>1 DEF SessionOnce, InOrder, Members
  <2>5. TurnOnce(t, o)'
    <3>1. at'[t] = "asked" =>
            /\ Members(held'[t]) \subseteq Written'
            /\ Members(held'[t]) \cap (Members(history'[o]) \cup summary'[o]) = {}
            /\ merged'[t] \subseteq Written' /\ merged'[t] \cap Members(history'[o]) = {}
      BY <1>2, <1>4, <1>5, <2>1, <2>2, <2>3 DEF SessionOnce, TurnOnce
    <3>2. at'[t] # "asked" => t \notin Compressing(o)'
      BY <1>4 DEF Compressing
    <3> QED
      BY <2>1, <3>1, <3>2 DEF TurnOnce, Members
  <2>6. \A u \in Compressing(o) \ {t} :
          /\ Members(held[u]) \cap (Members(history'[o]) \cup summary'[o]) = {}
          /\ at[u] = "asked" => merged[u] \cap Members(history'[o]) = {}
          /\ Members(held'[t]) \cap Members(held[u]) = {}
          /\ at'[t] = "asked" => merged'[t] \cap Members(held[u]) = {}
          /\ at[u] = "asked" => merged[u] \cap Members(held'[t]) = {}
    <3> SUFFICES ASSUME NEW u \in Compressing(o) \ {t}
                 PROVE  /\ Members(held[u]) \cap (Members(history'[o]) \cup summary'[o]) = {}
                        /\ at[u] = "asked" => merged[u] \cap Members(history'[o]) = {}
                        /\ Members(held'[t]) \cap Members(held[u]) = {}
                        /\ at'[t] = "asked" => merged'[t] \cap Members(held[u]) = {}
                        /\ at[u] = "asked" => merged[u] \cap Members(held'[t]) = {}
      OBVIOUS
    <3>1. TurnOnce(u, o) /\ PairOnce(t, u, o) /\ PairOnce(u, t, o)
      BY <2>1 DEF Once, Compressing
    <3>2. UNCHANGED <<history, held>>
      BY <1>2
    <3>3. CASE at[t] = "asked"
      BY <1>4, <2>1, <3>1, <3>2, <3>3 DEF TurnOnce, PairOnce
    <3>4. CASE at[t] = "summarize"
      BY <1>4, <2>1, <2>2, <3>1, <3>2, <3>4 DEF TurnOnce, PairOnce
    <3> QED
      BY <1>4, <3>3, <3>4
  <2>7. history'[o] = history[o]
    BY <1>2
  <2> QED
    BY <1>3, <1>5, <1>6, <2>1, <2>4, <2>5, <2>6, <2>7, OnceHere
<1> QED
  BY <1>0, <1>2, <1>3, <1>5, <1>6, <1>7, OnceWorking

-----------------------------------------------------------------------------
(* How long a history can be.                                              *)

(* What a write makes of the length: one more than was read, or the three  *)
(* messages a compression keeps.                                           *)
LEMMA StoredLength ==
    ASSUME Inv, NEW t \in Turns, NEW o, o = session[t],
           StoreUser(t) \/ StoreReply(t) \/ Cut(t)
    PROVE  /\ o \in Turns /\ Len(held[t]) \in Nat
           /\ Len(history'[o]) = IF at[t] = "cut" THEN Recent ELSE Len(held[t]) + 1
           /\ \A p \in Turns \ {o} : history'[p] = history[p]
<1>1. TypeOK
  BY DEF Inv
<1>2. t \in Active
  BY DEF StoreUser, StoreReply, Cut, Active
<1>3. o \in Turns /\ held[t] \in Seq(Entry) /\ Len(held[t]) \in Nat
  BY <1>1, <1>2 DEF TypeOK
<1>4. CASE StoreUser(t) \/ StoreReply(t)
  <2>1. PICK m \in {User(t), Assistant(t)} :
          history' = [history EXCEPT ![o] = Known(o, Append(held[t], m))]
    BY <1>4 DEF StoreUser, StoreReply, Of
  <2>2. m \in Message /\ at[t] # "cut"
    BY <1>4 DEF User, Assistant, Message, StoreUser, StoreReply
  <2>3. Append(held[t], m) \in Seq(Entry) /\ Len(Append(held[t], m)) = Len(held[t]) + 1
    BY <1>3, <2>2, Appended
  <2>4. Len(Known(o, Append(held[t], m))) = Len(held[t]) + 1
    BY <2>3, KnownEntries
  <2> QED
    BY <1>1, <1>3, <2>1, <2>2, <2>4 DEF TypeOK
<1>5. CASE Cut(t)
  <2> DEFINE last == SubSeq(held[t], Len(held[t]) - Recent + 1, Len(held[t]))
  <2>1. at[t] = "cut" /\ history' = [history EXCEPT ![o] = Known(o, last)]
    BY <1>5 DEF Cut, Of
  <2>2. last \in Seq(Entry) /\ Len(last) = Recent
    BY <1>3, <2>1, CutInTwo DEF Inv, BoundInv
  <2> HIDE DEF last
  <2>3. Len(Known(o, last)) = Recent
    BY <2>2, KnownEntries
  <2> QED
    BY <1>1, <1>3, <2>1, <2>3 DEF TypeOK
<1> QED
  BY <1>4, <1>5

(* What LengthInv says of one turn.                                        *)
LengthOf(t) ==
    /\ at[t] \in {"storeUser", "storeReply"} =>
         \/ Len(held[t]) >= 2
         \/ /\ session[t] = t /\ stored # t
            /\ \A u \in Turns \ {t} : session[u] # t
            /\ at[t] = "storeReply" => Len(held[t]) >= 1
    /\ at[t] \in {"reply", "storeReply"} => Len(history[Of(t)]) >= 1
    /\ at[t] \in {"compress", "tooLong", "cut", "summarize", "asked", "save"} =>
         Len(history[Of(t)]) >= 2
    /\ at[t] = "tooLong" => Len(history[Of(t)]) >= Recent

(* A step that makes no history shorter than three messages, except a      *)
(* Session that only t knows.                                              *)
LEMMA LengthKept ==
    ASSUME Inv, TypeOK', NEW t \in Turns, OthersKeep(t), session' = session, stored' = stored,
           \A p \in Turns :
             \/ Len(history'[p]) >= 3
             \/ Len(history'[p]) >= Len(history[p])
             \/ p = t /\ stored # t /\ \A u \in Turns \ {t} : session[u] # t,
           LengthOf(t)'
    PROVE  LengthInv'
<1>1. TypeOK /\ LengthInv
  BY DEF Inv
<1>2. \A p \in Turns : Len(history[p]) \in Nat /\ Len(history'[p]) \in Nat
  BY <1>1 DEF TypeOK
<1>3. ASSUME NEW u \in Turns, session[u] # None, session[u] # u
      PROVE  Len(history'[session[u]]) >= 2
  <2>1. PICK p \in Turns : p = session[u]
    BY <1>1, <1>3 DEF TypeOK
  <2>2. Len(history[p]) >= 2
    BY <1>1, <1>3, <2>1 DEF LengthInv
  <2>3. Len(history'[p]) >= 3 \/ Len(history'[p]) >= Len(history[p])
    BY <1>3, <2>1
  <2> QED
    BY <1>2, <2>1, <2>2, <2>3
<1>4. ASSUME stored # None PROVE Len(history'[stored]) >= 2
  <2>1. PICK p \in Turns : p = stored
    BY <1>1, <1>4 DEF TypeOK
  <2>2. Len(history[p]) >= 2
    BY <1>1, <1>4, <2>1 DEF LengthInv
  <2>3. Len(history'[p]) >= 3 \/ Len(history'[p]) >= Len(history[p])
    BY <2>1
  <2> QED
    BY <1>2, <2>1, <2>2, <2>3
<1>5. ASSUME NEW u \in Turns \ {t} PROVE LengthOf(u)'
  <2>1. at'[u] = at[u] /\ held'[u] = held[u]
    BY DEF OthersKeep
  <2>2. LengthOf(u)
    BY <1>1 DEF LengthInv, LengthOf, CutInBounds
  <2>3. u \in Active => /\ session[u] \in Turns
                        /\ \/ Len(history'[session[u]]) >= 3
                           \/ Len(history'[session[u]]) >= Len(history[session[u]])
    BY <1>1 DEF TypeOK
  <2>4. at[u] \in {"reply", "storeReply", "compress", "tooLong", "cut", "summarize", "asked", "save"}
          => u \in Active
    BY DEF Active
  <2> QED
    BY <1>2, <2>1, <2>2, <2>3, <2>4 DEF LengthOf, Of, Recent
<1> QED
  BY <1>3, <1>4, <1>5 DEF LengthInv, LengthOf, CutInBounds

LEMMA LengthStep ==
    ASSUME Inv, TypeOK', NEW t \in Turns, Flow(t) \/ Compress(t)
    PROVE  LengthInv'
<1>0. PICK o : o = session[t]
  OBVIOUS
<1>1. TypeOK /\ LengthInv
  BY DEF Inv
<1>2. \A p \in Turns : Len(history[p]) \in Nat
  BY <1>1 DEF TypeOK
<1>3. CASE Begin(t)
  <2>1. /\ at[t] = "new" /\ To(t, "model") /\ UNCHANGED <<history, stored, held>>
        /\ session' = [session EXCEPT ![t] = IF stored = None THEN t ELSE stored]
    BY <1>3 DEF Begin
  <2>2. at'[t] = "model" /\ \A u \in Turns \ {t} : at'[u] = at[u]
    BY <1>1, <2>1, Effect DEF Stages
  <2>3. /\ session'[t] = IF stored = None THEN t ELSE stored
        /\ \A u \in Turns \ {t} : session'[u] = session[u]
    BY <1>1, <2>1 DEF TypeOK
  <2>4. \A u \in Turns : session'[u] # None /\ session'[u] # u => Len(history[session'[u]]) >= 2
    BY <1>1, <2>3 DEF LengthInv
  <2>5. LengthOf(t)'
    BY <2>2 DEF LengthOf
  <2>6. ASSUME NEW u \in Turns \ {t} PROVE LengthOf(u)'
    <3>1. LengthOf(u)
      BY <1>1 DEF LengthInv, LengthOf, CutInBounds
    <3> QED
      BY <2>1, <2>2, <2>3, <3>1 DEF LengthOf, Of
  <2> QED
    BY <1>1, <2>1, <2>4, <2>5, <2>6 DEF LengthInv, LengthOf, CutInBounds
<1>4. CASE ModelReturns(t) \/ AskSummary(t) \/ SummaryReturns(t)
  <2>1. PICK x \in {"failed", "user", "asked", "save"} :
          To(t, x) /\ (x \in {"asked", "save"} => at[t] \in {"summarize", "asked"})
    BY <1>4 DEF ModelReturns, AskSummary, SummaryReturns
  <2>2. at'[t] = x /\ \A u \in Turns \ {t} : at'[u] = at[u]
    BY <1>1, <2>1, Effect DEF Stages
  <2>3. /\ UNCHANGED <<stored, history, session, held>>
        /\ \A u \in Turns \ {t} : merged'[u] = merged[u]
    BY <1>1, <1>4 DEF ModelReturns, AskSummary, SummaryReturns, TypeOK
  <2>4. LengthOf(t)'
    BY <1>1, <2>1, <2>2, <2>3 DEF LengthInv, LengthOf, Of
  <2> QED
    BY <1>2, <2>2, <2>3, <2>4, LengthKept DEF OthersKeep
<1>5. CASE ReadForAppend(t)
  <2>1. PICK x \in {"storeUser", "storeReply"} :
          To(t, x) /\ (x = "storeReply" => at[t] = "reply") /\ at[t] \in {"user", "reply"}
    BY <1>5 DEF ReadForAppend
  <2>2. at'[t] = x /\ \A u \in Turns \ {t} : at'[u] = at[u]
    BY <1>1, <2>1, Effect DEF Stages
  <2>3. /\ UNCHANGED <<stored, history, session, merged>>
        /\ held'[t] = history[o] /\ \A u \in Turns \ {t} : held'[u] = held[u]
    BY <1>0, <1>1, <1>5 DEF ReadForAppend, ReadToWrite, Of, TypeOK
  <2>4. o \in Turns
    BY <1>0, <1>1, <2>1 DEF TypeOK, Active
  <2>5. x = "storeReply" => Len(history[o]) >= 1
    BY <1>0, <1>1, <2>1 DEF LengthInv, Of
  <2>6. \/ Len(history[o]) >= 2
        \/ o = t /\ stored # t /\ \A u \in Turns \ {t} : session[u] # t
    BY <1>0, <1>1, <2>4, MemoryAssumption DEF LengthInv
  <2>7. LengthOf(t)'
    BY <1>0, <2>2, <2>3, <2>5, <2>6 DEF LengthOf, Of
  <2> QED
    BY <1>2, <2>2, <2>3, <2>7, LengthKept DEF OthersKeep
<1>6. CASE CheckLength(t)
  <2>1. /\ at[t] = "compress" /\ UNCHANGED <<stored, history, session, held, merged>>
        /\ To(t, IF Len(history[o]) <= MaxHistoryLen THEN "save" ELSE "tooLong")
    BY <1>0, <1>6 DEF CheckLength, Of
  <2>2. /\ at'[t] = IF Len(history[o]) <= MaxHistoryLen THEN "save" ELSE "tooLong"
        /\ \A u \in Turns \ {t} : at'[u] = at[u]
    BY <1>1, <2>1, Effect DEF Stages
  <2>3. o \in Turns /\ Len(history[o]) >= 2
    BY <1>0, <1>1, <2>1 DEF TypeOK, Active, LengthInv, Of
  <2>4. LengthOf(t)'
    BY <1>0, <1>2, <2>1, <2>2, <2>3 DEF LengthOf, Of, MaxHistoryLen, Recent
  <2> QED
    BY <1>2, <2>1, <2>2, <2>4, LengthKept DEF OthersKeep
<1>7. CASE ReadForCut(t)
  <2>1. at[t] = "tooLong" /\ To(t, "cut") /\ UNCHANGED <<stored, history, session, merged>>
    BY <1>7 DEF ReadForCut
  <2>2. /\ at'[t] = "cut" /\ \A u \in Turns \ {t} : at'[u] = at[u] /\ held'[u] = held[u]
    BY <1>1, <1>7, <2>1, Effect DEF Stages, ReadForCut, ReadToWrite, TypeOK
  <2>3. LengthOf(t)'
    BY <1>1, <2>1, <2>2 DEF LengthInv, LengthOf, Of
  <2> QED
    BY <1>2, <2>1, <2>2, <2>3, LengthKept DEF OthersKeep
<1>8. CASE StoreUser(t) \/ StoreReply(t) \/ Cut(t)
  <2>1. PICK x \in {"reply", "compress", "summarize"} :
          /\ To(t, x)
          /\ x = "reply" => at[t] = "storeUser"
          /\ x = "compress" => at[t] = "storeReply"
          /\ x = "summarize" => at[t] = "cut"
    <3>1. CASE StoreUser(t)
      BY <3>1 DEF StoreUser
    <3>2. CASE StoreReply(t)
      BY <3>2 DEF StoreReply
    <3>3. CASE Cut(t)
      BY <3>3 DEF Cut
    <3> QED
      BY <1>8, <3>1, <3>2, <3>3
  <2>2. at'[t] = x /\ \A u \in Turns \ {t} : at'[u] = at[u]
    BY <1>1, <2>1, Effect DEF Stages
  <2>3. /\ UNCHANGED <<stored, session, merged>>
        /\ \A u \in Turns \ {t} : held'[u] = held[u]
    BY <1>1, <1>8 DEF StoreUser, StoreReply, Cut, TypeOK
  <2>4. /\ o \in Turns /\ Len(held[t]) \in Nat
        /\ Len(history'[o]) = IF at[t] = "cut" THEN Recent ELSE Len(held[t]) + 1
        /\ \A p \in Turns \ {o} : history'[p] = history[p]
    BY <1>0, <1>8, StoredLength
  <2>5. LengthOf(t)
    BY <1>1 DEF LengthInv, LengthOf, CutInBounds
  <2>6. \/ Len(history'[o]) >= 3
        \/ o = t /\ stored # t /\ \A u \in Turns \ {t} : session[u] # t
    BY <1>0, <2>1, <2>4, <2>5 DEF LengthOf, Recent
  <2>7. /\ x = "reply" => Len(history'[o]) >= 1
        /\ x \in {"compress", "summarize"} => Len(history'[o]) >= 2
    BY <2>1, <2>4, <2>5 DEF LengthOf, Recent
  <2>8. LengthOf(t)'
    BY <1>0, <2>2, <2>3, <2>7 DEF LengthOf, Of
  <2> QED
    BY <1>2, <2>2, <2>3, <2>4, <2>6, <2>8, LengthKept DEF OthersKeep
<1>9. CASE Save(t)
  <2>1. /\ at[t] = "save" /\ To(t, "done") /\ stored' = o
        /\ UNCHANGED <<history, session, held>>
    BY <1>0, <1>9 DEF Save, Of
  <2>2. at'[t] = "done" /\ \A u \in Turns \ {t} : at'[u] = at[u]
    BY <1>1, <2>1, Effect DEF Stages
  <2>3. Len(history[o]) >= 2
    BY <1>0, <1>1, <2>1 DEF LengthInv, Of
  <2>4. LengthOf(t)'
    BY <2>2 DEF LengthOf
  <2>5. ASSUME NEW u \in Turns \ {t} PROVE LengthOf(u)'
    <3>1. LengthOf(u)
      BY <1>1 DEF LengthInv, LengthOf, CutInBounds
    <3> QED
      BY <1>0, <2>1, <2>2, <3>1 DEF LengthOf, Of
  <2> QED
    BY <1>1, <2>1, <2>3, <2>4, <2>5 DEF LengthInv, LengthOf, CutInBounds
<1> QED
  BY <1>3, <1>4, <1>5, <1>6, <1>7, <1>8, <1>9 DEF Flow, Compress

(* Who writes a history will look at its length afterwards.                *)
LEMMA BoundStep ==
    ASSUME Inv, NEW t \in Turns, Flow(t) \/ Compress(t)
    PROVE  BoundInv'
<1>0. PICK o : o = session[t]
  OBVIOUS
<1>1. TypeOK /\ BoundInv /\ at \in [Turns -> Stages]
  BY DEF Inv, TypeOK
<1>2. CASE Begin(t)
  <2>1. /\ at[t] = "new" /\ To(t, "model") /\ UNCHANGED <<history, held>>
        /\ \E p : session' = [session EXCEPT ![t] = p]
    BY <1>2 DEF Begin
  <2>2. at'[t] = "model" /\ \A u \in Turns \ {t} : at'[u] = at[u]
    BY <1>1, <2>1, Effect DEF Stages
  <2>3. \A u \in Turns : Looking(u) => Looking(u)' /\ session'[u] = session[u]
    BY <1>1, <2>1, <2>2 DEF Looking, TypeOK
  <2> QED
    BY <1>1, <2>1, <2>2, <2>3 DEF BoundInv
<1>3. CASE ModelReturns(t) \/ ReadForAppend(t)
  <2>1. PICK x \in {"user", "failed", "storeUser", "storeReply"} :
          To(t, x) /\ (at[t] = "model" \/ x \in {"storeUser", "storeReply"})
    BY <1>3 DEF ModelReturns, ReadForAppend
  <2>2. /\ at'[t] = x /\ \A u \in Turns \ {t} : at'[u] = at[u]
        /\ UNCHANGED <<history, session>>
        /\ \A u \in Turns \ {t} : held'[u] = held[u]
    BY <1>1, <1>3, <2>1, Effect DEF ModelReturns, ReadForAppend, ReadToWrite, Stages, TypeOK
  <2>3. \A u \in Turns : Looking(u) => Looking(u)'
    BY <2>1, <2>2 DEF Looking
  <2> QED
    BY <1>1, <2>2, <2>3 DEF BoundInv
<1>4. CASE StoreUser(t) \/ StoreReply(t)
  <2>1. PICK x \in {"reply", "compress"} : To(t, x)
    BY <1>4 DEF StoreUser, StoreReply
  <2>2. /\ at'[t] = x /\ \A u \in Turns \ {t} : at'[u] = at[u]
        /\ UNCHANGED <<held, session>>
    BY <1>1, <1>4, <2>1, Effect DEF StoreUser, StoreReply, Stages
  <2>3. \A u \in Turns : (Looking(u) => Looking(u)') /\ Looking(t)'
    BY <2>2 DEF Looking
  <2>4. \A p \in Turns \ {o} : history'[p] = history[p]
    BY <1>0, <1>4, StoredLength
  <2> QED
    BY <1>0, <1>1, <2>2, <2>3, <2>4 DEF BoundInv
<1>5. CASE CheckLength(t)
  <2>1. /\ at[t] = "compress" /\ UNCHANGED <<history, session, held>>
        /\ To(t, IF Len(history[o]) <= MaxHistoryLen THEN "save" ELSE "tooLong")
    BY <1>0, <1>5 DEF CheckLength, Of
  <2>2. /\ at'[t] = IF Len(history[o]) <= MaxHistoryLen THEN "save" ELSE "tooLong"
        /\ \A u \in Turns \ {t} : at'[u] = at[u]
    BY <1>1, <2>1, Effect DEF Stages
  <2>3. \A u \in Turns : Looking(u) =>
          Looking(u)' \/ (session[u] = o /\ Len(history[o]) <= MaxHistoryLen)
    BY <1>0, <2>1, <2>2 DEF Looking
  <2>4. \A p \in Turns : \/ Len(history[p]) <= MaxHistoryLen
                         \/ \E u \in Turns : session[u] = p /\ Looking(u)'
    BY <1>1, <2>3 DEF BoundInv
  <2>5. \A u \in Turns : at'[u] = "cut" => Len(held[u]) >= Recent
    BY <1>1, <2>2 DEF BoundInv
  <2> QED
    BY <2>1, <2>4, <2>5 DEF BoundInv, Looking
<1>6. CASE ReadForCut(t)
  <2>1. at[t] = "tooLong" /\ To(t, "cut") /\ UNCHANGED <<history, session>>
    BY <1>6 DEF ReadForCut
  <2>2. at'[t] = "cut" /\ \A u \in Turns \ {t} : at'[u] = at[u]
    BY <1>1, <2>1, Effect DEF Stages
  <2>3. held'[t] = history[o] /\ \A u \in Turns \ {t} : held'[u] = held[u]
    BY <1>0, <1>1, <1>6 DEF ReadForCut, ReadToWrite, Of, TypeOK
  <2>4. Len(held'[t]) >= Recent
    BY <1>0, <2>1, <2>3 DEF Inv, LengthInv, CutInBounds, Of
  <2>5. \A u \in Turns : Looking(u) => Looking(u)'
    BY <2>1, <2>2 DEF Looking
  <2> QED
    BY <1>1, <2>1, <2>2, <2>3, <2>4, <2>5 DEF BoundInv
<1>7. CASE Cut(t)
  <2>1. at[t] = "cut" /\ To(t, "summarize") /\ session' = session
    BY <1>7 DEF Cut
  <2>2. at'[t] = "summarize" /\ \A u \in Turns \ {t} : at'[u] = at[u] /\ held'[u] = held[u]
    BY <1>1, <1>7, <2>1, Effect DEF Stages, TypeOK, Cut
  <2>3. /\ Len(history'[o]) = Recent
        /\ \A p \in Turns \ {o} : history'[p] = history[p]
    BY <1>0, <1>7, <2>1, StoredLength
  <2>4. \A u \in Turns : Looking(u) => Looking(u)' \/ u = t
    BY <2>2 DEF Looking
  <2>5. \A p \in Turns : \/ Len(history'[p]) <= MaxHistoryLen
                         \/ \E u \in Turns : session[u] = p /\ Looking(u)'
    <3> SUFFICES ASSUME NEW p \in Turns
                 PROVE  \/ Len(history'[p]) <= MaxHistoryLen
                        \/ \E u \in Turns : session[u] = p /\ Looking(u)'
      OBVIOUS
    <3>1. CASE p = o
      <4>1. Len(history'[p]) = 3
        BY <2>3, <3>1 DEF Recent
      <4> QED
        BY <4>1 DEF MaxHistoryLen
    <3>2. CASE p # o
      BY <1>0, <1>1, <2>3, <2>4, <3>2 DEF BoundInv
    <3> QED
      BY <3>1, <3>2
  <2>6. \A u \in Turns : at'[u] = "cut" => Len(held'[u]) >= Recent
    BY <1>1, <2>2 DEF BoundInv
  <2> QED
    BY <2>1, <2>5, <2>6 DEF BoundInv, Looking
<1>8. CASE AskSummary(t) \/ SummaryReturns(t) \/ Save(t)
  <2>1. PICK x \in {"asked", "save", "done"} : To(t, x)
    BY <1>8 DEF AskSummary, SummaryReturns, Save
  <2>2. /\ at'[t] = x /\ \A u \in Turns \ {t} : at'[u] = at[u]
        /\ at[t] \in {"summarize", "asked", "save"}
        /\ UNCHANGED <<history, held, session>>
    BY <1>1, <1>8, <2>1, Effect DEF AskSummary, SummaryReturns, Save, Stages
  <2>3. \A u \in Turns : Looking(u) => Looking(u)'
    BY <2>2 DEF Looking
  <2> QED
    BY <1>1, <2>2, <2>3 DEF BoundInv
<1> QED
  BY <1>2, <1>3, <1>4, <1>5, <1>6, <1>7, <1>8 DEF Flow, Compress

-----------------------------------------------------------------------------
(* Sessions that nobody has begun with.                                    *)

LEMMA FreshStep ==
    ASSUME Inv, NEW t \in Turns, Flow(t) \/ Compress(t)
    PROVE  FreshInv'
<1>1. TypeOK /\ FreshInv /\ at \in [Turns -> Stages]
  BY DEF Inv, TypeOK
<1>2. CASE Begin(t)
  <2>1. /\ at[t] = "new" /\ To(t, "model") /\ UNCHANGED <<history, summary, stored>>
        /\ session' = [session EXCEPT ![t] = IF stored = None THEN t ELSE stored]
    BY <1>2 DEF Begin
  <2>2. at'[t] = "model" /\ \A u \in Turns \ {t} : at'[u] = at[u]
    BY <1>1, <2>1, Effect DEF Stages
  <2>3. \A u \in Turns : session'[u] # None =>
          \/ session[u] # None /\ session'[u] = session[u]
          \/ session'[u] = t
          \/ stored # None /\ session'[u] = stored
    BY <2>1 DEF TypeOK
  <2>4. \A u \in Turns : session'[u] # None => session'[u] \in Turns /\ at'[session'[u]] # "new"
    BY <1>1, <2>2, <2>3 DEF FreshInv, TypeOK
  <2> QED
    BY <1>1, <2>1, <2>2, <2>4 DEF FreshInv, TypeOK
<1>3. CASE ~Begin(t)
  <2>1. /\ session' = session /\ at[t] # "new"
        /\ stored' \in {stored, session[t]}
        /\ \E x \in Stages \ {"new"} : To(t, x)
        /\ \/ history' = history
           \/ t \in Active /\ \E h : history' = [history EXCEPT ![session[t]] = h]
        /\ \/ summary' = summary
           \/ t \in Active /\ \E m : summary' = [summary EXCEPT ![session[t]] = m]
    <3> USE DEF Stages, Active, Of
    <3>1. CASE ModelReturns(t) \/ ReadForAppend(t) \/ StoreUser(t) \/ StoreReply(t)
      BY <3>1 DEF ModelReturns, ReadForAppend, StoreUser, StoreReply
    <3>2. CASE CheckLength(t) \/ ReadForCut(t)
      BY <3>2 DEF CheckLength, ReadForCut
    <3>3. CASE Cut(t) \/ AskSummary(t) \/ SummaryReturns(t) \/ Save(t)
      BY <3>3 DEF Cut, AskSummary, SummaryReturns, Save
    <3> QED
      BY <1>3, <3>1, <3>2, <3>3 DEF Flow, Compress
  <2>2. at'[t] # "new" /\ \A u \in Turns \ {t} : at'[u] = at[u]
    BY <1>1, <2>1, Effect
  <2>3. t \in Active => session[t] \in Turns /\ at[session[t]] # "new"
    BY <1>1 DEF TypeOK, FreshInv
  <2>4. \A u \in Turns : at'[u] = "new" =>
          at[u] = "new" /\ history'[u] = history[u] /\ summary'[u] = summary[u]
    BY <1>1, <2>1, <2>2, <2>3 DEF TypeOK
  <2>5. \A o \in Turns : at[o] # "new" => at'[o] # "new"
    BY <2>2
  <2> QED
    BY <1>1, <2>1, <2>4, <2>5 DEF FreshInv, TypeOK
<1> QED
  BY <1>2, <1>3

-----------------------------------------------------------------------------
(* Without overlap.                                                        *)

(* The turns that are not at work do not move, and have no summary under   *)
(* way.                                                                    *)
LEMMA OthersRest ==
    ASSUME Inv, overlap = {}, NEW t \in Active
    PROVE  /\ \A u \in Turns \ {t} : at[u] \in {"new", "done", "failed"}
           /\ \A o : Safe(o) = Members(history[o]) \cup summary[o] \cup dropped
                              \cup IF at[t] \in {"summarize", "asked"} THEN Members(held[t]) ELSE {}
<1>1. \A u \in Turns \ {t} : at[u] \in {"new", "done", "failed"}
  BY DEF Inv, AloneInv, Active
<1>2. {v \in Turns : at[v] \in {"summarize", "asked"}} =
        IF at[t] \in {"summarize", "asked"} THEN {t} ELSE {}
  BY <1>1 DEF Active
<1> QED
  BY <1>1, <1>2 DEF Safe

LEMMA SafeAfter ==
    ASSUME Inv, overlap = {}, NEW t \in Active, \A u \in Turns \ {t} : at'[u] = at[u]
    PROVE  \A o : Safe(o)' = Members(history'[o]) \cup summary'[o] \cup dropped'
                            \cup IF at'[t] \in {"summarize", "asked"} THEN Members(held'[t]) ELSE {}
<1>1. \A u \in Turns \ {t} : at'[u] \in {"new", "done", "failed"}
  BY OthersRest
<1>2. {v \in Turns : at'[v] \in {"summarize", "asked"}} =
        IF at'[t] \in {"summarize", "asked"} THEN {t} ELSE {}
  BY <1>1 DEF Active
<1>3. \A o : Safe(o)' = Members(history'[o]) \cup summary'[o] \cup dropped'
                       \cup UNION {Members(held'[u]) : u \in {v \in Turns : at'[v] \in {"summarize", "asked"}}}
  BY DEF Safe, Members
<1> QED
  BY <1>2, <1>3

(* The copy of the one turn at work is the history it works on, all of it. *)
LEMMA HeldAlone ==
    ASSUME Inv, overlap = {}, NEW t \in Active, NEW o, o = session[t]
    PROVE  /\ raced = {} /\ o \in Turns /\ held[t] \in Seq(Entry)
           /\ at[t] \in {"storeUser", "storeReply", "cut"} => held[t] = history[o]
           /\ InOrder(history[o]) /\ Members(history[o]) \subseteq Written
           /\ \A h \in Seq(Entry) : Known(o, h) = h
<1>1. raced = {} /\ o \in Turns /\ held[t] \in Seq(Entry) /\ t \in Turns
  BY DEF Inv, AloneInv, TypeOK, Active
<1>2. Once(o)
  BY <1>1 DEF Inv, OnceInv
<1>3. \A h \in Seq(Entry) : Known(o, h) = h
  BY <1>1, KnownEntries
<1> QED
  BY <1>1, <1>2, <1>3 DEF Once, SessionOnce, TurnOnce, Writing

(* A step of the one turn at work, which loses nothing of its Session.     *)
LEMMA Working ==
    ASSUME Inv, overlap = {}, NEW t \in Active, NEW o, o = session[t],
           UNCHANGED <<stored, session, overlap, raced>>,
           \A u \in Turns \ {t} : at'[u] = at[u], at'[t] \notin {"new", "done"},
           Safe(o) \subseteq Safe(o)',
           MessagesOf(t)' \subseteq Safe(o)',
           at'[t] = "asked" => merged'[t] = summary'[o] \cup Members(held'[t])
    PROVE  AloneInv'
<1>1. AloneInv /\ t \in Turns
  BY DEF Inv, Active
<1>2. \A u \in Turns \ {t} : u \notin Active' /\ MessagesOf(u)' = MessagesOf(u)
  BY OthersRest DEF Active, MessagesOf, Written, Message
<1>3. stored # None => o = stored
  BY <1>1 DEF AloneInv
<1>4. \A u \in Turns : at'[u] = "done" => u # t /\ at[u] = "done"
  OBVIOUS
<1>5. stored # None =>
        \A u \in Turns : at'[u] = "done" => MessagesOf(u)' \subseteq Safe(stored)'
  BY <1>1, <1>2, <1>3, <1>4 DEF AloneInv, Safe, Members
<1>6. stored = None => \A u \in Turns : at'[u] # "done"
  BY <1>1, <1>4 DEF AloneInv
<1>7. \A u \in Active' : u = t
  BY <1>2 DEF Active
<1> QED
  BY <1>1, <1>3, <1>5, <1>6, <1>7 DEF AloneInv, Safe, Members

LEMMA BeginAlone ==
    ASSUME Inv, NEW t \in Turns, Begin(t)
    PROVE  AloneInv'
<1> SUFFICES ASSUME overlap' = {} PROVE AloneInv'
  BY DEF AloneInv
<1>1. /\ at[t] = "new" /\ To(t, "model") /\ overlap = {} /\ Active = {}
      /\ session' = [session EXCEPT ![t] = IF stored = None THEN t ELSE stored]
      /\ UNCHANGED <<stored, history, summary, held, merged, dropped, raced>>
  BY DEF Begin
<1>2. TypeOK /\ AloneInv
  BY DEF Inv
<1>3. at'[t] = "model" /\ \A u \in Turns \ {t} : at'[u] = at[u]
  BY <1>1, <1>2, Effect DEF Stages
<1>4. Active' = {t}
  BY <1>1, <1>3 DEF Active
<1>5. Written' = Written /\ MessagesOf(t)' = {}
  BY <1>1, <1>3 DEF Written, MessagesOf, Message
<1>6. \A u \in Turns : (MessagesOf(u)' = MessagesOf(u)) /\ (at'[u] = "done" <=> at[u] = "done")
  BY <1>1, <1>3, <1>5 DEF MessagesOf
<1>7. \A o : Safe(o)' = Safe(o)
  <2>1. {v \in Turns : at'[v] \in {"summarize", "asked"}} = {v \in Turns : at[v] \in {"summarize", "asked"}}
    BY <1>1, <1>3
  <2> QED
    BY <1>1, <2>1 DEF Safe, Members
<1>8. session'[t] = IF stored = None THEN t ELSE stored
  BY <1>1, <1>2 DEF TypeOK
<1> QED
  BY <1>1, <1>2, <1>3, <1>4, <1>5, <1>6, <1>7, <1>8 DEF AloneInv, Safe, Members

(* A turn that only looks, or takes a copy: nobody else is about to write. *)
LEMMA CopyAlone ==
    ASSUME Inv, NEW t \in Turns,
           ModelReturns(t) \/ ReadForAppend(t) \/ CheckLength(t) \/ ReadForCut(t)
    PROVE  AloneInv'
<1>0. PICK o : o = session[t]
  OBVIOUS
<1>1. /\ UNCHANGED <<stored, history, summary, session, merged, overlap, dropped>>
      /\ at[t] \in {"model", "user", "reply", "compress", "tooLong"}
      /\ raced' = raced \/ raced' = IF Writing(o) = {} THEN raced ELSE raced \cup {o}
  BY <1>0 DEF ModelReturns, ReadForAppend, CheckLength, ReadForCut, ReadToWrite, Of
<1>2. PICK x \in {"failed", "user", "storeUser", "storeReply", "save", "tooLong", "cut"} :
        /\ To(t, x)
        /\ \/ at[t] = "model" /\ x \in {"failed", "user"}
           \/ at[t] = "user" /\ x = "storeUser"
           \/ at[t] = "reply" /\ x = "storeReply"
           \/ at[t] = "compress" /\ x \in {"save", "tooLong"}
           \/ at[t] = "tooLong" /\ x = "cut"
  <2>1. CASE ModelReturns(t) \/ ReadForAppend(t)
    BY <2>1 DEF ModelReturns, ReadForAppend
  <2>2. CASE CheckLength(t)
    BY <2>2 DEF CheckLength
  <2>3. CASE ReadForCut(t)
    BY <2>3 DEF ReadForCut
  <2> QED
    BY <2>1, <2>2, <2>3
<1> SUFFICES ASSUME overlap = {} PROVE AloneInv'
  BY <1>1 DEF AloneInv
<1>3. TypeOK /\ AloneInv /\ t \in Active
  BY <1>1 DEF Inv, Active
<1>4. at'[t] = x /\ \A u \in Turns \ {t} : at'[u] = at[u]
  BY <1>2, <1>3, Effect DEF Stages
<1>5. raced' = raced
  <2>1. Writing(o) = {}
    BY <1>1, <1>3, OthersRest DEF Writing
  <2> QED
    BY <1>1, <2>1
<1>6. Written' = Written
  BY <1>2, <1>4, WrittenKept
<1>7. MessagesOf(t)' = MessagesOf(t)
  BY <1>6 DEF MessagesOf
<1>8. Safe(o)' = Safe(o)
  <2>1. Safe(o) = Members(history[o]) \cup summary[o] \cup dropped
    BY <1>1, <1>3, OthersRest
  <2>2. Safe(o)' = Members(history'[o]) \cup summary'[o] \cup dropped'
    BY <1>2, <1>3, <1>4, SafeAfter
  <2>3. Members(history'[o]) = Members(history[o])
    BY <1>1
  <2> QED
    BY <1>1, <2>1, <2>2, <2>3
<1>9. MessagesOf(t) \subseteq Safe(o)
  BY <1>0, <1>3 DEF AloneInv
<1> QED
  BY <1>0, <1>1, <1>2, <1>3, <1>4, <1>5, <1>7, <1>8, <1>9, Working

LEMMA StoreAlone ==
    ASSUME Inv, NEW t \in Turns, StoreUser(t) \/ StoreReply(t)
    PROVE  AloneInv'
<1>0. PICK o : o = session[t]
  OBVIOUS
<1>1. PICK m \in {User(t), Assistant(t)} :
        /\ UNCHANGED <<stored, summary, session, held, merged, overlap, dropped, raced>>
        /\ history' = [history EXCEPT ![o] = Known(o, Append(held[t], m))]
        /\ \/ at[t] = "storeUser" /\ m = User(t) /\ To(t, "reply")
           \/ at[t] = "storeReply" /\ m = Assistant(t) /\ To(t, "compress")
  BY <1>0 DEF StoreUser, StoreReply, Of
<1> SUFFICES ASSUME overlap = {} PROVE AloneInv'
  BY <1>1 DEF AloneInv
<1>2. TypeOK /\ AloneInv /\ t \in Active
  BY <1>1 DEF Inv, Active
<1>3. /\ at'[t] \in {"reply", "compress"} /\ \A u \in Turns \ {t} : at'[u] = at[u]
      /\ at[t] = "storeUser" => at'[t] = "reply"
      /\ at[t] = "storeReply" => at'[t] = "compress"
  BY <1>1, <1>2, Effect DEF Stages
<1>4. m \in Message /\ Written' = Written \cup {m} /\ m \notin Written /\ m.of = t
  <2>1. User(t).of = t /\ Assistant(t).of = t
    BY DEF User, Assistant
  <2> QED
    BY <1>1, <1>3, <2>1, WritesUser, WritesReply
<1>5. MessagesOf(t)' = MessagesOf(t) \cup {m}
  BY <1>4 DEF MessagesOf
<1>6. Members(history'[o]) = Members(history[o]) \cup {m}
  <2>1. o \in Turns /\ held[t] \in Seq(Entry) /\ held[t] = history[o]
    BY <1>0, <1>1, <1>2, HeldAlone
  <2>2. Append(held[t], m) \in Seq(Entry)
    BY <1>4, <2>1, Appended
  <2>3. Known(o, Append(held[t], m)) = Append(held[t], m)
    BY <1>0, <1>2, <2>2, HeldAlone
  <2>4. history'[o] = Append(held[t], m)
    BY <1>1, <1>2, <2>1, <2>3 DEF TypeOK
  <2> QED
    BY <1>4, <2>1, <2>4, Appended
<1>7. Safe(o)' = Safe(o) \cup {m}
  <2>1. Safe(o) = Members(history[o]) \cup summary[o] \cup dropped
    BY <1>1, <1>2, OthersRest
  <2>2. Safe(o)' = Members(history'[o]) \cup summary'[o] \cup dropped'
    BY <1>2, <1>3, SafeAfter
  <2> QED
    BY <1>1, <1>6, <2>1, <2>2
<1>8. MessagesOf(t) \subseteq Safe(o)
  BY <1>0, <1>2 DEF AloneInv
<1> QED
  BY <1>0, <1>1, <1>2, <1>3, <1>5, <1>7, <1>8, Working

LEMMA CutAlone ==
    ASSUME Inv, NEW t \in Turns, Cut(t)
    PROVE  AloneInv'
<1>0. PICK o : o = session[t]
  OBVIOUS
<1> DEFINE q     == held[t]
           last  == SubSeq(q, Len(q) - Recent + 1, Len(q))
           first == SubSeq(q, 1, Len(q) - Recent)
<1>1. /\ UNCHANGED <<stored, summary, session, merged, overlap, dropped, raced>>
      /\ at[t] = "cut" /\ To(t, "summarize")
      /\ history' = [history EXCEPT ![o] = Known(o, last)]
      /\ held' = [held EXCEPT ![t] = first]
  BY <1>0 DEF Cut, Of
<1> SUFFICES ASSUME overlap = {} PROVE AloneInv'
  BY <1>1 DEF AloneInv
<1>2. TypeOK /\ AloneInv /\ t \in Active /\ Len(q) >= Recent
  BY <1>1 DEF Inv, BoundInv, Active
<1>3. o \in Turns /\ q \in Seq(Entry) /\ q = history[o]
  BY <1>0, <1>1, <1>2, HeldAlone
<1>4. last \in Seq(Entry) /\ Members(q) = Members(first) \cup Members(last)
  BY <1>2, <1>3, CutInTwo
<1>5. Known(o, last) = last
  <2> HIDE DEF last
  <2> QED
    BY <1>0, <1>2, <1>4, HeldAlone
<1> HIDE DEF q, last, first
<1>6. /\ at'[t] = "summarize" /\ \A u \in Turns \ {t} : at'[u] = at[u]
      /\ history'[o] = last /\ held'[t] = first
  BY <1>1, <1>2, <1>3, <1>5, Effect DEF Stages, TypeOK
<1>7. MessagesOf(t)' = MessagesOf(t)
  BY <1>1, <1>6, WrittenKept DEF MessagesOf
<1>8. Safe(o)' = Safe(o)
  <2>1. Safe(o) = Members(history[o]) \cup summary[o] \cup dropped
    BY <1>1, <1>2, OthersRest
  <2>2. Safe(o)' = Members(history'[o]) \cup summary'[o] \cup dropped' \cup Members(held'[t])
    BY <1>2, <1>6, SafeAfter
  <2> QED
    BY <1>1, <1>3, <1>4, <1>6, <2>1, <2>2
<1>9. MessagesOf(t) \subseteq Safe(o)
  BY <1>0, <1>2 DEF AloneInv
<1> QED
  BY <1>0, <1>1, <1>2, <1>6, <1>7, <1>8, <1>9, Working

LEMMA SummaryAlone ==
    ASSUME Inv, NEW t \in Turns, AskSummary(t) \/ SummaryReturns(t)
    PROVE  AloneInv'
<1>0. PICK o : o = session[t]
  OBVIOUS
<1>1. /\ UNCHANGED <<stored, history, session, held, overlap, raced>>
      /\ \/ /\ at[t] = "summarize" /\ To(t, "asked") /\ UNCHANGED <<summary, dropped>>
            /\ merged' = [merged EXCEPT ![t] = summary[o] \cup Members(Known(o, held[t]))]
         \/ /\ at[t] = "asked" /\ To(t, "save") /\ dropped' = dropped
            /\ summary' = [summary EXCEPT ![o] = merged[t]]
         \/ /\ at[t] = "asked" /\ To(t, "save") /\ summary' = summary
            /\ dropped' = dropped \cup Members(Known(o, held[t]))
  BY <1>0 DEF AskSummary, SummaryReturns, Of
<1> SUFFICES ASSUME overlap = {} PROVE AloneInv'
  BY <1>1 DEF AloneInv
<1>2. /\ TypeOK /\ AloneInv /\ t \in Active
      /\ at[t] = "asked" => merged[t] = summary[o] \cup Members(held[t])
      /\ MessagesOf(t) \subseteq Safe(o)
  BY <1>0, <1>1 DEF Inv, Active, AloneInv
<1>3. o \in Turns /\ Known(o, held[t]) = held[t]
  BY <1>0, <1>2, HeldAlone
<1>4. /\ \A u \in Turns \ {t} : at'[u] = at[u]
      /\ \/ /\ at[t] = "summarize" /\ at'[t] = "asked" /\ UNCHANGED <<summary, dropped>>
            /\ merged'[t] = summary[o] \cup Members(held[t])
         \/ /\ at[t] = "asked" /\ at'[t] = "save" /\ dropped' = dropped
            /\ summary'[o] = summary[o] \cup Members(held[t])
         \/ /\ at[t] = "asked" /\ at'[t] = "save" /\ summary' = summary
            /\ dropped' = dropped \cup Members(held[t])
  BY <1>1, <1>2, <1>3, Effect DEF Stages, TypeOK
<1>5. MessagesOf(t)' = MessagesOf(t)
  BY <1>4, WrittenKept DEF MessagesOf
<1>6. Safe(o)' = Safe(o)
  <2>1. Safe(o) = Members(history[o]) \cup summary[o] \cup dropped \cup Members(held[t])
    BY <1>2, <1>4, OthersRest
  <2>2. Safe(o)' = Members(history'[o]) \cup summary'[o] \cup dropped' \cup
                     IF at'[t] = "asked" THEN Members(held'[t]) ELSE {}
    BY <1>2, <1>4, SafeAfter
  <2> QED
    BY <1>1, <1>4, <2>1, <2>2
<1> QED
  BY <1>0, <1>1, <1>2, <1>4, <1>5, <1>6, Working

LEMMA SaveAlone ==
    ASSUME Inv, NEW t \in Turns, Save(t)
    PROVE  AloneInv'
<1>0. PICK o : o = session[t]
  OBVIOUS
<1>1. /\ UNCHANGED <<history, summary, session, held, merged, overlap, dropped, raced>>
      /\ at[t] = "save" /\ To(t, "done") /\ stored' = o
  BY <1>0 DEF Save, Of
<1> SUFFICES ASSUME overlap = {} PROVE AloneInv'
  BY <1>1 DEF AloneInv
<1>2. /\ TypeOK /\ AloneInv /\ t \in Active /\ o # None
      /\ MessagesOf(t) \subseteq Safe(o)
      /\ stored # None => o = stored
  BY <1>0, <1>1 DEF Inv, Active, TypeOK, AloneInv
<1>3. at'[t] = "done" /\ \A u \in Turns \ {t} : at'[u] = at[u]
  BY <1>1, <1>2, Effect DEF Stages
<1>4. Active' = {}
  BY <1>2, <1>3, OthersRest DEF Active
<1>5. \A u \in Turns : MessagesOf(u)' = MessagesOf(u)
  BY <1>1, <1>3, WrittenKept DEF MessagesOf
<1>6. Safe(o)' = Safe(o)
  <2>1. Safe(o) = Members(history[o]) \cup summary[o] \cup dropped
    BY <1>1, <1>2, OthersRest
  <2>2. Safe(o)' = Members(history'[o]) \cup summary'[o] \cup dropped'
    BY <1>2, <1>3, SafeAfter
  <2> QED
    BY <1>1, <2>1, <2>2
<1>7. \A u \in Turns : at'[u] = "done" => MessagesOf(u) \subseteq Safe(o)
  BY <1>2, <1>3 DEF AloneInv
<1> QED
  BY <1>1, <1>2, <1>4, <1>5, <1>6, <1>7 DEF AloneInv, Safe, Members

-----------------------------------------------------------------------------
(* The invariant.                                                          *)

LEMMA InitInv == Init => Inv
<1> SUFFICES ASSUME Init PROVE Inv
  OBVIOUS
<1>1. TypeOK
  BY DEF Init, TypeOK, Stages, Active
<1>2. \A o \in Turns : Members(history[o]) = {} /\ InOrder(history[o])
  BY DEF Init, Members, InOrder
<1>3. OnceInv
  BY <1>2 DEF Init, OnceInv, Once, SessionOnce, TurnOnce, PairOnce, Writing, Compressing
<1>4. LengthInv /\ FreshInv /\ AloneInv
  BY DEF Init, LengthInv, CutInBounds, FreshInv, AloneInv, Active
<1>5. BoundInv
  BY DEF Init, BoundInv, MaxHistoryLen
<1> QED
  BY <1>1, <1>3, <1>4, <1>5 DEF Inv

LEMMA NextInv == Inv /\ [Next]_vars => Inv'
<1> SUFFICES ASSUME Inv, [Next]_vars PROVE Inv'
  OBVIOUS
<1>1. CASE \E t \in Turns : Flow(t) \/ Compress(t)
  <2>1. PICK t \in Turns : Flow(t) \/ Compress(t)
    BY <1>1
  <2>2. TypeOK'
    BY <2>1, TypeStep DEF Inv
  <2>3. OnceInv'
    BY <2>1, OnceKept, OnceRead, OnceStored, OnceCut, OnceSummary DEF Flow, Compress
  <2>4. LengthInv' /\ BoundInv' /\ FreshInv'
    BY <2>1, <2>2, LengthStep, BoundStep, FreshStep
  <2>5. AloneInv'
    BY <2>1, BeginAlone, CopyAlone, StoreAlone, CutAlone, SummaryAlone, SaveAlone
    DEF Flow, Compress
  <2> QED
    BY <2>2, <2>3, <2>4, <2>5 DEF Inv
<1>2. CASE AllDone \/ UNCHANGED vars
  <2>1. UNCHANGED <<stored, history, summary, session, at, held, merged, overlap, dropped, raced>>
    BY <1>2 DEF AllDone, vars
  <2>2. TypeOK' /\ FreshInv'
    BY <2>1 DEF Inv, TypeOK, FreshInv, Active
  <2>3. BoundInv'
    BY <2>1 DEF Inv, BoundInv, Looking
  <2>4. LengthInv'
    BY <2>1 DEF Inv, LengthInv, CutInBounds, Of
  <2>5. Written' = Written /\ Active' = Active
    BY <2>1 DEF Written, Active
  <2>6. OnceInv'
    <3>1. \A o : /\ Writing(o)' = Writing(o) /\ Compressing(o)' = Compressing(o)
                 /\ (SessionOnce(o)' <=> SessionOnce(o))
      BY <2>1, <2>5 DEF Writing, Compressing, SessionOnce, InOrder, Members
    <3>2. \A o, t : TurnOnce(t, o)' <=> TurnOnce(t, o)
      BY <2>1, <2>5, <3>1 DEF TurnOnce, Members
    <3>3. \A o, t, u : PairOnce(t, u, o)' <=> PairOnce(t, u, o)
      BY <2>1, <3>1 DEF PairOnce, Members
    <3> QED
      BY <2>1, <3>1, <3>2, <3>3 DEF Inv, OnceInv, Once
  <2>7. AloneInv'
    <3>1. \A t : MessagesOf(t)' = MessagesOf(t)
      BY <2>5 DEF MessagesOf
    <3>2. \A o : Safe(o)' = Safe(o)
      BY <2>1 DEF Safe, Members
    <3> QED
      BY <2>1, <2>5, <3>1, <3>2 DEF Inv, AloneInv, Members
  <2> QED
    BY <2>2, <2>3, <2>4, <2>6, <2>7 DEF Inv
<1> QED
  BY <1>1, <1>2 DEF Next

(* The invariant holds in every reachable state.                           *)
THEOREM MemoryCorrect == Spec => []Inv
BY InitInv, NextInv, PTL DEF Spec

(* Every variable keeps its type; a turn at work, or its compression, has  *)
(* a Session.                                                              *)
THEOREM TypeCorrect == Spec => []TypeOK
<1>1. Inv => TypeOK
  BY DEF Inv
<1> QED
  BY <1>1, MemoryCorrect, PTL

(* While no two turns or compressions have been between read and write of  *)
(* one History at a time, the history is in order, and a message is in it, *)
(* in the summary, or with the one compression that has cut it.            *)
THEOREM OrderKeeps == Spec => []MessagesOnce
<1>1. Inv => MessagesOnce
  <2> SUFFICES ASSUME Inv, NEW o \in Turns \ raced
               PROVE  /\ InOrder(history[o])
                      /\ Members(history[o]) \cap summary[o] = {}
                      /\ \A t \in Compressing(o) :
                           /\ Members(held[t]) \cap (Members(history[o]) \cup summary[o]) = {}
                           /\ \A u \in Compressing(o) \ {t} : Members(held[t]) \cap Members(held[u]) = {}
    BY DEF MessagesOnce
  <2>1. Once(o)
    BY DEF Inv, OnceInv
  <2> QED
    BY <2>1 DEF Once, SessionOnce, TurnOnce, PairOnce, Compressing
<1> QED
  BY <1>1, MemoryCorrect, PTL

(* Whatever overlaps or races, every Session is within its bound when      *)
(* nobody works, and no compression slices a history below zero, although  *)
(* it reads the length once to check it and once more to cut.              *)
THEOREM BoundsHold == Spec => []HistoryInBounds
<1>1. Inv => BoundedAtRest
  BY DEF Inv, BoundInv, BoundedAtRest, Looking, Active
<1>2. Inv => HistoryInBounds
  BY <1>1 DEF Inv, LengthInv, HistoryInBounds
<1> QED
  BY <1>2, MemoryCorrect, PTL

(* Without overlap, what a finished turn said is in the saved history or   *)
(* its summary, in one of them only, or on its way, or was cut by a        *)
(* compression whose model call failed.                                    *)
THEOREM NothingIsForgotten == Spec => []NothingForgotten
<1>1. Inv => NothingForgotten
  <2> SUFFICES ASSUME Inv, overlap = {}
               PROVE  /\ \A t \in Turns : at[t] = "done" =>
                           \A m \in {User(t), Assistant(t)} :
                              \/ stored # None /\ m \in Members(history[stored]) \cup summary[stored]
                              \/ m \in dropped
                              \/ \E u \in Turns : at[u] \in {"summarize", "asked"} /\ m \in Members(held[u])
                      /\ stored # None => Members(history[stored]) \cap summary[stored] = {}
    BY DEF NothingForgotten
  <2>1. stored # None => Members(history[stored]) \cap summary[stored] = {}
    BY DEF Inv, TypeOK, AloneInv, OnceInv, Once, SessionOnce
  <2>2. ASSUME NEW t \in Turns, at[t] = "done", NEW m \in {User(t), Assistant(t)}
        PROVE  \/ stored # None /\ m \in Members(history[stored]) \cup summary[stored]
               \/ m \in dropped
               \/ \E u \in Turns : at[u] \in {"summarize", "asked"} /\ m \in Members(held[u])
    <3>1. stored # None /\ MessagesOf(t) \subseteq Safe(stored)
      BY <2>2 DEF Inv, AloneInv
    <3>2. m \in MessagesOf(t)
      BY <2>2 DEF MessagesOf, Written, Message, User, Assistant
    <3> QED
      BY <3>1, <3>2 DEF Safe
  <2> QED
    BY <2>1, <2>2
<1> QED
  BY <1>1, MemoryCorrect, PTL
=============================================================================
