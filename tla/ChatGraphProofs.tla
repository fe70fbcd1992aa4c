--------------------------- MODULE ChatGraphProofs ---------------------------
(***************************************************************************)
(* Proofs about ChatGraph and the histories of ChatSessions that its calls *)
(* of GenerateReply work on: what is remembered of a request and what its  *)
(* caller hears, for any number of requests, sessions and messages.        *)
(***************************************************************************)
EXTENDS ChatGraph, FiniteSetTheorems, TLAPS

Inv == TypeOK /\ SavedInv /\ RequestInv

Calls         == Requests \X Backends
SessionFor(c) == SessionOf[c[1]]
Messages      == Seq(History!Message)

-----------------------------------------------------------------------------
(* Rows of whole turns.                                                    *)

Row(h) ==
    /\ History!IsTurns(h)
    /\ \A i, j \in DOMAIN h : h[i] = h[j] => i = j

LEMMA SequenceOfMessages ==
    ASSUME NEW h \in Messages
    PROVE  /\ Len(h) \in Nat /\ DOMAIN h = 1..Len(h)
           /\ \A i \in 1..Len(h) : h[i] \in History!Message /\ h[i].of \in Calls
           /\ History!InTurns(h) = {h[i].of : i \in 1..Len(h)}
<1>1. Len(h) \in Nat /\ DOMAIN h = 1..Len(h) /\ \A i \in 1..Len(h) : h[i] \in History!Message
  BY DEF Messages
<1>2. \A i \in 1..Len(h) : h[i].of \in Calls
  BY <1>1 DEF History!Message, Calls
<1>3. QED
  BY <1>1, <1>2 DEF History!InTurns

(* A turn appended to a row makes a row of one call more.                  *)
LEMMA RowAppended ==
    ASSUME NEW h \in Messages, NEW c \in Calls, Row(h), c \notin History!InTurns(h)
    PROVE  /\ h \o History!Turn(c) \in Messages
           /\ Len(h \o History!Turn(c)) = Len(h) + 2
           /\ Row(h \o History!Turn(c))
           /\ History!InTurns(h \o History!Turn(c)) = History!InTurns(h) \cup {c}
<1> DEFINE n == Len(h)
           g == h \o History!Turn(c)
           question == [of |-> c, role |-> "user"]
           answer   == [of |-> c, role |-> "assistant"]
<1>1. /\ n \in Nat /\ DOMAIN h = 1..n
      /\ \A i \in 1..n : h[i] \in History!Message
      /\ History!InTurns(h) = {h[i].of : i \in 1..n}
  BY SequenceOfMessages
<1>2. question \in History!Message /\ answer \in History!Message
  BY DEF History!Message, Calls
<1>3. History!Turn(c) = <<question, answer>> /\ History!Turn(c) \in Messages
  BY <1>2 DEF History!Turn, Messages
<1>4. /\ g \in Messages /\ Len(g) = n + 2
      /\ \A i \in 1..n : g[i] = h[i]
      /\ g[n + 1] = question /\ g[n + 2] = answer
  <2>1. g \in Messages /\ Len(g) = n + 2
    BY <1>3 DEF Messages
  <2>2. \A i \in 1..(n + 2) : g[i] = IF i <= n THEN h[i] ELSE <<question, answer>>[i - n]
    BY <1>3 DEF Messages
  <2>3. g[n + 1] = question /\ g[n + 2] = answer
    <3>1. (n + 1) - n = 1 /\ (n + 2) - n = 2 /\ ~(n + 1 <= n) /\ ~(n + 2 <= n)
      BY <1>1
    <3>2. n + 1 \in 1..(n + 2) /\ n + 2 \in 1..(n + 2)
      BY <1>1
    <3>3. <<question, answer>>[1] = question /\ <<question, answer>>[2] = answer
      OBVIOUS
    <3> HIDE DEF question, answer
    <3>4. QED
      BY <2>2, <3>1, <3>2, <3>3
  <2>4. QED
    BY <1>1, <2>1, <2>2, <2>3
<1>5. /\ question.of = c /\ question.role = "user"
      /\ answer.of = c /\ answer.role = "assistant" /\ question # answer
  OBVIOUS
<1> HIDE DEF n, g, question, answer
<1>6. DOMAIN g = 1..(n + 2) /\ 1..(n + 2) = 1..n \cup {n + 1, n + 2}
  BY <1>1, <1>4, SequenceOfMessages
<1>7. History!InTurns(g) = History!InTurns(h) \cup {c}
  <2>1. History!InTurns(g) = {g[i].of : i \in 1..(n + 2)}
    BY <1>4, <1>6 DEF History!InTurns
  <2>2. QED
    BY <1>1, <1>4, <1>5, <1>6, <2>1
<1>8. \A i \in 1..n : h[i] # question /\ h[i] # answer
  BY <1>1, <1>5
<1>9. \A i, j \in DOMAIN g : g[i] = g[j] => i = j
  BY <1>1, <1>4, <1>5, <1>6, <1>8 DEF Row
<1>10. History!IsTurns(g)
  <2>1. ASSUME NEW i \in 1..n
        PROVE  /\ g[i].role = (IF ((n + 2) - i) % 2 = 0 THEN "assistant" ELSE "user")
               /\ g[i].role = "user" => g[i].of = g[i + 1].of
    <3>1. /\ h[i].role = (IF (n - i) % 2 = 0 THEN "assistant" ELSE "user")
          /\ h[i].role = "user" => h[i].of = h[i + 1].of
      BY <1>1 DEF Row, History!IsTurns, n
    <3>2. ((n + 2) - i) % 2 = (n - i) % 2
      BY <1>1
    <3>3. ASSUME h[i].role = "user" PROVE i + 1 \in 1..n
      <4>1. (n - i) % 2 # 0
        BY <3>1, <3>3
      <4>2. n # i
        BY <1>1, <4>1
      <4>3. QED
        BY <1>1, <4>2
    <3>4. QED
      BY <1>4, <3>1, <3>2, <3>3
  <2>2. ((n + 2) - (n + 1)) % 2 = 1 /\ ((n + 2) - (n + 2)) % 2 = 0 /\ (n + 1) + 1 = n + 2
    BY <1>1
  <2>3. QED
    BY <1>4, <1>5, <1>6, <2>1, <2>2 DEF History!IsTurns
<1>11. QED
  BY <1>4, <1>7, <1>9, <1>10 DEF Row, n, g

(* The last messages of a row are a row.                                   *)
LEMMA RowCut ==
    ASSUME NEW h \in Messages, Row(h)
    PROVE  /\ History!Truncate(h) \in Messages
           /\ Len(History!Truncate(h)) <= MaxMessages
           /\ Row(History!Truncate(h))
           /\ History!InTurns(History!Truncate(h)) \subseteq History!InTurns(h)
<1> DEFINE n == Len(h)
           k == n - MaxMessages
           g == SubSeq(h, k + 1, n)
<1>1. /\ n \in Nat /\ MaxMessages \in Nat \ {0} /\ DOMAIN h = 1..n
      /\ \A i \in 1..n : h[i] \in History!Message
  BY SequenceOfMessages, GraphAssumption
<1>2. CASE ~(n > MaxMessages)
  BY <1>1, <1>2 DEF History!Truncate
<1>0. h = [i \in 1..n |-> h[i]] /\ Len(h) = n
  BY DEF Messages
<1> HIDE DEF n
<1>3. CASE n > MaxMessages
  <2>1. k \in Nat \ {0} /\ k < n /\ n - k = MaxMessages /\ k + 1 \in 1..n
    BY <1>1, <1>3
  <2>2. History!Truncate(h) = g
    BY <1>3 DEF History!Truncate, n
  <2>3. /\ g \in Messages /\ Len(g) = MaxMessages
        /\ \A i \in 1..MaxMessages : g[i] = h[i + k]
    <3>1. g = [i \in 1..MaxMessages |-> h[i + k]]
      BY <1>0, <1>1, <2>1 DEF Messages
    <3>2. \A i \in 1..MaxMessages : i + k \in 1..n
      BY <1>1, <2>1
    <3>3. g \in [1..MaxMessages -> History!Message]
      BY <1>1, <3>1, <3>2
    <3> HIDE DEF g
    <3>4. g \in Messages /\ Len(g) = MaxMessages
      BY <1>1, <3>3 DEF Messages
    <3>5. QED
      BY <3>1, <3>4
  <2> HIDE DEF g, k
  <2>4. /\ DOMAIN g = 1..MaxMessages
        /\ \A i \in 1..MaxMessages : i + k \in 1..n /\ n - (i + k) = MaxMessages - i
    BY <1>1, <2>1, <2>3, SequenceOfMessages
  <2>5. History!InTurns(g) \subseteq History!InTurns(h)
    BY <1>1, <2>3, <2>4 DEF History!InTurns
  <2>6. \A i, j \in DOMAIN g : g[i] = g[j] => i = j
    <3> TAKE i, j \in DOMAIN g
    <3>1. /\ i \in 1..MaxMessages /\ j \in 1..MaxMessages
          /\ i + k \in 1..n /\ j + k \in 1..n /\ g[i] = h[i + k] /\ g[j] = h[j + k]
      BY <2>3, <2>4
    <3>2. h[i + k] = h[j + k] => i + k = j + k
      BY <1>1, <3>1 DEF Row
    <3>3. QED
      BY <2>1, <3>1, <3>2
  <2>7. History!IsTurns(g)
    <3>1. ASSUME NEW i \in 1..MaxMessages
          PROVE  /\ g[i].role = (IF (MaxMessages - i) % 2 = 0 THEN "assistant" ELSE "user")
                 /\ g[i].role = "user" => g[i].of = g[i + 1].of
      <4>1. i + k \in 1..n /\ n - (i + k) = MaxMessages - i /\ g[i] = h[i + k]
        BY <2>3, <2>4
      <4>2. /\ h[i + k].role = (IF (n - (i + k)) % 2 = 0 THEN "assistant" ELSE "user")
            /\ h[i + k].role = "user" => h[i + k].of = h[(i + k) + 1].of
        BY <1>0, <1>1, <4>1 DEF Row, History!IsTurns
      <4>3. ASSUME g[i].role = "user" PROVE i + 1 \in 1..MaxMessages
        <5>1. (MaxMessages - i) % 2 # 0
          BY <4>1, <4>2, <4>3
        <5>2. MaxMessages # i
          BY <1>1, <5>1
        <5>3. QED
          BY <1>1, <5>2
      <4>4. (i + 1) + k = (i + k) + 1
        BY <2>1
      <4>5. QED
        BY <2>3, <4>1, <4>2, <4>3, <4>4
    <3>2. QED
      BY <2>3, <2>4, <3>1 DEF History!IsTurns
  <2>8. QED
    BY <1>1, <2>2, <2>3, <2>5, <2>6, <2>7 DEF Row
<1>4. QED
  BY <1>2, <1>3

-----------------------------------------------------------------------------
(* The calls of GenerateReply.                                             *)

LEMMA CallsAreCalls ==
    \A r \in Requests, b \in Backends :
        <<r, b>> \in Calls /\ SessionFor(<<r, b>>) = SessionOf[r]
  BY DEF Calls, SessionFor

LEMMA HistoryParts ==
    /\ History!TypeOK <=>
         /\ history \in [Sessions -> Messages]
         /\ \A s \in Sessions : Len(history[s]) <= MaxMessages
         /\ call \in [Calls -> {"new", "model", "load", "store", "done", "failed"}]
         /\ prompt \in [Calls -> Messages]
         /\ loaded \in [Calls -> Messages]
    /\ \A c \in Calls : [d \in Calls |-> SessionOf[d[1]]][c] = SessionFor(c)
    /\ \A c \in Calls : SessionFor(c) \in Sessions
  BY GraphAssumption DEF History!TypeOK, Calls, Messages, SessionFor

(* A history, or a copy of it, as the invariant has it.                    *)
SavedRow(h, s) ==
    Row(h) /\ \A c \in History!InTurns(h) : call[c] = "done" /\ SessionFor(c) = s

SavedRows ==
    /\ \A s \in Sessions : SavedRow(history[s], s)
    /\ \A c \in Calls : /\ SavedRow(prompt[c], SessionFor(c))
                        /\ SavedRow(loaded[c], SessionFor(c))
                        /\ prompt[c] # <<>> => call[c] = "model"

LEMMA SavedParts == TypeOK => (SavedInv <=> SavedRows)
<1> SUFFICES ASSUME TypeOK PROVE SavedInv <=> SavedRows
  OBVIOUS
<1>1. ASSUME NEW h \in Messages, NEW s
      PROVE  History!Saved(h, s) <=> SavedRow(h, s)
  <2>1. \A c \in History!InTurns(h) : c \in Calls
    BY SequenceOfMessages
  <2>2. \A c \in History!InTurns(h) : [d \in Calls |-> SessionOf[d[1]]][c] = SessionFor(c)
    BY <2>1, HistoryParts
  <2>3. QED
    BY <2>2 DEF History!Saved, SavedRow, Row, Calls
<1>2. QED
  BY <1>1, HistoryParts DEF TypeOK, SavedInv, SavedRows, History!SavedInv, Calls, SessionFor

LEMMA EmptyIsSaved ==
    ASSUME NEW s
    PROVE  SavedRow(<<>>, s) /\ <<>> \in Messages
  BY DEF SavedRow, Row, History!IsTurns, History!InTurns, Messages

(* What a call does, by the state it is in.                                *)
LEMMA CallStepParts ==
    ASSUME TypeOK, NEW c \in Calls, NEW over, History!CallStep(c, over)
    PROVE  \/ /\ call[c] = "new" /\ ~over /\ call' = [call EXCEPT ![c] = "model"]
              /\ prompt' = [prompt EXCEPT ![c] = history[SessionFor(c)]]
              /\ UNCHANGED <<history, loaded>>
           \/ /\ call[c] = "new" /\ over /\ call' = [call EXCEPT ![c] = "failed"]
              /\ UNCHANGED <<history, prompt, loaded>>
           \/ /\ call[c] = "model" /\ \E state \in {"load", "failed"} :
                                        call' = [call EXCEPT ![c] = state]
              /\ prompt' = [prompt EXCEPT ![c] = <<>>]
              /\ UNCHANGED <<history, loaded>>
           \/ /\ call[c] = "load" /\ call' = [call EXCEPT ![c] = "store"]
              /\ loaded' = [loaded EXCEPT ![c] = history[SessionFor(c)]]
              /\ UNCHANGED <<history, prompt>>
           \/ /\ call[c] = "store" /\ call' = [call EXCEPT ![c] = "done"]
              /\ history' = [history EXCEPT ![SessionFor(c)] =
                               History!Truncate(loaded[c] \o History!Turn(c))]
              /\ loaded' = [loaded EXCEPT ![c] = <<>>]
              /\ UNCHANGED prompt
<1>1. [d \in Calls |-> SessionOf[d[1]]][c] = SessionFor(c)
  BY HistoryParts
<1>2. CASE History!AskModel(c, over)
  BY <1>1, <1>2 DEF History!AskModel, History!CallTo, Calls
<1>3. CASE History!ModelReturns(c)
  BY <1>3 DEF History!ModelReturns, History!CallTo
<1>4. CASE History!LoadHistory(c)
  BY <1>1, <1>4 DEF History!LoadHistory, History!CallTo, Calls
<1>5. CASE History!StoreHistory(c)
  BY <1>1, <1>5 DEF History!StoreHistory, History!CallTo, Calls
<1>6. QED
  BY <1>2, <1>3, <1>4, <1>5 DEF History!CallStep

(* A call that is done stays so, and a step of one call moves no other.    *)
LEMMA CallMoves ==
    ASSUME TypeOK, NEW c \in Calls, NEW over, History!CallStep(c, over)
    PROVE  /\ call[c] \in {"new", "model", "load", "store"}
           /\ call'[c] \in {"model", "load", "store", "done", "failed"}
           /\ \A d \in Calls \ {c} : call'[d] = call[d]
           /\ \A d \in Calls : call[d] = "done" => call'[d] = "done"
           /\ over /\ call[c] = "new" => call'[c] = "failed"
<1>1. call \in [Calls -> {"new", "model", "load", "store", "done", "failed"}]
  BY HistoryParts DEF TypeOK
<1>2. PICK state \in {"model", "load", "store", "done", "failed"} :
        /\ call' = [call EXCEPT ![c] = state] /\ call[c] \in {"new", "model", "load", "store"}
        /\ over /\ call[c] = "new" => state = "failed"
  BY CallStepParts
<1>3. QED
  BY <1>1, <1>2

LEMMA CallTypes ==
    ASSUME TypeOK, NEW c \in Calls, NEW over, History!CallStep(c, over), SavedInv
    PROVE  History!TypeOK'
<1>1. /\ history \in [Sessions -> Messages]
      /\ \A s \in Sessions : Len(history[s]) <= MaxMessages
      /\ call \in [Calls -> {"new", "model", "load", "store", "done", "failed"}]
      /\ prompt \in [Calls -> Messages] /\ loaded \in [Calls -> Messages]
      /\ SessionFor(c) \in Sessions
  BY HistoryParts DEF TypeOK
<1>2. call' \in [Calls -> {"new", "model", "load", "store", "done", "failed"}]
  BY <1>1, CallStepParts
<1>3. prompt' \in [Calls -> Messages] /\ loaded' \in [Calls -> Messages]
  BY <1>1, CallStepParts, EmptyIsSaved
<1>4. history' \in [Sessions -> Messages] /\ \A s \in Sessions : Len(history'[s]) <= MaxMessages
  <2>1. CASE history' = history
    BY <1>1, <2>1
  <2>2. CASE /\ call[c] = "store"
             /\ history' = [history EXCEPT ![SessionFor(c)] =
                              History!Truncate(loaded[c] \o History!Turn(c))]
    <3>1. loaded[c] \in Messages /\ Row(loaded[c]) /\ c \notin History!InTurns(loaded[c])
      BY <1>1, <2>2, SavedParts DEF SavedRow, SavedRows
    <3>2. /\ History!Truncate(loaded[c] \o History!Turn(c)) \in Messages
          /\ Len(History!Truncate(loaded[c] \o History!Turn(c))) <= MaxMessages
      BY <3>1, RowAppended, RowCut
    <3>3. QED
      BY <1>1, <2>2, <3>2
  <2>3. QED
    BY <2>1, <2>2, CallStepParts
<1>5. QED
  BY <1>2, <1>3, <1>4 DEF History!TypeOK, Calls, Messages, History!Message

LEMMA CallSaved ==
    ASSUME TypeOK, TypeOK', SavedInv, NEW c \in Calls, NEW over, History!CallStep(c, over)
    PROVE  SavedInv'
<1>1. /\ history \in [Sessions -> Messages]
      /\ call \in [Calls -> {"new", "model", "load", "store", "done", "failed"}]
      /\ prompt \in [Calls -> Messages] /\ loaded \in [Calls -> Messages]
      /\ SessionFor(c) \in Sessions
  BY HistoryParts DEF TypeOK
<1>2. /\ \A s \in Sessions : SavedRow(history[s], s)
      /\ \A d \in Calls : /\ SavedRow(prompt[d], SessionFor(d))
                          /\ SavedRow(loaded[d], SessionFor(d))
                          /\ prompt[d] # <<>> => call[d] = "model"
  BY SavedParts DEF SavedRows
<1>3. ASSUME NEW h \in Messages, NEW s, SavedRow(h, s) PROVE SavedRow(h, s)'
  <2>1. \A d \in History!InTurns(h) : d \in Calls
    BY SequenceOfMessages
  <2>2. \A d \in History!InTurns(h) : call'[d] = "done"
    BY <1>3, <2>1, CallMoves DEF SavedRow
  <2>3. Row(h)' = Row(h) /\ History!InTurns(h)' = History!InTurns(h)
    BY DEF Row, History!IsTurns, History!InTurns
  <2>4. QED
    BY <1>3, <2>2, <2>3 DEF SavedRow, SessionFor
<1>4. ASSUME NEW s \in Sessions PROVE SavedRow(history[s], s)'
  <2>1. PICK h : h = history'[s]
    OBVIOUS
  <2>2. SUFFICES SavedRow(h, s)'
    BY <2>1 DEF SavedRow, Row, History!IsTurns, History!InTurns
  <2>3. CASE h = history[s]
    BY <1>1, <1>2, <1>3, <2>3
  <2>4. CASE h # history[s]
    <3>1. /\ s = SessionFor(c) /\ call[c] = "store" /\ call' = [call EXCEPT ![c] = "done"]
          /\ h = History!Truncate(loaded[c] \o History!Turn(c))
      BY <1>1, <2>1, <2>4, CallStepParts
    <3>2. PICK g : g = loaded[c]
      OBVIOUS
    <3>3. g \in Messages /\ SavedRow(g, s) /\ c \notin History!InTurns(g)
      BY <1>1, <1>2, <3>1, <3>2 DEF SavedRow
    <3>4. /\ h \in Messages /\ Row(h)
          /\ History!InTurns(h) \subseteq History!InTurns(g) \cup {c}
      BY <3>1, <3>2, <3>3, RowAppended, RowCut DEF SavedRow
    <3>5. \A d \in History!InTurns(g) : call'[d] = "done" /\ SessionFor(d) = s
      BY <3>3, SequenceOfMessages, CallMoves DEF SavedRow
    <3>6. call'[c] = "done" /\ SessionFor(c) = s
      BY <1>1, <3>1
    <3>7. \A d \in History!InTurns(h) : call'[d] = "done" /\ SessionFor(d) = s
      BY <3>4, <3>5, <3>6
    <3>8. Row(h)' = Row(h) /\ History!InTurns(h)' = History!InTurns(h)
      BY DEF Row, History!IsTurns, History!InTurns
    <3>9. QED
      BY <3>4, <3>7, <3>8 DEF SavedRow, SessionFor
  <2>5. QED
    BY <2>3, <2>4
<1>5. ASSUME NEW d \in Calls, NEW h, h = prompt'[d]
      PROVE  SavedRow(h, SessionFor(d))' /\ (h # <<>> => call'[d] = "model")
  <2>1. h = prompt[d] \/ h = <<>> \/ (d = c /\ h = history[SessionFor(d)])
    BY <1>1, <1>5, CallStepParts
  <2>2. SavedRow(h, SessionFor(d)) /\ h \in Messages
    BY <1>1, <1>2, <2>1, EmptyIsSaved
  <2>3. SessionFor(d)' = SessionFor(d)
    BY DEF SessionFor
  <2>4. SavedRow(h, SessionFor(d))'
    BY <1>3, <2>2, <2>3 DEF SavedRow
  <2>5. h # <<>> => call'[d] = "model"
    <3>1. CASE d = c
      BY <1>1, <1>2, <1>5, <3>1, CallStepParts
    <3>2. CASE d # c
      BY <1>1, <1>2, <1>5, <3>2, CallStepParts, CallMoves
    <3>3. QED
      BY <3>1, <3>2
  <2>6. QED
    BY <2>4, <2>5
<1>6. ASSUME NEW d \in Calls, NEW h, h = loaded'[d] PROVE SavedRow(h, SessionFor(d))'
  <2>1. h = loaded[d] \/ h = <<>> \/ (d = c /\ h = history[SessionFor(d)])
    BY <1>1, <1>6, CallStepParts
  <2>2. SavedRow(h, SessionFor(d)) /\ h \in Messages
    BY <1>1, <1>2, <2>1, EmptyIsSaved
  <2>3. SessionFor(d)' = SessionFor(d)
    BY DEF SessionFor
  <2>4. QED
    BY <1>3, <2>2, <2>3 DEF SavedRow
<1>7. \A d \in Calls : /\ SavedRow(prompt[d], SessionFor(d))'
                       /\ SavedRow(loaded[d], SessionFor(d))'
                       /\ prompt'[d] # <<>> => call'[d] = "model"
  <2> TAKE d \in Calls
  <2>1. PICK h : h = prompt'[d]
    OBVIOUS
  <2>2. PICK g : g = loaded'[d]
    OBVIOUS
  <2>3. SavedRow(h, SessionFor(d))' /\ (h # <<>> => call'[d] = "model")
    BY <1>5, <2>1
  <2>4. SavedRow(g, SessionFor(d))'
    BY <1>6, <2>2
  <2>5. SavedRow(prompt[d], SessionFor(d))' = SavedRow(h, SessionFor(d))'
    BY <2>1 DEF SavedRow, Row, History!IsTurns, History!InTurns
  <2>6. SavedRow(loaded[d], SessionFor(d))' = SavedRow(g, SessionFor(d))'
    BY <2>2 DEF SavedRow, Row, History!IsTurns, History!InTurns
  <2>7. QED
    BY <2>1, <2>3, <2>4, <2>5, <2>6
<1>8. QED
  <2>1. SavedRows'
    BY <1>4, <1>7 DEF SavedRows
  <2>2. (TypeOK => (SavedInv <=> SavedRows))'
    BY SavedParts, PTL
  <2>3. QED
    BY <2>1, <2>2

LEMMA SavedStays ==
    ASSUME SavedInv, UNCHANGED <<history, call, prompt, loaded>>
    PROVE  SavedInv'
<1>1. ASSUME NEW h, NEW s, History!Saved(h, s) PROVE History!Saved(h, s)'
  <2>1. call' = call
    OBVIOUS
  <2>2. QED
    BY <1>1, <2>1 DEF History!Saved, History!IsTurns, History!InTurns
<1>2. ASSUME NEW s \in Sessions PROVE History!Saved(history[s], s)'
  <2>1. PICK h : h = history[s] /\ h = history'[s]
    OBVIOUS
  <2>2. History!Saved(h, s)'
    BY <1>1, <2>1 DEF SavedInv, History!SavedInv
  <2>3. History!Saved(history[s], s)' = History!Saved(h, s)'
    BY <2>1 DEF History!Saved, History!IsTurns, History!InTurns
  <2>4. QED
    BY <2>2, <2>3
<1>3. ASSUME NEW c \in Calls, NEW s, s = [d \in Calls |-> SessionOf[d[1]]][c]
      PROVE  /\ History!Saved(prompt[c], s)' /\ History!Saved(loaded[c], s)'
             /\ prompt'[c] # <<>> => call'[c] = "model"
  <2>1. PICK h : h = prompt[c] /\ h = prompt'[c]
    OBVIOUS
  <2>2. PICK g : g = loaded[c] /\ g = loaded'[c]
    OBVIOUS
  <2>3. /\ History!Saved(h, s) /\ History!Saved(g, s)
        /\ h # <<>> => call[c] = "model"
    BY <1>3, <2>1, <2>2 DEF SavedInv, History!SavedInv, Calls
  <2>4. History!Saved(h, s)' /\ History!Saved(g, s)'
    BY <1>1, <2>3
  <2>5. History!Saved(prompt[c], s)' = History!Saved(h, s)'
    BY <2>1 DEF History!Saved, History!IsTurns, History!InTurns
  <2>6. History!Saved(loaded[c], s)' = History!Saved(g, s)'
    BY <2>2 DEF History!Saved, History!IsTurns, History!InTurns
  <2>7. QED
    BY <2>1, <2>3, <2>4, <2>5, <2>6
<1>4. QED
  BY <1>2, <1>3 DEF SavedInv, History!SavedInv, Calls

-----------------------------------------------------------------------------
(* The requests.                                                           *)

(* What the invariant says of a request.                                   *)
RequestOK(r) ==
    /\ at[r] \notin {"chat", "fallback", "answered", "failed"} =>
         call[<<r, "graph">>] = "new" /\ call[<<r, "fallback">>] = "new"
    /\ at[r] = "chat" => call[<<r, "fallback">>] = "new"
    /\ at[r] = "fallback" =>
         \/ call[<<r, "graph">>] \in {"new", "failed"}
         \/ Done(r, "graph") /\ r \in ended /\ call[<<r, "fallback">>] \in {"new", "failed"}
    /\ at[r] = "answered" => Done(r, "graph") \/ Done(r, "fallback") \/ r \in ragTurns
    /\ at[r] = "failed" => ~Done(r, "fallback") /\ (Done(r, "graph") => r \in ended)
    /\ ~(Done(r, "graph") /\ Done(r, "fallback"))

LEMMA RequestParts == RequestInv <=> \A r \in Requests : RequestOK(r)
  BY DEF RequestInv, RequestOK, Backends

LEMMA InitInv == Init => Inv
<1> SUFFICES ASSUME Init PROVE Inv
  OBVIOUS
<1>1. /\ at = [r \in Requests |-> "new"] /\ ragTurns = {} /\ ended = {}
      /\ history = [s \in Sessions |-> <<>>]
      /\ call = [c \in Calls |-> "new"]
      /\ prompt = [c \in Calls |-> <<>>] /\ loaded = [c \in Calls |-> <<>>]
  BY DEF Init, History!Init, Calls
<1>2. /\ history \in [Sessions -> Messages] /\ \A s \in Sessions : Len(history[s]) <= MaxMessages
      /\ prompt \in [Calls -> Messages] /\ loaded \in [Calls -> Messages]
  BY <1>1, EmptyIsSaved, GraphAssumption
<1>3. TypeOK
  BY <1>1, <1>2, HistoryParts DEF TypeOK, Stages
<1>4. SavedRows
  BY <1>1, EmptyIsSaved DEF SavedRows
<1>5. \A r \in Requests : RequestOK(r)
  BY <1>1, CallsAreCalls DEF RequestOK, Done, Backends
<1>6. QED
  BY <1>3, <1>4, <1>5, SavedParts, RequestParts DEF Inv

(* A step of the graph that calls no backend.                              *)
LEMMA GraphStep ==
    ASSUME Inv, UNCHANGED <<ended, historyVars>>, NEW r \in Requests, NEW stage \in Stages, To(r, stage),
           ragTurns \subseteq ragTurns', ragTurns' \subseteq Requests,
           RequestOK(r)'
    PROVE  Inv'
<1>1. at \in [Requests -> Stages] /\ History!TypeOK
  BY DEF Inv, TypeOK
<1>2. at' = [at EXCEPT ![r] = stage]
  BY DEF To
<1>3. UNCHANGED <<history, call, prompt, loaded>>
  BY DEF historyVars
<1>4. History!TypeOK'
  BY <1>1, <1>3 DEF History!TypeOK
<1>5. TypeOK'
  BY <1>1, <1>2, <1>4 DEF Inv, TypeOK
<1>6. SavedInv'
  BY <1>3, SavedStays DEF Inv
<1>7. ASSUME NEW q \in Requests \ {r} PROVE RequestOK(q)'
  <2>1. RequestOK(q) /\ at'[q] = at[q] /\ call' = call /\ ended' = ended /\ (q \in ragTurns => q \in ragTurns')
    BY <1>1, <1>2, <1>3, RequestParts DEF Inv
  <2>2. QED
    BY <2>1 DEF RequestOK, Done
<1>8. \A q \in Requests : RequestOK(q)'
  BY <1>7
<1>9. RequestInv'
  BY <1>8 DEF RequestInv, RequestOK, Backends
<1>10. QED
  BY <1>5, <1>6, <1>9 DEF Inv

(* A step of a call that a request is waiting for.                         *)
LEMMA BackendStep ==
    ASSUME Inv, NEW r \in Requests, NEW b \in Backends, UNCHANGED graphVars,
           History!CallStep(<<r, b>>, r \in ended),
           (at[r] = "chat" /\ b = "graph") \/ (at[r] = "fallback" /\ b = "fallback")
    PROVE  Inv'
<1>1. <<r, b>> \in Calls
  BY CallsAreCalls
<1>2. TypeOK /\ SavedInv
  BY DEF Inv
<1>3. History!TypeOK'
  BY <1>1, <1>2, CallTypes
<1>4. TypeOK'
  BY <1>2, <1>3 DEF TypeOK, graphVars
<1>5. SavedInv'
  BY <1>1, <1>2, <1>4, CallSaved
<1>6. \A q \in Requests, d \in Backends : q # r \/ d # b => call'[<<q, d>>] = call[<<q, d>>]
  <2> TAKE q \in Requests, d \in Backends
  <2>1. <<q, d>> \in Calls /\ (q # r \/ d # b => <<q, d>> # <<r, b>>)
    BY CallsAreCalls
  <2>2. QED
    BY <1>1, <1>2, <2>1, CallMoves
<1>7. UNCHANGED <<at, ragTurns, ended>> /\ "graph" \in Backends /\ "fallback" \in Backends
  BY DEF graphVars, Backends
<1>8. ASSUME NEW q \in Requests PROVE RequestOK(q)'
  <2>1. RequestOK(q)
    BY RequestParts DEF Inv
  <2>2. CASE q # r
    BY <1>6, <1>7, <2>1, <2>2 DEF RequestOK, Done
  <2>3. CASE q = r /\ at[r] = "chat" /\ b = "graph"
    <3>1. call'[<<r, "fallback">>] = "new"
      BY <1>6, <1>7, <2>1, <2>3 DEF RequestOK
    <3>2. QED
      BY <1>7, <2>3, <3>1 DEF RequestOK, Done
  <2>4. CASE q = r /\ at[r] = "fallback" /\ b = "fallback"
    <3>1. call'[<<r, "graph">>] = call[<<r, "graph">>]
      BY <1>6, <1>7, <2>4
    <3>2. /\ call[<<r, "fallback">>] \in {"new", "model", "load", "store"}
          /\ r \in ended /\ call[<<r, "fallback">>] = "new" =>
               call'[<<r, "fallback">>] = "failed"
      BY <1>1, <1>2, <2>4, CallMoves
    <3>3. CASE call[<<r, "graph">>] \in {"new", "failed"}
      BY <1>7, <2>4, <3>1, <3>3 DEF RequestOK, Done
    <3>4. CASE call[<<r, "graph">>] \notin {"new", "failed"}
      <4>1. Done(r, "graph") /\ r \in ended /\ call[<<r, "fallback">>] \in {"new", "failed"}
        BY <2>1, <2>4, <3>4 DEF RequestOK
      <4>2. call'[<<r, "fallback">>] = "failed"
        BY <3>2, <4>1
      <4>3. QED
        BY <1>7, <2>4, <3>1, <4>1, <4>2 DEF RequestOK, Done
    <3>5. QED
      BY <3>3, <3>4
  <2>5. QED
    BY <2>2, <2>3, <2>4
<1>9. RequestInv'
  BY <1>8 DEF RequestInv, RequestOK, Backends
<1>10. QED
  BY <1>4, <1>5, <1>9 DEF Inv

LEMMA StepInv == Inv /\ [Next]_vars => Inv'
<1> SUFFICES ASSUME Inv, [Next]_vars PROVE Inv'
  OBVIOUS
<1>1. /\ at \in [Requests -> Stages] /\ ragTurns \subseteq Requests
      /\ \A r \in Requests : RequestOK(r)
  BY RequestParts DEF Inv, TypeOK
<1>2. ASSUME NEW r \in Requests, NEW stage \in Stages, To(r, stage)
      PROVE  at'[r] = stage
  BY <1>1, <1>2 DEF To
<1>3. ASSUME NEW r \in Requests, UNCHANGED <<ragTurns, ended, historyVars>>,
             at[r] \notin {"chat", "fallback", "answered", "failed"},
             \E stage \in Stages \ {"answered"} : To(r, stage)
      PROVE  Inv'
  <2>1. PICK stage \in Stages \ {"answered"} : To(r, stage)
    BY <1>3
  <2>2. at'[r] = stage /\ call' = call /\ UNCHANGED <<ragTurns, ended>>
    BY <1>2, <1>3, <2>1 DEF historyVars
  <2>3. call[<<r, "graph">>] = "new" /\ call[<<r, "fallback">>] = "new"
    BY <1>1, <1>3 DEF RequestOK
  <2>4. RequestOK(r)'
    BY <2>1, <2>2, <2>3 DEF RequestOK, Done
  <2>5. QED
    BY <1>1, <1>3, <2>1, <2>4, GraphStep
<1>4. ASSUME NEW r \in Requests, Begin(r) PROVE Inv'
  BY <1>3, <1>4 DEF Begin, Stages
<1>5. ASSUME NEW r \in Requests, Classify(r) PROVE Inv'
  BY <1>3, <1>5 DEF Classify, Fails, Route, Stages
<1>6. ASSUME NEW r \in Requests, SqlRetrieve(r) \/ SqlModel(r) \/ RagRetrieve(r) PROVE Inv'
  BY <1>3, <1>6 DEF SqlRetrieve, SqlModel, RagRetrieve, Node, Fails, Stages
<1>7. ASSUME NEW r \in Requests, Approve(r) PROVE Inv'
  BY <1>3, <1>7 DEF Approve, Stages
<1>8. ASSUME NEW r \in Requests, RagAnswers(r) PROVE Inv'
  <2>1. UNCHANGED <<ended, historyVars>> /\ call' = call /\ at[r] = "ragModel"
    BY <1>8 DEF RagAnswers, historyVars
  <2>2. call[<<r, "graph">>] = "new" /\ call[<<r, "fallback">>] = "new"
    BY <1>1, <2>1 DEF RequestOK
  <2>3. /\ ragTurns \subseteq ragTurns' /\ ragTurns' \subseteq Requests
        /\ \E stage \in {"answered", "fallback"} :
             To(r, stage) /\ (stage = "answered" => r \in ragTurns')
    BY <1>1, <1>8 DEF RagAnswers, Fails
  <2>4. PICK stage \in {"answered", "fallback"} :
          To(r, stage) /\ (stage = "answered" => r \in ragTurns')
    BY <2>3
  <2>5. stage \in Stages /\ at'[r] = stage
    BY <1>2, <2>4 DEF Stages
  <2>6. RequestOK(r)'
    BY <2>1, <2>2, <2>4, <2>5 DEF RequestOK, Done
  <2>7. QED
    BY <2>1, <2>3, <2>4, <2>5, <2>6, GraphStep
<1>9. ASSUME NEW r \in Requests, ChatReturns(r) PROVE Inv'
  <2>1. UNCHANGED <<ended, historyVars>> /\ call' = call /\ at[r] = "chat" /\ ragTurns' = ragTurns
    BY <1>9 DEF ChatReturns, historyVars
  <2>2. call[<<r, "fallback">>] = "new"
    BY <1>1, <2>1 DEF RequestOK
  <2>3. PICK stage \in {"answered", "fallback"} :
          /\ To(r, stage)
          /\ stage = "answered" => call[<<r, "graph">>] = "done"
          /\ stage = "fallback" => \/ call[<<r, "graph">>] = "failed"
                                   \/ call[<<r, "graph">>] = "done" /\ r \in ended
    BY <1>9 DEF ChatReturns, Fails
  <2>4. stage \in Stages /\ at'[r] = stage
    BY <1>2, <2>3 DEF Stages
  <2>5. RequestOK(r)'
    BY <2>1, <2>2, <2>3, <2>4 DEF RequestOK, Done
  <2>6. QED
    BY <1>1, <2>1, <2>3, <2>4, <2>5, GraphStep
<1>10. ASSUME NEW r \in Requests, FallbackReturns(r) PROVE Inv'
  <2>1. UNCHANGED <<ended, historyVars>> /\ call' = call /\ at[r] = "fallback" /\ ragTurns' = ragTurns
    BY <1>10 DEF FallbackReturns, historyVars
  <2>2. \/ call[<<r, "graph">>] \in {"new", "failed"}
        \/ Done(r, "graph") /\ r \in ended /\ call[<<r, "fallback">>] \in {"new", "failed"}
    BY <1>1, <2>1 DEF RequestOK
  <2>3. PICK stage \in {"answered", "failed"} :
          /\ To(r, stage)
          /\ stage = "answered" => call[<<r, "fallback">>] = "done"
          /\ stage = "failed" => call[<<r, "fallback">>] = "failed"
    BY <1>10 DEF FallbackReturns
  <2>4. stage \in Stages /\ at'[r] = stage
    BY <1>2, <2>3 DEF Stages
  <2>5. RequestOK(r)'
    BY <2>1, <2>2, <2>3, <2>4 DEF RequestOK, Done
  <2>6. QED
    BY <1>1, <2>1, <2>3, <2>4, <2>5, GraphStep
<1>11. ASSUME NEW r \in Requests, ChatBranch(r) PROVE Inv'
  <2>1. "graph" \in Backends
    BY DEF Backends
  <2>2. QED
    BY <1>11, <2>1, BackendStep DEF ChatBranch
<1>12. ASSUME NEW r \in Requests, Fallback(r) PROVE Inv'
  <2>1. "fallback" \in Backends
    BY DEF Backends
  <2>2. QED
    BY <1>12, <2>1, BackendStep DEF Fallback
<1>13. CASE UNCHANGED vars
  <2>1. UNCHANGED <<at, ragTurns, ended, history, call, prompt, loaded>>
    BY <1>13 DEF vars, graphVars, historyVars
  <2>2. TypeOK'
    BY <2>1 DEF Inv, TypeOK, History!TypeOK
  <2>3. SavedInv'
    BY <2>1, SavedStays DEF Inv
  <2>4. RequestInv'
    BY <2>1 DEF Inv, RequestInv, Done
  <2>5. QED
    BY <2>2, <2>3, <2>4 DEF Inv
<1>14. ASSUME NEW r \in Requests, ContextEnds(r) PROVE Inv'
  <2>1. /\ UNCHANGED <<at, ragTurns, history, call, prompt, loaded>>
        /\ ended \subseteq ended' /\ ended' \subseteq WebRequests
        /\ at[r] \notin {"answered", "failed"}
    BY <1>14 DEF ContextEnds, historyVars, Inv, TypeOK
  <2>2. TypeOK'
    BY <2>1 DEF Inv, TypeOK, History!TypeOK
  <2>3. SavedInv'
    BY <2>1, SavedStays DEF Inv
  <2>4. \A q \in Requests : RequestOK(q)'
    BY <1>1, <2>1 DEF RequestOK, Done
  <2>5. RequestInv'
    BY <2>4 DEF RequestInv, RequestOK, Backends
  <2>6. QED
    BY <2>2, <2>3, <2>5 DEF Inv
<1>15. QED
  BY <1>14, <1>4, <1>5, <1>6, <1>7, <1>8, <1>9, <1>10, <1>11, <1>12, <1>13 DEF Next, Step, AllReturned

-----------------------------------------------------------------------------
(* Theorems.                                                               *)

(* The inductive invariant.                                                *)
THEOREM GraphCorrect == Spec => []Inv
<1>1. QED
  BY InitInv, StepInv, PTL DEF Spec

(* Every variable keeps its type; in particular Truncate keeps every       *)
(* history within MaxMessages (saveTurn, ai/chat.go).                      *)
THEOREM TypeCorrect == Spec => []TypeOK
<1>1. Inv => TypeOK
  BY DEF Inv
<1>2. QED
  BY <1>1, GraphCorrect, PTL

(* Histories, and what models are sent of them, are rows of whole turns of *)
(* distinct calls that have ended well, however the calls overlap.         *)
THEOREM HistoriesAreTurns == Spec => []HistoryIsTurns
<1>1. Inv => HistoryIsTurns
  <2> SUFFICES ASSUME Inv PROVE HistoryIsTurns
    OBVIOUS
  <2>1. SavedInv /\ SavedRows /\ TypeOK
    BY SavedParts DEF Inv
  <2>2. ASSUME NEW s \in Sessions
        PROVE  /\ History!IsTurns(history[s])
               /\ \A i, j \in DOMAIN history[s] : history[s][i] = history[s][j] => i = j
               /\ \A c \in History!InTurns(history[s]) :
                    call[c] = "done" /\ [d \in Calls |-> SessionOf[d[1]]][c] = s
    BY <2>1 DEF SavedInv, History!SavedInv, History!Saved, Calls
  <2>3. ASSUME NEW c \in Calls
        PROVE  History!IsTurns(prompt[c]) /\ c \notin History!InTurns(prompt[c])
    <3>1. /\ Row(prompt[c])
          /\ prompt[c] # <<>> => call[c] = "model"
          /\ \A d \in History!InTurns(prompt[c]) : call[d] = "done"
      BY <2>1 DEF SavedRows, SavedRow
    <3>2. History!InTurns(<<>>) = {}
      BY DEF History!InTurns
    <3>3. QED
      BY <3>1, <3>2 DEF Row
  <2>4. QED
    BY <2>2, <2>3 DEF HistoryIsTurns, History!HistoryIsTurns, Calls
<1>2. QED
  BY <1>1, GraphCorrect, PTL

(* A history holds the question of a request once, although the chat       *)
(* branch and the fallback may both be asked it, the latter also after the *)
(* former has saved its turn (chat_service.go:62).                         *)
THEOREM QuestionsOnce == Spec => []QuestionOnce
<1>1. Inv => QuestionOnce
  <2> SUFFICES ASSUME Inv, NEW s \in Sessions,
                      NEW i \in DOMAIN history[s], NEW j \in DOMAIN history[s],
                      history[s][i].of[1] = history[s][j].of[1],
                      history[s][i].role = history[s][j].role
               PROVE  i = j
    BY DEF QuestionOnce
  <2>1. SavedRow(history[s], s) /\ history[s] \in Messages
    BY SavedParts, HistoryParts DEF Inv, SavedRows, TypeOK
  <2>2. PICK m \in History!Message : m = history[s][i]
    BY <2>1, SequenceOfMessages
  <2>3. PICK n \in History!Message : n = history[s][j]
    BY <2>1, SequenceOfMessages
  <2>4. call[m.of] = "done" /\ call[n.of] = "done"
    BY <2>1, <2>2, <2>3 DEF SavedRow, History!InTurns
  <2>5. PICK r \in Requests, a \in Backends : m.of = <<r, a>>
    BY <2>2 DEF History!Message
  <2>6. PICK q \in Requests, b \in Backends : n.of = <<q, b>>
    BY <2>3 DEF History!Message
  <2>7. r = q
    BY <2>2, <2>3, <2>5, <2>6
  <2>8. a = b
    BY <2>4, <2>5, <2>6, <2>7, RequestParts DEF Inv, RequestOK, Done, Backends
  <2>9. m = n
    BY <2>2, <2>3, <2>5, <2>6, <2>7, <2>8 DEF History!Message
  <2>10. QED
    BY <2>1, <2>2, <2>3, <2>9 DEF SavedRow, Row
<1>2. QED
  BY <1>1, GraphCorrect, PTL

(* What a caller of Chat hears agrees with what is remembered: an answer   *)
(* is the saved turn of one backend or in the Session of the RAG branch,   *)
(* and a request that ended with an error is in no history, unless its     *)
(* context ended between the saved turn and the end of the graph.          *)
THEOREM OutcomesAreRemembered == Spec => []OutcomeMatchesMemory
<1>1. Inv => OutcomeMatchesMemory
  <2> SUFFICES ASSUME Inv, NEW r \in Requests
               PROVE  /\ at[r] = "answered" => \/ Cardinality(SavedBy(r)) = 1
                                               \/ SavedBy(r) = {} /\ r \in ragTurns
                      /\ at[r] = "failed" => \/ SavedBy(r) = {}
                                             \/ SavedBy(r) = {"graph"} /\ r \in ended
    BY DEF OutcomeMatchesMemory
  <2>1. RequestOK(r)
    BY RequestParts DEF Inv
  <2>2. Done(r, "graph") /\ ~Done(r, "fallback") => SavedBy(r) = {"graph"}
    BY DEF Done, SavedBy, Backends
  <2>3. Done(r, "fallback") /\ ~Done(r, "graph") => SavedBy(r) = {"fallback"}
    BY DEF Done, SavedBy, Backends
  <2>4. ~Done(r, "fallback") /\ ~Done(r, "graph") => SavedBy(r) = {}
    BY DEF Done, SavedBy, Backends
  <2>5. Cardinality({"graph"}) = 1 /\ Cardinality({"fallback"}) = 1
    BY FS_Singleton
  <2>6. QED
    BY <2>1, <2>2, <2>3, <2>4, <2>5 DEF RequestOK
<1>2. QED
  BY <1>1, GraphCorrect, PTL

(* A stored turn goes for one of two reasons only: the bound pushed it     *)
(* out, or a call that had read the history before it writes that back.    *)
THEOREM LossesAreExplained == Spec => LossNeedsOverlap
<1>1. ASSUME Inv, NEW c \in Calls, NEW over, History!CallStep(c, over),
             NEW s \in Sessions,
             NEW d \in History!InTurns(history[s]) \ History!InTurns(history'[s])
      PROVE  /\ SessionFor(c) = s /\ call[c] = "store" /\ call'[c] = "done"
             /\ d \notin History!InTurns(loaded[c]) \/ Len(loaded[c]) + 2 > MaxMessages
  <2>1. /\ TypeOK /\ SavedRows
        /\ history \in [Sessions -> Messages] /\ loaded \in [Calls -> Messages]
        /\ call \in [Calls -> {"new", "model", "load", "store", "done", "failed"}]
    BY <1>1, SavedParts, HistoryParts DEF Inv, TypeOK
  <2>2. history'[s] # history[s]
    BY <1>1
  <2>3. /\ call[c] = "store" /\ call' = [call EXCEPT ![c] = "done"]
        /\ history' = [history EXCEPT ![SessionFor(c)] =
                         History!Truncate(loaded[c] \o History!Turn(c))]
    BY <1>1, <2>1, <2>2, CallStepParts
  <2>4. s = SessionFor(c) /\ call'[c] = "done"
    BY <2>1, <2>2, <2>3
  <2>5. PICK h \in Messages : h = loaded[c]
    BY <2>1
  <2>6. Row(h) /\ c \notin History!InTurns(h)
    BY <2>1, <2>3, <2>5 DEF SavedRows, SavedRow
  <2>7. /\ Len(h \o History!Turn(c)) = Len(h) + 2
        /\ History!InTurns(h \o History!Turn(c)) = History!InTurns(h) \cup {c}
    BY <2>5, <2>6, RowAppended
  <2>8. ASSUME ~(Len(h) + 2 > MaxMessages) PROVE d \notin History!InTurns(h)
    <3>1. history'[s] = h \o History!Turn(c)
      BY <2>1, <2>3, <2>4, <2>5, <2>7, <2>8 DEF History!Truncate
    <3>2. QED
      BY <1>1, <2>7, <3>1
  <2>9. QED
    BY <2>3, <2>4, <2>5, <2>8
<1>2. Inv /\ [Next]_vars => [History!LossExplained]_(History!vars)
  <2> SUFFICES ASSUME Inv, [Next]_vars, historyVars' # historyVars,
                      NEW s \in Sessions,
                      NEW d \in History!InTurns(history[s]) \ History!InTurns(history'[s])
               PROVE  \E c \in Calls :
                        /\ [b \in Calls |-> SessionOf[b[1]]][c] = s
                        /\ call[c] = "store" /\ call'[c] = "done"
                        /\ d \notin History!InTurns(loaded[c]) \/ Len(loaded[c]) + 2 > MaxMessages
    BY DEF History!LossExplained, History!vars, historyVars, Calls
  <2>1. PICK r \in Requests : ChatBranch(r) \/ Fallback(r)
    BY DEF Next, Step, AllReturned, vars, Begin, Classify, SqlRetrieve, SqlModel, Approve,
           RagRetrieve, RagAnswers, ChatReturns, FallbackReturns, ContextEnds, Node
  <2>2. PICK c \in Calls : \E over : History!CallStep(c, over)
    BY <2>1, CallsAreCalls DEF ChatBranch, Fallback, Backends
  <2>3. [b \in Calls |-> SessionOf[b[1]]][c] = SessionFor(c)
    BY HistoryParts
  <2>4. QED
    BY <1>1, <2>2, <2>3
<1>3. QED
  BY <1>2, GraphCorrect, PTL DEF Spec, LossNeedsOverlap, History!LossNeedsOverlap

=============================================================================
