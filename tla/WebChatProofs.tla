---------------------------- MODULE WebChatProofs ----------------------------
(***************************************************************************)
(* Proofs about WebChat: what the handlers store and log agrees with what  *)
(* the model replied, whoever leaves and whichever write fails, for every  *)
(* number of requests, every length of a reply and of its pieces.          *)
(***************************************************************************)
EXTENDS WebChat, FiniteSetTheorems, TLAPS

USE WebChatAssumption

Inv == TypeOK /\ ChatInv

(* TypeOK by the groups of variables that steps leave alone.               *)
HandlerType ==
    /\ handler \in [Requests -> {"new", "inserted", "found", "submit", "loop",
                                 "answer", "log", "returned"}]
    /\ told \in [Requests -> {0, 200, 404, 500}]
    /\ target \in [Requests -> 0..MaxConversations]
    /\ ctxDone \subseteq Requests /\ left \subseteq ctxDone /\ failed \subseteq Requests

StreamType ==
    /\ producer \in [Streams -> {"none", "chat", "send", "pause", "done"}]
    /\ reply \in [Streams -> 0..MaxLength]
    /\ sent \in [Streams -> 0..MaxLength]
    /\ got \in [Streams -> 0..MaxLength]

TableType ==
    /\ conversations \in [Conversations -> {"none", "live", "deleted"}]
    /\ messages \in Seq(Row)
    /\ logs \subseteq [of : Requests, status : {"success", "failed"}]
    /\ deletes \subseteq Deletes

PoolType ==
    /\ open \in BOOLEAN /\ line \in Seq(Onces) /\ Len(line) <= Capacity
    /\ running \subseteq Onces /\ ran \subseteq Onces
    /\ heard \in [Onces -> Outcomes \cup {None}]

LEMMA TypeParts ==
    /\ TypeOK <=> HandlerType /\ StreamType /\ TableType /\ PoolType
    /\ TypeOK' <=> HandlerType' /\ StreamType' /\ TableType' /\ PoolType'
BY DEF TypeOK, HandlerType, StreamType, TableType, PoolType

LEMMA TypeFrame ==
    /\ StreamType /\ UNCHANGED streamVars => StreamType'
    /\ TableType /\ UNCHANGED tables => TableType'
    /\ PoolType /\ UNCHANGED pool => PoolType'
    /\ HandlerType /\ UNCHANGED web => HandlerType'
<1>1. StreamType /\ UNCHANGED streamVars => StreamType'
  BY DEF StreamType, streamVars
<1>2. TableType /\ UNCHANGED tables => TableType'
  BY DEF TableType, tables
<1>3. PoolType /\ UNCHANGED pool => PoolType'
  BY DEF PoolType, pool
<1>4. HandlerType /\ UNCHANGED web => HandlerType'
  BY DEF HandlerType, web
<1> QED
  BY <1>1, <1>2, <1>3, <1>4

-----------------------------------------------------------------------------
(* The table messages.                                                     *)

(* A step of r adds rows of r, after the others, or none.                  *)
RowsKept(r) ==
    /\ \A i \in DOMAIN messages :
         /\ i \in DOMAIN messages' /\ messages'[i] = messages[i]
         /\ \A j \in DOMAIN messages' \ DOMAIN messages : i < j
    /\ \A j \in DOMAIN messages' \ DOMAIN messages : messages'[j].of = r

LEMMA AppendEntries ==
    ASSUME NEW S, NEW q \in Seq(S), NEW e \in S
    PROVE  /\ Append(q, e) \in Seq(S)
           /\ DOMAIN Append(q, e) = DOMAIN q \cup {Len(q) + 1}
           /\ Len(q) + 1 \notin DOMAIN q
           /\ \A i \in DOMAIN q : i < Len(q) + 1 /\ Append(q, e)[i] = q[i]
           /\ Append(q, e)[Len(q) + 1] = e
OBVIOUS

LEMMA NotPosted ==
    ASSUME NEW r, messages' = messages
    PROVE  RowsKept(r) /\ \A q, role : RowsOf(q, role)' = RowsOf(q, role)
BY DEF RowsKept, RowsOf

LEMMA Posted ==
    ASSUME Inv, NEW r \in Requests, NEW role \in Roles, NEW length \in 0..MaxLength,
           target[r] # 0, Post(r, role, length)
    PROVE  LET n == Len(messages) + 1
           IN  /\ messages' \in Seq(Row) /\ RowsKept(r)
               /\ DOMAIN messages' = DOMAIN messages \cup {n}
               /\ \A i \in DOMAIN messages : i < n
               /\ messages'[n].of = r /\ messages'[n].in = target[r]
               /\ messages'[n].length = length
               /\ RowsOf(r, role)' = RowsOf(r, role) \cup {n}
               /\ \A other \in Roles \ {role} : RowsOf(r, other)' = RowsOf(r, other)
<1> DEFINE m == [of |-> r, in |-> target[r], role |-> role, length |-> length]
           n == Len(messages) + 1
<1>1. m \in Row /\ messages \in Seq(Row)
  BY DEF Inv, TypeOK, Row, Conversations
<1>2. /\ messages' \in Seq(Row)
      /\ DOMAIN messages' = DOMAIN messages \cup {n} /\ n \notin DOMAIN messages
      /\ \A i \in DOMAIN messages : i < n /\ messages'[i] = messages[i]
      /\ messages'[n] = m
  BY <1>1, AppendEntries DEF Post
<1>3. messages'[n].in = target[r] /\ messages'[n].length = length
      /\ messages'[n].of = r /\ messages'[n].role = role
  BY <1>2
<1> HIDE DEF m, n
<1>4. RowsKept(r)
  BY <1>2, <1>3 DEF RowsKept
<1>5. /\ RowsOf(r, role)' = RowsOf(r, role) \cup {n}
      /\ \A other \in Roles \ {role} : RowsOf(r, other)' = RowsOf(r, other)
  BY <1>2, <1>3 DEF RowsOf
<1> QED
  BY <1>2, <1>3, <1>4, <1>5 DEF n

-----------------------------------------------------------------------------
(* A step of request r leaves what the invariant says of the others.       *)

Others(r) ==
    /\ \A q \in Requests \ {r} :
         /\ handler'[q] = handler[q] /\ told'[q] = told[q] /\ target'[q] = target[q]
         /\ q \in ctxDone' <=> q \in ctxDone
         /\ q \in left' <=> q \in left
         /\ q \in failed' <=> q \in failed
    /\ \A s \in Streams \ {r} : /\ producer'[s] = producer[s] /\ reply'[s] = reply[s]
                                /\ sent'[s] = sent[s] /\ got'[s] = got[s]
    /\ \A o \in Onces \ {r} : /\ heard'[o] = heard[o]
                              /\ o \in ran => o \in ran'
                              /\ Pool!Admitted(o)' <=> Pool!Admitted(o)
    /\ \A e \in logs' \ logs : e.of = r
    /\ \A c \in Conversations : conversations[c] # "none" => conversations'[c] # "none"
    /\ RowsKept(r)

LEMMA OthersKept ==
    ASSUME Inv, NEW r, Others(r)
    PROVE  /\ \A q \in Requests \ {r} : TargetInv(q)' /\ RowInv(q)'
           /\ \A s \in Streams \ {r} : StreamInv(s)'
           /\ \A o \in Onces \ {r} : OnceInv(o)'
<1>1. \A q \in Requests \ {r}, role \in Roles :
        /\ RowsOf(q, role)' = RowsOf(q, role)
        /\ \A i \in RowsOf(q, role) : messages'[i] = messages[i]
  BY DEF Others, RowsKept, RowsOf
<1>2. \A q \in Requests \ {r} : TargetInv(q)'
  BY DEF Inv, ChatInv, Others, TargetInv, TypeOK, Conversations
<1>3. \A q \in Requests \ {r} : RowInv(q)'
  <2> SUFFICES ASSUME NEW q \in Requests \ {r} PROVE RowInv(q)'
    OBVIOUS
  <2>1. \A i \in DOMAIN messages' : messages'[i].of = q => messages'[i].in = target'[q]
    BY DEF Inv, ChatInv, Others, RowsKept, RowInv
  <2> QED
    BY <1>1, <2>1 DEF Inv, ChatInv, Others, RowInv, Roles
<1>4. \A s \in Streams \ {r} : StreamInv(s)'
  <2> SUFFICES ASSUME NEW s \in Streams \ {r} PROVE StreamInv(s)'
    OBVIOUS
  <2>1. \A e \in logs' : e.of = s =>
          e.status = "success" /\ reply'[s] > 0 /\ RowsOf(s, "user")' # {}
    BY <1>1 DEF Inv, ChatInv, Others, StreamInv, Roles, Requests
  <2> QED
    BY <1>1, <2>1 DEF Inv, ChatInv, Others, StreamInv, Roles, Requests
<1>5. \A o \in Onces \ {r} : OnceInv(o)'
  <2> SUFFICES ASSUME NEW o \in Onces \ {r} PROVE OnceInv(o)'
    OBVIOUS
  <2>1. \A e \in logs' : e.of = o =>
          /\ heard'[o] # None /\ (e.status = "success" <=> heard'[o] = "reply")
          /\ RowsOf(o, "user")' # {}
    BY <1>1 DEF Inv, ChatInv, Others, OnceInv, Roles, Requests
  <2> QED
    BY <1>1, <2>1 DEF Inv, ChatInv, Others, OnceInv, Roles, Requests
<1> QED
  BY <1>2, <1>3, <1>4, <1>5

(* What a step that is not the pool's leaves of it.                        *)
LEMMA PoolKept ==
    ASSUME UNCHANGED pool
    PROVE  /\ heard' = heard /\ ran' = ran
           /\ \A o : Pool!Admitted(o)' <=> Pool!Admitted(o)
BY DEF pool, Pool!Admitted

-----------------------------------------------------------------------------
(* Every request: its conversation and its prompt.                         *)

LEMMA RowTypes ==
    ASSUME Inv
    PROVE  messages \in Seq(Row) /\ \A i \in DOMAIN messages : messages[i] \in Row
<1>1. messages \in Seq(Row)
  BY DEF Inv, TypeOK
<1> QED
  BY <1>1

(* Before its prompt is stored a request has written nothing.              *)
LEMMA NoRows ==
    ASSUME Inv, NEW r \in Requests, handler[r] \in {"new", "inserted", "found"}
    PROVE  /\ \A i \in DOMAIN messages : messages[i].of # r
           /\ RowsOf(r, "user") = {} /\ RowsOf(r, "assistant") = {}
           /\ \A e \in logs : e.of # r
<1>1. RowsOf(r, "user") = {} /\ RowsOf(r, "assistant") = {}
  BY DEF Inv, ChatInv, RowInv
<1>2. \A i \in DOMAIN messages : messages[i].role \in Roles
  BY RowTypes DEF Row
<1>3. \A e \in logs : e.of # r
  BY <1>1 DEF Inv, ChatInv, StreamInv, OnceInv, Requests
<1> QED
  BY <1>1, <1>2, <1>3 DEF RowsOf, Roles

(* The steps of a request that end it early, or take it to its prompt.     *)
LEMMA EarlyStep ==
    ASSUME Inv, NEW r \in Requests, handler[r] \in {"new", "inserted", "found"},
           handler'[r] \in {"inserted", "found", "returned"},
           UNCHANGED <<left, failed, streamVars, messages, logs, pool>>,
           told'[r] \in {told[r], 404, 500},
           TypeOK', Others(r), TargetInv(r)'
    PROVE  Inv'
<1>1. RowInv(r)'
  BY NotPosted, NoRows DEF RowInv, Roles, RowsOf
<1>2. r \in Streams => StreamInv(r)'
  BY NotPosted, NoRows DEF Inv, ChatInv, StreamInv, streamVars
<1>3. r \in Onces => OnceInv(r)'
  BY NotPosted, NoRows, PoolKept DEF Inv, ChatInv, OnceInv
<1> QED
  BY <1>1, <1>2, <1>3, OthersKept DEF Inv, ChatInv

LEMMA InsertConversationInv ==
    ASSUME Inv, NEW r \in Requests, InsertConversation(r)
    PROVE  Inv'
<1>1. /\ handler[r] = "new" /\ target[r] = 0
      /\ UNCHANGED <<left, failed, streamVars, messages, logs, deletes, pool>>
      /\ \/ /\ handler' = [handler EXCEPT ![r] = "inserted"] /\ UNCHANGED <<told, ctxDone>>
            /\ \E c \in Conversations : /\ target' = [target EXCEPT ![r] = c]
                                       /\ conversations' = [conversations EXCEPT ![c] = "live"]
         \/ /\ handler' = [handler EXCEPT ![r] = "returned"] /\ told' = [told EXCEPT ![r] = 500]
            /\ ctxDone' = ctxDone \cup {r} /\ UNCHANGED <<target, conversations>>
  BY DEF InsertConversation, HandlerTo, Return, Inv, ChatInv, TargetInv
<1>2. HandlerType' /\ TypeOK'
  <2>1. HandlerType /\ StreamType /\ TableType /\ PoolType
    BY TypeParts DEF Inv
  <2>2. HandlerType'
    BY <1>1, <2>1 DEF HandlerType, Conversations
  <2>3. TableType'
    BY <1>1, <2>1 DEF TableType
  <2> QED
    BY <1>1, <2>1, <2>2, <2>3, TypeFrame, TypeParts
<1>3. /\ handler' = [handler EXCEPT ![r] = handler'[r]]
      /\ \/ /\ handler'[r] = "inserted" /\ told'[r] = told[r]
            /\ target'[r] # 0 /\ conversations'[target'[r]] # "none"
            /\ r \in ctxDone' => r \in ctxDone
         \/ handler'[r] = "returned" /\ told'[r] = 500 /\ target'[r] = 0
  <2>1. handler \in [Requests -> {"new", "inserted", "found", "submit", "loop",
                                 "answer", "log", "returned"}]
    BY DEF Inv, TypeOK
  <2>2. target \in [Requests -> 0..MaxConversations] /\ told \in [Requests -> {0, 200, 404, 500}]
        /\ conversations \in [Conversations -> {"none", "live", "deleted"}]
    BY DEF Inv, TypeOK
  <2> QED
    BY <1>1, <2>1, <2>2 DEF Conversations
<1>4. Others(r)
  BY <1>1, PoolKept, NotPosted DEF Inv, TypeOK, Others, streamVars
<1>5. TargetInv(r)'
  BY <1>1, <1>3 DEF Inv, ChatInv, TargetInv
<1> QED
  BY <1>1, <1>2, <1>3, <1>4, <1>5, EarlyStep

LEMMA ReadConversationBackInv ==
    ASSUME Inv, NEW r \in Requests, ReadConversationBack(r)
    PROVE  Inv'
<1>1. /\ handler[r] = "inserted"
      /\ UNCHANGED <<target, left, failed, streamVars, tables, pool>>
      /\ \/ handler' = [handler EXCEPT ![r] = "found"] /\ UNCHANGED <<told, ctxDone>>
         \/ /\ handler' = [handler EXCEPT ![r] = "returned"] /\ told' = [told EXCEPT ![r] = 500]
            /\ ctxDone' = ctxDone \cup {r}
  BY DEF ReadConversationBack, HandlerTo, Return
<1>2. HandlerType /\ StreamType /\ TableType /\ PoolType
  BY TypeParts DEF Inv
<1>3. HandlerType'
  BY <1>1, <1>2 DEF HandlerType
<1>4. TypeOK'
  BY <1>1, <1>2, <1>3, TypeFrame, TypeParts
<1>5. \/ handler'[r] = "found" /\ told'[r] = told[r] /\ (r \in ctxDone' => r \in ctxDone)
      \/ handler'[r] = "returned" /\ told'[r] = 500
  BY <1>1, <1>2 DEF HandlerType
<1>6. Others(r)
  BY <1>1, <1>2, PoolKept, NotPosted DEF Others, streamVars, tables, HandlerType
<1>7. TargetInv(r)'
  BY <1>1, <1>5 DEF Inv, ChatInv, TargetInv, tables
<1> QED
  BY <1>1, <1>4, <1>5, <1>6, <1>7, EarlyStep DEF tables

LEMMA FindConversationInv ==
    ASSUME Inv, NEW r \in Requests, FindConversation(r)
    PROVE  Inv'
<1>1. /\ handler[r] = "new" /\ target[r] = 0
      /\ UNCHANGED <<left, failed, streamVars, tables, pool>>
      /\ \/ /\ handler' = [handler EXCEPT ![r] = "found"] /\ UNCHANGED <<told, ctxDone>>
            /\ \E c \in Conversations : conversations[c] = "live" /\ target' = [target EXCEPT ![r] = c]
         \/ /\ handler' = [handler EXCEPT ![r] = "returned"]
            /\ \E status \in {404, 500} : told' = [told EXCEPT ![r] = status]
            /\ ctxDone' = ctxDone \cup {r} /\ target' = target
  BY DEF FindConversation, HandlerTo, Return, Inv, ChatInv, TargetInv
<1>2. HandlerType /\ StreamType /\ TableType /\ PoolType
  BY TypeParts DEF Inv
<1>3. HandlerType'
  BY <1>1, <1>2 DEF HandlerType, Conversations
<1>4. TypeOK'
  BY <1>1, <1>2, <1>3, TypeFrame, TypeParts
<1>5. \/ /\ handler'[r] = "found" /\ told'[r] = told[r] /\ (r \in ctxDone' => r \in ctxDone)
         /\ target'[r] # 0 /\ conversations[target'[r]] = "live"
      \/ handler'[r] = "returned" /\ told'[r] \in {404, 500} /\ target'[r] = 0
  BY <1>1, <1>2 DEF HandlerType, Conversations
<1>6. Others(r)
  BY <1>1, <1>2, PoolKept, NotPosted DEF Others, streamVars, tables, HandlerType
<1>7. TargetInv(r)'
  BY <1>1, <1>5 DEF Inv, ChatInv, TargetInv, tables
<1> QED
  BY <1>1, <1>4, <1>5, <1>6, <1>7, EarlyStep DEF tables

LEMMA SavePromptInv ==
    ASSUME Inv, NEW r \in Requests, SavePrompt(r)
    PROVE  Inv'
<1>1. /\ handler[r] = "found" /\ target[r] # 0
      /\ UNCHANGED <<target, left, failed, reply, sent, got, conversations, logs, deletes, pool>>
      /\ \/ /\ Post(r, "user", 0)
            /\ \/ r \in Onces /\ handler' = [handler EXCEPT ![r] = "submit"]
                  /\ UNCHANGED <<told, ctxDone, producer>>
               \/ r \in Streams /\ handler' = [handler EXCEPT ![r] = "loop"]
                  /\ told' = [told EXCEPT ![r] = 200] /\ ctxDone' = ctxDone
                  /\ producer' = [producer EXCEPT ![r] = "chat"]
         \/ /\ Post(r, "user", 0) \/ messages' = messages
            /\ handler' = [handler EXCEPT ![r] = "returned"]
            /\ told' = [told EXCEPT ![r] = 500] /\ ctxDone' = ctxDone \cup {r}
            /\ producer' = producer
  BY DEF SavePrompt, HandlerTo, Return, ProducerTo, Inv, ChatInv, TargetInv
<1>2. HandlerType /\ StreamType /\ TableType /\ PoolType
  BY TypeParts DEF Inv
<1> DEFINE n == Len(messages) + 1
<1>3. Post(r, "user", 0) =>
        /\ messages' \in Seq(Row) /\ RowsKept(r)
        /\ DOMAIN messages' = DOMAIN messages \cup {n}
        /\ messages'[n].in = target[r]
        /\ RowsOf(r, "user")' = {n} /\ RowsOf(r, "assistant")' = {}
  <2>1. 0 \in 0..MaxLength /\ "user" \in Roles /\ "assistant" \in Roles \ {"user"}
    BY DEF Roles
  <2>2. RowsOf(r, "user") = {} /\ RowsOf(r, "assistant") = {}
    BY <1>1, NoRows
  <2> QED
    BY <1>1, <2>1, <2>2, Posted
<1> HIDE DEF n
<1>4. TypeOK'
  <2>1. HandlerType'
    BY <1>1, <1>2 DEF HandlerType
  <2>2. StreamType'
    BY <1>1, <1>2 DEF StreamType
  <2>3. TableType'
    BY <1>1, <1>2, <1>3 DEF TableType
  <2> QED
    BY <1>1, <1>2, <2>1, <2>2, <2>3, TypeFrame, TypeParts
<1>5. /\ handler'[r] \in {"submit", "loop", "returned"}
      /\ handler'[r] = "submit" => r \in Onces
      /\ handler'[r] = "loop" => r \in Streams /\ producer'[r] = "chat"
      /\ handler'[r] # "loop" => producer' = producer
      /\ r \in Onces => told'[r] \in {told[r], 500}
      /\ told'[r] # 404
      /\ handler'[r] # "returned" => Post(r, "user", 0) /\ (r \in ctxDone' => r \in ctxDone)
      /\ Post(r, "user", 0) \/ messages' = messages
  <2>1. told[r] # 404
    BY <1>1 DEF Inv, ChatInv, TargetInv
  <2> QED
    BY <1>1, <1>2, <2>1 DEF HandlerType, StreamType, Requests
<1>6. RowsKept(r)
  BY <1>3, <1>5, NotPosted
<1>7. Others(r)
  BY <1>1, <1>2, <1>6, PoolKept DEF Others, HandlerType, StreamType
<1>8. TargetInv(r)'
  BY <1>1, <1>5 DEF Inv, ChatInv, TargetInv
<1>9. /\ RowsOf(r, "assistant")' = {}
      /\ \A i, j \in RowsOf(r, "user")' : i = j
      /\ \A i \in DOMAIN messages' : messages'[i].of = r => messages'[i].in = target'[r]
      /\ Post(r, "user", 0) => RowsOf(r, "user")' # {}
  <2>1. CASE messages' = messages /\ ~Post(r, "user", 0)
    BY <1>1, <2>1, NotPosted, NoRows
  <2>2. CASE Post(r, "user", 0)
    <3>1. \A i \in DOMAIN messages : messages'[i].of # r
      BY <1>1, <1>6, NoRows DEF RowsKept
    <3> QED
      BY <1>1, <1>3, <2>2, <3>1
  <2> QED
    BY <1>5, <2>1, <2>2
<1>10. RowInv(r)'
  BY <1>5, <1>9 DEF RowInv, Roles
<1>11. r \in Streams => StreamInv(r)'
  BY <1>1, <1>5, <1>9, NoRows DEF Inv, ChatInv, StreamInv
<1>12. r \in Onces => OnceInv(r)'
  BY <1>1, <1>5, <1>9, NoRows, PoolKept DEF Inv, ChatInv, OnceInv
<1> QED
  BY <1>4, <1>7, <1>8, <1>10, <1>11, <1>12, OthersKept DEF Inv, ChatInv

(* A handler that goes on after its prompt and stores nothing.             *)
LEMMA RowFrame ==
    ASSUME Inv, NEW r \in Requests, messages' = messages, target' = target,
           \/ handler'[r] = handler[r]
           \/ handler[r] \in {"submit", "loop"} /\ handler'[r] = "answer"
           \/ handler[r] \in {"submit", "loop", "answer", "log"} /\ handler'[r] = "returned"
    PROVE  RowInv(r)'
BY NotPosted DEF Inv, ChatInv, RowInv

LEMMA ClientLeavesInv ==
    ASSUME Inv, NEW r \in Requests, ClientLeaves(r)
    PROVE  Inv'
<1>1. /\ ctxDone' = ctxDone \cup {r} /\ left' = left \cup {r}
      /\ UNCHANGED <<handler, told, target, failed, streamVars, tables, pool>>
  BY DEF ClientLeaves
<1>2. HandlerType /\ StreamType /\ TableType /\ PoolType
  BY TypeParts DEF Inv
<1>3. HandlerType'
  BY <1>1, <1>2 DEF HandlerType
<1>4. TypeOK'
  BY <1>1, <1>2, <1>3, TypeFrame, TypeParts
<1>5. Others(r)
  BY <1>1, PoolKept, NotPosted DEF Others, streamVars, tables
<1>6. TargetInv(r)'
  BY <1>1 DEF Inv, ChatInv, TargetInv, tables
<1>7. RowInv(r)'
  BY <1>1, RowFrame DEF tables
<1>8. r \in Streams => StreamInv(r)'
  BY <1>1, NotPosted DEF Inv, ChatInv, StreamInv, streamVars, tables
<1>9. r \in Onces => OnceInv(r)'
  BY <1>1, NotPosted, PoolKept DEF Inv, ChatInv, OnceInv, tables
<1> QED
  BY <1>4, <1>5, <1>6, <1>7, <1>8, <1>9, OthersKept DEF Inv, ChatInv

-----------------------------------------------------------------------------
(* A stream: its handler and its producer.                                 *)

(* A step of a stream's handler or producer, with what is its own to show. *)
LEMMA StreamStep ==
    ASSUME Inv, NEW s \in Streams, TypeOK', Others(s), TargetInv(s)', RowInv(s)', StreamInv(s)'
    PROVE  Inv'
<1>1. s \in Requests /\ s \notin Onces
  BY DEF Requests
<1> QED
  BY <1>1, OthersKept DEF Inv, ChatInv

(* A piece is not empty, and not longer than what is left of the reply.    *)
LEMMA Pieces ==
    ASSUME StreamType, NEW s \in Streams, sent[s] < reply[s]
    PROVE  NextPiece(s) \in Nat /\ 0 < NextPiece(s) /\ sent[s] + NextPiece(s) <= reply[s]
<1>1. reply[s] \in 0..MaxLength /\ sent[s] \in 0..MaxLength
  BY DEF StreamType
<1> QED
  BY <1>1 DEF NextPiece

LEMMA TakeChunkInv ==
    ASSUME Inv, NEW s \in Streams, TakeChunk(s)
    PROVE  Inv'
<1> DEFINE n == NextPiece(s)
<1>1. /\ handler[s] = "loop" /\ producer[s] = "send" /\ sent[s] < reply[s]
      /\ sent' = [sent EXCEPT ![s] = @ + n] /\ got' = [got EXCEPT ![s] = @ + n]
      /\ producer' = [producer EXCEPT ![s] = "pause"]
      /\ UNCHANGED <<web, reply, tables, pool>>
  BY DEF TakeChunk, ProducerTo
<1>2. HandlerType /\ StreamType /\ TableType /\ PoolType
  BY TypeParts DEF Inv
<1>3. /\ n \in Nat /\ sent[s] + n <= reply[s]
      /\ got[s] = sent[s]
  BY <1>1, <1>2, Pieces DEF Inv, ChatInv, StreamInv
<1> HIDE DEF n
<1>4. sent[s] + n \in 0..MaxLength /\ got[s] + n = sent[s] + n
  BY <1>2, <1>3 DEF StreamType
<1>5. StreamType'
  BY <1>1, <1>2, <1>4 DEF StreamType
<1>6. TypeOK'
  BY <1>1, <1>2, <1>5, TypeFrame, TypeParts
<1>7. sent'[s] = sent[s] + n /\ got'[s] = sent'[s] /\ producer'[s] = "pause"
  BY <1>1, <1>2, <1>4 DEF StreamType
<1>8. Others(s)
  BY <1>1, <1>2, PoolKept, NotPosted DEF Others, web, tables, StreamType
<1>9. TargetInv(s)' /\ RowInv(s)'
  BY <1>1, RowFrame DEF Inv, ChatInv, TargetInv, web, tables, Requests
<1>10. StreamInv(s)'
  BY <1>1, <1>3, <1>7, NotPosted DEF Inv, ChatInv, StreamInv, web, tables
<1> QED
  BY <1>6, <1>8, <1>9, <1>10, StreamStep

LEMMA TakeDoneInv ==
    ASSUME Inv, NEW s \in Streams, TakeDone(s)
    PROVE  Inv'
<1>1. /\ handler[s] = "loop" /\ producer[s] = "send" /\ sent[s] = reply[s]
      /\ producer' = [producer EXCEPT ![s] = "done"]
      /\ UNCHANGED <<target, left, failed, reply, sent, got, tables, pool>>
      /\ \/ /\ reply[s] = 0 /\ handler' = [handler EXCEPT ![s] = "returned"]
            /\ told' = [told EXCEPT ![s] = 200] /\ ctxDone' = ctxDone \cup {s}
         \/ /\ reply[s] # 0 /\ handler' = [handler EXCEPT ![s] = "answer"]
            /\ UNCHANGED <<told, ctxDone>>
  BY DEF TakeDone, ProducerTo, HandlerTo, Return
<1>2. HandlerType /\ StreamType /\ TableType /\ PoolType
  BY TypeParts DEF Inv
<1>3. HandlerType' /\ StreamType'
  BY <1>1, <1>2 DEF HandlerType, StreamType, Requests
<1>4. TypeOK'
  BY <1>1, <1>2, <1>3, TypeFrame, TypeParts
<1>5. /\ producer'[s] = "done"
      /\ \/ reply[s] = 0 /\ handler'[s] = "returned" /\ told'[s] = 200
         \/ /\ reply[s] > 0 /\ handler'[s] = "answer" /\ told'[s] = told[s]
            /\ (s \in ctxDone' => s \in ctxDone)
  BY <1>1, <1>2 DEF HandlerType, StreamType, Requests
<1>6. Others(s)
  BY <1>1, <1>2, PoolKept, NotPosted DEF Others, tables, StreamType, HandlerType
<1>7. TargetInv(s)'
  BY <1>1, <1>5 DEF Inv, ChatInv, TargetInv, tables, Requests
<1>8. RowInv(s)'
  BY <1>1, <1>5, RowFrame DEF tables, Requests
<1>9. StreamInv(s)'
  <2>1. RowsOf(s, "assistant") = {}
    BY <1>1 DEF Inv, ChatInv, RowInv, Requests
  <2> QED
    BY <1>1, <1>5, <2>1, NotPosted DEF Inv, ChatInv, StreamInv, tables
<1> QED
  BY <1>4, <1>6, <1>7, <1>8, <1>9, StreamStep

(* The handler gives up on the stream: its client has left.                *)
LEMMA SeeEndInv ==
    ASSUME Inv, NEW s \in Streams, SeeContext(s) \/ SeeClose(s)
    PROVE  Inv'
<1>1. /\ handler[s] = "loop" /\ handler' = [handler EXCEPT ![s] = "returned"]
      /\ told' = [told EXCEPT ![s] = 200] /\ ctxDone' = ctxDone \cup {s}
      /\ UNCHANGED <<target, left, failed, streamVars, tables, pool>>
  BY DEF SeeContext, SeeClose, Return
<1>2. s \in left
  BY DEF SeeContext, SeeClose, Inv, ChatInv, TargetInv, StreamInv, Requests
<1>3. HandlerType /\ StreamType /\ TableType /\ PoolType
  BY TypeParts DEF Inv
<1>4. HandlerType'
  BY <1>1, <1>3 DEF HandlerType, Requests
<1>5. TypeOK'
  BY <1>1, <1>3, <1>4, TypeFrame, TypeParts
<1>6. handler'[s] = "returned" /\ told'[s] = 200
  BY <1>1, <1>3 DEF HandlerType, Requests
<1>7. Others(s)
  BY <1>1, <1>3, PoolKept, NotPosted DEF Others, tables, streamVars, HandlerType
<1>8. TargetInv(s)' /\ RowInv(s)'
  BY <1>1, <1>6, RowFrame DEF Inv, ChatInv, TargetInv, tables, Requests
<1>9. StreamInv(s)'
  BY <1>1, <1>2, <1>6, NotPosted DEF Inv, ChatInv, StreamInv, tables, streamVars
<1> QED
  BY <1>5, <1>7, <1>8, <1>9, StreamStep

(* The rows of a request that stores its answer.                           *)
LEMMA PostAnswer ==
    ASSUME Inv, NEW r \in Requests, handler[r] = "answer",
           NEW length \in 0..MaxLength, Post(r, "assistant", length),
           target' = target, handler'[r] \in {"log", "returned"}
    PROVE  /\ messages' \in Seq(Row) /\ RowsKept(r) /\ RowInv(r)'
           /\ RowsOf(r, "user")' = RowsOf(r, "user")
           /\ RowsOf(r, "assistant")' # {}
           /\ \A i \in RowsOf(r, "assistant")' : messages'[i].length = length
<1> DEFINE n == Len(messages) + 1
<1>1. /\ target[r] # 0 /\ RowsOf(r, "user") # {} /\ RowsOf(r, "assistant") = {}
      /\ \A i \in DOMAIN messages : messages[i].of = r => messages[i].in = target[r]
      /\ \A i, j \in RowsOf(r, "user") : i = j
  BY DEF Inv, ChatInv, TargetInv, RowInv, Roles
<1>2. "assistant" \in Roles /\ "user" \in Roles \ {"assistant"}
  BY DEF Roles
<1>3. /\ messages' \in Seq(Row) /\ RowsKept(r)
      /\ DOMAIN messages' = DOMAIN messages \cup {n}
      /\ \A i \in DOMAIN messages : i < n
      /\ messages'[n].in = target[r] /\ messages'[n].length = length
      /\ RowsOf(r, "assistant")' = {n} /\ RowsOf(r, "user")' = RowsOf(r, "user")
  BY <1>1, <1>2, Posted
<1> HIDE DEF n
<1>4. \A i \in RowsOf(r, "user") : i \in DOMAIN messages
  BY DEF RowsOf
<1>5. \A i \in DOMAIN messages' : messages'[i].of = r => messages'[i].in = target'[r]
  BY <1>1, <1>3 DEF RowsKept
<1>6. RowInv(r)'
  BY <1>1, <1>3, <1>4, <1>5 DEF RowInv, Roles
<1> QED
  BY <1>3, <1>6

LEMMA SaveAnswerOfStreamInv ==
    ASSUME Inv, NEW s \in Streams, SaveAnswerOfStream(s)
    PROVE  Inv'
<1>1. /\ handler[s] = "answer" /\ handler' = [handler EXCEPT ![s] = "log"]
      /\ UNCHANGED <<told, ctxDone, target, left, streamVars, conversations, logs, deletes, pool>>
      /\ \/ Post(s, "assistant", got[s]) /\ failed' = failed
         \/ messages' = messages /\ failed' = failed \cup {s}
  BY DEF SaveAnswerOfStream, HandlerTo
<1>2. HandlerType /\ StreamType /\ TableType /\ PoolType /\ s \in Requests
  BY TypeParts DEF Inv, Requests
<1>3. got[s] \in 0..MaxLength /\ got[s] = reply[s] /\ reply[s] > 0
  BY <1>1, <1>2 DEF StreamType, Inv, ChatInv, StreamInv
<1>4. handler'[s] = "log"
  BY <1>1, <1>2 DEF HandlerType
<1>5. Post(s, "assistant", got[s]) =>
           /\ messages' \in Seq(Row) /\ RowsKept(s) /\ RowInv(s)'
           /\ RowsOf(s, "user")' = RowsOf(s, "user")
           /\ RowsOf(s, "assistant")' # {}
           /\ \A i \in RowsOf(s, "assistant")' : messages'[i].length = got[s]
  BY <1>1, <1>2, <1>3, <1>4, PostAnswer
<1>6. TypeOK'
  <2>1. HandlerType'
    BY <1>1, <1>2 DEF HandlerType
  <2>2. TableType'
    BY <1>1, <1>2, <1>5 DEF TableType
  <2> QED
    BY <1>1, <1>2, <2>1, <2>2, TypeFrame, TypeParts
<1>7. RowsKept(s)
  BY <1>1, <1>5, NotPosted
<1>8. Others(s)
  BY <1>1, <1>2, <1>7, PoolKept DEF Others, HandlerType, streamVars
<1>9. TargetInv(s)'
  BY <1>1, <1>2, <1>4 DEF Inv, ChatInv, TargetInv
<1>10. RowInv(s)'
  <2>1. CASE Post(s, "assistant", got[s])
    BY <1>5, <2>1
  <2>2. CASE messages' = messages
    BY <1>1, <1>2, <1>4, <2>2, NotPosted DEF Inv, ChatInv, RowInv
  <2> QED
    BY <1>1, <2>1, <2>2
<1>11. StreamInv(s)'
  <2>1. CASE Post(s, "assistant", got[s])
    BY <1>1, <1>3, <1>4, <1>5, <2>1 DEF Inv, ChatInv, StreamInv, streamVars
  <2>2. CASE messages' = messages /\ failed' = failed \cup {s}
    BY <1>1, <1>4, <2>2, NotPosted DEF Inv, ChatInv, StreamInv, streamVars
  <2> QED
    BY <1>1, <2>1, <2>2
<1> QED
  BY <1>6, <1>8, <1>9, <1>10, <1>11, StreamStep

LEMMA LogStreamInv ==
    ASSUME Inv, NEW s \in Streams, LogStream(s)
    PROVE  Inv'
<1>1. /\ handler[s] = "log" /\ handler' = [handler EXCEPT ![s] = "returned"]
      /\ told' = [told EXCEPT ![s] = 200] /\ ctxDone' = ctxDone \cup {s}
      /\ UNCHANGED <<target, left, failed, streamVars, conversations, messages, deletes, pool>>
      /\ logs' = logs \/ logs' = logs \cup {[of |-> s, status |-> "success"]}
  BY DEF LogStream, Return, Log
<1>2. HandlerType /\ StreamType /\ TableType /\ PoolType /\ s \in Requests
  BY TypeParts DEF Inv, Requests
<1>3. TypeOK'
  <2>1. HandlerType'
    BY <1>1, <1>2 DEF HandlerType
  <2>2. TableType'
    BY <1>1, <1>2 DEF TableType
  <2> QED
    BY <1>1, <1>2, <2>1, <2>2, TypeFrame, TypeParts
<1>4. handler'[s] = "returned" /\ told'[s] = 200
  BY <1>1, <1>2 DEF HandlerType
<1>5. Others(s)
  BY <1>1, <1>2, PoolKept, NotPosted DEF Others, HandlerType, streamVars
<1>6. TargetInv(s)' /\ RowInv(s)'
  BY <1>1, <1>2, <1>4, RowFrame DEF Inv, ChatInv, TargetInv
<1>7. StreamInv(s)'
  <2>1. RowsOf(s, "user") # {}
    BY <1>1, <1>2 DEF Inv, ChatInv, RowInv
  <2>2. \A e \in logs' : e.of = s => e.status = "success" \/ e \in logs
    BY <1>1
  <2> QED
    BY <1>1, <1>4, <2>1, <2>2, NotPosted DEF Inv, ChatInv, StreamInv, streamVars
<1> QED
  BY <1>3, <1>5, <1>6, <1>7, StreamStep

LEMMA ProducerInv ==
    ASSUME Inv, NEW s \in Streams, ChatReturns(s) \/ PauseEnds(s) \/ ProducerStops(s)
    PROVE  Inv'
<1>1. /\ UNCHANGED <<web, sent, got, tables, pool>>
      /\ \/ /\ producer[s] = "chat" /\ producer' = [producer EXCEPT ![s] = "send"]
            /\ \E n \in 0..MaxLength : reply' = [reply EXCEPT ![s] = n]
         \/ /\ producer[s] = "pause" /\ producer' = [producer EXCEPT ![s] = "send"]
            /\ reply' = reply
         \/ /\ producer[s] \in {"send", "pause"} /\ producer' = [producer EXCEPT ![s] = "done"]
            /\ reply' = reply /\ s \in ctxDone
  BY DEF ChatReturns, PauseEnds, ProducerStops, ProducerTo
<1>2. HandlerType /\ StreamType /\ TableType /\ PoolType /\ s \in Requests
  BY TypeParts DEF Inv, Requests
<1>3. StreamType'
  BY <1>1, <1>2 DEF StreamType
<1>4. TypeOK'
  BY <1>1, <1>2, <1>3, TypeFrame, TypeParts
<1>5. /\ producer[s] \in {"chat", "send", "pause"} /\ producer'[s] \in {"send", "done"}
      /\ producer'[s] = "done" => s \in ctxDone /\ reply'[s] = reply[s]
      /\ producer[s] # "chat" => reply'[s] = reply[s]
      /\ producer[s] = "chat" => reply[s] = 0 /\ reply'[s] \in 0..MaxLength
  BY <1>1, <1>2 DEF StreamType, Inv, ChatInv, StreamInv
<1>6. Others(s)
  BY <1>1, <1>2, PoolKept, NotPosted DEF Others, StreamType, web, tables
<1>7. TargetInv(s)' /\ RowInv(s)'
  BY <1>1, <1>2, RowFrame DEF Inv, ChatInv, TargetInv, web, tables
<1>8. StreamInv(s)'
  <2>1. /\ s \in ctxDone /\ handler[s] # "returned" => s \in left
        /\ handler[s] \notin {"answer", "log", "new", "inserted", "found"}
    BY <1>2, <1>5 DEF Inv, ChatInv, TargetInv, StreamInv
  <2>2. sent[s] \in Nat /\ got[s] = sent[s] /\ sent[s] <= reply'[s]
    BY <1>2, <1>5 DEF Inv, ChatInv, StreamInv, StreamType
  <2>3. handler[s] = "returned" => s \in left \cup failed \/ RowsOf(s, "assistant") # {}
    BY <1>2, <1>5 DEF Inv, ChatInv, StreamInv
  <2>4. producer[s] = "chat" =>
          RowsOf(s, "assistant") = {} /\ \A e \in logs : e.of # s
    BY <1>5 DEF Inv, ChatInv, StreamInv
  <2> QED
    BY <1>1, <1>5, <2>1, <2>2, <2>3, <2>4, NotPosted DEF Inv, ChatInv, StreamInv, web, tables
<1> QED
  BY <1>4, <1>6, <1>7, <1>8, StreamStep

-----------------------------------------------------------------------------
(* A plain chat: its handler and the pool.                                 *)

(* A step of a plain chat, with what is its own to show.                   *)
LEMMA OnceStep ==
    ASSUME Inv, NEW o \in Onces, TypeOK', Others(o), TargetInv(o)', RowInv(o)', OnceInv(o)'
    PROVE  Inv'
<1>1. o \in Requests /\ o \notin Streams
  BY DEF Requests
<1> QED
  BY <1>1, OthersKept DEF Inv, ChatInv

LEMMA LogOnceInv ==
    ASSUME Inv, NEW o \in Onces, LogOnce(o)
    PROVE  Inv'
<1>1. /\ handler[o] = "submit" /\ heard[o] # None
      /\ UNCHANGED <<target, left, failed, streamVars, conversations, messages, deletes, pool>>
      /\ \/ logs' = logs
         \/ heard[o] = "reply" /\ logs' = logs \cup {[of |-> o, status |-> "success"]}
         \/ heard[o] # "reply" /\ logs' = logs \cup {[of |-> o, status |-> "failed"]}
      /\ \/ heard[o] = "reply" /\ handler' = [handler EXCEPT ![o] = "answer"]
            /\ UNCHANGED <<told, ctxDone>>
         \/ heard[o] # "reply" /\ handler' = [handler EXCEPT ![o] = "returned"]
            /\ told' = [told EXCEPT ![o] = 500] /\ ctxDone' = ctxDone \cup {o}
  BY DEF LogOnce, HandlerTo, Return, Log
<1>2. HandlerType /\ StreamType /\ TableType /\ PoolType /\ o \in Requests
  BY TypeParts DEF Inv, Requests
<1>3. TypeOK'
  <2>1. HandlerType'
    BY <1>1, <1>2 DEF HandlerType
  <2>2. TableType'
    BY <1>1, <1>2 DEF TableType
  <2> QED
    BY <1>1, <1>2, <2>1, <2>2, TypeFrame, TypeParts
<1>4. \/ /\ heard[o] = "reply" /\ handler'[o] = "answer" /\ told'[o] = told[o]
         /\ (o \in ctxDone' => o \in ctxDone)
      \/ heard[o] # "reply" /\ handler'[o] = "returned" /\ told'[o] = 500
  BY <1>1, <1>2 DEF HandlerType
<1>5. Others(o)
  BY <1>1, <1>2, PoolKept, NotPosted DEF Others, HandlerType, streamVars
<1>6. TargetInv(o)' /\ RowInv(o)'
  BY <1>1, <1>2, <1>4, RowFrame DEF Inv, ChatInv, TargetInv
<1>7. OnceInv(o)'
  <2>1. RowsOf(o, "user") # {} /\ RowsOf(o, "assistant") = {}
    BY <1>1, <1>2 DEF Inv, ChatInv, RowInv
  <2>2. \A e \in logs' : e.of = o => e \in logs \/ (e.status = "success" <=> heard[o] = "reply")
    BY <1>1
  <2>3. heard[o] \in {"reply", "error", "full", "panic", "cancelled"}
    BY <1>1, <1>2 DEF PoolType, Outcomes
  <2>4. heard'[o] = heard[o] /\ (o \in ran' <=> o \in ran)
    BY <1>1, PoolKept
  <2>5. Pool!Admitted(o)' <=> Pool!Admitted(o)
    BY <1>1, PoolKept
  <2>6. RowsOf(o, "user")' = RowsOf(o, "user") /\ RowsOf(o, "assistant")' = RowsOf(o, "assistant")
    BY <1>1, NotPosted
  <2> QED
    BY <1>1, <1>4, <2>1, <2>2, <2>3, <2>4, <2>5, <2>6 DEF Inv, ChatInv, OnceInv
<1> QED
  BY <1>3, <1>5, <1>6, <1>7, OnceStep

LEMMA SaveAnswerOfOnceInv ==
    ASSUME Inv, NEW o \in Onces, SaveAnswerOfOnce(o)
    PROVE  Inv'
<1>1. /\ handler[o] = "answer" /\ heard[o] = "reply"
      /\ handler' = [handler EXCEPT ![o] = "returned"] /\ ctxDone' = ctxDone \cup {o}
      /\ UNCHANGED <<target, left, streamVars, conversations, logs, deletes, pool>>
      /\ Post(o, "assistant", 1) \/ messages' = messages
      /\ \/ Post(o, "assistant", 1) /\ told' = [told EXCEPT ![o] = 200] /\ failed' = failed
         \/ told' = [told EXCEPT ![o] = 500] /\ failed' = failed \cup {o}
  BY DEF SaveAnswerOfOnce, Return, Inv, ChatInv, OnceInv
<1>2. HandlerType /\ StreamType /\ TableType /\ PoolType /\ o \in Requests
  BY TypeParts DEF Inv, Requests
<1>3. handler'[o] = "returned"
  BY <1>1, <1>2 DEF HandlerType
<1>4. 1 \in 0..MaxLength
  OBVIOUS
<1>5. Post(o, "assistant", 1) =>
           /\ messages' \in Seq(Row) /\ RowsKept(o) /\ RowInv(o)'
           /\ RowsOf(o, "user")' = RowsOf(o, "user")
           /\ RowsOf(o, "assistant")' # {}
  BY <1>1, <1>2, <1>3, <1>4, PostAnswer
<1>6. TypeOK'
  <2>1. HandlerType'
    BY <1>1, <1>2 DEF HandlerType
  <2>2. TableType'
    BY <1>1, <1>2, <1>5 DEF TableType
  <2> QED
    BY <1>1, <1>2, <2>1, <2>2, TypeFrame, TypeParts
<1>7. RowsKept(o) /\ RowInv(o)'
  BY <1>1, <1>2, <1>3, <1>5, NotPosted, RowFrame
<1>8. Others(o)
  BY <1>1, <1>2, <1>7, PoolKept DEF Others, HandlerType, streamVars
<1>9. /\ told'[o] \in {200, 500}
      /\ told'[o] = 200 => Post(o, "assistant", 1)
      /\ Post(o, "assistant", 1) \/ o \in failed'
  BY <1>1, <1>2 DEF HandlerType
<1>10. TargetInv(o)'
  BY <1>1, <1>2, <1>3, <1>9 DEF Inv, ChatInv, TargetInv
<1>11. OnceInv(o)'
  <2>1. RowsOf(o, "user")' = RowsOf(o, "user")
    BY <1>1, <1>5, NotPosted
  <2>2. /\ told'[o] = 200 => RowsOf(o, "assistant")' # {}
        /\ RowsOf(o, "assistant")' # {} \/ o \in failed'
    BY <1>5, <1>9
  <2>3. heard' = heard /\ ran' = ran /\ (Pool!Admitted(o)' <=> Pool!Admitted(o))
    BY <1>1, PoolKept
  <2> QED
    BY <1>1, <1>3, <2>1, <2>2, <2>3 DEF Inv, ChatInv, OnceInv
<1> QED
  BY <1>6, <1>7, <1>8, <1>10, <1>11, OnceStep

(* A handler in Submit: its task is let in, or it hears how it went.       *)
LEMMA SubmitInv ==
    ASSUME Inv, NEW o \in Onces,
           Admit(o) \/ \E outcome \in Outcomes : SubmitReturns(o, outcome)
    PROVE  Inv'
<1>1. /\ handler[o] = "submit" /\ heard[o] = None
      /\ UNCHANGED <<web, streamVars, tables>> /\ UNCHANGED <<open, running, ran>>
      /\ \/ /\ Len(line) < Capacity /\ line' = Append(line, o) /\ heard' = heard
         \/ /\ line' = line
            /\ \E outcome \in Outcomes :
                 /\ heard' = [heard EXCEPT ![o] = outcome]
                 /\ outcome = "reply" => o \in ran
                 /\ outcome \in {"full", "panic"} => ~Pool!Admitted(o)
                 /\ outcome = "cancelled" => o \in ctxDone
  BY DEF Admit, SubmitReturns, Pool!Admit, Pool!Hear
<1>2. HandlerType /\ StreamType /\ TableType /\ PoolType /\ o \in Requests
  BY TypeParts DEF Inv, Requests
<1>3. line' = Append(line, o) =>
        /\ line' \in Seq(Onces) /\ Len(line') = Len(line) + 1
        /\ \A p : (\E i \in DOMAIN line' : line'[i] = p) <=> (\E i \in DOMAIN line : line[i] = p) \/ p = o
  <2>1. line \in Seq(Onces)
    BY <1>2 DEF PoolType
  <2> SUFFICES ASSUME line' = Append(line, o)
               PROVE  /\ line' \in Seq(Onces) /\ Len(line') = Len(line) + 1
                      /\ \A p : (\E i \in DOMAIN line' : line'[i] = p)
                                <=> (\E i \in DOMAIN line : line[i] = p) \/ p = o
    OBVIOUS
  <2>2. /\ line' \in Seq(Onces)
        /\ DOMAIN line' = DOMAIN line \cup {Len(line) + 1}
        /\ \A i \in DOMAIN line : line'[i] = line[i]
        /\ line'[Len(line) + 1] = o
    BY <2>1, AppendEntries
  <2>3. Len(line') = Len(line) + 1
    BY <2>1
  <2> QED
    BY <2>2, <2>3
<1>4. PoolType'
  BY <1>1, <1>2, <1>3 DEF PoolType
<1>5. TypeOK'
  BY <1>1, <1>2, <1>4, TypeFrame, TypeParts
<1>6. /\ \A p \in Onces \ {o} : heard'[p] = heard[p] /\ (Pool!Admitted(p)' <=> Pool!Admitted(p))
      /\ heard'[o] # None => (Pool!Admitted(o)' <=> Pool!Admitted(o))
      /\ heard'[o] = "reply" => o \in ran
      /\ heard'[o] \in {"full", "panic"} => ~Pool!Admitted(o)
      /\ heard'[o] = "cancelled" => o \in ctxDone
  BY <1>1, <1>2, <1>3 DEF PoolType, Pool!Admitted, Outcomes
<1>7. Others(o)
  BY <1>1, <1>6, NotPosted DEF Others, web, streamVars, tables
<1>8. TargetInv(o)' /\ RowInv(o)'
  BY <1>1, <1>2, RowFrame DEF Inv, ChatInv, TargetInv, web, tables
<1>9. OnceInv(o)'
  <2>1. /\ o \in ctxDone => o \in left
        /\ RowsOf(o, "assistant") = {} /\ \A e \in logs : e.of # o
        /\ told[o] # 200
    BY <1>1, <1>2 DEF Inv, ChatInv, TargetInv, RowInv, OnceInv
  <2> QED
    BY <1>1, <1>6, <2>1, NotPosted DEF Inv, ChatInv, OnceInv, web, tables
<1> QED
  BY <1>5, <1>7, <1>8, <1>9, OnceStep

-----------------------------------------------------------------------------
(* The steps of nobody's request: a deletion, and the pool's own.          *)

LEMMA NobodyStep ==
    ASSUME Inv, TypeOK', \A r : r \notin Requests => Others(r)
    PROVE  Inv'
<1>1. PICK r : r \notin Requests
  BY NoSetContainsEverything
<1>2. Others(r) /\ r \notin Streams /\ r \notin Onces
  BY <1>1 DEF Requests
<1> QED
  BY <1>1, <1>2, OthersKept DEF Inv, ChatInv

LEMMA DeleteConversationInv ==
    ASSUME Inv, NEW d \in Deletes, DeleteConversation(d)
    PROVE  Inv'
<1>1. /\ deletes' = deletes \cup {d}
      /\ UNCHANGED <<web, streamVars, messages, logs, pool>>
      /\ \E c \in Conversations : \/ conversations' = conversations
                                  \/ conversations' = Deleted(c)
  BY DEF DeleteConversation
<1>2. HandlerType /\ StreamType /\ TableType /\ PoolType
  BY TypeParts DEF Inv
<1>3. /\ conversations' \in [Conversations -> {"none", "live", "deleted"}]
      /\ \A c \in Conversations : conversations[c] # "none" => conversations'[c] # "none"
  BY <1>1, <1>2 DEF TableType, Deleted
<1>4. TableType'
  BY <1>1, <1>2, <1>3 DEF TableType
<1>5. TypeOK'
  BY <1>1, <1>2, <1>4, TypeFrame, TypeParts
<1>6. \A r : r \notin Requests => Others(r)
  BY <1>1, <1>3, PoolKept, NotPosted DEF Others, web, streamVars
<1> QED
  BY <1>5, <1>6, NobodyStep

LEMMA TailEntries ==
    ASSUME NEW S, NEW q \in Seq(S), q # <<>>
    PROVE  /\ Head(q) \in S /\ Tail(q) \in Seq(S) /\ Len(Tail(q)) <= Len(q)
           /\ \A p : (\E i \in DOMAIN q : q[i] = p)
                      <=> p = Head(q) \/ \E i \in DOMAIN Tail(q) : Tail(q)[i] = p
<1>1. /\ Head(q) \in S /\ Tail(q) \in Seq(S) /\ Len(Tail(q)) <= Len(q)
      /\ 1 \in DOMAIN q /\ Head(q) = q[1]
      /\ \A i \in DOMAIN Tail(q) : i + 1 \in DOMAIN q /\ Tail(q)[i] = q[i + 1]
      /\ \A i \in DOMAIN q : i # 1 => i - 1 \in DOMAIN Tail(q) /\ Tail(q)[i - 1] = q[i]
  OBVIOUS
<1> QED
  BY <1>1

(* The pool moves a task on: it stays admitted, and what ran has run.      *)
LEMMA PoolStepInv ==
    ASSUME Inv, PoolStep
    PROVE  Inv'
<1>1. /\ UNCHANGED <<web, streamVars, tables, heard>>
      /\ \/ /\ line # <<>> /\ running' = running \cup {Head(line)}
            /\ line' = Tail(line) /\ UNCHANGED <<open, ran>>
         \/ open' = FALSE /\ UNCHANGED <<line, running, ran>>
         \/ /\ \E o \in running : running' = running \ {o} /\ ran' = ran \cup {o}
            /\ UNCHANGED <<open, line>>
  BY DEF PoolStep, Pool!Begin, Pool!Shut, Pool!Finish
<1>2. HandlerType /\ StreamType /\ TableType /\ PoolType
  BY TypeParts DEF Inv
<1>3. line # <<>> =>
        /\ Head(line) \in Onces /\ Tail(line) \in Seq(Onces) /\ Len(Tail(line)) <= Len(line)
        /\ \A p : (\E i \in DOMAIN line : line[i] = p)
                   <=> p = Head(line) \/ \E i \in DOMAIN Tail(line) : Tail(line)[i] = p
  BY <1>2, TailEntries DEF PoolType
<1>4. PoolType'
  <2>1. open' \in BOOLEAN /\ running' \subseteq Onces /\ ran' \subseteq Onces
    BY <1>1, <1>2, <1>3 DEF PoolType
  <2>2. CASE line # <<>> /\ line' = Tail(line)
    <3>1. line' \in Seq(Onces) /\ Len(line') <= Len(line) /\ Len(line) <= Capacity
      BY <1>2, <1>3, <2>2 DEF PoolType
    <3>2. Len(line') \in Nat /\ Len(line) \in Nat
      BY <1>2, <3>1 DEF PoolType
    <3>3. Len(line') <= Capacity
      BY <3>1, <3>2
    <3> QED
      BY <1>1, <1>2, <2>1, <3>1, <3>3 DEF PoolType
  <2>3. CASE line' = line
    BY <1>1, <1>2, <2>1, <2>3 DEF PoolType
  <2> QED
    BY <1>1, <2>2, <2>3
<1>5. TypeOK'
  BY <1>1, <1>2, <1>4, TypeFrame, TypeParts
<1>6. \A o \in Onces : (o \in ran => o \in ran') /\ (Pool!Admitted(o)' <=> Pool!Admitted(o))
  BY <1>1, <1>3 DEF Pool!Admitted
<1>7. \A r : r \notin Requests => Others(r)
  BY <1>1, <1>6, NotPosted DEF Others, web, streamVars, tables
<1> QED
  BY <1>5, <1>7, NobodyStep

-----------------------------------------------------------------------------
(* The invariant.                                                          *)

LEMMA InitInv == Init => Inv
<1> SUFFICES ASSUME Init PROVE Inv
  OBVIOUS
<1>1. TypeOK
  <2>1. HandlerType
    BY DEF Init, HandlerType
  <2>2. StreamType
    BY DEF Init, StreamType
  <2>3. TableType
    BY DEF Init, TableType
  <2>4. PoolType
    BY DEF Init, Pool!Start0, PoolType
  <2> QED
    BY <2>1, <2>2, <2>3, <2>4, TypeParts
<1>2. \A r \in Requests, role \in Roles : RowsOf(r, role) = {}
  BY DEF Init, RowsOf
<1>3. \A r \in Requests : TargetInv(r)
  BY DEF Init, TargetInv
<1>4. \A r \in Requests : RowInv(r)
  BY <1>2 DEF Init, RowInv, Roles
<1>5. \A s \in Streams : StreamInv(s)
  BY <1>2 DEF Init, StreamInv, Roles, Requests
<1>6. \A o \in Onces : OnceInv(o)
  BY <1>2 DEF Init, OnceInv, Roles, Requests, Pool!Start0, Pool!Admitted
<1> QED
  BY <1>1, <1>3, <1>4, <1>5, <1>6 DEF Inv, ChatInv

LEMMA UnchangedInv == Inv /\ UNCHANGED vars => Inv'
<1> SUFFICES ASSUME Inv, UNCHANGED vars PROVE Inv'
  OBVIOUS
<1>1. UNCHANGED web /\ UNCHANGED streamVars /\ UNCHANGED tables /\ UNCHANGED pool
  BY DEF vars
<1>2. HandlerType /\ StreamType /\ TableType /\ PoolType
  BY TypeParts DEF Inv
<1>3. TypeOK'
  BY <1>1, <1>2, TypeFrame, TypeParts
<1>4. \A r : r \notin Requests => Others(r)
  BY <1>1, PoolKept, NotPosted DEF Others, web, streamVars, tables
<1> QED
  BY <1>3, <1>4, NobodyStep

LEMMA NextInv == Inv /\ [Next]_vars => Inv'
<1> SUFFICES ASSUME Inv, [Next]_vars PROVE Inv'
  OBVIOUS
<1>1. CASE \E r \in Requests : RequestStep(r) \/ ClientLeaves(r)
  BY <1>1, InsertConversationInv, ReadConversationBackInv, FindConversationInv,
     SavePromptInv, ClientLeavesInv DEF RequestStep
<1>2. CASE \E s \in Streams : StreamHandler(s)
  BY <1>2, TakeChunkInv, TakeDoneInv, SeeEndInv, SaveAnswerOfStreamInv, LogStreamInv
  DEF StreamHandler
<1>3. CASE \E s \in Streams : ChatReturns(s) \/ PauseEnds(s) \/ ProducerStops(s)
  BY <1>3, ProducerInv
<1>4. CASE \E o \in Onces : OnceHandler(o)
  BY <1>4, LogOnceInv, SaveAnswerOfOnceInv DEF OnceHandler
<1>5. CASE \E o \in Onces : Admit(o) \/ \E outcome \in Outcomes : SubmitReturns(o, outcome)
  BY <1>5, SubmitInv
<1>6. CASE \E d \in Deletes : DeleteConversation(d)
  BY <1>6, DeleteConversationInv
<1>7. CASE PoolStep
  BY <1>7, PoolStepInv
<1>8. CASE AllReturned \/ UNCHANGED vars
  BY <1>8, UnchangedInv DEF AllReturned
<1> QED
  BY <1>1, <1>2, <1>3, <1>4, <1>5, <1>6, <1>7, <1>8 DEF Next

(* What is known of every request holds in every reachable state.          *)
THEOREM ChatCorrect == Spec => []Inv
BY InitInv, NextInv, PTL DEF Spec

(* Every variable keeps its type: no handler collects more than Chat       *)
(* replied, and the queue of the pool stays within its capacity.           *)
THEOREM TypeCorrect == Spec => []TypeOK
<1>1. Inv => TypeOK
  BY DEF Inv
<1> QED
  BY <1>1, ChatCorrect, PTL

-----------------------------------------------------------------------------
(* What the runs check.                                                    *)

LEMMA AtMostOne ==
    ASSUME NEW S, \A i, j \in S : i = j
    PROVE  Cardinality(S) <= 1
<1>1. CASE S = {}
  BY <1>1, FS_EmptySet
<1>2. CASE \E i \in S : TRUE
  <2>1. PICK i \in S : S = {i}
    BY <1>2
  <2> QED
    BY <2>1, FS_Singleton
<1> QED
  BY <1>1, <1>2

(* A request stores its prompt at most once and at most one answer, the    *)
(* whole reply, after the prompt and in its conversation; one that was     *)
(* told there is no such conversation stores nothing.                      *)
THEOREM AnswersFollow == Spec => []AnswerFollowsPrompt
<1>1. Inv => AnswerFollowsPrompt
  <2> SUFFICES ASSUME Inv, NEW r \in Requests
               PROVE  /\ Cardinality(RowsOf(r, "user")) <= 1
                      /\ Cardinality(RowsOf(r, "assistant")) <= 1
                      /\ \A i \in RowsOf(r, "assistant") :
                           /\ Answered(r) /\ (r \in Streams => messages[i].length = reply[r])
                           /\ \E j \in RowsOf(r, "user") : j < i /\ messages[j].in = messages[i].in
                      /\ told[r] = 404 => RowsOf(r, "user") = {}
    BY DEF AnswerFollowsPrompt
  <2>1. TargetInv(r) /\ RowInv(r) /\ (r \in Streams => StreamInv(r)) /\ (r \in Onces => OnceInv(r))
    BY DEF Inv, ChatInv
  <2>2. /\ Cardinality(RowsOf(r, "user")) <= 1
        /\ Cardinality(RowsOf(r, "assistant")) <= 1
    BY <2>1, AtMostOne DEF RowInv, Roles
  <2>3. \A i \in RowsOf(r, "assistant") :
          \E j \in RowsOf(r, "user") : j < i /\ messages[j].in = messages[i].in
    BY <2>1 DEF RowInv, RowsOf
  <2>4. \A i \in RowsOf(r, "assistant") :
          Answered(r) /\ (r \in Streams => messages[i].length = reply[r])
    BY <2>1 DEF StreamInv, OnceInv, Answered, Requests
  <2>5. told[r] = 404 => RowsOf(r, "user") = {}
    <3>1. \A i \in RowsOf(r, "user") : messages[i].in = target[r] /\ messages[i].in # 0
      BY <2>1, RowTypes DEF RowInv, RowsOf, Row, Conversations
    <3> QED
      BY <2>1, <3>1 DEF TargetInv
  <2> QED
    BY <2>2, <2>3, <2>4, <2>5
<1> QED
  BY <1>1, ChatCorrect, PTL

(* An answer the model gave is in the table when its handler has returned, *)
(* unless the client left or a write failed; a client of /api/chat told    *)
(* 200 is shown its prompt and its answer until they are deleted.          *)
THEOREM MissingHasCause == Spec => []MissingAnswerHasCause
<1>1. Inv => MissingAnswerHasCause
  <2> SUFFICES ASSUME Inv, NEW r \in Requests, handler[r] = "returned"
               PROVE  /\ Answered(r) /\ RowsOf(r, "assistant") = {} => r \in left \cup failed
                      /\ r \in Onces /\ told[r] = 200 =>
                           \/ conversations[target[r]] = "deleted"
                           \/ \E i, j \in Listing(target[r]) :
                                /\ i < j /\ messages[i].of = r /\ messages[j].of = r
                                /\ messages[i].role = "user" /\ messages[j].role = "assistant"
    BY DEF MissingAnswerHasCause
  <2>1. TargetInv(r) /\ RowInv(r) /\ (r \in Streams => StreamInv(r)) /\ (r \in Onces => OnceInv(r))
    BY DEF Inv, ChatInv
  <2>2. Answered(r) /\ RowsOf(r, "assistant") = {} => r \in left \cup failed
    <3>1. CASE r \in Streams
      BY <2>1, <3>1 DEF StreamInv, Answered, Inv, TypeOK
    <3>2. CASE r \in Onces
      BY <2>1, <3>2 DEF OnceInv, Answered, Pool!Admitted
    <3> QED
      BY <3>1, <3>2 DEF Requests
  <2>3. ASSUME r \in Onces, told[r] = 200, conversations[target[r]] # "deleted"
        PROVE  \E i, j \in Listing(target[r]) :
                 /\ i < j /\ messages[i].of = r /\ messages[j].of = r
                 /\ messages[i].role = "user" /\ messages[j].role = "assistant"
    <3>1. PICK j \in RowsOf(r, "assistant") : TRUE
      BY <2>1, <2>3 DEF OnceInv
    <3>2. PICK i \in RowsOf(r, "user") : i < j
      BY <2>1, <3>1 DEF RowInv
    <3>3. /\ i \in DOMAIN messages /\ messages[i].of = r /\ messages[i].role = "user"
          /\ j \in DOMAIN messages /\ messages[j].of = r /\ messages[j].role = "assistant"
      BY <3>1, <3>2 DEF RowsOf
    <3>4. messages[i].in = target[r] /\ messages[j].in = target[r]
      BY <2>1, <3>3 DEF RowInv
    <3>5. target[r] \in Conversations
      BY <3>3, <3>4, RowTypes DEF Row
    <3>6. conversations[target[r]] = "live"
      BY <2>1, <2>3, <3>5 DEF TargetInv, Inv, TypeOK, Conversations
    <3> QED
      BY <3>2, <3>3, <3>4, <3>6 DEF Listing
  <2> QED
    BY <2>2, <2>3
<1> QED
  BY <1>1, ChatCorrect, PTL

(* A call is logged as a success if and only if Chat replied, and only     *)
(* after its prompt was stored.                                            *)
THEOREM LogMatches == Spec => []LogMatchesOutcome
<1>1. Inv => LogMatchesOutcome
  <2> SUFFICES ASSUME Inv, NEW e \in logs
               PROVE  /\ RowsOf(e.of, "user") # {}
                      /\ IF e.of \in Streams THEN e.status = "success" /\ reply[e.of] > 0
                                             ELSE e.status = "success" <=> heard[e.of] = "reply"
    BY DEF LogMatchesOutcome
  <2>1. e.of \in Requests
    BY DEF Inv, TypeOK
  <2>2. (e.of \in Streams => StreamInv(e.of)) /\ (e.of \in Onces => OnceInv(e.of))
    BY DEF Inv, ChatInv
  <2> QED
    BY <2>1, <2>2 DEF StreamInv, OnceInv, Requests
<1> QED
  BY <1>1, ChatCorrect, PTL
=============================================================================
