------------------------------- MODULE WebChat -------------------------------
(***************************************************************************)
(* The chat of the web console: the handlers of /api/chat/stream,          *)
(* /api/chat and /api/conversations (internal/controller/app.go) on the    *)
(* tables conversations, messages and model_call_logs                      *)
(* (internal/dao/db.go), the goroutine of ChatService.Stream               *)
(* (internal/service/chat_service.go) with its unbuffered channel of       *)
(* chunks, and the chat task pool behind /api/chat, as what ChatDispatch   *)
(* promises of it.  A reply is its length in characters, which             *)
(* splitForPseudoStream cuts into pieces.  All requests are of one user.   *)
(***************************************************************************)
EXTENDS Naturals, Sequences, FiniteSets

CONSTANTS
    Streams,           \* requests of POST /api/chat/stream
    Onces,             \* requests of POST /api/chat
    Deletes,           \* requests of DELETE /api/conversations/{id}
    Capacity, Servers, \* of the chat task pool
    Size,              \* characters in a piece of a reply, 24 in the code
    MaxLength,         \* bound of the model on the length of a reply
    MaxConversations,  \* bound of the model on the ids of conversations
    None               \* no outcome

ASSUME WebChatAssumption ==
    /\ MaxLength \in Nat \ {0} /\ Size \in Nat \ {0} /\ MaxConversations \in Nat \ {0}
    /\ Capacity \in Nat \ {0} /\ Servers \in Nat \ {0}
    /\ Streams \cap Onces = {}
    /\ None \notin {"reply", "error", "full", "panic", "cancelled"}

Requests      == Streams \cup Onces
Conversations == 1..MaxConversations
Roles         == {"user", "assistant"}
Outcomes      == {"reply", "error", "full", "panic", "cancelled"}

VARIABLES
    handler,   \* where the handler of each request is
    told,      \* the status its client was answered with; 0 for none
    target,    \* the conversation it works on; 0 for none
    producer,  \* the goroutine: none, chat, send, pause, done (channel closed)
    reply,     \* length of Chat's reply, 0 when it failed or has not returned
    sent,      \* how much of it the producer has handed over
    got,       \* length of what is in the handler's string builder
    ctxDone,   \* requests whose context is done
    conversations, messages, logs,     \* the tables; messages in order of id
    deletes,   \* delete requests that are done
    left,      \* history: requests whose client left
    failed,    \* history: requests whose answer a failing write kept out
    open, line, running, ran, heard    \* of the chat task pool

web        == <<handler, told, target, ctxDone, left, failed>>
streamVars == <<producer, reply, sent, got>>
tables     == <<conversations, messages, logs, deletes>>
pool       == <<open, line, running, ran, heard>>
vars       == <<web, streamVars, tables, pool>>

Pool == INSTANCE ChatDispatch WITH
    Requests <- Onces, Answers <- {"reply", "error"},
    Refusals <- {"full", "panic"}, Cancelled <- "cancelled"

Row == [of : Requests, in : Conversations, role : Roles, length : 0..MaxLength]

(* What the variables hold: no handler collects more than Chat replied, and*)
(* the queue of the pool stays within its capacity.                        *)
TypeOK ==
    /\ handler \in [Requests -> {"new", "inserted", "found", "submit", "loop",
                                 "answer", "log", "returned"}]
    /\ told \in [Requests -> {0, 200, 404, 500}]
    /\ target \in [Requests -> 0..MaxConversations]
    /\ producer \in [Streams -> {"none", "chat", "send", "pause", "done"}]
    /\ reply \in [Streams -> 0..MaxLength]
    /\ sent \in [Streams -> 0..MaxLength]
    /\ got \in [Streams -> 0..MaxLength]
    /\ ctxDone \subseteq Requests /\ left \subseteq ctxDone /\ failed \subseteq Requests
    /\ conversations \in [Conversations -> {"none", "live", "deleted"}]
    /\ messages \in Seq(Row)
    /\ logs \subseteq [of : Requests, status : {"success", "failed"}]
    /\ deletes \subseteq Deletes
    /\ open \in BOOLEAN /\ line \in Seq(Onces) /\ Len(line) <= Capacity
    /\ running \subseteq Onces /\ ran \subseteq Onces
    /\ heard \in [Onces -> Outcomes \cup {None}]

(* The user has one conversation already.                                  *)
Init ==
    /\ handler = [r \in Requests |-> "new"]
    /\ told = [r \in Requests |-> 0]
    /\ target = [r \in Requests |-> 0]
    /\ producer = [s \in Streams |-> "none"]
    /\ reply = [s \in Streams |-> 0]
    /\ sent = [s \in Streams |-> 0]
    /\ got = [s \in Streams |-> 0]
    /\ ctxDone = {} /\ left = {} /\ failed = {}
    /\ conversations = [c \in Conversations |-> IF c = 1 THEN "live" ELSE "none"]
    /\ messages = <<>> /\ logs = {} /\ deletes = {}
    /\ Pool!Start0

HandlerTo(r, state)  == handler' = [handler EXCEPT ![r] = state] /\ UNCHANGED <<told, ctxDone>>
ProducerTo(s, state) == producer' = [producer EXCEPT ![s] = state]

(* Returning ends the request, and net/http cancels its context.           *)
Return(r, status) ==
    /\ handler' = [handler EXCEPT ![r] = "returned"]
    /\ told' = [told EXCEPT ![r] = status]
    /\ ctxDone' = ctxDone \cup {r}

(* database/sql starts no statement for a context that is done.            *)
Reachable(r) == r \notin ctxDone

Post(r, role, length) ==
    messages' = Append(messages, [of |-> r, in |-> target[r], role |-> role, length |-> length])

(* dao.CreateModelCallLog.                                                 *)
Log(r, status) == logs' = logs \cup {[of |-> r, status |-> status]}

-----------------------------------------------------------------------------
(* Plausible slips in the code, for the properties to catch; no            *)
(* specification below uses them.                                          *)

(* What was received is kept, under a context of its own, when the client  *)
(* leaves.                                                                 *)
SeeContextAndSave(s) ==
    /\ handler[s] = "loop" /\ s \in ctxDone
    /\ Post(s, "assistant", got[s])
    /\ Return(s, 200)
    /\ UNCHANGED <<target, left, failed, streamVars, conversations, logs, deletes, pool>>

(* A piece is added to the reply where it is received and where it is sent. *)
TakeChunkTwice(s) ==
    /\ handler[s] = "loop" /\ producer[s] = "send"
    /\ sent[s] < reply[s]
    /\ sent' = [sent EXCEPT ![s] = reply[s]]
    /\ got' = [got EXCEPT ![s] = @ + 2 * reply[s]]
    /\ ProducerTo(s, "pause")
    /\ UNCHANGED <<web, reply, tables, pool>>

(* The error of CreateMessage is dropped, as the other handler does.       *)
SaveAnswerOfOnceAnyway(o) ==
    /\ handler[o] = "answer"
    /\ messages' = messages \/ (Reachable(o) /\ Post(o, "assistant", 1))
    /\ Return(o, 200)
    /\ UNCHANGED <<target, left, failed, streamVars, conversations, logs, deletes, pool>>

(* The status of the log row is fixed before Submit is called.             *)
LogOnceAsSuccess(o) ==
    /\ handler[o] = "submit" /\ heard[o] # None
    /\ logs' = logs \/ (Reachable(o) /\ heard[o] # "panic" /\ Log(o, "success"))
    /\ IF heard[o] = "reply" THEN HandlerTo(o, "answer") ELSE Return(o, 500)
    /\ UNCHANGED <<target, left, failed, streamVars, conversations, messages, deletes, pool>>

(* A send to the channel without a case for the context.                   *)
ProducerStopsInPause(s) ==
    /\ producer[s] = "pause" /\ s \in ctxDone
    /\ ProducerTo(s, "done")
    /\ UNCHANGED <<web, reply, sent, got, tables, pool>>

(* for chunk := range chunks: the handler does not watch the context.      *)
SeeContextNever(s) == FALSE /\ handler[s] = "loop" /\ UNCHANGED vars

-----------------------------------------------------------------------------
(* ensureConversation without an id: dao.CreateConversation is the INSERT, *)
(* and then GetConversationForUser of the new row, which another request   *)
(* of the user can have deleted by now.  (POST /api/conversations does     *)
(* these two steps and no more.)                                           *)

NextId == Cardinality({c \in Conversations : conversations[c] # "none"}) + 1

InsertConversation(r) ==
    /\ handler[r] = "new"
    /\ \/ /\ NextId \in Conversations
          /\ HandlerTo(r, "inserted")
          /\ target' = [target EXCEPT ![r] = NextId]
          /\ conversations' = [conversations EXCEPT ![NextId] = "live"]
       \/ Return(r, 500) /\ UNCHANGED <<target, conversations>>
    /\ UNCHANGED <<left, failed, streamVars, messages, logs, deletes, pool>>

ReadConversationBack(r) ==
    /\ handler[r] = "inserted"
    /\ \/ /\ Reachable(r) /\ conversations[target[r]] = "live"
          /\ HandlerTo(r, "found")
       \/ Return(r, 500)
    /\ UNCHANGED <<target, left, failed, streamVars, tables, pool>>

(* ensureConversation with an id of the client's, which may be any.        *)
FindConversation(r) ==
    /\ handler[r] = "new"
    /\ \/ \E c \in Conversations :
            IF conversations[c] = "live"
              THEN HandlerTo(r, "found") /\ target' = [target EXCEPT ![r] = c]
              ELSE Return(r, 404) /\ target' = target
       \/ Return(r, 500) /\ target' = target
    /\ UNCHANGED <<left, failed, streamVars, tables, pool>>

(* dao.CreateMessage of the prompt, which looks at no conversation; it     *)
(* fails also when it cannot read back the row it inserted.                *)
SavePrompt(r) ==
    /\ handler[r] = "found"
    /\ \/ /\ Reachable(r) /\ Post(r, "user", 0)
          /\ \/ Return(r, 500) /\ producer' = producer
             \/ r \in Onces /\ HandlerTo(r, "submit") /\ producer' = producer
             \/ /\ r \in Streams /\ ProducerTo(r, "chat")
                /\ handler' = [handler EXCEPT ![r] = "loop"]
                /\ told' = [told EXCEPT ![r] = 200] /\ ctxDone' = ctxDone
       \/ Return(r, 500) /\ UNCHANGED <<messages, producer>>
    /\ UNCHANGED <<target, left, failed, reply, sent, got, conversations, logs, deletes, pool>>

(* dao.DeleteConversation marks the row, whether there is one or not.      *)
Deleted(c) == [conversations EXCEPT ![c] = IF @ = "none" THEN @ ELSE "deleted"]

(* The handler answers that it was deleted, also when nothing was.         *)
DeleteConversation(d) ==
    /\ d \notin deletes
    /\ deletes' = deletes \cup {d}
    /\ \E c \in Conversations : conversations' \in {conversations, Deleted(c)}
    /\ UNCHANGED <<web, streamVars, messages, logs, pool>>

(* ListMessages: the rows the user is shown of a conversation, by their    *)
(* place in the table, which is their order on the page; all its pages.    *)
Listing(c) ==
    {i \in DOMAIN messages : conversations[c] = "live" /\ messages[i].in = c}

ClientLeaves(r) ==
    /\ handler[r] \notin {"new", "returned"} /\ r \notin ctxDone
    /\ ctxDone' = ctxDone \cup {r}
    /\ left' = left \cup {r}
    /\ UNCHANGED <<handler, told, target, failed, streamVars, tables, pool>>

-----------------------------------------------------------------------------
(* App.ChatStream, from its select on.                                     *)

(* splitForPseudoStream: pieces of Size characters, the last one shorter.  *)
NextPiece(s) == IF reply[s] - sent[s] < Size THEN reply[s] - sent[s] ELSE Size

(* The handler's receive meets the producer's send of a piece of the reply. *)
TakeChunk(s) ==
    /\ handler[s] = "loop" /\ producer[s] = "send"
    /\ sent[s] < reply[s]
    /\ sent' = [sent EXCEPT ![s] = @ + NextPiece(s)]
    /\ got' = [got EXCEPT ![s] = @ + NextPiece(s)]
    /\ ProducerTo(s, "pause")
    /\ UNCHANGED <<web, reply, tables, pool>>

(* The last chunk: Done after a reply, Done with an error when Chat failed. *)
TakeDone(s) ==
    /\ handler[s] = "loop" /\ producer[s] = "send"
    /\ sent[s] = reply[s]
    /\ ProducerTo(s, "done")
    /\ IF reply[s] = 0 THEN Return(s, 200) ELSE HandlerTo(s, "answer")
    /\ UNCHANGED <<target, left, failed, reply, sent, got, tables, pool>>

SeeContext(s) ==
    /\ handler[s] = "loop" /\ s \in ctxDone
    /\ Return(s, 200)
    /\ UNCHANGED <<target, left, failed, streamVars, tables, pool>>

(* The channel was closed without a last chunk.                            *)
SeeClose(s) ==
    /\ handler[s] = "loop" /\ producer[s] = "done"
    /\ Return(s, 200)
    /\ UNCHANGED <<target, left, failed, streamVars, tables, pool>>

(* The assistant's message and the log row: an error of either is dropped, *)
(* and so is that of TouchConversation.                                    *)
SaveAnswerOfStream(s) ==
    /\ handler[s] = "answer"
    /\ HandlerTo(s, "log")
    /\ \/ Reachable(s) /\ Post(s, "assistant", got[s]) /\ failed' = failed
       \/ messages' = messages /\ failed' = failed \cup {s}
    /\ UNCHANGED <<target, left, streamVars, conversations, logs, deletes, pool>>

LogStream(s) ==
    /\ handler[s] = "log"
    /\ logs' = logs \/ (Reachable(s) /\ Log(s, "success"))
    /\ Return(s, 200)
    /\ UNCHANGED <<target, left, failed, streamVars, conversations, messages, deletes, pool>>

-----------------------------------------------------------------------------
(* The goroutine of ChatService.Stream.                                    *)

ChatReturns(s) ==
    /\ producer[s] = "chat"
    /\ \E n \in 0..MaxLength : reply' = [reply EXCEPT ![s] = n]
    /\ ProducerTo(s, "send")
    /\ UNCHANGED <<web, sent, got, tables, pool>>

PauseEnds(s) ==
    /\ producer[s] = "pause"
    /\ ProducerTo(s, "send")
    /\ UNCHANGED <<web, reply, sent, got, tables, pool>>

ProducerStops(s) ==
    /\ producer[s] \in {"send", "pause"} /\ s \in ctxDone
    /\ ProducerTo(s, "done")
    /\ UNCHANGED <<web, reply, sent, got, tables, pool>>

-----------------------------------------------------------------------------
(* App.ChatOnce, from ChatPool.Submit on, and the pool.                    *)

(* What a handler in Submit is told: it is cancelled only when its context *)
(* is done, and it panics only on the closed channel.                      *)
SubmitReturns(o, outcome) ==
    /\ handler[o] = "submit" /\ Pool!Hear(o, outcome)
    /\ outcome = "cancelled" => o \in ctxDone
    /\ outcome = "full" => open
    /\ outcome = "panic" => ~open
    /\ UNCHANGED <<web, streamVars, tables>>

Admit(o) ==
    /\ handler[o] = "submit" /\ Pool!Admit(o)
    /\ UNCHANGED <<web, streamVars, tables>>

PoolStep ==
    /\ Pool!Begin \/ Pool!Shut \/ \E o \in Onces : Pool!Finish(o)
    /\ UNCHANGED <<web, streamVars, tables>>

(* A panic of Submit leaves the handler for the middleware Recovery; every *)
(* other outcome is logged, as far as the row can be written.              *)
LogOnce(o) ==
    /\ handler[o] = "submit" /\ heard[o] # None
    /\ \/ logs' = logs
       \/ /\ Reachable(o) /\ heard[o] # "panic"
          /\ Log(o, IF heard[o] = "reply" THEN "success" ELSE "failed")
    /\ IF heard[o] = "reply" THEN HandlerTo(o, "answer") ELSE Return(o, 500)
    /\ UNCHANGED <<target, left, failed, streamVars, conversations, messages, deletes, pool>>

(* CreateMessage of the answer; TouchConversation's error is dropped.      *)
SaveAnswerOfOnce(o) ==
    /\ handler[o] = "answer"
    /\ \/ Reachable(o) /\ Post(o, "assistant", 1) /\ Return(o, 200) /\ failed' = failed
       \/ /\ Return(o, 500) /\ failed' = failed \cup {o}
          /\ messages' = messages \/ (Reachable(o) /\ Post(o, "assistant", 1))
    /\ UNCHANGED <<target, left, streamVars, conversations, logs, deletes, pool>>

-----------------------------------------------------------------------------
RequestStep(r) ==
    \/ InsertConversation(r) \/ ReadConversationBack(r)
    \/ FindConversation(r) \/ SavePrompt(r)

StreamHandler(s) ==
    \/ TakeChunk(s) \/ TakeDone(s) \/ SeeContext(s) \/ SeeClose(s)
    \/ SaveAnswerOfStream(s) \/ LogStream(s)

Producer(s) == TakeChunk(s) \/ TakeDone(s) \/ PauseEnds(s) \/ ProducerStops(s)

OnceHandler(o) == LogOnce(o) \/ SaveAnswerOfOnce(o)

AllReturned ==
    /\ \A r \in Requests : handler[r] = "returned"
    /\ \A s \in Streams : producer[s] \in {"none", "done"}
    /\ UNCHANGED vars

Next ==
    \/ \E r \in Requests : RequestStep(r) \/ ClientLeaves(r)
    \/ \E s \in Streams :
         StreamHandler(s) \/ ChatReturns(s) \/ PauseEnds(s) \/ ProducerStops(s)
    \/ \E o \in Onces : OnceHandler(o) \/ Admit(o)
    \/ \E o \in Onces, outcome \in Outcomes : SubmitReturns(o, outcome)
    \/ \E d \in Deletes : DeleteConversation(d)
    \/ PoolStep \/ AllReturned

Spec == Init /\ [][Next]_vars

(* A handler that has begun goes on: a statement ends, with or without an  *)
(* error.  Chat may hang, and no step of the pool is promised here but the *)
(* return of Submit when its context is done (CancelledReturns).           *)
Fairness ==
    /\ \A r \in Requests : WF_vars(ReadConversationBack(r) \/ SavePrompt(r))
    /\ \A s \in Streams : WF_vars(StreamHandler(s)) /\ WF_vars(Producer(s))
    /\ \A o \in Onces : WF_vars(OnceHandler(o)) /\ WF_vars(SubmitReturns(o, "cancelled"))

FairSpec == Spec /\ Fairness

(* Every call of Chat ends; a hypothesis of the properties that say so.    *)
ChatEnds == \A s \in Streams : WF_vars(ChatReturns(s))

-----------------------------------------------------------------------------
(* Properties.                                                             *)

RowsOf(r, role) ==
    {i \in DOMAIN messages : messages[i].of = r /\ messages[i].role = role}

(* Chat gave a reply to the request, heard by its handler or not.          *)
Answered(r) ==
    IF r \in Streams THEN reply[r] > 0 ELSE r \in ran /\ heard[r] # "error"

(* A request stores its prompt at most once, and at most one answer, after *)
(* the prompt and in the same conversation; the answer is the whole reply, *)
(* so a client that leaves while chunks are under way leaves no cut-off    *)
(* message behind.  A request that was told that there is no such          *)
(* conversation stores nothing.                                            *)
AnswerFollowsPrompt ==
    \A r \in Requests :
        /\ Cardinality(RowsOf(r, "user")) <= 1
        /\ Cardinality(RowsOf(r, "assistant")) <= 1
        /\ \A i \in RowsOf(r, "assistant") :
             /\ Answered(r) /\ (r \in Streams => messages[i].length = reply[r])
             /\ \E j \in RowsOf(r, "user") : j < i /\ messages[j].in = messages[i].in
        /\ told[r] = 404 => RowsOf(r, "user") = {}

(* An answer the model has given is in the conversation when its handler   *)
(* has returned, unless the client left before or the write failed; and a  *)
(* client of /api/chat that is told 200 is shown its prompt and, after it, *)
(* the answer, until the conversation is deleted.                          *)
MissingAnswerHasCause ==
    \A r \in Requests : handler[r] = "returned" =>
        /\ Answered(r) /\ RowsOf(r, "assistant") = {} => r \in left \cup failed
        /\ r \in Onces /\ told[r] = 200 =>
             \/ conversations[target[r]] = "deleted"
             \/ \E i, j \in Listing(target[r]) :
                  /\ i < j /\ messages[i].of = r /\ messages[j].of = r
                  /\ messages[i].role = "user" /\ messages[j].role = "assistant"

(* The log agrees with the outcome: a call is logged as a success if and   *)
(* only if Chat replied, and a request that got no further than the        *)
(* database has no row.                                                    *)
LogMatchesOutcome ==
    \A e \in logs :
        /\ RowsOf(e.of, "user") # {}
        /\ IF e.of \in Streams THEN e.status = "success" /\ reply[e.of] > 0
                               ELSE e.status = "success" <=> heard[e.of] = "reply"

(* Liveness, Chat answering or not: the handler of a client that has left  *)
(* returns (README.md: the handler watches the request's context).         *)
LeftHandlerReturns == \A r \in Requests : r \in left ~> handler[r] = "returned"

(* Liveness, when Chat ends: a stream that was opened ends, and leaves no  *)
(* goroutine of Stream behind, on whatever path its handler returned.      *)
StreamEnds ==
    ChatEnds => \A s \in Streams :
        handler[s] = "loop" ~> handler[s] = "returned" /\ producer[s] = "done"

-----------------------------------------------------------------------------
(* The inductive invariant of WebChatProofs: what is known of one request, *)
(* which no step of another one changes.                                   *)

(* Its conversation, and why its context is done.                          *)
TargetInv(r) ==
    /\ handler[r] = "new" => target[r] = 0
    /\ handler[r] \notin {"new", "returned"} => target[r] # 0
    /\ target[r] # 0 => conversations[target[r]] # "none"
    /\ told[r] = 404 => handler[r] = "returned" /\ target[r] = 0
    /\ handler[r] # "returned" /\ r \in ctxDone => r \in left

(* The rows it has written: none, its prompt, or its prompt and after it   *)
(* its answer, all in its conversation.                                    *)
RowInv(r) ==
    /\ \A i \in DOMAIN messages : messages[i].of = r => messages[i].in = target[r]
    /\ \A role \in Roles : \A i, j \in RowsOf(r, role) : i = j
    /\ handler[r] \in {"new", "inserted", "found"} => RowsOf(r, "user") = {}
    /\ handler[r] \in {"submit", "loop", "answer", "log"} => RowsOf(r, "user") # {}
    /\ RowsOf(r, "assistant") # {} => handler[r] \in {"log", "returned"}
    /\ \A j \in RowsOf(r, "assistant") : \E i \in RowsOf(r, "user") : i < j

(* A stream: handler and producer agree on what was handed over, and the   *)
(* handler leaves its loop with the whole reply or for a reason.           *)
StreamInv(s) ==
    /\ handler[s] # "submit"
    /\ got[s] = sent[s] /\ sent[s] <= reply[s]
    /\ producer[s] \in {"none", "chat"} => reply[s] = 0
    /\ handler[s] \in {"new", "inserted", "found"} => producer[s] = "none"
    /\ handler[s] \in {"answer", "log"} =>
         producer[s] = "done" /\ reply[s] > 0 /\ got[s] = reply[s]
    /\ handler[s] = "loop" /\ producer[s] = "done" => s \in left
    /\ \A i \in RowsOf(s, "assistant") : reply[s] > 0 /\ messages[i].length = reply[s]
    /\ handler[s] = "log" => RowsOf(s, "assistant") # {} \/ s \in failed
    /\ handler[s] = "returned" =>
         \/ producer[s] = "none"
         \/ producer[s] = "done" /\ reply[s] = 0
         \/ s \in left \cup failed \/ RowsOf(s, "assistant") # {}
    /\ \A e \in logs : e.of = s =>
         e.status = "success" /\ reply[s] > 0 /\ RowsOf(s, "user") # {}

(* A plain chat: what its handler heard agrees with what the pool did.     *)
OnceInv(o) ==
    /\ handler[o] \notin {"loop", "log"}
    /\ handler[o] \in {"new", "inserted", "found"} => heard[o] = None /\ ~Pool!Admitted(o)
    /\ heard[o] = "reply" => o \in ran
    /\ heard[o] \in {"full", "panic"} => ~Pool!Admitted(o)
    /\ heard[o] = "cancelled" => o \in left
    /\ handler[o] = "answer" => heard[o] = "reply"
    /\ RowsOf(o, "assistant") # {} => heard[o] = "reply"
    /\ told[o] = 200 => RowsOf(o, "assistant") # {}
    /\ handler[o] = "returned" =>
         \/ ~Pool!Admitted(o) \/ heard[o] = "error"
         \/ o \in left \cup failed \/ RowsOf(o, "assistant") # {}
    /\ \A e \in logs : e.of = o =>
         /\ heard[o] # None /\ (e.status = "success" <=> heard[o] = "reply")
         /\ RowsOf(o, "user") # {}

ChatInv ==
    /\ \A r \in Requests : TargetInv(r) /\ RowInv(r)
    /\ \A s \in Streams : StreamInv(s)
    /\ \A o \in Onces : OnceInv(o)
=============================================================================
