------------------------------ MODULE ChatGraph ------------------------------
(***************************************************************************)
(* One call of ChatService.Chat (internal/service/chat_service.go) for     *)
(* every request: the final graph first (flow/final_graph.go), which asks  *)
(* a model for the intent and goes on to the SQL branch                    *)
(* (flow/sql_react.go), the RAG branch (flow/rag_chat.go) or the chat      *)
(* branch, and ai.GenerateReply when the graph returns an error.  The chat *)
(* branch and the fallback both keep their turns in the histories of       *)
(* ai/chat.go: ChatSessions, with up to two calls for a request.           *)
(* A graph runs its nodes in the goroutine of the request as far as state  *)
(* that requests share is concerned; an error of any node ends the run,    *)
(* and so does a context that is found done in front of a node.            *)
(***************************************************************************)
EXTENDS Integers, Sequences, FiniteSets

CONSTANTS
    Requests,     \* calls of ChatService.Chat
    WebRequests,  \* those with the context of an HTTP request
    Sessions,     \* session ids
    SessionOf,    \* the session each request is for
    MaxMessages   \* config.GetMaxMessages(), positive

ASSUME GraphAssumption ==
    /\ WebRequests \subseteq Requests
    /\ SessionOf \in [Requests -> Sessions]
    /\ MaxMessages \in Nat \ {0}

VARIABLES
    at,        \* where each request is, see Stages
    ragTurns,  \* requests whose turn the RAG branch added to its Session
    ended,     \* requests whose context is done
    history, call, prompt, loaded  \* of ChatSessions

(* The backends of a request that call GenerateReply.                      *)
Backends == {"graph", "fallback"}

History == INSTANCE ChatSessions WITH
    Calls     <- Requests \X Backends,
    SessionOf <- [c \in Requests \X Backends |-> SessionOf[c[1]]]

graphVars   == <<at, ragTurns, ended>>
historyVars == <<history, call, prompt, loaded>>
vars        == <<graphVars, historyVars>>

(* The nodes that can fail or wait, and the two ways Chat returns.  React  *)
(* is retrieve, sqlModel and approve.                                      *)
Stages == {"new", "intent", "retrieve", "sqlModel", "approve", "ragRetrieve",
           "ragModel", "chat", "fallback", "answered", "failed"}

(* The node each request is at, and the histories its calls work on, which *)
(* stay within MaxMessages.                                                *)
TypeOK ==
    /\ at \in [Requests -> Stages]
    /\ ragTurns \subseteq Requests /\ ended \subseteq WebRequests
    /\ History!TypeOK

Init ==
    /\ at = [r \in Requests |-> "new"]
    /\ ragTurns = {} /\ ended = {}
    /\ History!Init

To(r, stage) == at' = [at EXCEPT ![r] = stage]

(* The node returned an error, or the graph looked at the context in front *)
(* of it: Invoke returns the error, and Chat falls back.                   *)
Fails(r) == To(r, "fallback")

(* A node that only reads, and that may fail.  With a done context the run *)
(* may still get through it, when the context ends after that look.        *)
Node(r, stage, next) ==
    /\ at[r] = stage
    /\ Fails(r) \/ To(r, next)
    /\ UNCHANGED <<ragTurns, ended, historyVars>>

(* The branch behind the intent model, by the labels its answer contains:  *)
(* the first stage of React, of RAGChat or of Chat.                        *)
Route(labels) ==
    IF "SQL" \in labels THEN "retrieve" ELSE IF "RAG" \in labels THEN "ragRetrieve" ELSE "chat"

-----------------------------------------------------------------------------
(* Plausible slips in the code, for the properties to catch; no            *)
(* specification below uses them.                                          *)

(* The graph's reply is not returned at once, and the fallback runs too.   *)
ChatReturnsAndFallsBack(r) ==
    /\ at[r] = "chat"
    /\ call[<<r, "graph">>] \in {"done", "failed"}
    /\ Fails(r)
    /\ UNCHANGED <<ragTurns, ended, historyVars>>

(* The error of the fallback is dropped with the one of the graph.         *)
FallbackReturnsAnyway(r) ==
    /\ at[r] = "fallback"
    /\ call[<<r, "fallback">>] \in {"done", "failed"}
    /\ To(r, "answered")
    /\ UNCHANGED <<ragTurns, ended, historyVars>>

-----------------------------------------------------------------------------
(* ChatService.Chat and the nodes of the graph.                            *)

(* A blank query is refused before the graph is invoked.                   *)
Begin(r) ==
    /\ at[r] = "new"
    /\ To(r, "intent") \/ To(r, "failed")
    /\ UNCHANGED <<ragTurns, ended, historyVars>>

(* Intent_Model, Trans_List and the branch.                                *)
Classify(r) ==
    /\ at[r] = "intent"
    /\ Fails(r) \/ \E labels \in SUBSET {"SQL", "RAG"} : To(r, Route(labels))
    /\ UNCHANGED <<ragTurns, ended, historyVars>>

(* React: SQL_Retrieve, ToTplVar and SQL_Tpl, then SQL_Model.              *)
SqlRetrieve(r) == Node(r, "retrieve", "sqlModel")
SqlModel(r)    == Node(r, "sqlModel", "approve")

(* Approve is not being resumed: it keeps the statement in the state of    *)
(* the run and interrupts, which Invoke returns as an error.  The run has  *)
(* no checkpoint id, so nothing is kept to resume it from.                 *)
Approve(r) ==
    /\ at[r] = "approve"
    /\ To(r, "fallback")
    /\ UNCHANGED <<ragTurns, ended, historyVars>>

(* RAGChat: PreProcess, Rewrite (which takes the query itself when its     *)
(* model fails), Retrieve and ConstructMessages.                           *)
RagRetrieve(r) == Node(r, "ragRetrieve", "ragModel")

(* Its Chat node.  The post handler adds the turn to the Session, also     *)
(* when the answer is blank, which GenerateWithFinalGraph calls an error,  *)
(* or the context is done before RAGToEnd.                                 *)
RagAnswers(r) ==
    /\ at[r] = "ragModel"
    /\ \/ Fails(r) /\ ragTurns' = ragTurns
       \/ ragTurns' = ragTurns \cup {r} /\ (To(r, "answered") \/ Fails(r))
    /\ UNCHANGED <<ended, historyVars>>

(* The chat branch: GenerateReply, and its result through ChatToEnd.       *)
ChatBranch(r) ==
    /\ at[r] = "chat"
    /\ History!CallStep(<<r, "graph">>, r \in ended)
    /\ UNCHANGED graphVars

(* The turn is saved before ChatToEnd: a context that is done by then ends *)
(* the run with an error all the same.                                     *)
ChatReturns(r) ==
    /\ at[r] = "chat"
    /\ \/ call[<<r, "graph">>] = "done" /\ To(r, "answered")
       \/ call[<<r, "graph">>] = "done" /\ r \in ended /\ Fails(r)
       \/ call[<<r, "graph">>] = "failed" /\ Fails(r)
    /\ UNCHANGED <<ragTurns, ended, historyVars>>

(* The fallback: GenerateReply again, for the same session, query and      *)
(* context.                                                                *)
Fallback(r) ==
    /\ at[r] = "fallback"
    /\ History!CallStep(<<r, "fallback">>, r \in ended)
    /\ UNCHANGED graphVars

FallbackReturns(r) ==
    /\ at[r] = "fallback"
    /\ \/ call[<<r, "fallback">>] = "done"   /\ To(r, "answered")
       \/ call[<<r, "fallback">>] = "failed" /\ To(r, "failed")
    /\ UNCHANGED <<ragTurns, ended, historyVars>>

(* The client leaves.  The context of a QQ message is the background one.  *)
ContextEnds(r) ==
    /\ at[r] \notin {"answered", "failed"} /\ r \in WebRequests \ ended
    /\ ended' = ended \cup {r}
    /\ UNCHANGED <<at, ragTurns, historyVars>>

Step(r) ==
    \/ ContextEnds(r)
    \/ Begin(r) \/ Classify(r)
    \/ SqlRetrieve(r) \/ SqlModel(r) \/ Approve(r)
    \/ RagRetrieve(r) \/ RagAnswers(r)
    \/ ChatBranch(r) \/ ChatReturns(r)
    \/ Fallback(r) \/ FallbackReturns(r)

AllReturned == (\A r \in Requests : at[r] \in {"answered", "failed"}) /\ UNCHANGED vars

Next == (\E r \in Requests : Step(r)) \/ AllReturned

Spec == Init /\ [][Next]_vars

-----------------------------------------------------------------------------
(* Properties.                                                             *)

(* The backends that saved a turn of r.                                    *)
SavedBy(r) == {b \in Backends : call[<<r, b>>] = "done"}

(* However the branches, the fallback, clients that leave and other        *)
(* requests of the session interleave, a history holds the question of a   *)
(* request once, although two backends may be asked it: the chat branch    *)
(* saves its turn before the run can still fail, but what makes it fail    *)
(* then also keeps the fallback from its model.                            *)
QuestionOnce ==
    \A s \in Sessions : \A i, j \in DOMAIN history[s] :
        /\ history[s][i].of[1] = history[s][j].of[1]
        /\ history[s][i].role = history[s][j].role
        => i = j

(* What a caller of Chat hears agrees with what is remembered of it: an    *)
(* answer is some backend's saved turn or is in the Session of the RAG     *)
(* branch.  A request that ended with an error is in no history, unless    *)
(* its context ended between the saved turn and the end of the graph.      *)
OutcomeMatchesMemory ==
    \A r \in Requests :
        /\ at[r] = "answered" =>
             Cardinality(SavedBy(r)) = 1 \/ (SavedBy(r) = {} /\ r \in ragTurns)
        /\ at[r] = "failed" => SavedBy(r) = {} \/ (SavedBy(r) = {"graph"} /\ r \in ended)

(* README.md:11 says that the final graph routes between chat, RAG and SQL *)
(* analysis: a question for which a statement has been generated goes on   *)
(* with it, and is not handed to the plain chat of the fallback.           *)
SqlQuestionsAnalysed ==
    [][\A r \in Requests : at[r] = "approve" => at'[r] # "fallback"]_vars

(* The properties of the histories, with two calls for a request.          *)
HistoryIsTurns   == History!HistoryIsTurns
LossNeedsOverlap == History!LossNeedsOverlap
-----------------------------------------------------------------------------
(* The inductive invariant of ChatGraphProofs.                             *)

Done(r, b) == call[<<r, b>>] = "done"

(* A backend is not called before its turn, and the fallback only after    *)
(* the other one has been skipped, has failed, or has saved its turn for a *)
(* context that is done: then the fallback gets no answer.                 *)
RequestInv ==
    \A r \in Requests :
        /\ at[r] \notin {"chat", "fallback", "answered", "failed"} =>
             \A b \in Backends : call[<<r, b>>] = "new"
        /\ at[r] = "chat" => call[<<r, "fallback">>] = "new"
        /\ at[r] = "fallback" =>
             \/ call[<<r, "graph">>] \in {"new", "failed"}
             \/ Done(r, "graph") /\ r \in ended /\ call[<<r, "fallback">>] \in {"new", "failed"}
        /\ at[r] = "answered" => Done(r, "graph") \/ Done(r, "fallback") \/ r \in ragTurns
        /\ at[r] = "failed" => ~Done(r, "fallback") /\ (Done(r, "graph") => r \in ended)
        /\ ~(Done(r, "graph") /\ Done(r, "fallback"))

SavedInv == History!SavedInv
=============================================================================
