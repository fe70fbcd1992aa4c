---------------------------- MODULE ChatSessions ----------------------------
(***************************************************************************)
(* ai/chat.go: GenerateReply and the histories it keeps per session in the *)
(* sync.Map sessions.  The workers of the chat pool and the goroutines of  *)
(* ChatService.Stream call it, also for one session at the same time; the  *)
(* map makes each Load and each Store atomic, and nothing more.            *)
(***************************************************************************)
EXTENDS Integers, Sequences, SequencesExt

CONSTANTS
    Calls,        \* calls of GenerateReply
    Sessions,     \* session ids
    SessionOf,    \* [Calls -> Sessions]: the session each call is made for
    MaxMessages   \* config.GetMaxMessages(), positive

VARIABLES
    history,  \* sessions: the stored messages of each session
    call,     \* where each call is: new, model, load, store, done, failed
    prompt,   \* the copy of the history each call has sent to the model
    loaded    \* the copy each call has read again in saveTurn

vars == <<history, call, prompt, loaded>>

Message   == [of : Calls, role : {"user", "assistant"}]
Turn(c)   == <<[of |-> c, role |-> "user"], [of |-> c, role |-> "assistant"]>>
InTurns(h) == {h[i].of : i \in DOMAIN h}

-----------------------------------------------------------------------------
(* Plausible slips in the code, for the properties to catch; no            *)
(* specification below uses them.                                          *)

(* No bound.                                                               *)
TruncateNever(h) == h

(* Room is kept for a turn to come.                                        *)
TruncateTooMuch(h) ==
    IF Len(h) > MaxMessages - 2 THEN SubSeq(h, Len(h) - MaxMessages + 3, Len(h)) ELSE h

-----------------------------------------------------------------------------
(* The last MaxMessages messages.                                          *)
Truncate(h) ==
    IF Len(h) > MaxMessages THEN SubSeq(h, Len(h) - MaxMessages + 1, Len(h)) ELSE h

(* What histories and calls look like; no history stored is longer than    *)
(* MaxMessages.                                                            *)
TypeOK ==
    /\ history \in [Sessions -> Seq(Message)]
    /\ \A s \in Sessions : Len(history[s]) <= MaxMessages
    /\ call \in [Calls -> {"new", "model", "load", "store", "done", "failed"}]
    /\ prompt \in [Calls -> Seq(Message)]
    /\ loaded \in [Calls -> Seq(Message)]

Init ==
    /\ history = [s \in Sessions |-> <<>>]
    /\ call = [c \in Calls |-> "new"]
    /\ prompt = [c \in Calls |-> <<>>]
    /\ loaded = [c \in Calls |-> <<>>]

CallTo(c, state) == call' = [call EXCEPT ![c] = state]

-----------------------------------------------------------------------------
(* Plausible slips in the code, for the properties to catch; no            *)
(* specification below uses them.                                          *)

(* The user's message is stored before the model is asked.                 *)
AskModelAndStoreUser(c, over) ==
    /\ call[c] = "new" /\ ~over
    /\ prompt' = [prompt EXCEPT ![c] = history[SessionOf[c]]]
    /\ history' = [history EXCEPT ![SessionOf[c]] = Truncate(Append(@, Turn(c)[1]))]
    /\ CallTo(c, "model")
    /\ UNCHANGED loaded

-----------------------------------------------------------------------------
(* GenerateReply.  over: the context of the call is done.                  *)

(* A request to a model with a context that is done fails at once.         *)
AskModel(c, over) ==
    /\ call[c] = "new"
    /\ \/ /\ ~over
          /\ prompt' = [prompt EXCEPT ![c] = history[SessionOf[c]]]
          /\ CallTo(c, "model")
       \/ over /\ CallTo(c, "failed") /\ UNCHANGED prompt
    /\ UNCHANGED <<history, loaded>>

(* An error, or an empty answer, ends the call and leaves no trace.  The   *)
(* copies a call has read are local to it and end with their use.          *)
ModelReturns(c) ==
    /\ call[c] = "model"
    /\ CallTo(c, "load") \/ CallTo(c, "failed")
    /\ prompt' = [prompt EXCEPT ![c] = <<>>]
    /\ UNCHANGED <<history, loaded>>

(* saveTurn: getHistory ...                                                *)
LoadHistory(c) ==
    /\ call[c] = "load"
    /\ loaded' = [loaded EXCEPT ![c] = history[SessionOf[c]]]
    /\ CallTo(c, "store")
    /\ UNCHANGED <<history, prompt>>

(* ... and sessions.Store of that history with the turn appended.          *)
StoreHistory(c) ==
    /\ call[c] = "store"
    /\ history' = [history EXCEPT ![SessionOf[c]] = Truncate(loaded[c] \o Turn(c))]
    /\ CallTo(c, "done")
    /\ loaded' = [loaded EXCEPT ![c] = <<>>]
    /\ UNCHANGED prompt

CallStep(c, over) ==
    AskModel(c, over) \/ ModelReturns(c) \/ LoadHistory(c) \/ StoreHistory(c)

AllReturned == (\A c \in Calls : call[c] \in {"done", "failed"}) /\ UNCHANGED vars

Next == (\E c \in Calls, over \in BOOLEAN : CallStep(c, over)) \/ AllReturned

Spec == Init /\ [][Next]_vars

-----------------------------------------------------------------------------
(* Properties.                                                             *)

(* The messages of h, from the last one back, are whole turns: an answer   *)
(* preceded by the question of the same call.  Only the oldest question    *)
(* can have been cut off, when MaxMessages is odd.                         *)
IsTurns(h) ==
    \A i \in DOMAIN h :
        /\ h[i].role = (IF (Len(h) - i) % 2 = 0 THEN "assistant" ELSE "user")
        /\ h[i].role = "user" => h[i].of = h[i + 1].of

(* However calls of one session overlap, a history is a row of whole turns *)
(* of distinct calls that the model answered, and so is what a model is    *)
(* sent: no torn, doubled or unanswered turn.                              *)
HistoryIsTurns ==
    /\ \A s \in Sessions :
         /\ IsTurns(history[s])
         /\ \A i, j \in DOMAIN history[s] : history[s][i] = history[s][j] => i = j
         /\ \A c \in InTurns(history[s]) : call[c] = "done" /\ SessionOf[c] = s
    /\ \A c \in Calls : IsTurns(prompt[c]) /\ c \notin InTurns(prompt[c])

(* A stored turn disappears for one of two reasons: the bound pushed it    *)
(* out, or it was stored between the Load and the Store of another call of *)
(* its session, which writes back what it had read before.                 *)
LossExplained ==
    \A s \in Sessions : \A d \in InTurns(history[s]) \ InTurns(history'[s]) :
        \E c \in Calls :
            /\ SessionOf[c] = s /\ call[c] = "store" /\ call'[c] = "done"
            /\ d \notin InTurns(loaded[c]) \/ Len(loaded[c]) + 2 > MaxMessages

LossNeedsOverlap == [][LossExplained]_vars
-----------------------------------------------------------------------------
(* The inductive invariant of ChatGraphProofs: what a call has read of a   *)
(* session is, like the history itself, a row of whole turns of calls that *)
(* have ended by then.                                                     *)

Saved(h, s) ==
    /\ IsTurns(h)
    /\ \A i, j \in DOMAIN h : h[i] = h[j] => i = j
    /\ \A c \in InTurns(h) : call[c] = "done" /\ SessionOf[c] = s

SavedInv ==
    /\ \A s \in Sessions : Saved(history[s], s)
    /\ \A c \in Calls :
         /\ Saved(prompt[c], SessionOf[c]) /\ Saved(loaded[c], SessionOf[c])
         /\ prompt[c] # <<>> => call[c] = "model"
=============================================================================
