------------------------------ MODULE RagMemory ------------------------------
(***************************************************************************)
(* The memory of one session of the RAG chat: flow/rag_chat.go, the        *)
(* InMemoryStore main gives it (tool/memory/store.go), and the Summarizer  *)
(* (tool/memory/compressor.go).  The store hands out a pointer: turns of a *)
(* session share one Session as soon as one has been saved, nothing locks  *)
(* its fields, and a turn's compression runs on in the background after    *)
(* its answer.  A field is read in one step and written in another.        *)
(* An append writes in place while there is room: what is in a History     *)
(* once two turns have been between read and write at a time, a data race, *)
(* is not known.                                                           *)
(* Sessions of different ids share nothing but the locked map.             *)
(***************************************************************************)
EXTENDS Naturals, Sequences, FiniteSets

CONSTANTS
    Turns,   \* runs of the flow for the session
    None     \* no Session; an entry of a history that may be anything

ASSUME MemoryAssumption == None \notin Turns

VARIABLES
    stored,   \* the pointer in the store's map, or None
    history,  \* field History of the Session each turn may allocate
    summary,  \* the messages its field Summary accounts for
    session,  \* state.Session: the Session each turn works on
    at,       \* where each turn is, see Stages
    held,     \* the messages a turn has read and not written back
    merged,   \* what the summary a turn has asked for will account for
    overlap,  \* history: turns that ran while another one was running
    dropped,  \* history: messages cut by a compression that then failed
    raced     \* the Sessions with a data race on History

vars == <<stored, history, summary, session, at, held, merged, overlap, dropped, raced>>

Message == [of : Turns, role : {"user", "assistant"}]
Entry   == Message \cup {None}

User(t)      == [of |-> t, role |-> "user"]
Assistant(t) == [of |-> t, role |-> "assistant"]

MaxHistoryLen == 3
Recent        == 3

(* Of the flow: model, then one append for each message of the turn.       *)
(* Of the goroutine started after it: compress to save.                    *)
Stages == {"new", "model", "user", "storeUser", "reply", "storeReply",
           "compress", "tooLong", "cut", "summarize", "asked", "save", "done", "failed"}

Active == {t \in Turns : at[t] \notin {"new", "done", "failed"}}

Of(t) == session[t]

Members(h) == {h[i] : i \in DOMAIN h}

(* The turns that have read the History of o and are about to write it.    *)
Writing(o) == {t \in Turns : session[t] = o /\ at[t] \in {"storeUser", "storeReply", "cut"}}

(* The turns that have cut messages from it and not accounted for them yet. *)
Compressing(o) == {t \in Turns : session[t] = o /\ at[t] \in {"summarize", "asked"}}

(* What the variables hold; a turn that has begun and its compression      *)
(* always work on a Session.                                               *)
TypeOK ==
    /\ stored \in Turns \cup {None}
    /\ history \in [Turns -> Seq(Entry)]
    /\ summary \in [Turns -> SUBSET Entry]
    /\ session \in [Turns -> Turns \cup {None}]
    /\ at \in [Turns -> Stages]
    /\ \A t \in Active : session[t] # None
    /\ held \in [Turns -> Seq(Entry)]
    /\ merged \in [Turns -> SUBSET Entry]
    /\ overlap \subseteq Turns
    /\ dropped \subseteq Entry
    /\ raced \subseteq Turns

Init ==
    /\ stored = None
    /\ history = [t \in Turns |-> <<>>]
    /\ summary = [t \in Turns |-> {}]
    /\ session = [t \in Turns |-> None]
    /\ at = [t \in Turns |-> "new"]
    /\ held = [t \in Turns |-> <<>>]
    /\ merged = [t \in Turns |-> {}]
    /\ overlap = {} /\ dropped = {} /\ raced = {}

To(t, stage) == at' = [at EXCEPT ![t] = stage]

(* t reads the History it is about to write, perhaps between the read and  *)
(* the write of another turn.  That makes a race: the two may write to one *)
(* backing array or to different ones, set a length that belongs to the    *)
(* other's array, or meet half of a slice header.  The length itself is    *)
(* one word, and the last one written.                                     *)
ReadToWrite(t) ==
    /\ held' = [held EXCEPT ![t] = history[Of(t)]]
    /\ raced' = IF Writing(Of(t)) = {} THEN raced ELSE raced \cup {Of(t)}

(* What is known of h, when it belongs to Session o.                       *)
Known(o, h) == IF o \in raced THEN [i \in DOMAIN h |-> None] ELSE h

-----------------------------------------------------------------------------
(* Plausible slips in the code, for the properties to catch; no            *)
(* specification below uses them.                                          *)

(* store.Get gives nothing back for an id it does not know.                *)
BeginWithNothing(t) ==
    /\ at[t] = "new"
    /\ session' = [session EXCEPT ![t] = stored]
    /\ overlap' = IF Active = {} THEN overlap ELSE overlap \cup Active \cup {t}
    /\ To(t, "model")
    /\ UNCHANGED <<stored, history, summary, held, merged, dropped, raced>>

(* The threshold one too high.                                             *)
CheckLengthLate(t) ==
    /\ at[t] = "compress"
    /\ To(t, IF Len(history[Of(t)]) <= MaxHistoryLen + 1 THEN "save" ELSE "tooLong")
    /\ UNCHANGED <<stored, history, summary, session, held, merged, overlap, dropped, raced>>

(* The summary is made of the older messages only.                         *)
AskSummaryAnew(t) ==
    /\ at[t] = "summarize"
    /\ merged' = [merged EXCEPT ![t] = Members(held[t])]
    /\ To(t, "asked")
    /\ UNCHANGED <<stored, history, summary, session, held, overlap, dropped, raced>>

(* The copy taken for the user's message is appended to again.             *)
StoreReplyTwice(t) ==
    /\ at[t] = "storeReply"
    /\ history' = [history EXCEPT ![Of(t)] =
                     Known(Of(t), held[t] \o <<Assistant(t), Assistant(t)>>)]
    /\ To(t, "compress")
    /\ UNCHANGED <<stored, summary, session, held, merged, overlap, dropped, raced>>

-----------------------------------------------------------------------------
(* The flow.                                                               *)

(* PreProcess: store.Get, with a Session of its own when nothing is saved. *)
(* Rewrite, Retrieve and ConstructMessages only read.                      *)
Begin(t) ==
    /\ at[t] = "new"
    /\ session' = [session EXCEPT ![t] = IF stored = None THEN t ELSE stored]
    /\ overlap' = IF Active = {} THEN overlap ELSE overlap \cup Active \cup {t}
    /\ To(t, "model")
    /\ UNCHANGED <<stored, history, summary, held, merged, dropped, raced>>

(* A node fails and the flow ends, or the post handler of Chat runs.       *)
ModelReturns(t) ==
    /\ at[t] = "model"
    /\ To(t, "failed") \/ To(t, "user")
    /\ UNCHANGED <<stored, history, summary, session, held, merged, overlap, dropped, raced>>

(* History = append(History, ...), for the user's message and the reply.   *)
(* The length that is stored is the one that was read, and one.            *)
ReadForAppend(t) ==
    /\ \/ at[t] = "user"  /\ To(t, "storeUser")
       \/ at[t] = "reply" /\ To(t, "storeReply")
    /\ ReadToWrite(t)
    /\ UNCHANGED <<stored, history, summary, session, merged, overlap, dropped>>

StoreUser(t) ==
    /\ at[t] = "storeUser"
    /\ history' = [history EXCEPT ![Of(t)] = Known(Of(t), Append(held[t], User(t)))]
    /\ To(t, "reply")
    /\ UNCHANGED <<stored, summary, session, held, merged, overlap, dropped, raced>>

StoreReply(t) ==
    /\ at[t] = "storeReply"
    /\ history' = [history EXCEPT ![Of(t)] = Known(Of(t), Append(held[t], Assistant(t)))]
    /\ To(t, "compress")
    /\ UNCHANGED <<stored, summary, session, held, merged, overlap, dropped, raced>>

-----------------------------------------------------------------------------
(* The goroutine of the post handler: Compress, then store.Save.           *)

CheckLength(t) ==
    /\ at[t] = "compress"
    /\ To(t, IF Len(history[Of(t)]) <= MaxHistoryLen THEN "save" ELSE "tooLong")
    /\ UNCHANGED <<stored, history, summary, session, held, merged, overlap, dropped, raced>>

(* History is read again for the two slices: it may be another one, of     *)
(* another length, than the one that was checked.                          *)
ReadForCut(t) ==
    /\ at[t] = "tooLong"
    /\ To(t, "cut")
    /\ ReadToWrite(t)
    /\ UNCHANGED <<stored, history, summary, session, merged, overlap, dropped>>

Cut(t) ==
    LET n == Len(held[t]) IN
      /\ at[t] = "cut"
      /\ history' = [history EXCEPT ![Of(t)] = Known(Of(t), SubSeq(held[t], n - Recent + 1, n))]
      /\ held' = [held EXCEPT ![t] = SubSeq(held[t], 1, n - Recent)]
      /\ To(t, "summarize")
      /\ UNCHANGED <<stored, summary, session, merged, overlap, dropped, raced>>

(* toCompress is a part of the array that History is in.                   *)
AskSummary(t) ==
    /\ at[t] = "summarize"
    /\ merged' = [merged EXCEPT ![t] = summary[Of(t)] \cup Members(Known(Of(t), held[t]))]
    /\ To(t, "asked")
    /\ UNCHANGED <<stored, history, summary, session, held, overlap, dropped, raced>>

(* An error of the model leaves the old summary and the cut history.       *)
SummaryReturns(t) ==
    /\ at[t] = "asked"
    /\ \/ summary' = [summary EXCEPT ![Of(t)] = merged[t]] /\ dropped' = dropped
       \/ summary' = summary /\ dropped' = dropped \cup Members(Known(Of(t), held[t]))
    /\ To(t, "save")
    /\ UNCHANGED <<stored, history, session, held, merged, overlap, raced>>

Save(t) ==
    /\ at[t] = "save"
    /\ stored' = Of(t)
    /\ To(t, "done")
    /\ UNCHANGED <<history, summary, session, held, merged, overlap, dropped, raced>>

Flow(t)     == Begin(t) \/ ModelReturns(t) \/ ReadForAppend(t) \/ StoreUser(t) \/ StoreReply(t)
Compress(t) == CheckLength(t) \/ ReadForCut(t) \/ Cut(t)
               \/ AskSummary(t) \/ SummaryReturns(t) \/ Save(t)

AllDone == (\A t \in Turns : at[t] \in {"done", "failed"}) /\ UNCHANGED vars

Next == (\E t \in Turns : Flow(t) \/ Compress(t)) \/ AllDone

Spec == Init /\ [][Next]_vars

-----------------------------------------------------------------------------
(* Properties.                                                             *)

(* No message twice, and no answer before the question it answers.         *)
InOrder(h) ==
    \A i, j \in DOMAIN h :
        /\ h[i] = h[j] => i = j
        /\ h[i].of = h[j].of /\ i < j => h[i].role = "user"

(* Turns and their compressions may overlap: as long as no two of them are *)
(* between the read and the write of one History, a history is in order,   *)
(* and a message is in one place, the history, the summary, or with the    *)
(* one compression that has cut it.                                        *)
MessagesOnce ==
    \A o \in Turns \ raced :
        /\ InOrder(history[o])
        /\ Members(history[o]) \cap summary[o] = {}
        /\ \A t \in Compressing(o) :
             /\ Members(held[t]) \cap (Members(history[o]) \cup summary[o]) = {}
             /\ \A u \in Compressing(o) \ {t} : Members(held[t]) \cap Members(held[u]) = {}

(* As long as no turn begins before the compression of the one before has  *)
(* been saved, every message of a finished turn is in the saved history or *)
(* in its summary, and not in both, or on its way from the one to the      *)
(* other, or was cut by a compression whose model call failed.             *)
NothingForgotten ==
    overlap = {} =>
        /\ \A t \in Turns : at[t] = "done" =>
             \A m \in {User(t), Assistant(t)} :
                \/ stored # None /\ m \in Members(history[stored]) \cup summary[stored]
                \/ m \in dropped
                \/ \E u \in Turns : at[u] \in {"summarize", "asked"} /\ m \in Members(held[u])
        /\ stored # None => Members(history[stored]) \cap summary[stored] = {}

(* When no turn is running every Session is back within MaxHistoryLen: the *)
(* last to write a history also checks its length.                         *)
BoundedAtRest ==
    Active = {} => \A o \in Turns : Len(history[o]) <= MaxHistoryLen

(* A history that is going to be cut still has the messages to keep when   *)
(* it is read again: len(History)-3 is no bound below zero, which would    *)
(* end the process, though another turn may have made the history shorter  *)
(* since its length was checked.                                           *)
CutInBounds ==
    \A t \in Turns : at[t] = "tooLong" => Len(history[Of(t)]) >= Recent

(* Both of these hold whatever overlaps or races.                          *)
HistoryInBounds == BoundedAtRest /\ CutInBounds

-----------------------------------------------------------------------------
(* The inductive invariant of RagMemoryProofs.                             *)

(* The messages that turns have written so far.                            *)
Written ==
    {m \in Message :
        \/ at[m.of] \in {"compress", "tooLong", "cut", "summarize", "asked", "save", "done"}
        \/ m.role = "user" /\ at[m.of] \in {"reply", "storeReply"}}

(* A Session without a race holds what has been written, and each message  *)
(* of it in one place.                                                     *)
SessionOnce(o) ==
    /\ InOrder(history[o])
    /\ Members(history[o]) \cup summary[o] \subseteq Written
    /\ Members(history[o]) \cap summary[o] = {}

(* Whoever is about to write its History still has what is there; what a   *)
(* compression has cut, and its summary to be, are apart from what is left. *)
TurnOnce(t, o) ==
    /\ t \in Writing(o) => held[t] = history[o]
    /\ t \in Compressing(o) =>
         /\ Members(held[t]) \subseteq Written
         /\ Members(held[t]) \cap (Members(history[o]) \cup summary[o]) = {}
    /\ t \in Compressing(o) /\ at[t] = "asked" =>
         merged[t] \subseteq Written /\ merged[t] \cap Members(history[o]) = {}

(* One at a time writes, and two compressions have nothing in common.      *)
PairOnce(t, u, o) ==
    /\ ~(t \in Writing(o) /\ u \in Writing(o))
    /\ t \in Compressing(o) /\ u \in Compressing(o) =>
         /\ Members(held[t]) \cap Members(held[u]) = {}
         /\ at[t] = "asked" => merged[t] \cap Members(held[u]) = {}

Once(o) ==
    /\ SessionOnce(o)
    /\ \A t \in Turns : TurnOnce(t, o) /\ \A u \in Turns \ {t} : PairOnce(t, u, o)

OnceInv == \A o \in Turns \ raced : Once(o)

(* A history that is too long will be looked at again.                     *)
Looking(t) ==
    at[t] \in {"user", "storeUser", "reply", "storeReply", "compress", "tooLong", "cut"}

BoundInv ==
    /\ \A o \in Turns : Len(history[o]) <= MaxHistoryLen
                        \/ \E t \in Turns : session[t] = o /\ Looking(t)
    /\ \A t \in Turns : at[t] = "cut" => Len(held[t]) >= Recent

(* A Session that more than its first turn can reach holds two messages,   *)
(* and so does whoever is about to write to it; its first turn has stored  *)
(* one with "reply", and both with "compress".                             *)
LengthInv ==
    /\ \A t \in Turns : session[t] # None /\ session[t] # t => Len(history[session[t]]) >= 2
    /\ stored # None => Len(history[stored]) >= 2
    /\ \A t \in Turns :
         /\ at[t] \in {"storeUser", "storeReply"} =>
              \/ Len(held[t]) >= 2
              \/ /\ session[t] = t /\ stored # t
                 /\ \A u \in Turns \ {t} : session[u] # t
                 /\ at[t] = "storeReply" => Len(held[t]) >= 1
         /\ at[t] \in {"reply", "storeReply"} => Len(history[Of(t)]) >= 1
         /\ at[t] \in {"compress", "tooLong", "cut", "summarize", "asked", "save"} =>
              Len(history[Of(t)]) >= 2
    /\ CutInBounds

(* Sessions that no turn has begun with are empty.                         *)
FreshInv ==
    /\ \A t \in Turns : at[t] = "new" => history[t] = <<>> /\ summary[t] = {}
    /\ \A t \in Turns : session[t] # None => at[session[t]] # "new"
    /\ stored # None => at[stored] # "new"

(* Where the messages of Session o can be.                                 *)
Safe(o) ==
    Members(history[o]) \cup summary[o] \cup dropped
    \cup UNION {Members(held[u]) : u \in {v \in Turns : at[v] \in {"summarize", "asked"}}}

MessagesOf(t) == {m \in Written : m.of = t}

(* As long as nothing overlaps there is no race, and one turn at work, on  *)
(* the saved Session if there is one.                                      *)
AloneInv ==
    overlap = {} =>
        /\ raced = {}
        /\ \A t, u \in Active : t = u
        /\ stored = None => \A t \in Turns : at[t] # "done"
        /\ stored # None =>
             \A t \in Turns : at[t] = "done" => MessagesOf(t) \subseteq Safe(stored)
        /\ \A t \in Active :
             /\ stored # None => session[t] = stored
             /\ MessagesOf(t) \subseteq Safe(session[t])
             /\ at[t] = "asked" => merged[t] = summary[session[t]] \cup Members(held[t])
=============================================================================
