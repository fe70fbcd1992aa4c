---------------------------- MODULE OneBotGateway ----------------------------
(***************************************************************************)
(* The QQ side: the read loop of a OneBot WebSocket (serveWSConn, main.go), *)
(* the goroutine HandleWSMessage starts for each event that is for the bot *)
(* (handler/router.go), the calls of NapCat's HTTP API for the file of a   *)
(* group (adapter/onebot.go), its temporary copy and its run of the        *)
(* indexing graph, and the replies of all goroutines of a connection       *)
(* behind one mutex.  What Submit does with a chat is in ChatTaskPool.     *)
(***************************************************************************)
EXTENDS Naturals, FiniteSets

CONSTANTS
    Events,   \* frames the OneBot client sends
    Conns,    \* its connections, one after the other or side by side
    MaxSize,  \* bound of the model on the size a group file is declared with
    None      \* no event, no connection

ASSUME GatewayAssumption ==
    /\ MaxSize \in Nat
    /\ None \notin Events /\ None \notin Conns

(* What ParseEvent and routeEvent take a frame for: nothing the bot reacts *)
(* to, a group message with an @ of the bot, a private message, a group    *)
(* file, or one whose event lacks the file's id or busid.                  *)
Kinds     == {"ignored", "group", "private", "file", "nofile"}
FileKinds == {"file", "nofile"}

(* Where the goroutine of an event is.                                     *)
FileStages  == {"fetch", "download", "copy", "index"}
WriteStages == {"deadline", "write"}
Working     == {"chat", "reply"} \cup FileStages \cup WriteStages

VARIABLES
    up,        \* the process lives
    socket,    \* of each connection: new, open, ended (read loop left), closed
    broken,    \* connections on which a write has failed: gorilla keeps the error
    mutex,     \* the event whose goroutine holds writeMu of a connection
    deadline,  \* the event whose goroutine has set the write deadline last
    at,        \* where each event is: unread, dropped, done, or a stage
    kind,      \* what it is
    from,      \* the connection it came on
    outcome,   \* what the goroutine has to say: an answer, a note, or nothing
    declared,  \* size in the event of a group file, 0 when it has none
    body,      \* size of what the download would send
    copied,    \* bytes in the temporary copy
    temp,      \* events that have a temporary file
    frames     \* the replies that went out: event, to whom

conns == <<socket, broken, mutex, deadline>>
files == <<declared, body, copied, temp>>
vars  == <<up, conns, at, kind, from, outcome, files, frames>>

(* What the variables hold: a temporary copy never outgrows the declared   *)
(* size by more than the byte that shows it is too long.                   *)
TypeOK ==
    /\ up \in BOOLEAN
    /\ socket \in [Conns -> {"new", "open", "ended", "closed"}]
    /\ broken \subseteq Conns
    /\ mutex \in [Conns -> Events \cup {None}]
    /\ deadline \in [Conns -> Events \cup {None}]
    /\ at \in [Events -> Working \cup {"unread", "dropped", "done"}]
    /\ kind \in [Events -> Kinds]
    /\ from \in [Events -> Conns \cup {None}]
    /\ outcome \in [Events -> {"none", "answer", "indexed", "failed", "error"}]
    /\ declared \in [Events -> 0..MaxSize]
    /\ body \in [Events -> 0..(MaxSize + 2)]
    /\ \A e \in Events : declared[e] > 0 => copied[e] <= declared[e] + 1
    /\ temp \subseteq Events
    /\ frames \subseteq [of : Events, to : {"user", "group"}, on : Conns]

Init ==
    /\ up = TRUE
    /\ socket = [c \in Conns |-> "new"] /\ broken = {}
    /\ mutex = [c \in Conns |-> None] /\ deadline = [c \in Conns |-> None]
    /\ at = [e \in Events |-> "unread"]
    /\ kind = [e \in Events |-> "ignored"]
    /\ from = [e \in Events |-> None]
    /\ outcome = [e \in Events |-> "none"]
    /\ declared = [e \in Events |-> 0] /\ body = [e \in Events |-> 0]
    /\ copied = [e \in Events |-> 0]
    /\ temp = {} /\ frames = {}

To(e, stage) == at' = [at EXCEPT ![e] = stage]

Say(e, what) == outcome' = [outcome EXCEPT ![e] = what] /\ To(e, "reply")

-----------------------------------------------------------------------------
(* Plausible slips in the code, for the properties to catch; no            *)
(* specification below uses them.                                          *)

(* Each goroutine has a mutex of its own.                                  *)
LockOwn(e) ==
    /\ at[e] = "reply" /\ To(e, "deadline")
    /\ UNCHANGED <<conns, kind, from, outcome, files, frames>>

(* A return between Lock and the deferred Unlock.                          *)
WriteWithoutUnlock(e) ==
    /\ at[e] = "write" /\ To(e, "done")
    /\ broken' = broken \cup {from[e]}
    /\ UNCHANGED <<socket, mutex, deadline, kind, from, outcome, files, frames>>

(* io.LimitReader(resp.Body, fileSize), with the same test after it.       *)
LimitedSize(e) ==
    IF declared[e] > 0 /\ body[e] > declared[e] THEN declared[e] ELSE body[e]

(* No limit on what is read.                                               *)
UnlimitedSize(e) == body[e]

(* The temporary file is removed only after a run that went well.          *)
IndexAndKeepOnError(e) ==
    /\ at[e] = "index"
    /\ \/ Say(e, "indexed") /\ temp' = temp \ {e}
       \/ Say(e, "failed") /\ temp' = temp
    /\ UNCHANGED <<conns, kind, from, declared, body, copied, frames>>

(* A failed download is logged and not reported.                           *)
DownloadSilently(e) ==
    /\ at[e] = "download"
    /\ \/ /\ To(e, "copy") /\ temp' = temp \cup {e} /\ outcome' = outcome
          /\ \E n \in 0..(MaxSize + 2) : body' = [body EXCEPT ![e] = n]
       \/ To(e, "done") /\ UNCHANGED <<temp, outcome, body>>
    /\ UNCHANGED <<conns, kind, from, declared, copied, frames>>

-----------------------------------------------------------------------------
(* serveWSConn and wsEndpoint.                                             *)

Connect(c) ==
    /\ socket[c] = "new"
    /\ socket' = [socket EXCEPT ![c] = "open"]
    /\ UNCHANGED <<broken, mutex, deadline, at, kind, from, outcome, files, frames>>

(* A frame is read, parsed and routed.  What is not for the bot ends here; *)
(* for the rest a goroutine is started, and the loop reads on.             *)
Read(c, e) ==
    /\ socket[c] = "open" /\ at[e] = "unread"
    /\ from' = [from EXCEPT ![e] = c]
    /\ \E k \in Kinds, size \in 0..MaxSize :
         /\ kind' = [kind EXCEPT ![e] = k]
         /\ k # "file" => size = 0
         /\ declared' = [declared EXCEPT ![e] = size]
         /\ CASE k = "ignored" -> To(e, "dropped") /\ outcome' = outcome
              [] k = "nofile"  -> Say(e, "failed")
              [] k = "file"    -> To(e, "fetch") /\ outcome' = outcome
              [] OTHER         -> To(e, "chat") /\ outcome' = outcome
    /\ UNCHANGED <<conns, body, copied, temp, frames>>

(* ReadMessage fails: the peer has closed, the connection is lost, or      *)
(* nothing came within the read timeout, replies under way or not.         *)
ReadFails(c) ==
    /\ socket[c] = "open"
    /\ socket' = [socket EXCEPT ![c] = "ended"]
    /\ UNCHANGED <<broken, mutex, deadline, at, kind, from, outcome, files, frames>>

(* The deferred ws.Close(), which does not ask for writeMu.                *)
Close(c) ==
    /\ socket[c] = "ended"
    /\ socket' = [socket EXCEPT ![c] = "closed"]
    /\ UNCHANGED <<broken, mutex, deadline, at, kind, from, outcome, files, frames>>

-----------------------------------------------------------------------------
(* The goroutines of HandleWSMessage and handleGroupFileEvent.             *)

(* generateChatReply: an error, of the pool or of Chat, is only logged.    *)
ChatEnds(e) ==
    /\ at[e] = "chat"
    /\ \/ Say(e, "answer")
       \/ To(e, "done") /\ outcome' = [outcome EXCEPT ![e] = "error"]
    /\ UNCHANGED <<conns, kind, from, files, frames>>

(* adapter.FetchGroupFileURL: a URL, or one of many errors.                *)
FetchGroupFileURL(e) ==
    /\ at[e] = "fetch"
    /\ \/ To(e, "download") /\ outcome' = outcome
       \/ Say(e, "failed")
    /\ UNCHANGED <<conns, kind, from, files, frames>>

(* downloadGroupFile until the temporary file is open.                     *)
Download(e) ==
    /\ at[e] = "download"
    /\ \/ /\ To(e, "copy") /\ temp' = temp \cup {e} /\ outcome' = outcome
          /\ \E n \in 0..(MaxSize + 2) : body' = [body EXCEPT ![e] = n]
       \/ Say(e, "failed") /\ UNCHANGED <<temp, body>>
    /\ UNCHANGED <<conns, kind, from, declared, copied, frames>>

(* io.LimitReader(resp.Body, fileSize+1), or all when no size is declared. *)
ReadSize(e) ==
    IF declared[e] > 0 /\ body[e] > declared[e] + 1 THEN declared[e] + 1 ELSE body[e]

(* io.Copy, and the test of what it has written.                           *)
Copy(e) ==
    /\ at[e] = "copy"
    /\ \/ /\ copied' = [copied EXCEPT ![e] = ReadSize(e)]
          /\ IF declared[e] > 0 /\ ReadSize(e) > declared[e]
               THEN Say(e, "failed") /\ temp' = temp \ {e}
               ELSE To(e, "index") /\ UNCHANGED <<outcome, temp>>
       \/ Say(e, "failed") /\ copied' = copied /\ temp' = temp \ {e}
    /\ UNCHANGED <<conns, kind, from, declared, body, frames>>

(* The indexing graph, which reads the file from its path, and the         *)
(* deferred os.Remove.                                                     *)
Index(e) ==
    /\ at[e] = "index"
    /\ Say(e, "indexed") \/ Say(e, "failed")
    /\ temp' = temp \ {e}
    /\ UNCHANGED <<conns, kind, from, declared, body, copied, frames>>

-----------------------------------------------------------------------------
(* sendReply: Lock, SetWriteDeadline, WriteMessage and the deferred Unlock. *)

(* buildReplyAction.                                                       *)
Recipient(e) == IF kind[e] = "private" THEN "user" ELSE "group"

Lock(e) ==
    /\ at[e] = "reply" /\ mutex[from[e]] = None
    /\ mutex' = [mutex EXCEPT ![from[e]] = e]
    /\ To(e, "deadline")
    /\ UNCHANGED <<socket, broken, deadline, kind, from, outcome, files, frames>>

SetWriteDeadline(e) ==
    /\ at[e] = "deadline" /\ To(e, "write")
    /\ deadline' = [deadline EXCEPT ![from[e]] = e]
    /\ UNCHANGED <<socket, broken, mutex, kind, from, outcome, files, frames>>

(* The error of a write is logged; every later write on the connection has *)
(* the same error, while the read loop goes on reading.                    *)
WriteMessage(e) ==
    /\ at[e] = "write" /\ To(e, "done")
    /\ \/ /\ socket[from[e]] # "closed" /\ from[e] \notin broken
          /\ frames' = frames \cup
               {[of |-> e, to |-> Recipient(e), on |-> from[e]]}
          /\ broken' = broken
       \/ broken' = broken \cup {from[e]} /\ frames' = frames
    /\ mutex' = [mutex EXCEPT ![from[e]] = None]
    /\ UNCHANGED <<socket, deadline, kind, from, outcome, files>>

(* The process is killed, ends, or is taken down by a panic in one of      *)
(* these goroutines, which have no recover.                                *)
ProcessEnds ==
    /\ up /\ up' = FALSE
    /\ UNCHANGED <<conns, at, kind, from, outcome, files, frames>>

Reply(e) == Lock(e) \/ SetWriteDeadline(e) \/ WriteMessage(e)

(* The calls that end by a timeout of their own, or by a write deadline.   *)
TimedStep(e) == up /\ up' = up /\ (FetchGroupFileURL(e) \/ Download(e) \/ Copy(e) \/ Reply(e))

(* The calls without one: Submit under a background context, and Invoke.   *)
CallEnds(e) == up /\ up' = up /\ (ChatEnds(e) \/ Index(e))

SocketStep ==
    /\ up /\ up' = up
    /\ \E c \in Conns :
         Connect(c) \/ ReadFails(c) \/ Close(c) \/ \E e \in Events : Read(c, e)

Quiet == ~up /\ UNCHANGED vars

Next ==
    \/ SocketStep \/ ProcessEnds \/ Quiet
    \/ \E e \in Events : TimedStep(e) \/ CallEnds(e)

Spec == Init /\ [][Next]_vars

FairSpec == Spec /\ \A e \in Events : WF_vars(TimedStep(e))

(* Every Submit and every run of the graph ends; a hypothesis of the       *)
(* property that says so.                                                  *)
CallsEnd == \A e \in Events : WF_vars(CallEnds(e))

-----------------------------------------------------------------------------
(* Properties.                                                             *)

(* The goroutines of a connection write one at a time, as gorilla's        *)
(* connections demand, and each write runs under the deadline its own      *)
(* goroutine has set.                                                      *)
OneWriter ==
    \A e \in Events : at[e] \in WriteStages =>
        /\ \A f \in Events : at[f] \in WriteStages /\ from[f] = from[e] => f = e
        /\ at[e] = "write" => deadline[from[e]] = e

(* While the process lives, a temporary copy exists only as long as its    *)
(* goroutine works on it, whichever way the download or the run ends.      *)
TempFilesOwned == up => temp = {e \in Events : at[e] \in {"copy", "index"}}

(* A file that is indexed is the whole body that was sent, also when the   *)
(* body is longer than the size in the event; and it is never longer.      *)
NothingCut ==
    \A e \in Events : at[e] = "index" \/ outcome[e] = "indexed" =>
        /\ copied[e] = body[e]
        /\ declared[e] > 0 => copied[e] <= declared[e]

(* Whoever spoke to the bot gets one reply, on the connection and in the   *)
(* chat the event came from, and a group file is always reported; a reply  *)
(* is missing only when the chat failed, or the connection has failed or   *)
(* ended.                                                                  *)
RepliesGoHome ==
    \A e \in Events :
        LET mine == {r \in frames : r.of = e} IN
        /\ Cardinality(mine) <= 1
        /\ mine # {} => at[e] = "done" /\ outcome[e] \notin {"none", "error"}
        /\ \A r \in mine : r.on = from[e] /\ (r.to = "user" <=> kind[e] = "private")
        /\ at[e] = "done" /\ mine = {} =>
             \/ outcome[e] = "error" /\ kind[e] \notin FileKinds
             \/ from[e] \in broken \/ socket[from[e]] = "closed"

(* Liveness, when Submit and the graph end: every event that is for the    *)
(* bot is done with, whatever becomes of its connection, unless the        *)
(* process ends; no goroutine is left waiting for writeMu.                 *)
EventsEnd == CallsEnd => \A e \in Events : at[e] \in Working ~> at[e] = "done" \/ ~up
-----------------------------------------------------------------------------
(* The inductive invariant of OneBotGatewayProofs, in parts.               *)

(* What is known of an event at each stage of its goroutine.               *)
EventInv ==
    /\ copied \in [Events -> 0..(MaxSize + 2)]
    /\ \A e \in Events :
        /\ at[e] = "unread" => copied[e] = 0
        /\ at[e] # "unread" => from[e] \in Conns
        /\ at[e] = "chat" => kind[e] \notin FileKinds
        /\ outcome[e] = "none" <=> at[e] \in {"unread", "dropped", "chat"} \cup FileStages
        /\ outcome[e] = "error" => at[e] = "done" /\ kind[e] \notin FileKinds

(* Who holds writeMu of a connection is between Lock and Unlock there, and *)
(* the write deadline is its own from the moment it has set one.           *)
LockInv ==
    /\ \A c \in Conns, e \in Events : mutex[c] = e <=> at[e] \in WriteStages /\ from[e] = c
    /\ \A e \in Events : at[e] = "write" => deadline[from[e]] = e

(* A reply that went out is that of an event that is done with; an event   *)
(* that is done with and has none has a reason for it.                     *)
ReplyInv ==
    /\ \A r \in frames :
         /\ at[r.of] = "done" /\ outcome[r.of] # "error"
         /\ r.on = from[r.of] /\ r.to = Recipient(r.of)
    /\ \A e \in Events : at[e] = "done" =>
         \/ outcome[e] = "error"
         \/ from[e] \in broken \/ socket[from[e]] = "closed"
         \/ \E r \in frames : r.of = e

GatewayInv == EventInv /\ LockInv /\ ReplyInv
=============================================================================
