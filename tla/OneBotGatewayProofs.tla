------------------------- MODULE OneBotGatewayProofs -------------------------
(***************************************************************************)
(* Proofs about OneBotGateway: the goroutines of a connection write one at *)
(* a time, temporary copies are owned, files are indexed whole, and        *)
(* replies go to where their event came from, for every number of events   *)
(* and connections and every size of a file.                               *)
(***************************************************************************)
EXTENDS OneBotGateway, FiniteSetTheorems, TLAPS

USE GatewayAssumption

Stages == Working \cup {"unread", "dropped", "done"}

Inv == TypeOK /\ GatewayInv /\ TempFilesOwned /\ NothingCut

LEMMA InitInv == Init => Inv
<1> SUFFICES ASSUME Init PROVE Inv
  OBVIOUS
<1>1. TypeOK
  BY DEF Init, TypeOK, Kinds
<1>2. GatewayInv
  BY DEF Init, GatewayInv, EventInv, LockInv, ReplyInv, WriteStages
<1>3. TempFilesOwned /\ NothingCut
  BY DEF Init, TempFilesOwned, NothingCut
<1> QED
  BY <1>1, <1>2, <1>3 DEF Inv

-----------------------------------------------------------------------------
(* The read loops.                                                         *)

(* A connection only goes forward: new, open, ended, closed.               *)
LEMMA SocketInv ==
    ASSUME Inv, UNCHANGED up, NEW c \in Conns, Connect(c) \/ ReadFails(c) \/ Close(c)
    PROVE  Inv'
<1> USE DEF Inv, Connect, ReadFails, Close
<1>1. UNCHANGED <<broken, mutex, deadline, at, kind, from, outcome, files, frames>>
  OBVIOUS
<1>2. TypeOK'
  BY DEF TypeOK, files
<1>3. \A d \in Conns : socket[d] = "closed" => socket'[d] = "closed"
  BY DEF TypeOK
<1>4. EventInv' /\ LockInv'
  BY <1>1 DEF GatewayInv, EventInv, LockInv, files
<1>5. ReplyInv'
  <2>1. \A e \in Events : at[e] = "done" => from[e] \in Conns
    BY DEF GatewayInv, EventInv
  <2> QED
    BY <1>1, <1>3, <2>1 DEF GatewayInv, ReplyInv, Recipient, files
<1>6. TempFilesOwned' /\ NothingCut'
  BY <1>1 DEF TempFilesOwned, NothingCut, files
<1> QED
  BY <1>2, <1>4, <1>5, <1>6 DEF GatewayInv

LEMMA ReadInv ==
    ASSUME Inv, UNCHANGED up, NEW c \in Conns, NEW e \in Events, Read(c, e)
    PROVE  Inv'
<1>1. PICK k \in Kinds, size \in 0..MaxSize :
        /\ kind' = [kind EXCEPT ![e] = k]
        /\ k # "file" => size = 0
        /\ declared' = [declared EXCEPT ![e] = size]
        /\ CASE k = "ignored" -> To(e, "dropped") /\ outcome' = outcome
             [] k = "nofile"  -> Say(e, "failed")
             [] k = "file"    -> To(e, "fetch") /\ outcome' = outcome
             [] OTHER         -> To(e, "chat") /\ outcome' = outcome
  BY DEF Read
<1>2. /\ at[e] = "unread" /\ outcome[e] = "none" /\ copied[e] = 0
      /\ from' = [from EXCEPT ![e] = c]
      /\ UNCHANGED <<socket, broken, mutex, deadline, body, copied, temp, frames>>
  BY DEF Read, conns, Inv, GatewayInv, EventInv
<1>3. \/ at' = [at EXCEPT ![e] = "dropped"] /\ outcome' = outcome
      \/ at' = [at EXCEPT ![e] = "reply"] /\ outcome' = [outcome EXCEPT ![e] = "failed"]
      \/ at' = [at EXCEPT ![e] = "fetch"] /\ outcome' = outcome
      \/ at' = [at EXCEPT ![e] = "chat"] /\ outcome' = outcome /\ k \notin FileKinds
  BY <1>1 DEF To, Say, FileKinds
<1>4. TypeOK'
  <2>1. at' \in [Events -> Stages] /\ outcome' \in [Events -> {"none", "answer", "indexed", "failed", "error"}]
    BY <1>3 DEF Inv, TypeOK, Stages, Working, FileStages
  <2>2. kind' \in [Events -> Kinds] /\ declared' \in [Events -> 0..MaxSize]
    BY <1>1 DEF Inv, TypeOK
  <2>3. from' \in [Events -> Conns \cup {None}]
    BY <1>2 DEF Inv, TypeOK
  <2>4. \A f \in Events : declared'[f] > 0 => copied'[f] <= declared'[f] + 1
    BY <1>1, <1>2 DEF Inv, TypeOK
  <2> QED
    BY <1>2, <2>1, <2>2, <2>3, <2>4 DEF Inv, TypeOK, Stages
<1>5. /\ \A f \in Events \ {e} : /\ at'[f] = at[f] /\ outcome'[f] = outcome[f] /\ kind'[f] = kind[f]
                                 /\ from'[f] = from[f] /\ declared'[f] = declared[f]
      /\ from'[e] = c
  BY <1>1, <1>2, <1>3 DEF Inv, TypeOK
<1>6. /\ at'[e] \in {"dropped", "reply", "fetch", "chat"}
      /\ at'[e] = "chat" => kind'[e] \notin FileKinds
      /\ outcome'[e] = "none" <=> at'[e] \in {"dropped", "fetch", "chat"}
      /\ outcome'[e] \in {"none", "failed"}
  BY <1>1, <1>2, <1>3 DEF Inv, TypeOK
<1>7. EventInv'
  BY <1>2, <1>5, <1>6 DEF Inv, GatewayInv, EventInv, FileStages
<1>8. LockInv'
  BY <1>2, <1>5, <1>6 DEF Inv, GatewayInv, LockInv, WriteStages
<1>9. ReplyInv'
  <2>1. \A r \in frames : r.of \in Events \ {e}
    BY <1>2 DEF Inv, GatewayInv, ReplyInv, TypeOK
  <2> QED
    BY <1>2, <1>5, <1>6, <2>1 DEF Inv, GatewayInv, ReplyInv, Recipient
<1>10. TempFilesOwned'
  BY <1>2, <1>5, <1>6 DEF Inv, TempFilesOwned
<1>11. NothingCut'
  BY <1>2, <1>5, <1>6 DEF Inv, NothingCut
<1> QED
  BY <1>4, <1>7, <1>8, <1>9, <1>10, <1>11 DEF Inv, GatewayInv

-----------------------------------------------------------------------------
(* The goroutines, up to what they have to say.                            *)

(* A goroutine that is not in sendReply moves alone, and touches neither   *)
(* the mutex of its connection nor what was sent.                          *)
LEMMA GoroutineFrame ==
    ASSUME Inv, NEW e \in Events,
           UNCHANGED <<conns, kind, from, frames>>,
           \A f \in Events \ {e} : at'[f] = at[f] /\ outcome'[f] = outcome[f],
           at[e] \notin WriteStages \cup {"unread", "done"},
           at'[e] \notin WriteStages,
           at'[e] = "done" => outcome'[e] = "error"
    PROVE  LockInv' /\ ReplyInv'
<1> USE DEF Inv, GatewayInv, conns
<1>1. LockInv'
  BY DEF LockInv, WriteStages
<1>2. ReplyInv'
  <2>1. \A r \in frames : r.of \in Events \ {e}
    BY DEF ReplyInv, TypeOK
  <2> QED
    BY <2>1 DEF ReplyInv, Recipient
<1> QED
  BY <1>1, <1>2

LEMMA ChatEndsInv ==
    ASSUME Inv, UNCHANGED up, NEW e \in Events, ChatEnds(e)
    PROVE  Inv'
<1>1. /\ at[e] = "chat" /\ UNCHANGED <<conns, kind, from, files, frames>>
      /\ \/ at' = [at EXCEPT ![e] = "reply"] /\ outcome' = [outcome EXCEPT ![e] = "answer"]
         \/ at' = [at EXCEPT ![e] = "done"] /\ outcome' = [outcome EXCEPT ![e] = "error"]
  BY DEF ChatEnds, Say, To
<1>2. TypeOK'
  BY <1>1 DEF Inv, TypeOK, Working, conns, files
<1>3. /\ \A f \in Events \ {e} : at'[f] = at[f] /\ outcome'[f] = outcome[f]
      /\ \/ at'[e] = "reply" /\ outcome'[e] = "answer"
         \/ at'[e] = "done" /\ outcome'[e] = "error"
  BY <1>1 DEF Inv, TypeOK
<1>4. LockInv' /\ ReplyInv'
  BY <1>1, <1>3, GoroutineFrame DEF WriteStages
<1>5. EventInv'
  BY <1>1, <1>3 DEF Inv, GatewayInv, EventInv, FileStages, files
<1>6. TempFilesOwned'
  BY <1>1, <1>3 DEF Inv, TempFilesOwned, files
<1>7. NothingCut'
  BY <1>1, <1>3 DEF Inv, NothingCut, files
<1> QED
  BY <1>2, <1>4, <1>5, <1>6, <1>7 DEF Inv, GatewayInv

LEMMA FetchInv ==
    ASSUME Inv, UNCHANGED up, NEW e \in Events, FetchGroupFileURL(e)
    PROVE  Inv'
<1>1. /\ at[e] = "fetch" /\ UNCHANGED <<conns, kind, from, files, frames>>
      /\ \/ at' = [at EXCEPT ![e] = "reply"] /\ outcome' = [outcome EXCEPT ![e] = "failed"]
         \/ at' = [at EXCEPT ![e] = "download"] /\ outcome' = outcome
  BY DEF FetchGroupFileURL, Say, To
<1>2. TypeOK'
  BY <1>1 DEF Inv, TypeOK, Working, FileStages, conns, files
<1>3. /\ \A f \in Events \ {e} : at'[f] = at[f] /\ outcome'[f] = outcome[f]
      /\ \/ at'[e] = "reply" /\ outcome'[e] = "failed"
         \/ at'[e] = "download" /\ outcome'[e] = outcome[e]
  BY <1>1 DEF Inv, TypeOK
<1>4. LockInv' /\ ReplyInv'
  BY <1>1, <1>3, GoroutineFrame DEF WriteStages
<1>5. EventInv'
  BY <1>1, <1>3 DEF Inv, GatewayInv, EventInv, FileStages, files
<1>6. TempFilesOwned'
  BY <1>1, <1>3 DEF Inv, TempFilesOwned, files
<1>7. NothingCut'
  BY <1>1, <1>3 DEF Inv, NothingCut, files
<1> QED
  BY <1>2, <1>4, <1>5, <1>6, <1>7 DEF Inv, GatewayInv

LEMMA DownloadInv ==
    ASSUME Inv, UNCHANGED up, NEW e \in Events, Download(e)
    PROVE  Inv'
<1>1. /\ at[e] = "download" /\ UNCHANGED <<conns, kind, from, declared, copied, frames>>
      /\ \/ /\ at' = [at EXCEPT ![e] = "reply"] /\ outcome' = [outcome EXCEPT ![e] = "failed"]
            /\ UNCHANGED <<temp, body>>
         \/ /\ at' = [at EXCEPT ![e] = "copy"] /\ outcome' = outcome /\ temp' = temp \cup {e}
            /\ \E n \in 0..(MaxSize + 2) : body' = [body EXCEPT ![e] = n]
  BY DEF Download, Say, To
<1>2. TypeOK'
  BY <1>1 DEF Inv, TypeOK, Working, FileStages, conns
<1>3. /\ \A f \in Events \ {e} : at'[f] = at[f] /\ outcome'[f] = outcome[f] /\ body'[f] = body[f]
      /\ \/ at'[e] = "reply" /\ outcome'[e] = "failed" /\ temp' = temp
         \/ at'[e] = "copy" /\ outcome'[e] = outcome[e] /\ temp' = temp \cup {e}
  BY <1>1 DEF Inv, TypeOK
<1>4. LockInv' /\ ReplyInv'
  BY <1>1, <1>3, GoroutineFrame DEF WriteStages
<1>5. EventInv'
  BY <1>1, <1>3 DEF Inv, GatewayInv, EventInv, FileStages
<1>6. TempFilesOwned'
  BY <1>1, <1>3 DEF Inv, TempFilesOwned
<1>7. NothingCut'
  <2>1. outcome[e] = "none"
    BY <1>1 DEF Inv, GatewayInv, EventInv, FileStages
  <2> QED
    BY <1>1, <1>3, <2>1 DEF Inv, NothingCut
<1> QED
  BY <1>2, <1>4, <1>5, <1>6, <1>7 DEF Inv, GatewayInv

(* What io.LimitReader lets through: all of the body, or one byte more     *)
(* than was declared.                                                      *)
LEMMA LimitedRead ==
    ASSUME Inv, NEW e \in Events
    PROVE  /\ ReadSize(e) \in 0..(MaxSize + 2)
           /\ declared[e] > 0 => ReadSize(e) <= declared[e] + 1
           /\ ~(declared[e] > 0 /\ ReadSize(e) > declared[e]) =>
                /\ ReadSize(e) = body[e]
                /\ declared[e] > 0 => ReadSize(e) <= declared[e]
<1>1. declared[e] \in 0..MaxSize /\ body[e] \in 0..(MaxSize + 2)
  BY DEF Inv, TypeOK
<1> QED
  BY <1>1 DEF ReadSize

LEMMA CopyInv ==
    ASSUME Inv, UNCHANGED up, NEW e \in Events, Copy(e)
    PROVE  Inv'
<1> DEFINE n == ReadSize(e)
<1>1. /\ at[e] = "copy" /\ UNCHANGED <<conns, kind, from, declared, body, frames>>
      /\ copied' = copied \/ copied' = [copied EXCEPT ![e] = n]
      /\ \/ /\ at' = [at EXCEPT ![e] = "reply"] /\ outcome' = [outcome EXCEPT ![e] = "failed"]
            /\ temp' = temp \ {e}
         \/ /\ at' = [at EXCEPT ![e] = "index"] /\ UNCHANGED <<outcome, temp>>
            /\ copied' = [copied EXCEPT ![e] = n]
            /\ ~(declared[e] > 0 /\ n > declared[e])
  BY DEF Copy, Say, To
<1>2. /\ n \in 0..(MaxSize + 2)
      /\ declared[e] > 0 => n <= declared[e] + 1
      /\ ~(declared[e] > 0 /\ n > declared[e]) =>
           n = body[e] /\ (declared[e] > 0 => n <= declared[e])
  BY LimitedRead
<1> HIDE DEF n
<1>3. copied \in [Events -> 0..(MaxSize + 2)] /\ copied' \in [Events -> 0..(MaxSize + 2)]
  BY <1>1, <1>2 DEF Inv, GatewayInv, EventInv
<1>4. TypeOK'
  <2>1. \A f \in Events : declared'[f] > 0 => copied'[f] <= declared'[f] + 1
    BY <1>1, <1>2, <1>3 DEF Inv, TypeOK
  <2> QED
    BY <1>1, <2>1 DEF Inv, TypeOK, Working, FileStages, conns
<1>5. /\ \A f \in Events \ {e} : /\ at'[f] = at[f] /\ outcome'[f] = outcome[f]
                                 /\ copied'[f] = copied[f]
      /\ \/ at'[e] = "reply" /\ outcome'[e] = "failed" /\ temp' = temp \ {e}
         \/ /\ at'[e] = "index" /\ outcome'[e] = outcome[e] /\ temp' = temp
            /\ copied'[e] = n /\ ~(declared[e] > 0 /\ n > declared[e])
  BY <1>1, <1>3 DEF Inv, TypeOK
<1>6. LockInv' /\ ReplyInv'
  BY <1>1, <1>5, GoroutineFrame DEF WriteStages
<1>7. EventInv'
  BY <1>1, <1>3, <1>5 DEF Inv, GatewayInv, EventInv, FileStages
<1>8. TempFilesOwned'
  BY <1>1, <1>5 DEF Inv, TempFilesOwned, TypeOK
<1>9. NothingCut'
  BY <1>1, <1>2, <1>5 DEF Inv, NothingCut
<1> QED
  BY <1>4, <1>6, <1>7, <1>8, <1>9 DEF Inv, GatewayInv

LEMMA IndexInv ==
    ASSUME Inv, UNCHANGED up, NEW e \in Events, Index(e)
    PROVE  Inv'
<1>1. /\ at[e] = "index" /\ UNCHANGED <<conns, kind, from, declared, body, copied, frames>>
      /\ at' = [at EXCEPT ![e] = "reply"] /\ temp' = temp \ {e}
      /\ outcome' = [outcome EXCEPT ![e] = "indexed"] \/ outcome' = [outcome EXCEPT ![e] = "failed"]
  BY DEF Index, Say, To
<1>2. TypeOK'
  BY <1>1 DEF Inv, TypeOK, Working, conns
<1>3. /\ \A f \in Events \ {e} : at'[f] = at[f] /\ outcome'[f] = outcome[f]
      /\ at'[e] = "reply" /\ outcome'[e] \in {"indexed", "failed"}
  BY <1>1 DEF Inv, TypeOK
<1>4. LockInv' /\ ReplyInv'
  BY <1>1, <1>3, GoroutineFrame DEF WriteStages
<1>5. EventInv'
  BY <1>1, <1>3 DEF Inv, GatewayInv, EventInv, FileStages
<1>6. TempFilesOwned'
  BY <1>1, <1>3 DEF Inv, TempFilesOwned
<1>7. NothingCut'
  BY <1>1, <1>3 DEF Inv, NothingCut
<1> QED
  BY <1>2, <1>4, <1>5, <1>6, <1>7 DEF Inv, GatewayInv

-----------------------------------------------------------------------------
(* sendReply.                                                              *)

LEMMA LockKeepsInv ==
    ASSUME Inv, UNCHANGED up, NEW e \in Events, Lock(e)
    PROVE  Inv'
<1>1. /\ at[e] = "reply" /\ mutex[from[e]] = None
      /\ mutex' = [mutex EXCEPT ![from[e]] = e] /\ at' = [at EXCEPT ![e] = "deadline"]
      /\ UNCHANGED <<socket, broken, deadline, kind, from, outcome, files, frames>>
  BY DEF Lock, To
<1>2. from[e] \in Conns
  BY <1>1 DEF Inv, GatewayInv, EventInv
<1>3. TypeOK'
  BY <1>1, <1>2 DEF Inv, TypeOK, Working, WriteStages, files
<1>4. /\ \A f \in Events \ {e} : at'[f] = at[f]
      /\ at'[e] = "deadline"
      /\ \A c \in Conns \ {from[e]} : mutex'[c] = mutex[c]
      /\ mutex'[from[e]] = e
  BY <1>1, <1>2 DEF Inv, TypeOK
<1>5. EventInv'
  BY <1>1, <1>4 DEF Inv, TypeOK, GatewayInv, EventInv, FileStages, files
<1>6. LockInv'
  <2>1. \A f \in Events : ~(at[f] \in WriteStages /\ from[f] = from[e])
    BY <1>1, <1>2 DEF Inv, GatewayInv, LockInv
  <2> QED
    BY <1>1, <1>2, <1>4, <2>1 DEF Inv, GatewayInv, LockInv, WriteStages
<1>7. ReplyInv'
  <2>1. \A r \in frames : r.of \in Events \ {e}
    BY <1>1 DEF Inv, GatewayInv, ReplyInv, TypeOK
  <2> QED
    BY <1>1, <1>4, <2>1 DEF Inv, GatewayInv, ReplyInv, Recipient
<1>8. TempFilesOwned' /\ NothingCut'
  <2>1. \A f \in Events : at'[f] \in {"copy", "index"} <=> at[f] \in {"copy", "index"}
    BY <1>1 DEF Inv, TypeOK
  <2>2. \A f \in Events : at'[f] = "index" <=> at[f] = "index"
    BY <1>1 DEF Inv, TypeOK
  <2> QED
    BY <1>1, <2>1, <2>2 DEF Inv, TempFilesOwned, NothingCut, files
<1> QED
  BY <1>3, <1>5, <1>6, <1>7, <1>8 DEF Inv, GatewayInv

LEMMA SetWriteDeadlineInv ==
    ASSUME Inv, UNCHANGED up, NEW e \in Events, SetWriteDeadline(e)
    PROVE  Inv'
<1>1. /\ at[e] = "deadline" /\ at' = [at EXCEPT ![e] = "write"]
      /\ deadline' = [deadline EXCEPT ![from[e]] = e]
      /\ UNCHANGED <<socket, broken, mutex, kind, from, outcome, files, frames>>
  BY DEF SetWriteDeadline, To
<1>2. from[e] \in Conns
  BY <1>1 DEF Inv, GatewayInv, EventInv
<1>3. TypeOK'
  BY <1>1, <1>2 DEF Inv, TypeOK, Working, WriteStages, files
<1>4. /\ \A f \in Events \ {e} : at'[f] = at[f]
      /\ at'[e] = "write"
      /\ \A c \in Conns \ {from[e]} : deadline'[c] = deadline[c]
      /\ deadline'[from[e]] = e
  BY <1>1, <1>2 DEF Inv, TypeOK
<1>5. EventInv'
  BY <1>1, <1>4 DEF Inv, GatewayInv, EventInv, FileStages, files
<1>6. LockInv'
  <2>1. \A f \in Events \ {e} : ~(at[f] \in WriteStages /\ from[f] = from[e])
    BY <1>1, <1>2 DEF Inv, GatewayInv, LockInv, WriteStages
  <2>2. \A f \in Events : at[f] = "write" => from[f] \in Conns
    BY DEF Inv, GatewayInv, EventInv
  <2>3. \A f \in Events : at'[f] = "write" => deadline'[from[f]] = f
    BY <1>4, <2>1, <2>2 DEF Inv, GatewayInv, LockInv, WriteStages
  <2>4. \A f \in Events : at'[f] \in WriteStages <=> at[f] \in WriteStages
    BY <1>1, <1>4 DEF WriteStages
  <2> QED
    BY <1>1, <2>3, <2>4 DEF Inv, GatewayInv, LockInv
<1>7. ReplyInv'
  <2>1. \A r \in frames : r.of \in Events \ {e}
    BY <1>1 DEF Inv, GatewayInv, ReplyInv, TypeOK
  <2> QED
    BY <1>1, <1>4, <2>1 DEF Inv, GatewayInv, ReplyInv, Recipient
<1>8. TempFilesOwned' /\ NothingCut'
  <2>1. \A f \in Events : /\ at'[f] \in {"copy", "index"} <=> at[f] \in {"copy", "index"}
                          /\ at'[f] = "index" <=> at[f] = "index"
    BY <1>1, <1>4
  <2> QED
    BY <1>1, <2>1 DEF Inv, TempFilesOwned, NothingCut, files
<1> QED
  BY <1>3, <1>5, <1>6, <1>7, <1>8 DEF Inv, GatewayInv

LEMMA WriteMessageInv ==
    ASSUME Inv, UNCHANGED up, NEW e \in Events, WriteMessage(e)
    PROVE  Inv'
<1>1. from[e] \in Conns /\ outcome[e] # "error" /\ outcome[e] # "none"
  BY DEF WriteMessage, Inv, GatewayInv, EventInv, FileStages
<1>2. PICK reply \in [of : Events, to : {"user", "group"}, on : Conns] :
        reply = [of |-> e, to |-> Recipient(e), on |-> from[e]]
  <2>1. [of |-> e, to |-> Recipient(e), on |-> from[e]]
          \in [of : Events, to : {"user", "group"}, on : Conns]
    BY <1>1 DEF Recipient
  <2> QED
    BY <2>1
<1>3. /\ at[e] = "write" /\ at' = [at EXCEPT ![e] = "done"]
      /\ mutex' = [mutex EXCEPT ![from[e]] = None]
      /\ \/ frames' = frames \cup {reply} /\ broken' = broken
         \/ frames' = frames /\ broken' = broken \cup {from[e]}
      /\ UNCHANGED <<socket, deadline, kind, from, outcome, files>>
  BY <1>2 DEF WriteMessage, To
<1>4. reply.of = e /\ reply.on = from[e] /\ reply.to = Recipient(e)
  BY <1>2
<1>5. TypeOK'
  BY <1>1, <1>3 DEF Inv, TypeOK, Working, files
<1>6. /\ \A f \in Events \ {e} : at'[f] = at[f]
      /\ at'[e] = "done"
      /\ \A c \in Conns \ {from[e]} : mutex'[c] = mutex[c]
      /\ mutex'[from[e]] = None
  BY <1>1, <1>3 DEF Inv, TypeOK
<1>7. EventInv'
  BY <1>1, <1>3, <1>6 DEF Inv, GatewayInv, EventInv, FileStages, files
<1>8. LockInv'
  <2>1. \A f \in Events \ {e} : ~(at[f] \in WriteStages /\ from[f] = from[e])
    BY <1>1, <1>3 DEF Inv, GatewayInv, LockInv, WriteStages
  <2> QED
    BY <1>1, <1>3, <1>6, <2>1 DEF Inv, GatewayInv, LockInv, WriteStages
<1>9. ReplyInv'
  <2>1. \A r \in frames : r.of \in Events \ {e}
    BY <1>3 DEF Inv, GatewayInv, ReplyInv, TypeOK
  <2>2. \A r \in frames : /\ at'[r.of] = "done" /\ outcome'[r.of] # "error"
                          /\ r.on = from'[r.of] /\ r.to = Recipient(r.of)'
    BY <1>3, <1>6, <2>1 DEF Inv, GatewayInv, ReplyInv, Recipient
  <2>3. /\ at'[reply.of] = "done" /\ outcome'[reply.of] # "error"
        /\ reply.on = from'[reply.of] /\ reply.to = Recipient(reply.of)'
    BY <1>1, <1>3, <1>4, <1>6 DEF Recipient
  <2>4. (\E r \in frames' : r.of = e) \/ from[e] \in broken'
    BY <1>3, <1>4
  <2> QED
    BY <1>3, <1>4, <1>6, <2>2, <2>3, <2>4 DEF Inv, GatewayInv, ReplyInv
<1>10. TempFilesOwned' /\ NothingCut'
  <2>1. \A f \in Events : /\ at'[f] \in {"copy", "index"} <=> at[f] \in {"copy", "index"}
                          /\ at'[f] = "index" <=> at[f] = "index"
    BY <1>3, <1>6
  <2> QED
    BY <1>3, <2>1 DEF Inv, TempFilesOwned, NothingCut, files
<1> QED
  BY <1>5, <1>7, <1>8, <1>9, <1>10 DEF Inv, GatewayInv

-----------------------------------------------------------------------------
(* The theorems.                                                           *)

LEMMA NextInv == Inv /\ [Next]_vars => Inv'
<1> SUFFICES ASSUME Inv, [Next]_vars PROVE Inv'
  OBVIOUS
<1>1. CASE SocketStep
  BY <1>1, SocketInv, ReadInv DEF SocketStep
<1>2. ASSUME NEW e \in Events, TimedStep(e) PROVE Inv'
  BY <1>2, FetchInv, DownloadInv, CopyInv, LockKeepsInv, SetWriteDeadlineInv, WriteMessageInv
     DEF TimedStep, Reply
<1>3. ASSUME NEW e \in Events, CallEnds(e) PROVE Inv'
  BY <1>3, ChatEndsInv, IndexInv DEF CallEnds
<1>4. CASE ProcessEnds \/ UNCHANGED vars
  <2>1. /\ up' \in BOOLEAN
        /\ up' => up
        /\ UNCHANGED <<conns, at, kind, from, outcome, files, frames>>
    <3>1. CASE ProcessEnds
      BY <3>1 DEF ProcessEnds
    <3>2. CASE UNCHANGED vars
      <4>1. up \in BOOLEAN
        BY DEF Inv, TypeOK
      <4> QED
        BY <3>2, <4>1 DEF vars
    <3> QED
      BY <1>4, <3>1, <3>2
  <2>2. TypeOK'
    <3>1. UNCHANGED <<socket, broken, mutex, deadline, at, kind, from, outcome, declared, body,
                      copied, temp, frames>>
      BY <2>1 DEF conns, files
    <3> QED
      BY <2>1, <3>1 DEF Inv, TypeOK
  <2>3. EventInv' /\ LockInv'
    BY <2>1 DEF Inv, GatewayInv, EventInv, LockInv, conns, files
  <2>4. ReplyInv'
    BY <2>1 DEF Inv, GatewayInv, ReplyInv, Recipient, conns
  <2>5. TempFilesOwned' /\ NothingCut'
    BY <2>1 DEF Inv, TempFilesOwned, NothingCut, files
  <2> QED
    BY <2>2, <2>3, <2>4, <2>5 DEF Inv, GatewayInv
<1> QED
  BY <1>1, <1>2, <1>3, <1>4 DEF Next, Quiet

(* Events, connections, mutexes and replies agree with each other: the     *)
(* inductive invariant the theorems below rest on.                         *)
THEOREM GatewayCorrect == Spec => []Inv
BY InitInv, NextInv, PTL DEF Spec

(* The variables of the gateway hold what they are meant to; a temporary   *)
(* copy is never more than one byte longer than the event declared.        *)
THEOREM TypeCorrect == Spec => []TypeOK
BY GatewayCorrect, PTL DEF Inv

(* The mutex of serveWSConn lets one goroutine of a connection write at a  *)
(* time, each under the deadline it has set itself.                        *)
THEOREM WritersExclude == Spec => []OneWriter
<1>1. ASSUME Inv PROVE OneWriter
  <2> SUFFICES ASSUME NEW e \in Events, at[e] \in WriteStages
               PROVE  /\ \A f \in Events : at[f] \in WriteStages /\ from[f] = from[e] => f = e
                      /\ at[e] = "write" => deadline[from[e]] = e
    BY DEF OneWriter
  <2>1. from[e] \in Conns
    BY <1>1 DEF Inv, GatewayInv, EventInv, WriteStages
  <2> QED
    BY <1>1, <2>1 DEF Inv, GatewayInv, LockInv
<1> QED
  BY <1>1, GatewayCorrect, PTL

(* A temporary copy exists only while its goroutine works on it, on every  *)
(* path out of downloadGroupFile and handleGroupFileEvent.                 *)
THEOREM TempFilesCollected == Spec => []TempFilesOwned
BY GatewayCorrect, PTL DEF Inv

(* A group file that is indexed is the whole body, and not longer than the *)
(* size the event declared.                                                *)
THEOREM IndexedWhole == Spec => []NothingCut
BY GatewayCorrect, PTL DEF Inv

(* Whoever spoke to the bot gets at most one reply, on the connection and  *)
(* in the chat the event came from, and misses one only for a reason.      *)
THEOREM RepliesCorrect == Spec => []RepliesGoHome
<1>1. ASSUME Inv PROVE RepliesGoHome
  <2> SUFFICES ASSUME NEW e \in Events
               PROVE  LET mine == {r \in frames : r.of = e}
                      IN  /\ Cardinality(mine) <= 1
                          /\ mine # {} => at[e] = "done" /\ outcome[e] \notin {"none", "error"}
                          /\ \A r \in mine : r.on = from[e] /\ (r.to = "user" <=> kind[e] = "private")
                          /\ at[e] = "done" /\ mine = {} =>
                               \/ outcome[e] = "error" /\ kind[e] \notin FileKinds
                               \/ from[e] \in broken \/ socket[from[e]] = "closed"
    BY DEF RepliesGoHome
  <2> DEFINE mine  == {r \in frames : r.of = e}
             reply == [of |-> e, to |-> Recipient(e), on |-> from[e]]
  <2>1. \A r \in mine : r.of = e /\ r.on = from[e] /\ r.to = Recipient(e)
    BY <1>1 DEF Inv, GatewayInv, ReplyInv
  <2>2. mine \subseteq {reply}
    BY <1>1, <2>1 DEF Inv, TypeOK
  <2>3. Cardinality(mine) <= 1
    <3>1. IsFiniteSet({reply}) /\ Cardinality({reply}) = 1
      BY FS_Singleton
    <3>2. Cardinality(mine) <= Cardinality({reply})
      BY <2>2, <3>1, FS_Subset
    <3> QED
      BY <3>1, <3>2
  <2>4. mine # {} => at[e] = "done" /\ outcome[e] \notin {"none", "error"}
    BY <1>1 DEF Inv, GatewayInv, ReplyInv, EventInv, FileStages
  <2>5. \A r \in mine : r.on = from[e] /\ (r.to = "user" <=> kind[e] = "private")
    BY <2>1 DEF Recipient
  <2>6. at[e] = "done" /\ mine = {} =>
           \/ outcome[e] = "error" /\ kind[e] \notin FileKinds
           \/ from[e] \in broken \/ socket[from[e]] = "closed"
    BY <1>1 DEF Inv, GatewayInv, ReplyInv, EventInv
  <2> QED
    BY <2>3, <2>4, <2>5, <2>6
<1> QED
  BY <1>1, GatewayCorrect, PTL
=============================================================================
