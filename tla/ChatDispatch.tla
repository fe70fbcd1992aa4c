---------------------------- MODULE ChatDispatch ----------------------------
(***************************************************************************)
(* What the chat task pool promises, without workers, channels or          *)
(* cancellation: a request waits in a bounded line, is started in order,   *)
(* runs among at most Servers others, and whoever asked hears one outcome, *)
(* an answer only if the request ran, a refusal only if it never will.     *)
(***************************************************************************)
EXTENDS Naturals, Sequences, FiniteSets

CONSTANTS Requests, Capacity, Servers, Answers, Refusals, Cancelled, None

VARIABLES
    open,     \* requests are still let in
    line,     \* requests that wait, first come first
    running,  \* requests being answered
    ran,      \* requests that have been answered
    heard     \* what each caller was told

dispatchVars == <<open, line, running, ran, heard>>

Admitted(r) == r \in running \cup ran \/ \E i \in DOMAIN line : line[i] = r

Start0 ==
    /\ open = TRUE /\ line = <<>> /\ running = {} /\ ran = {}
    /\ heard = [r \in Requests |-> None]

Admit(r) ==
    /\ open /\ Len(line) < Capacity
    /\ ~Admitted(r) /\ heard[r] = None
    /\ line' = Append(line, r)
    /\ UNCHANGED <<open, running, ran, heard>>

Begin ==
    /\ line # <<>> /\ Cardinality(running) < Servers
    /\ running' = running \cup {Head(line)}
    /\ line' = Tail(line)
    /\ UNCHANGED <<open, ran, heard>>

Finish(r) ==
    /\ r \in running
    /\ running' = running \ {r}
    /\ ran' = ran \cup {r}
    /\ UNCHANGED <<open, line, heard>>

Hear(r, outcome) ==
    /\ heard[r] = None
    /\ outcome \in Answers => r \in ran
    /\ outcome \in Refusals => ~Admitted(r)
    /\ heard' = [heard EXCEPT ![r] = outcome]
    /\ UNCHANGED <<open, line, running, ran>>

Shut == open /\ open' = FALSE /\ UNCHANGED <<line, running, ran, heard>>

DispatchNext ==
    \/ \E r \in Requests : Admit(r) \/ Finish(r)
    \/ \E r \in Requests, o \in Answers \cup Refusals \cup {Cancelled} : Hear(r, o)
    \/ Begin
    \/ Shut

DispatchSpec == Start0 /\ [][DispatchNext]_dispatchVars
=============================================================================
