-------------------------- MODULE SessionLifecycle --------------------------
(***************************************************************************)
(* What the session API promises, without threads, sweeps or a dict: a     *)
(* session is opened once, then removed once (by a delete or because it    *)
(* expired), then its connection is closed once.  Every request on it sees *)
(* the session either there or gone at one instant between the request and *)
(* its answer.  SessionManager implements this module.                     *)
(***************************************************************************)
CONSTANTS Clients, Ids, None

VARIABLES
    phase,      \* of each session: absent, live, removed, closed
    call        \* of each client: its request and the last answer

vars == <<phase, call>>

Init ==
    /\ phase = [i \in Ids |-> "absent"]
    /\ call = [c \in Clients |->
                 [state |-> "idle", op |-> "create", id |-> None, answer |-> "none"]]

Reply(c, answer) == call' = [call EXCEPT ![c].state = "idle", ![c].answer = answer]

\* A client asks for a new session, or for one that has been opened.
Ask(c, o, i) ==
    /\ call[c].state = "idle"
    /\ (o = "create") <=> (phase[i] = "absent")
    /\ call' = [call EXCEPT ![c] = [state |-> "asked", op |-> o, id |-> i,
                                    answer |-> "none"]]
    /\ UNCHANGED phase

Open(c) ==
    /\ call[c].state = "asked" /\ call[c].op = "create"
    /\ phase[call[c].id] = "absent"
    /\ phase' = [phase EXCEPT ![call[c].id] = "live"]
    /\ Reply(c, "ok")

\* The session is there; a delete takes it away in the same instant.
Find(c) ==
    /\ call[c].state = "asked" /\ call[c].op # "create"
    /\ phase[call[c].id] = "live"
    /\ call' = [call EXCEPT ![c].state = "found"]
    /\ phase' = IF call[c].op = "delete"
                THEN [phase EXCEPT ![call[c].id] = "removed"] ELSE phase

Miss(c) ==
    /\ call[c].state = "asked" /\ call[c].op # "create"
    /\ phase[call[c].id] \in {"removed", "closed"}
    /\ Reply(c, "missing")
    /\ UNCHANGED phase

\* A delete answers when the connection is closed; the other handlers answer,
\* or fail on a connection closed under them.
Answer(c) ==
    /\ call[c].state = "found"
    /\ IF call[c].op = "delete"
       THEN /\ phase[call[c].id] = "removed"
            /\ phase' = [phase EXCEPT ![call[c].id] = "closed"]
            /\ Reply(c, "ok")
       ELSE /\ UNCHANGED phase
            /\ \/ Reply(c, "ok")
               \/ phase[call[c].id] = "closed" /\ Reply(c, "error")

\* The sweep a request runs first may fail, and the request with it.
Fail(c) ==
    /\ call[c].state = "asked" /\ call[c].op # "delete"
    /\ Reply(c, "error")
    /\ UNCHANGED phase

Evict(i) ==
    /\ phase[i] = "live"
    /\ phase' = [phase EXCEPT ![i] = "removed"]
    /\ UNCHANGED call

Close(i) ==
    /\ phase[i] = "removed"
    /\ phase' = [phase EXCEPT ![i] = "closed"]
    /\ UNCHANGED call

Next ==
    \/ \E c \in Clients :
          \/ \E o \in {"create", "messages", "tables", "delete"}, i \in Ids : Ask(c, o, i)
          \/ Open(c) \/ Find(c) \/ Miss(c) \/ Answer(c) \/ Fail(c)
    \/ \E i \in Ids : Evict(i) \/ Close(i)

Spec == Init /\ [][Next]_vars
=============================================================================
