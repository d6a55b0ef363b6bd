-------------------------- MODULE ConversationLog --------------------------
(***************************************************************************)
(* What the chat endpoint promises of a session's conversation, whatever   *)
(* the model, the database and the other questions do: an append-only log, *)
(* to which a question adds its one turn in the instant its answer is      *)
(* settled, or none if it fails.  QueryEngine implements this module.      *)
(***************************************************************************)
EXTENDS Sequences

CONSTANT Questions

VARIABLES
    log,        \* the turns: question and outcome, in the order recorded
    status      \* of each question: asked, answered, failed

vars == <<log, status>>

Init ==
    /\ log = <<>>
    /\ status = [q \in Questions |-> "asked"]

Answer(q, outcome) ==
    /\ status[q] = "asked"
    /\ status' = [status EXCEPT ![q] = "answered"]
    /\ log' = Append(log, [question |-> q, outcome |-> outcome])

\* The model is down, its reply unreadable, or the session gone.
Fail(q) ==
    /\ status[q] = "asked"
    /\ status' = [status EXCEPT ![q] = "failed"]
    /\ UNCHANGED log

Next ==
    \E q \in Questions : Fail(q) \/ \E outcome \in {"answered", "error"} : Answer(q, outcome)

Spec == Init /\ [][Next]_vars
=============================================================================
