------------------------------ MODULE Frontend ------------------------------
(***************************************************************************)
(* The browser's side of a session (frontend/app/page.tsx, its components  *)
(* FileUpload and ChatPanel, lib/api.ts, lib/storage.ts): tabs of one      *)
(* browser, which share localStorage, and the backend as their requests    *)
(* find it.                                                                *)
(*                                                                         *)
(* A request is served at one instant and its answer is seen by the tab at *)
(* a later one.  It may fail: the backend answers 4xx or 5xx and records   *)
(* nothing, or the answer is lost after the backend has done its part.     *)
(* Between two answers React's state setters run to completion.            *)
(***************************************************************************)
EXTENDS Naturals, Sequences, FiniteSetsExt

CONSTANTS
    Tabs,
    Ids,            \* ids of the sessions the backend will open
    Questions,      \* what users ask, each once
    Files,          \* what they upload, each with a table of its own
    MaxFaults,      \* bound: requests that fail although the session exists
    MaxLoads,       \* bound: times a page is loaded, over all tabs
    None

ASSUME BoundsAssumption == MaxFaults \in Nat /\ MaxLoads \in Nat
ASSUME NoneAssumption == None \notin Ids

VARIABLES
    opened,         \* the backend: sessions opened so far
    live,           \*   those that still exist
    log,            \*   the questions on record in each
    loaded,         \*   the files loaded into each
    stored,         \* localStorage["table-talk:session-id"]
    tab,            \* each tab: where bootstrap is, the page's state, its requests
    faults,         \* requests that have failed so far
    home,           \* history: the session each tab used last
    seen            \* history: the answers and tables each tab has shown

backend == <<opened, live, log, loaded>>
vars == <<opened, live, log, loaded, stored, tab, faults, home, seen>>

Reply == {"none", "ok", "failed"}

\* A message that is not ok is an error put there by the page itself.
Message == [question: Questions, ok: BOOLEAN]

\* id: sessionId, or what bootstrap has of it.  tables, messages: also what the two
\* requests of bootstrap brought, with gotTables, gotMessages saying if they did.
\* A request belongs to the load of the page that sent it.
Tab == [pc: {"closed", "restoring", "creating", "created", "ready", "bootError"},
        id: Ids \cup {None}, gotTables: Reply, gotMessages: Reply,
        tables: SUBSET Files, messages: Seq(Message),
        pending: BOOLEAN, loads: Nat,
        asked: SUBSET [question: Questions, id: Ids, load: Nat, reply: Reply],
        uploads: SUBSET [file: Files, id: Ids, load: Nat, reply: Reply]]

TypeOK ==
    /\ live \subseteq opened /\ opened \subseteq Ids
    /\ log \in [Ids -> Seq(Questions)]
    /\ loaded \in [Ids -> SUBSET Files]
    /\ stored \in Ids \cup {None}
    /\ tab \in [Tabs -> Tab]
    /\ faults \in Nat
    /\ home \in [Tabs -> Ids \cup {None}]
    /\ seen \in [Tabs -> SUBSET (Ids \X (Questions \cup Files))]

Blank == [pc |-> "closed", id |-> None, gotTables |-> "none", gotMessages |-> "none",
          tables |-> {}, messages |-> <<>>, pending |-> FALSE, asked |-> {},
          uploads |-> {}, loads |-> 0]

Init ==
    /\ opened = {} /\ live = {}
    /\ log = [i \in Ids |-> <<>>]
    /\ loaded = [i \in Ids |-> {}]
    /\ stored = None
    /\ tab = [t \in Tabs |-> Blank]
    /\ faults = 0
    /\ home = [t \in Tabs |-> None]
    /\ seen = [t \in Tabs |-> {}]

\* A request fails for no fault of its own.
Fault == faults < MaxFaults /\ faults' = faults + 1


\* localStorage is one for all tabs.
StoreSessionId(i) == stored' = i
ClearStoredSessionId == stored' = None

-----------------------------------------------------------------------------
(* bootstrap                                                               *)

\* The page is loaded, or loaded again: all its state is gone.  A request still on
\* its way will be served, but nobody waits for its answer.
Orphans(reqs) == {a \in reqs : a.reply = "none"}
Load(t) ==
    /\ MapThenSumSet(LAMBDA u : tab[u].loads, Tabs) < MaxLoads
    /\ tab' = [tab EXCEPT ![t] =
                 [Blank EXCEPT !.pc = IF stored = None THEN "creating" ELSE "restoring",
                               !.id = stored, !.loads = tab[t].loads + 1,
                               !.asked = Orphans(tab[t].asked),
                               !.uploads = Orphans(tab[t].uploads)]]
    /\ UNCHANGED <<backend, stored, faults, home, seen>>

\* Promise.all([getTables(storedId), getMessages(storedId)]): two requests, served
\* in any order.  404 if the session is gone.
GetTables(t) ==
    /\ tab[t].pc = "restoring" /\ tab[t].gotTables = "none"
    /\ \/ /\ tab[t].id \in live
          /\ tab' = [tab EXCEPT ![t].gotTables = "ok", ![t].tables = loaded[tab[t].id]]
          /\ UNCHANGED faults
       \/ /\ IF tab[t].id \in live THEN Fault ELSE UNCHANGED faults
          /\ tab' = [tab EXCEPT ![t].gotTables = "failed"]
    /\ UNCHANGED <<backend, stored, home, seen>>

GetMessages(t) ==
    /\ tab[t].pc = "restoring" /\ tab[t].gotMessages = "none"
    /\ \/ /\ tab[t].id \in live
          /\ LET turns == log[tab[t].id] IN
             tab' = [tab EXCEPT ![t].gotMessages = "ok",
                                ![t].messages = [j \in 1 .. Len(turns) |->
                                    [question |-> turns[j], ok |-> TRUE]]]
          /\ UNCHANGED faults
       \/ /\ IF tab[t].id \in live THEN Fault ELSE UNCHANGED faults
          /\ tab' = [tab EXCEPT ![t].gotMessages = "failed"]
    /\ UNCHANGED <<backend, stored, home, seen>>

\* Both answers are there.
Restored(t) ==
    /\ tab[t].pc = "restoring"
    /\ tab[t].gotTables = "ok" /\ tab[t].gotMessages = "ok"
    /\ tab' = [tab EXCEPT ![t].pc = "ready"]
    /\ UNCHANGED <<backend, stored, faults, home, seen>>

\* catch: whichever request failed and however, the stored id is dropped.
RestoreFails(t) ==
    /\ tab[t].pc = "restoring"
    /\ "failed" \in {tab[t].gotTables, tab[t].gotMessages}
    /\ ClearStoredSessionId
    /\ tab' = [tab EXCEPT ![t].pc = "creating", ![t].id = None, ![t].tables = {},
                          ![t].messages = <<>>, ![t].gotTables = "none",
                          ![t].gotMessages = "none"]
    /\ UNCHANGED <<backend, faults, home, seen>>

\* createSession, at the backend; the answer may be lost.
Create(t, i) ==
    /\ tab[t].pc = "creating"
    /\ i \notin opened
    /\ opened' = opened \cup {i}
    /\ live' = live \cup {i}
    /\ \/ tab' = [tab EXCEPT ![t].pc = "created", ![t].id = i] /\ UNCHANGED faults
       \/ tab' = [tab EXCEPT ![t].pc = "bootError"] /\ Fault
    /\ UNCHANGED <<log, loaded, stored, home, seen>>

CreateFails(t) ==
    /\ tab[t].pc = "creating"
    /\ Fault
    /\ tab' = [tab EXCEPT ![t].pc = "bootError"]
    /\ UNCHANGED <<backend, stored, home, seen>>

\* storeSessionId, setSessionId.  The mutant does not store the id.
CreatedOnly(t) ==
    /\ tab[t].pc = "created"
    /\ tab' = [tab EXCEPT ![t].pc = "ready"]
    /\ UNCHANGED <<backend, stored, faults, home, seen>>
Created(t) ==
    /\ tab[t].pc = "created"
    /\ StoreSessionId(tab[t].id)
    /\ tab' = [tab EXCEPT ![t].pc = "ready"]
    /\ UNCHANGED <<backend, faults, home, seen>>

-----------------------------------------------------------------------------
(* handleSend, from handleSubmit of ChatPanel.                             *)

\* The form is disabled while `pending`.  The mutant's is not.
SendAlways(t) == TRUE
CanSend(t) == ~tab[t].pending

\* The chat is on the page once a session is known and has tables.
ChatShown(t) == tab[t].pc = "ready" /\ tab[t].tables # {}
Sendable(t) == ChatShown(t) /\ CanSend(t)

Send(t, q) ==
    /\ Sendable(t)
    /\ \A u \in Tabs, i \in Ids :
          /\ \A a \in tab[u].asked : a.question # q
          /\ \A j \in 1 .. Len(tab[u].messages) : tab[u].messages[j].question # q
          /\ \A j \in 1 .. Len(log[i]) : log[i][j] # q
    /\ tab' = [tab EXCEPT ![t].pending = TRUE,
                          ![t].asked = @ \cup {[question |-> q, id |-> tab[t].id,
                                                load |-> tab[t].loads, reply |-> "none"]}]
    /\ home' = [home EXCEPT ![t] = tab[t].id]
    /\ UNCHANGED <<backend, stored, faults, seen>>

Awaited(t, a) == a.load = tab[t].loads
Replied(a, reply) == [a EXCEPT !.reply = reply]

\* The backend answers and records the turn (its answer may be lost), or fails.
ServeQuestion(t, a) ==
    /\ a \in tab[t].asked /\ a.reply = "none"
    /\ LET i == a.id
           answer(reply) ==
               tab' = [tab EXCEPT ![t].asked = (@ \ {a}) \cup {Replied(a, reply)}]
       IN
       \/ /\ i \in live
          /\ log' = [log EXCEPT ![i] = Append(@, a.question)]
          /\ \/ answer("ok") /\ UNCHANGED faults
             \/ answer("failed") /\ Fault
       \/ /\ IF i \in live THEN Fault ELSE UNCHANGED faults
          /\ answer("failed")
          /\ UNCHANGED log
    /\ UNCHANGED <<opened, live, loaded, stored, home, seen>>

\* The response, or the error in its place, is appended; `pending` ends.
ShowReply(t, a) ==
    /\ a \in tab[t].asked /\ a.reply # "none" /\ Awaited(t, a)
    /\ tab' = [tab EXCEPT ![t].asked = @ \ {a}, ![t].pending = FALSE,
                          ![t].messages = Append(@, [question |-> a.question,
                                                     ok |-> a.reply = "ok"])]
    /\ seen' = [seen EXCEPT ![t] = IF a.reply = "ok"
                                   THEN @ \cup {<<tab[t].id, a.question>>} ELSE @]
    /\ UNCHANGED <<backend, stored, faults, home>>

-----------------------------------------------------------------------------
(* handleFiles of FileUpload, handleUploaded.                              *)

\* The drop zone stays open while another upload is on its way.
Upload(t, f) ==
    /\ tab[t].pc = "ready"
    /\ \A u \in tab[t].uploads : Awaited(t, u) => u.file # f
    /\ tab' = [tab EXCEPT ![t].uploads = @ \cup {[file |-> f, id |-> tab[t].id,
                                                  load |-> tab[t].loads, reply |-> "none"]}]
    /\ home' = [home EXCEPT ![t] = tab[t].id]
    /\ UNCHANGED <<backend, stored, faults, seen>>

ServeUpload(t, u) ==
    /\ u \in tab[t].uploads /\ u.reply = "none"
    /\ LET i == u.id
           answer(reply) ==
               tab' = [tab EXCEPT ![t].uploads = (@ \ {u}) \cup {Replied(u, reply)}]
       IN
       \/ /\ i \in live
          /\ loaded' = [loaded EXCEPT ![i] = @ \cup {u.file}]
          /\ \/ answer("ok") /\ UNCHANGED faults
             \/ answer("failed") /\ Fault
       \/ /\ IF i \in live THEN Fault ELSE UNCHANGED faults
          /\ answer("failed")
          /\ UNCHANGED loaded
    /\ UNCHANGED <<opened, live, log, stored, home, seen>>

\* setTables(prev => prev and the new tables).  The mutant keeps the new ones.
OnlyNew(t, f) == {f}
Merged(t, f) == tab[t].tables \cup {f}

ShowUpload(t, u) ==
    /\ u \in tab[t].uploads /\ u.reply # "none" /\ Awaited(t, u)
    /\ tab' = [tab EXCEPT ![t].uploads = @ \ {u},
                          ![t].tables = IF u.reply = "ok" THEN Merged(t, u.file) ELSE @]
    /\ seen' = [seen EXCEPT ![t] = IF u.reply = "ok"
                                   THEN @ \cup {<<tab[t].id, u.file>>} ELSE @]
    /\ UNCHANGED <<backend, stored, faults, home>>

-----------------------------------------------------------------------------

\* A session expires at the backend.
Expire(i) ==
    /\ i \in live
    /\ live' = live \ {i}
    /\ UNCHANGED <<opened, log, loaded, stored, tab, faults, home, seen>>

Idle(t) ==
    /\ tab[t].pc \in {"closed", "ready", "bootError"}
    /\ \A a \in tab[t].asked \cup tab[t].uploads : ~Awaited(t, a) /\ a.reply # "none"

Stopped ==
    /\ \A t \in Tabs : Idle(t)
    /\ UNCHANGED vars

\* What happens to a tab's requests without a user.
Runs(t) ==
    \/ GetTables(t) \/ GetMessages(t) \/ Restored(t) \/ RestoreFails(t)
    \/ \E i \in Ids : Create(t, i)
    \/ CreateFails(t) \/ Created(t)
    \/ \E a \in tab[t].asked : ServeQuestion(t, a) \/ ShowReply(t, a)
    \/ \E u \in tab[t].uploads : ServeUpload(t, u) \/ ShowUpload(t, u)

Next ==
    \/ \E t \in Tabs :
          \/ Load(t) \/ Runs(t)
          \/ \E q \in Questions : Send(t, q)
          \/ \E f \in Files : Upload(t, f)
    \/ \E i \in Ids : Expire(i)
    \/ Stopped

Spec == Init /\ [][Next]_vars

-----------------------------------------------------------------------------
(* Safety.                                                                 *)

\* The chat of a tab agrees with the conversation on record: its answers are
\* there, each once, and in the same order, also when two tabs share a session.
Place(i, q) == {j \in 1 .. Len(log[i]) : log[i][j] = q}
ChatFollowsLog ==
    \A t \in Tabs : tab[t].pc = "ready" =>
        LET m == tab[t].messages IN
        /\ \A j \in 1 .. Len(m) : m[j].ok =>
              Cardinality(Place(tab[t].id, m[j].question)) = 1
        /\ \A j, k \in 1 .. Len(m) : j < k /\ m[j].ok /\ m[k].ok =>
              \A p \in Place(tab[t].id, m[j].question) :
                  \A r \in Place(tab[t].id, m[k].question) : p < r

\* What a tab has shown of a session it still shows, after other uploads have
\* been answered in any order and after a refresh.
NothingForgotten ==
    \A t \in Tabs : tab[t].pc = "ready" =>
        \A s \in seen[t] : s[1] = tab[t].id =>
            \/ s[2] \in tab[t].tables
            \/ \E j \in 1 .. Len(tab[t].messages) : tab[t].messages[j].question = s[2]

\* "persisted in localStorage across refreshes": a tab changes its session only if
\* the session is gone, a request has failed, or another tab has been open, which
\* may have stored a session of its own.
OnlyFailuresMoveOn ==
    \A t \in Tabs :
        /\ faults = 0
        /\ \A u \in Tabs \ {t} : tab[u].loads = 0
        /\ tab[t].pc = "ready" /\ home[t] # None /\ home[t] # tab[t].id
        => home[t] \notin live

=============================================================================
