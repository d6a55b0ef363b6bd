--------------------------- MODULE FrontendProofs ---------------------------
(***************************************************************************)
(* Proofs about Frontend for any number of tabs, sessions, questions,      *)
(* files, faults and page loads.                                           *)
(*                                                                         *)
(* What a tab has shown is on record at the backend (Backed), where        *)
(* nothing is taken away; a restore asks for the tables and for the turns  *)
(* at two moments, and whatever the first answer misses the second brings  *)
(* (Kept).  A tab awaits only requests of its present load, hence of its   *)
(* present session (Requests).                                             *)
(*                                                                         *)
(* A tab awaits one answer at a time, so the answer awaited comes after    *)
(* all that the chat shows, in the log as on the page (Ordered).           *)
(*                                                                         *)
(* While the input is disabled an answer of the present load is on its     *)
(* way (Inputs).                                                           *)
(*                                                                         *)
(* While a tab is alone and nothing fails, what localStorage holds is the  *)
(* session it is on, and it leaves that session only when a restore finds  *)
(* it gone (Home).                                                         *)
(***************************************************************************)
EXTENDS Frontend, SequenceTheorems, FiniteSetTheorems, TLAPS

USE BoundsAssumption, NoneAssumption

Asked(i) == {log[i][j] : j \in 1 .. Len(log[i])}
Chat(t) == {tab[t].messages[j].question : j \in 1 .. Len(tab[t].messages)}

\* Sessions that are stored or held by a tab have been opened.
Sessions ==
    /\ stored \in opened \cup {None}
    /\ \A t \in Tabs :
          tab[t].pc \in {"restoring", "created", "ready"} => tab[t].id \in opened

\* A tab awaits only what it has asked since it was loaded, and so of the session it
\* is on; a reply that is ok has left its trace at the backend.
Requests(t) ==
    /\ \A a \in tab[t].asked :
          /\ a.load <= tab[t].loads
          /\ Awaited(t, a) => tab[t].pc = "ready" /\ a.id = tab[t].id
          /\ a.reply = "ok" => a.question \in Asked(a.id)
    /\ \A u \in tab[t].uploads :
          /\ u.load <= tab[t].loads
          /\ Awaited(t, u) => tab[t].pc = "ready" /\ u.id = tab[t].id
          /\ u.reply = "ok" => u.file \in loaded[u.id]

\* What a tab has shown is on record.
Backed(t) ==
    \A s \in seen[t] : s[1] \in opened /\ s[2] \in loaded[s[1]] \cup Asked(s[1])

\* It is on the page, or will be once both answers of the restore are there.
Kept(t) ==
    \A s \in seen[t] : s[1] = tab[t].id =>
        /\ tab[t].pc = "ready" => s[2] \in tab[t].tables \cup Chat(t)
        /\ tab[t].pc = "restoring" =>
              \/ s[2] \in IF tab[t].gotTables = "ok" THEN tab[t].tables
                          ELSE loaded[tab[t].id]
              \/ s[2] \in IF tab[t].gotMessages = "ok" THEN Chat(t)
                          ELSE Asked(tab[t].id)
        /\ tab[t].pc # "created"

IInv ==
    /\ TypeOK /\ Sessions
    /\ \A t \in Tabs : Requests(t) /\ Backed(t) /\ Kept(t)

\* A question is put once at a time, and is not on record before it is answered.
Once ==
    /\ \A i \in Ids : \A j, k \in 1 .. Len(log[i]) : log[i][j] = log[i][k] => j = k
    /\ \A t, u \in Tabs : \A a \in tab[t].asked, b \in tab[u].asked :
          a.question = b.question => t = u /\ a = b
    /\ \A t \in Tabs : \A a \in tab[t].asked : a.reply = "none" =>
          \A i \in Ids : a.question \notin Asked(i)

\* The chat is in the order of the log, and the answer awaited will be its last.
Ordered(t) ==
    LET m == tab[t].messages
        i == tab[t].id
    IN
    /\ \A j \in 1 .. Len(m) : m[j].ok => i \in Ids /\ m[j].question \in Asked(i)
    /\ \A j, k \in 1 .. Len(m) : j < k /\ m[j].ok /\ m[k].ok =>
          \A p \in Place(i, m[j].question), r \in Place(i, m[k].question) : p < r
    /\ \A a \in tab[t].asked : Awaited(t, a) =>
          /\ tab[t].pending
          /\ \A b \in tab[t].asked : Awaited(t, b) => a = b
          /\ a.reply = "ok" => \A j \in 1 .. Len(m) : m[j].ok =>
                \A p \in Place(i, m[j].question), r \in Place(i, a.question) : p < r
    /\ tab[t].pc \in {"creating", "closed", "bootError"} => m = <<>>

ChatInv == Once /\ \A t \in Tabs : Ordered(t)

\* Nothing has failed, and no other tab has been open.
Alone(t) == faults = 0 /\ \A u \in Tabs \ {t} : tab[u].loads = 0

Home(t) ==
    /\ home[t] \in opened \cup {None}
    /\ tab[t].loads = 0 => tab[t].pc = "closed"
    /\ Alone(t) =>
          /\ tab[t].pc \in {"restoring", "ready"} => stored = tab[t].id
          /\ tab[t].pc = "restoring" /\ tab[t].id \in live =>
                tab[t].gotTables # "failed" /\ tab[t].gotMessages # "failed"
          /\ home[t] \in live =>
                tab[t].pc \in {"restoring", "ready"} /\ tab[t].id = home[t]

Homes == \A t \in Tabs : Home(t)

Request == [question: Questions, id: Ids, load: Nat, reply: Reply]
UploadRequest == [file: Files, id: Ids, load: Nat, reply: Reply]

\* The backend keeps what it has.
Grows ==
    /\ opened \subseteq opened'
    /\ \A i \in Ids : loaded[i] \subseteq loaded'[i] /\ Asked(i) \subseteq Asked(i)'

-----------------------------------------------------------------------------
(* Facts used at every step.                                               *)

LEMMA TabFields ==
    ASSUME TypeOK, NEW t \in Tabs
    PROVE  tab[t] \in Tab
BY DEF TypeOK

\* One tab changes, to another value of its type.
LEMMA TabStep ==
    ASSUME TypeOK, NEW t \in Tabs, NEW r \in Tab, tab' = [tab EXCEPT ![t] = r]
    PROVE  /\ tab' \in [Tabs -> Tab]
           /\ tab'[t] = r
           /\ \A u \in Tabs \ {t} : tab'[u] = tab[u]
BY DEF TypeOK

\* A tab that does not move stays sound while the backend grows.
LEMMA FrameTab ==
    ASSUME IInv, Grows, NEW u \in Tabs, tab'[u] = tab[u], seen'[u] = seen[u]
    PROVE  Requests(u)' /\ Backed(u)' /\ Kept(u)'
<1>1. TypeOK /\ Requests(u) /\ Backed(u) /\ Kept(u) /\ Sessions
  BY DEF IInv
<1>2. tab[u] \in Tab /\ opened \subseteq Ids
  BY <1>1 DEF TypeOK
<1>3. Requests(u)'
  BY <1>1, <1>2 DEF Requests, Grows, Awaited, Tab
<1>4. Backed(u)'
  BY <1>1, <1>2 DEF Backed, Grows
<1>5. Chat(u)' = Chat(u)
  BY DEF Chat
<1>6. Kept(u)'
  BY <1>1, <1>2, <1>5 DEF Kept, Grows, Sessions, TypeOK
<1> QED
  BY <1>3, <1>4, <1>6

-----------------------------------------------------------------------------
(* What each step does to its tab.                                         *)

Turns(i) == [j \in 1 .. Len(log[i]) |-> [question |-> log[i][j], ok |-> TRUE]]
Asks(t, q) == [question |-> q, id |-> tab[t].id, load |-> tab[t].loads, reply |-> "none"]
Sends(t, f) == [file |-> f, id |-> tab[t].id, load |-> tab[t].loads, reply |-> "none"]
Shown(a) == [question |-> a.question, ok |-> a.reply = "ok"]

\* Only tab t moves.
Moves(t) == /\ tab' \in [Tabs -> Tab]
            /\ \A u \in Tabs \ {t} : tab'[u] = tab[u]

\* A page loaded anew: of its requests only those on their way are left.
LEMMA LoadEffect ==
    ASSUME TypeOK, Sessions, NEW t \in Tabs, Load(t)
    PROVE  /\ Moves(t)
           /\ tab'[t].pc = (IF stored = None THEN "creating" ELSE "restoring")
           /\ tab'[t].id = stored
           /\ tab'[t].gotTables = "none"
           /\ tab'[t].gotMessages = "none"
           /\ tab'[t].tables = {}
           /\ tab'[t].messages = <<>>
           /\ tab'[t].pending = FALSE
           /\ tab'[t].asked = Orphans(tab[t].asked)
           /\ tab'[t].uploads = Orphans(tab[t].uploads)
           /\ tab'[t].loads = tab[t].loads + 1
<1>1. tab[t] \in Tab
  BY TabFields
<1> DEFINE R0 == [Blank EXCEPT !.pc = IF stored = None THEN "creating" ELSE "restoring",
                   !.id = stored,
                   !.asked = Orphans(tab[t].asked),
                   !.uploads = Orphans(tab[t].uploads),
                   !.loads = tab[t].loads + 1]
<1>2. Orphans(tab[t].asked) \subseteq tab[t].asked /\ Orphans(tab[t].uploads) \subseteq tab[t].uploads
  BY DEF Orphans
<1>3a. R0 \in Tab
  <2>1. <<>> \in Seq(Message)
    OBVIOUS
  <2>2. Blank \in Tab
    BY <2>1 DEF Blank, Tab, Reply
  <2>3. /\ Orphans(tab[t].asked) \in SUBSET Request
        /\ Orphans(tab[t].uploads) \in SUBSET UploadRequest
        /\ tab[t].loads + 1 \in Nat
    BY <1>1, <1>2 DEF Tab, Request, UploadRequest
  <2> QED
    BY <2>2, <2>3 DEF Tab, Request, UploadRequest, TypeOK
<1>3b. tab' = [tab EXCEPT ![t] = R0]
  BY DEF Load
<1>3. R0 \in Tab /\ tab' = [tab EXCEPT ![t] = R0]
  BY <1>3a, <1>3b
<1>4. /\ R0.pc = (IF stored = None THEN "creating" ELSE "restoring")
      /\ R0.id = stored
      /\ R0.gotTables = "none"
      /\ R0.gotMessages = "none"
      /\ R0.tables = {}
      /\ R0.messages = <<>>
      /\ R0.pending = FALSE
      /\ R0.asked = Orphans(tab[t].asked)
      /\ R0.uploads = Orphans(tab[t].uploads)
      /\ R0.loads = tab[t].loads + 1
  BY <1>1 DEF Tab, Blank
<1> HIDE DEF R0
<1> QED
  BY <1>3, <1>4, TabStep DEF Moves

\* The tables of a restore come, or do not.
LEMMA GetTablesEffect ==
    ASSUME TypeOK, Sessions, NEW t \in Tabs, GetTables(t)
    PROVE  /\ Moves(t)
           /\ tab'[t].pc = tab[t].pc /\ tab'[t].id = tab[t].id
           /\ tab'[t].gotMessages = tab[t].gotMessages /\ tab'[t].messages = tab[t].messages
           /\ tab'[t].pending = tab[t].pending /\ tab'[t].asked = tab[t].asked
           /\ tab'[t].uploads = tab[t].uploads /\ tab'[t].loads = tab[t].loads
           /\ \/ /\ tab[t].id \in live
                 /\ tab'[t].gotTables = "ok"
                 /\ tab'[t].tables = loaded[tab[t].id]
              \/ /\ tab'[t].gotTables = "failed"
                 /\ tab'[t].tables = tab[t].tables
<1>1. tab[t] \in Tab
  BY TabFields
<1> DEFINE R0 == [tab[t] EXCEPT !.gotTables = "ok",
                   !.tables = loaded[tab[t].id]]
<1> DEFINE R1 == [tab[t] EXCEPT !.gotTables = "failed"]
<1>3. \/ tab[t].id \in live /\ R0 \in Tab /\ tab' = [tab EXCEPT ![t] = R0]
      \/ R1 \in Tab /\ tab' = [tab EXCEPT ![t] = R1]
  BY <1>1 DEF GetTables, Tab, TypeOK, Sessions, Reply, Request, UploadRequest
<1>4. /\ R0.pc = tab[t].pc
      /\ R0.id = tab[t].id
      /\ R0.gotTables = "ok"
      /\ R0.gotMessages = tab[t].gotMessages
      /\ R0.tables = loaded[tab[t].id]
      /\ R0.messages = tab[t].messages
      /\ R0.pending = tab[t].pending
      /\ R0.asked = tab[t].asked
      /\ R0.uploads = tab[t].uploads
      /\ R0.loads = tab[t].loads
      /\ R1.pc = tab[t].pc
      /\ R1.id = tab[t].id
      /\ R1.gotTables = "failed"
      /\ R1.gotMessages = tab[t].gotMessages
      /\ R1.tables = tab[t].tables
      /\ R1.messages = tab[t].messages
      /\ R1.pending = tab[t].pending
      /\ R1.asked = tab[t].asked
      /\ R1.uploads = tab[t].uploads
      /\ R1.loads = tab[t].loads
  BY <1>1 DEF Tab
<1> HIDE DEF R0, R1
<1> QED
  BY <1>3, <1>4, TabStep DEF Moves

\* The turns of a restore come, or do not.
LEMMA GetMessagesEffect ==
    ASSUME TypeOK, Sessions, NEW t \in Tabs, GetMessages(t)
    PROVE  /\ Moves(t)
           /\ tab'[t].pc = tab[t].pc /\ tab'[t].id = tab[t].id
           /\ tab'[t].gotTables = tab[t].gotTables /\ tab'[t].tables = tab[t].tables
           /\ tab'[t].pending = tab[t].pending /\ tab'[t].asked = tab[t].asked
           /\ tab'[t].uploads = tab[t].uploads /\ tab'[t].loads = tab[t].loads
           /\ \/ /\ tab[t].id \in live
                 /\ tab'[t].gotMessages = "ok"
                 /\ tab'[t].messages = Turns(tab[t].id)
              \/ /\ tab'[t].gotMessages = "failed"
                 /\ tab'[t].messages = tab[t].messages
<1>1. tab[t] \in Tab
  BY TabFields
<1> DEFINE R0 == [tab[t] EXCEPT !.gotMessages = "ok",
                   !.messages = Turns(tab[t].id)]
<1> DEFINE R1 == [tab[t] EXCEPT !.gotMessages = "failed"]
<1>2. tab[t].id \in live => Turns(tab[t].id) \in Seq(Message)
  <2> SUFFICES ASSUME tab[t].id \in live PROVE Turns(tab[t].id) \in Seq(Message)
    OBVIOUS
  <2> DEFINE i == tab[t].id
  <2>1. log[i] \in Seq(Questions) /\ Len(log[i]) \in Nat
    BY LenProperties DEF TypeOK
  <2> HIDE DEF i
  <2>2. \A j \in 1 .. Len(log[i]) : log[i][j] \in Questions
    BY <2>1, ElementOfSeq
  <2>3. Turns(i) \in [1 .. Len(log[i]) -> Message]
    BY <2>2 DEF Turns, Message
  <2> QED
    BY <2>1, <2>3, IsASeq DEF i
<1>3. \/ tab[t].id \in live /\ R0 \in Tab /\ tab' = [tab EXCEPT ![t] = R0]
      \/ R1 \in Tab /\ tab' = [tab EXCEPT ![t] = R1]
  BY <1>1, <1>2 DEF GetMessages, Tab, TypeOK, Sessions, Reply, Request, UploadRequest, Turns
<1>4. /\ R0.pc = tab[t].pc
      /\ R0.id = tab[t].id
      /\ R0.gotTables = tab[t].gotTables
      /\ R0.gotMessages = "ok"
      /\ R0.tables = tab[t].tables
      /\ R0.messages = Turns(tab[t].id)
      /\ R0.pending = tab[t].pending
      /\ R0.asked = tab[t].asked
      /\ R0.uploads = tab[t].uploads
      /\ R0.loads = tab[t].loads
      /\ R1.pc = tab[t].pc
      /\ R1.id = tab[t].id
      /\ R1.gotTables = tab[t].gotTables
      /\ R1.gotMessages = "failed"
      /\ R1.tables = tab[t].tables
      /\ R1.messages = tab[t].messages
      /\ R1.pending = tab[t].pending
      /\ R1.asked = tab[t].asked
      /\ R1.uploads = tab[t].uploads
      /\ R1.loads = tab[t].loads
  BY <1>1 DEF Tab
<1> HIDE DEF R0, R1
<1> QED
  BY <1>3, <1>4, TabStep DEF Moves

\* Both have come.
LEMMA RestoredEffect ==
    ASSUME TypeOK, Sessions, NEW t \in Tabs, Restored(t)
    PROVE  /\ Moves(t)
           /\ tab'[t].id = tab[t].id /\ tab'[t].gotTables = tab[t].gotTables
           /\ tab'[t].gotMessages = tab[t].gotMessages /\ tab'[t].tables = tab[t].tables
           /\ tab'[t].messages = tab[t].messages /\ tab'[t].pending = tab[t].pending
           /\ tab'[t].asked = tab[t].asked /\ tab'[t].uploads = tab[t].uploads
           /\ tab'[t].loads = tab[t].loads
           /\ tab'[t].pc = "ready"
<1>1. tab[t] \in Tab
  BY TabFields
<1> DEFINE R0 == [tab[t] EXCEPT !.pc = "ready"]
<1>3. R0 \in Tab /\ tab' = [tab EXCEPT ![t] = R0]
  BY <1>1 DEF Restored, Tab, TypeOK, Sessions, Reply, Request, UploadRequest
<1>4. /\ R0.pc = "ready"
      /\ R0.id = tab[t].id
      /\ R0.gotTables = tab[t].gotTables
      /\ R0.gotMessages = tab[t].gotMessages
      /\ R0.tables = tab[t].tables
      /\ R0.messages = tab[t].messages
      /\ R0.pending = tab[t].pending
      /\ R0.asked = tab[t].asked
      /\ R0.uploads = tab[t].uploads
      /\ R0.loads = tab[t].loads
  BY <1>1 DEF Tab
<1> HIDE DEF R0
<1> QED
  BY <1>3, <1>4, TabStep DEF Moves

\* One has not.
LEMMA RestoreFailsEffect ==
    ASSUME TypeOK, Sessions, NEW t \in Tabs, RestoreFails(t)
    PROVE  /\ Moves(t)
           /\ tab'[t].pending = tab[t].pending /\ tab'[t].asked = tab[t].asked
           /\ tab'[t].uploads = tab[t].uploads /\ tab'[t].loads = tab[t].loads
           /\ tab'[t].pc = "creating"
           /\ tab'[t].id = None
           /\ tab'[t].gotTables = "none"
           /\ tab'[t].gotMessages = "none"
           /\ tab'[t].tables = {}
           /\ tab'[t].messages = <<>>
<1>1. tab[t] \in Tab
  BY TabFields
<1> DEFINE R0 == [tab[t] EXCEPT !.pc = "creating",
                   !.id = None,
                   !.tables = {},
                   !.messages = <<>>,
                   !.gotTables = "none",
                   !.gotMessages = "none"]
<1>3. R0 \in Tab /\ tab' = [tab EXCEPT ![t] = R0]
  BY <1>1 DEF RestoreFails, Tab, TypeOK, Sessions, Reply, Request, UploadRequest
<1>4. /\ R0.pc = "creating"
      /\ R0.id = None
      /\ R0.gotTables = "none"
      /\ R0.gotMessages = "none"
      /\ R0.tables = {}
      /\ R0.messages = <<>>
      /\ R0.pending = tab[t].pending
      /\ R0.asked = tab[t].asked
      /\ R0.uploads = tab[t].uploads
      /\ R0.loads = tab[t].loads
  BY <1>1 DEF Tab
<1> HIDE DEF R0
<1> QED
  BY <1>3, <1>4, TabStep DEF Moves

\* A session is created, and its tab hears of it or not.
LEMMA CreateEffect ==
    ASSUME TypeOK, Sessions, NEW t \in Tabs, NEW i \in Ids, Create(t, i)
    PROVE  /\ Moves(t)
           /\ tab'[t].gotTables = tab[t].gotTables /\ tab'[t].gotMessages = tab[t].gotMessages
           /\ tab'[t].tables = tab[t].tables /\ tab'[t].messages = tab[t].messages
           /\ tab'[t].pending = tab[t].pending /\ tab'[t].asked = tab[t].asked
           /\ tab'[t].uploads = tab[t].uploads /\ tab'[t].loads = tab[t].loads
           /\ \/ /\ tab'[t].pc = "created"
                 /\ tab'[t].id = i
              \/ /\ tab'[t].pc = "bootError"
                 /\ tab'[t].id = tab[t].id
<1>1. tab[t] \in Tab
  BY TabFields
<1> DEFINE R0 == [tab[t] EXCEPT !.pc = "created",
                   !.id = i]
<1> DEFINE R1 == [tab[t] EXCEPT !.pc = "bootError"]
<1>3. \/ R0 \in Tab /\ tab' = [tab EXCEPT ![t] = R0]
      \/ R1 \in Tab /\ tab' = [tab EXCEPT ![t] = R1]
  BY <1>1 DEF Create, Tab, TypeOK, Sessions, Reply, Request, UploadRequest
<1>4. /\ R0.pc = "created"
      /\ R0.id = i
      /\ R0.gotTables = tab[t].gotTables
      /\ R0.gotMessages = tab[t].gotMessages
      /\ R0.tables = tab[t].tables
      /\ R0.messages = tab[t].messages
      /\ R0.pending = tab[t].pending
      /\ R0.asked = tab[t].asked
      /\ R0.uploads = tab[t].uploads
      /\ R0.loads = tab[t].loads
      /\ R1.pc = "bootError"
      /\ R1.id = tab[t].id
      /\ R1.gotTables = tab[t].gotTables
      /\ R1.gotMessages = tab[t].gotMessages
      /\ R1.tables = tab[t].tables
      /\ R1.messages = tab[t].messages
      /\ R1.pending = tab[t].pending
      /\ R1.asked = tab[t].asked
      /\ R1.uploads = tab[t].uploads
      /\ R1.loads = tab[t].loads
  BY <1>1 DEF Tab
<1> HIDE DEF R0, R1
<1> QED
  BY <1>3, <1>4, TabStep DEF Moves

\* It is not created.
LEMMA CreateFailsEffect ==
    ASSUME TypeOK, Sessions, NEW t \in Tabs, CreateFails(t)
    PROVE  /\ Moves(t)
           /\ tab'[t].id = tab[t].id /\ tab'[t].gotTables = tab[t].gotTables
           /\ tab'[t].gotMessages = tab[t].gotMessages /\ tab'[t].tables = tab[t].tables
           /\ tab'[t].messages = tab[t].messages /\ tab'[t].pending = tab[t].pending
           /\ tab'[t].asked = tab[t].asked /\ tab'[t].uploads = tab[t].uploads
           /\ tab'[t].loads = tab[t].loads
           /\ tab'[t].pc = "bootError"
<1>1. tab[t] \in Tab
  BY TabFields
<1> DEFINE R0 == [tab[t] EXCEPT !.pc = "bootError"]
<1>3. R0 \in Tab /\ tab' = [tab EXCEPT ![t] = R0]
  BY <1>1 DEF CreateFails, Tab, TypeOK, Sessions, Reply, Request, UploadRequest
<1>4. /\ R0.pc = "bootError"
      /\ R0.id = tab[t].id
      /\ R0.gotTables = tab[t].gotTables
      /\ R0.gotMessages = tab[t].gotMessages
      /\ R0.tables = tab[t].tables
      /\ R0.messages = tab[t].messages
      /\ R0.pending = tab[t].pending
      /\ R0.asked = tab[t].asked
      /\ R0.uploads = tab[t].uploads
      /\ R0.loads = tab[t].loads
  BY <1>1 DEF Tab
<1> HIDE DEF R0
<1> QED
  BY <1>3, <1>4, TabStep DEF Moves

\* Its id is stored.
LEMMA CreatedEffect ==
    ASSUME TypeOK, Sessions, NEW t \in Tabs, Created(t)
    PROVE  /\ Moves(t)
           /\ tab'[t].id = tab[t].id /\ tab'[t].gotTables = tab[t].gotTables
           /\ tab'[t].gotMessages = tab[t].gotMessages /\ tab'[t].tables = tab[t].tables
           /\ tab'[t].messages = tab[t].messages /\ tab'[t].pending = tab[t].pending
           /\ tab'[t].asked = tab[t].asked /\ tab'[t].uploads = tab[t].uploads
           /\ tab'[t].loads = tab[t].loads
           /\ tab'[t].pc = "ready"
<1>1. tab[t] \in Tab
  BY TabFields
<1> DEFINE R0 == [tab[t] EXCEPT !.pc = "ready"]
<1>3. R0 \in Tab /\ tab' = [tab EXCEPT ![t] = R0]
  BY <1>1 DEF Created, Tab, TypeOK, Sessions, Reply, Request, UploadRequest
<1>4. /\ R0.pc = "ready"
      /\ R0.id = tab[t].id
      /\ R0.gotTables = tab[t].gotTables
      /\ R0.gotMessages = tab[t].gotMessages
      /\ R0.tables = tab[t].tables
      /\ R0.messages = tab[t].messages
      /\ R0.pending = tab[t].pending
      /\ R0.asked = tab[t].asked
      /\ R0.uploads = tab[t].uploads
      /\ R0.loads = tab[t].loads
  BY <1>1 DEF Tab
<1> HIDE DEF R0
<1> QED
  BY <1>3, <1>4, TabStep DEF Moves

\* A question is sent.
LEMMA SendEffect ==
    ASSUME TypeOK, Sessions, NEW t \in Tabs, NEW q \in Questions, Send(t, q)
    PROVE  /\ Moves(t)
           /\ tab'[t].pc = tab[t].pc /\ tab'[t].id = tab[t].id
           /\ tab'[t].gotTables = tab[t].gotTables /\ tab'[t].gotMessages = tab[t].gotMessages
           /\ tab'[t].tables = tab[t].tables /\ tab'[t].messages = tab[t].messages
           /\ tab'[t].uploads = tab[t].uploads /\ tab'[t].loads = tab[t].loads
           /\ tab'[t].pending = TRUE
           /\ tab'[t].asked = tab[t].asked \cup {Asks(t, q)}
<1>1. tab[t] \in Tab
  BY TabFields
<1> DEFINE R0 == [tab[t] EXCEPT !.pending = TRUE,
                   !.asked = tab[t].asked \cup {Asks(t, q)}]
<1>2. tab[t].pc = "ready" => Asks(t, q) \in Request
  BY <1>1 DEF Asks, Request, Tab, Reply, Sessions, TypeOK
<1>3. R0 \in Tab /\ tab' = [tab EXCEPT ![t] = R0]
  BY <1>1, <1>2 DEF Send, Sendable, ChatShown, Tab, TypeOK, Sessions, Reply, Request, UploadRequest, Asks
<1>4. /\ R0.pc = tab[t].pc
      /\ R0.id = tab[t].id
      /\ R0.gotTables = tab[t].gotTables
      /\ R0.gotMessages = tab[t].gotMessages
      /\ R0.tables = tab[t].tables
      /\ R0.messages = tab[t].messages
      /\ R0.pending = TRUE
      /\ R0.asked = tab[t].asked \cup {Asks(t, q)}
      /\ R0.uploads = tab[t].uploads
      /\ R0.loads = tab[t].loads
  BY <1>1 DEF Tab
<1> HIDE DEF R0
<1> QED
  BY <1>3, <1>4, TabStep DEF Moves

\* It is answered, or not.
LEMMA ServeQuestionEffect ==
    ASSUME TypeOK, Sessions, NEW t \in Tabs, NEW a, ServeQuestion(t, a)
    PROVE  /\ Moves(t)
           /\ tab'[t].pc = tab[t].pc /\ tab'[t].id = tab[t].id
           /\ tab'[t].gotTables = tab[t].gotTables /\ tab'[t].gotMessages = tab[t].gotMessages
           /\ tab'[t].tables = tab[t].tables /\ tab'[t].messages = tab[t].messages
           /\ tab'[t].pending = tab[t].pending /\ tab'[t].uploads = tab[t].uploads
           /\ tab'[t].loads = tab[t].loads
           /\ \/ /\ tab'[t].asked = (tab[t].asked \ {a}) \cup {Replied(a, "ok")}
              \/ /\ tab'[t].asked = (tab[t].asked \ {a}) \cup {Replied(a, "failed")}
<1>1. tab[t] \in Tab
  BY TabFields
<1> DEFINE R0 == [tab[t] EXCEPT !.asked = (tab[t].asked \ {a}) \cup {Replied(a, "ok")}]
<1> DEFINE R1 == [tab[t] EXCEPT !.asked = (tab[t].asked \ {a}) \cup {Replied(a, "failed")}]
<1>2. a \in tab[t].asked => Replied(a, "ok") \in Request /\ Replied(a, "failed") \in Request
  BY <1>1 DEF Replied, Request, Tab, Reply
<1>3. \/ R0 \in Tab /\ tab' = [tab EXCEPT ![t] = R0]
      \/ R1 \in Tab /\ tab' = [tab EXCEPT ![t] = R1]
  BY <1>1, <1>2 DEF ServeQuestion, Tab, TypeOK, Sessions, Reply, Request, UploadRequest
<1>4. /\ R0.pc = tab[t].pc
      /\ R0.id = tab[t].id
      /\ R0.gotTables = tab[t].gotTables
      /\ R0.gotMessages = tab[t].gotMessages
      /\ R0.tables = tab[t].tables
      /\ R0.messages = tab[t].messages
      /\ R0.pending = tab[t].pending
      /\ R0.asked = (tab[t].asked \ {a}) \cup {Replied(a, "ok")}
      /\ R0.uploads = tab[t].uploads
      /\ R0.loads = tab[t].loads
      /\ R1.pc = tab[t].pc
      /\ R1.id = tab[t].id
      /\ R1.gotTables = tab[t].gotTables
      /\ R1.gotMessages = tab[t].gotMessages
      /\ R1.tables = tab[t].tables
      /\ R1.messages = tab[t].messages
      /\ R1.pending = tab[t].pending
      /\ R1.asked = (tab[t].asked \ {a}) \cup {Replied(a, "failed")}
      /\ R1.uploads = tab[t].uploads
      /\ R1.loads = tab[t].loads
  BY <1>1 DEF Tab
<1> HIDE DEF R0, R1
<1> QED
  BY <1>3, <1>4, TabStep DEF Moves

\* Its reply is shown.
LEMMA ShowReplyEffect ==
    ASSUME TypeOK, Sessions, NEW t \in Tabs, NEW a, ShowReply(t, a)
    PROVE  /\ Moves(t)
           /\ tab'[t].pc = tab[t].pc /\ tab'[t].id = tab[t].id
           /\ tab'[t].gotTables = tab[t].gotTables /\ tab'[t].gotMessages = tab[t].gotMessages
           /\ tab'[t].tables = tab[t].tables /\ tab'[t].uploads = tab[t].uploads
           /\ tab'[t].loads = tab[t].loads
           /\ tab'[t].messages = Append(tab[t].messages, Shown(a))
           /\ tab'[t].pending = FALSE
           /\ tab'[t].asked = tab[t].asked \ {a}
<1>1. tab[t] \in Tab
  BY TabFields
<1> DEFINE R0 == [tab[t] EXCEPT !.asked = tab[t].asked \ {a},
                   !.pending = FALSE,
                   !.messages = Append(tab[t].messages, Shown(a))]
<1>2. a \in tab[t].asked => Shown(a) \in Message
  BY <1>1 DEF Shown, Message, Tab
<1>3a. R0 \in Tab
  <2>1. a \in tab[t].asked /\ tab[t].asked \ {a} \subseteq tab[t].asked
    BY DEF ShowReply
  <2>2. Append(tab[t].messages, Shown(a)) \in Seq(Message)
    BY <1>1, <1>2, <2>1, AppendProperties DEF Tab
  <2> QED
    BY <1>1, <2>1, <2>2 DEF Tab
<1>3b. tab' = [tab EXCEPT ![t] = R0]
  BY <1>1 DEF ShowReply, Shown, Tab, TypeOK
<1>3. R0 \in Tab /\ tab' = [tab EXCEPT ![t] = R0]
  BY <1>3a, <1>3b
<1>4. /\ R0.pc = tab[t].pc
      /\ R0.id = tab[t].id
      /\ R0.gotTables = tab[t].gotTables
      /\ R0.gotMessages = tab[t].gotMessages
      /\ R0.tables = tab[t].tables
      /\ R0.messages = Append(tab[t].messages, Shown(a))
      /\ R0.pending = FALSE
      /\ R0.asked = tab[t].asked \ {a}
      /\ R0.uploads = tab[t].uploads
      /\ R0.loads = tab[t].loads
  BY <1>1 DEF Tab
<1> HIDE DEF R0
<1> QED
  BY <1>3, <1>4, TabStep DEF Moves

\* A file is sent.
LEMMA UploadEffect ==
    ASSUME TypeOK, Sessions, NEW t \in Tabs, NEW f \in Files, Upload(t, f)
    PROVE  /\ Moves(t)
           /\ tab'[t].pc = tab[t].pc /\ tab'[t].id = tab[t].id
           /\ tab'[t].gotTables = tab[t].gotTables /\ tab'[t].gotMessages = tab[t].gotMessages
           /\ tab'[t].tables = tab[t].tables /\ tab'[t].messages = tab[t].messages
           /\ tab'[t].pending = tab[t].pending /\ tab'[t].asked = tab[t].asked
           /\ tab'[t].loads = tab[t].loads
           /\ tab'[t].uploads = tab[t].uploads \cup {Sends(t, f)}
<1>1. tab[t] \in Tab
  BY TabFields
<1> DEFINE R0 == [tab[t] EXCEPT !.uploads = tab[t].uploads \cup {Sends(t, f)}]
<1>2. tab[t].pc = "ready" => Sends(t, f) \in UploadRequest
  BY <1>1 DEF Sends, UploadRequest, Tab, Reply, Sessions, TypeOK
<1>3. R0 \in Tab /\ tab' = [tab EXCEPT ![t] = R0]
  BY <1>1, <1>2 DEF Upload, Tab, TypeOK, Sessions, Reply, Request, UploadRequest, Sends
<1>4. /\ R0.pc = tab[t].pc
      /\ R0.id = tab[t].id
      /\ R0.gotTables = tab[t].gotTables
      /\ R0.gotMessages = tab[t].gotMessages
      /\ R0.tables = tab[t].tables
      /\ R0.messages = tab[t].messages
      /\ R0.pending = tab[t].pending
      /\ R0.asked = tab[t].asked
      /\ R0.uploads = tab[t].uploads \cup {Sends(t, f)}
      /\ R0.loads = tab[t].loads
  BY <1>1 DEF Tab
<1> HIDE DEF R0
<1> QED
  BY <1>3, <1>4, TabStep DEF Moves

\* It is loaded, or not.
LEMMA ServeUploadEffect ==
    ASSUME TypeOK, Sessions, NEW t \in Tabs, NEW u, ServeUpload(t, u)
    PROVE  /\ Moves(t)
           /\ tab'[t].pc = tab[t].pc /\ tab'[t].id = tab[t].id
           /\ tab'[t].gotTables = tab[t].gotTables /\ tab'[t].gotMessages = tab[t].gotMessages
           /\ tab'[t].tables = tab[t].tables /\ tab'[t].messages = tab[t].messages
           /\ tab'[t].pending = tab[t].pending /\ tab'[t].asked = tab[t].asked
           /\ tab'[t].loads = tab[t].loads
           /\ \/ /\ tab'[t].uploads = (tab[t].uploads \ {u}) \cup {Replied(u, "ok")}
              \/ /\ tab'[t].uploads = (tab[t].uploads \ {u}) \cup {Replied(u, "failed")}
<1>1. tab[t] \in Tab
  BY TabFields
<1> DEFINE R0 == [tab[t] EXCEPT !.uploads = (tab[t].uploads \ {u}) \cup {Replied(u, "ok")}]
<1> DEFINE R1 == [tab[t] EXCEPT !.uploads = (tab[t].uploads \ {u}) \cup {Replied(u, "failed")}]
<1>2. u \in tab[t].uploads => Replied(u, "ok") \in UploadRequest /\ Replied(u, "failed") \in UploadRequest
  BY <1>1 DEF Replied, UploadRequest, Tab, Reply
<1>3. \/ R0 \in Tab /\ tab' = [tab EXCEPT ![t] = R0]
      \/ R1 \in Tab /\ tab' = [tab EXCEPT ![t] = R1]
  BY <1>1, <1>2 DEF ServeUpload, Tab, TypeOK, Sessions, Reply, Request, UploadRequest
<1>4. /\ R0.pc = tab[t].pc
      /\ R0.id = tab[t].id
      /\ R0.gotTables = tab[t].gotTables
      /\ R0.gotMessages = tab[t].gotMessages
      /\ R0.tables = tab[t].tables
      /\ R0.messages = tab[t].messages
      /\ R0.pending = tab[t].pending
      /\ R0.asked = tab[t].asked
      /\ R0.uploads = (tab[t].uploads \ {u}) \cup {Replied(u, "ok")}
      /\ R0.loads = tab[t].loads
      /\ R1.pc = tab[t].pc
      /\ R1.id = tab[t].id
      /\ R1.gotTables = tab[t].gotTables
      /\ R1.gotMessages = tab[t].gotMessages
      /\ R1.tables = tab[t].tables
      /\ R1.messages = tab[t].messages
      /\ R1.pending = tab[t].pending
      /\ R1.asked = tab[t].asked
      /\ R1.uploads = (tab[t].uploads \ {u}) \cup {Replied(u, "failed")}
      /\ R1.loads = tab[t].loads
  BY <1>1 DEF Tab
<1> HIDE DEF R0, R1
<1> QED
  BY <1>3, <1>4, TabStep DEF Moves

\* Its table is listed.
LEMMA ShowUploadEffect ==
    ASSUME TypeOK, Sessions, NEW t \in Tabs, NEW u, ShowUpload(t, u)
    PROVE  /\ Moves(t)
           /\ tab'[t].pc = tab[t].pc /\ tab'[t].id = tab[t].id
           /\ tab'[t].gotTables = tab[t].gotTables /\ tab'[t].gotMessages = tab[t].gotMessages
           /\ tab'[t].messages = tab[t].messages /\ tab'[t].pending = tab[t].pending
           /\ tab'[t].asked = tab[t].asked /\ tab'[t].loads = tab[t].loads
           /\ \/ /\ u.reply = "ok"
                 /\ tab'[t].tables = tab[t].tables \cup {u.file}
                 /\ tab'[t].uploads = tab[t].uploads \ {u}
              \/ /\ u.reply # "ok"
                 /\ tab'[t].tables = tab[t].tables
                 /\ tab'[t].uploads = tab[t].uploads \ {u}
<1>1. tab[t] \in Tab
  BY TabFields
<1> DEFINE R0 == [tab[t] EXCEPT !.uploads = tab[t].uploads \ {u},
                   !.tables = tab[t].tables \cup {u.file}]
<1> DEFINE R1 == [tab[t] EXCEPT !.uploads = tab[t].uploads \ {u}]
<1>2. u \in tab[t].uploads => u.file \in Files
  BY <1>1 DEF Tab
<1>3. \/ u.reply = "ok" /\ R0 \in Tab /\ tab' = [tab EXCEPT ![t] = R0]
      \/ u.reply # "ok" /\ R1 \in Tab /\ tab' = [tab EXCEPT ![t] = R1]
  <2>1. R0 \in Tab /\ R1 \in Tab
    BY <1>1, <1>2 DEF ShowUpload, Tab
  <2>2. CASE u.reply = "ok"
    BY <1>1, <2>1, <2>2 DEF ShowUpload, Merged, Tab, TypeOK
  <2>3. CASE u.reply # "ok"
    BY <1>1, <2>1, <2>3 DEF ShowUpload, Merged, Tab, TypeOK
  <2> QED
    BY <2>2, <2>3
<1>4. /\ R0.pc = tab[t].pc
      /\ R0.id = tab[t].id
      /\ R0.gotTables = tab[t].gotTables
      /\ R0.gotMessages = tab[t].gotMessages
      /\ R0.tables = tab[t].tables \cup {u.file}
      /\ R0.messages = tab[t].messages
      /\ R0.pending = tab[t].pending
      /\ R0.asked = tab[t].asked
      /\ R0.uploads = tab[t].uploads \ {u}
      /\ R0.loads = tab[t].loads
      /\ R1.pc = tab[t].pc
      /\ R1.id = tab[t].id
      /\ R1.gotTables = tab[t].gotTables
      /\ R1.gotMessages = tab[t].gotMessages
      /\ R1.tables = tab[t].tables
      /\ R1.messages = tab[t].messages
      /\ R1.pending = tab[t].pending
      /\ R1.asked = tab[t].asked
      /\ R1.uploads = tab[t].uploads \ {u}
      /\ R1.loads = tab[t].loads
  BY <1>1 DEF Tab
<1> HIDE DEF R0, R1
<1> QED
  BY <1>3, <1>4, TabStep DEF Moves

-----------------------------------------------------------------------------
(* The inductive invariant.                                                *)

\* Tab t moves and the backend grows: only t has to be looked at.
LEMMA OneTab ==
    ASSUME IInv, Grows, NEW t \in Tabs, Moves(t), Requests(t)', Backed(t)', Kept(t)',
           \A u \in Tabs \ {t} : seen'[u] = seen[u]
    PROVE  \A u \in Tabs : Requests(u)' /\ Backed(u)' /\ Kept(u)'
BY FrameTab DEF Moves

LEMMA InitIInv == Init => IInv
<1> SUFFICES ASSUME Init PROVE IInv
  OBVIOUS
<1>1. <<>> \in Seq(Message) /\ <<>> \in Seq(Questions)
  OBVIOUS
<1>2. Blank \in Tab
  BY <1>1 DEF Blank, Tab, Reply
<1> QED
  BY <1>1, <1>2 DEF Init, IInv, TypeOK, Sessions, Requests, Backed, Kept, Blank

\* bootstrap leaves the backend, the requests and what has been seen alone.
LEMMA LoadIInv ==
    ASSUME IInv, NEW t \in Tabs, Load(t)
    PROVE  IInv'
<1>1. TypeOK /\ Sessions /\ Requests(t) /\ Backed(t) /\ tab[t] \in Tab
  BY TabFields DEF IInv
<1>2. /\ UNCHANGED <<opened, live, log, loaded, stored, faults, home, seen>>
  BY DEF Load, backend
<1>2a. /\ Moves(t) /\ tab'[t].id = stored /\ tab'[t].loads = tab[t].loads + 1
       /\ tab'[t].pc = IF stored = None THEN "creating" ELSE "restoring"
       /\ tab'[t].gotTables = "none" /\ tab'[t].gotMessages = "none"
       /\ tab'[t].asked \subseteq tab[t].asked /\ tab'[t].uploads \subseteq tab[t].uploads
  BY <1>1, LoadEffect DEF Orphans
<1>3. Grows
  BY <1>2 DEF Grows, Asked
<1>4. Requests(t)'
  BY <1>1, <1>2, <1>2a DEF Requests, Awaited, Asked, Tab
<1>5. Backed(t)'
  BY <1>1, <1>2 DEF Backed, Asked
<1>6. Kept(t)'
  BY <1>1, <1>2, <1>2a DEF Kept, Backed, Asked
<1>7. Sessions'
  BY <1>1, <1>2, <1>2a DEF Sessions, Moves
<1>8. TypeOK'
  BY <1>1, <1>2, <1>2a DEF TypeOK, Moves
<1> QED
  BY <1>2, <1>2a, <1>3, <1>4, <1>5, <1>6, <1>7, <1>8, OneTab DEF IInv

LEMMA GetTablesIInv ==
    ASSUME IInv, NEW t \in Tabs, GetTables(t)
    PROVE  IInv'
<1>1. /\ TypeOK /\ Sessions /\ Requests(t) /\ Backed(t) /\ Kept(t) /\ tab[t] \in Tab
      /\ tab[t].pc = "restoring" /\ tab[t].gotTables = "none"
  BY TabFields DEF IInv, GetTables
<1>2. /\ UNCHANGED <<opened, live, log, loaded, stored, home, seen>>
      /\ faults' \in Nat
  BY <1>1 DEF GetTables, backend, Fault, TypeOK
<1>2a. Moves(t)
  BY <1>1, GetTablesEffect
<1>3. Grows /\ Chat(t)' = Chat(t)
  BY <1>1, <1>2, GetTablesEffect DEF Grows, Asked, Chat
<1>4. Requests(t)'
  BY <1>1, <1>2, GetTablesEffect DEF Requests, Awaited, Asked
<1>5. Backed(t)'
  BY <1>1, <1>2 DEF Backed, Asked
<1>6. Kept(t)'
  <2>1. /\ tab'[t].pc = "restoring" /\ tab'[t].id = tab[t].id
        /\ tab'[t].gotMessages = tab[t].gotMessages
        /\ \/ tab'[t].gotTables = "ok" /\ tab'[t].tables = loaded[tab[t].id]
           \/ tab'[t].gotTables = "failed"
    BY <1>1, GetTablesEffect
  <2>2. Asked(tab[t].id)' = Asked(tab[t].id) /\ seen' = seen /\ loaded' = loaded
    BY <1>2, <2>1 DEF Asked
  <2> QED
    BY <1>1, <1>3, <2>1, <2>2 DEF Kept
<1>7. Sessions'
  BY <1>1, <1>2, <1>2a, GetTablesEffect DEF Sessions, Moves
<1>8. TypeOK'
  BY <1>1, <1>2, <1>2a DEF TypeOK, Moves
<1> QED
  BY <1>2, <1>2a, <1>3, <1>4, <1>5, <1>6, <1>7, <1>8, OneTab DEF IInv

LEMMA GetMessagesIInv ==
    ASSUME IInv, NEW t \in Tabs, GetMessages(t)
    PROVE  IInv'
<1>1. /\ TypeOK /\ Sessions /\ Requests(t) /\ Backed(t) /\ Kept(t) /\ tab[t] \in Tab
      /\ tab[t].pc = "restoring" /\ tab[t].gotMessages = "none"
  BY TabFields DEF IInv, GetMessages
<1>2. /\ UNCHANGED <<opened, live, log, loaded, stored, home, seen>>
      /\ faults' \in Nat
  BY <1>1 DEF GetMessages, backend, Fault, TypeOK
<1>2a. Moves(t)
  BY <1>1, GetMessagesEffect
<1>3. Grows
  BY <1>2 DEF Grows, Asked
<1>4. tab'[t].gotMessages = "ok" => Asked(tab[t].id) \subseteq Chat(t)'
  <2>1. ASSUME tab'[t].messages = Turns(tab[t].id), tab[t].id \in live
        PROVE  Asked(tab[t].id) \subseteq Chat(t)'
    <3> DEFINE i == tab[t].id
    <3>1. Len(log[i]) \in Nat /\ Turns(i) \in Seq(Message)
      BY <1>1, <2>1, LenProperties, GetMessagesEffect DEF TypeOK, Turns, Message
    <3> QED
      BY <2>1, <3>1 DEF Asked, Chat, Turns
  <2> QED
    BY <1>1, <2>1, GetMessagesEffect
<1>5. Requests(t)'
  BY <1>1, <1>2, GetMessagesEffect DEF Requests, Awaited, Asked
<1>6. Backed(t)'
  BY <1>1, <1>2 DEF Backed, Asked
<1>7. Kept(t)'
  BY <1>1, <1>2, <1>4, GetMessagesEffect DEF Kept, Asked
<1>8. Sessions'
  BY <1>1, <1>2, <1>2a, GetMessagesEffect DEF Sessions, Moves
<1>9. TypeOK'
  BY <1>1, <1>2, <1>2a DEF TypeOK, Moves
<1> QED
  BY <1>2, <1>2a, <1>3, <1>5, <1>6, <1>7, <1>8, <1>9, OneTab DEF IInv

\* Whatever one answer missed the other has brought.
LEMMA RestoredIInv ==
    ASSUME IInv, NEW t \in Tabs, Restored(t)
    PROVE  IInv'
<1>1. /\ TypeOK /\ Sessions /\ Requests(t) /\ Backed(t) /\ Kept(t) /\ tab[t] \in Tab
      /\ tab[t].pc = "restoring" /\ tab[t].gotTables = "ok" /\ tab[t].gotMessages = "ok"
  BY TabFields DEF IInv, Restored
<1>2. /\ UNCHANGED <<opened, live, log, loaded, stored, faults, home, seen>>
  BY DEF Restored, backend
<1>3. /\ Moves(t) /\ tab'[t].pc = "ready" /\ tab'[t].id = tab[t].id
      /\ tab'[t].tables = tab[t].tables /\ tab'[t].messages = tab[t].messages
      /\ tab'[t].asked = tab[t].asked /\ tab'[t].uploads = tab[t].uploads
      /\ tab'[t].loads = tab[t].loads
  BY <1>1, RestoredEffect
<1>4. Grows /\ Chat(t)' = Chat(t)
  BY <1>2, <1>3 DEF Grows, Asked, Chat
<1>5. Requests(t)'
  BY <1>1, <1>2, <1>3 DEF Requests, Awaited, Asked
<1>6. Backed(t)'
  BY <1>1, <1>2 DEF Backed, Asked
<1>7. Kept(t)'
  BY <1>1, <1>2, <1>3, <1>4 DEF Kept
<1>8. Sessions' /\ TypeOK'
  BY <1>1, <1>2, <1>3 DEF Sessions, Moves, TypeOK
<1> QED
  BY <1>2, <1>3, <1>4, <1>5, <1>6, <1>7, <1>8, OneTab DEF IInv

\* A new session is nobody's memory.
LEMMA RestoreFailsIInv ==
    ASSUME IInv, NEW t \in Tabs, RestoreFails(t)
    PROVE  IInv'
<1>1. /\ TypeOK /\ Sessions /\ Requests(t) /\ Backed(t) /\ tab[t] \in Tab
      /\ tab[t].pc = "restoring"
  BY TabFields DEF IInv, RestoreFails
<1>2. /\ UNCHANGED <<opened, live, log, loaded, faults, home, seen>>
      /\ stored' = None
  BY DEF RestoreFails, ClearStoredSessionId, backend
<1>3. /\ Moves(t) /\ tab'[t].pc = "creating"
      /\ tab'[t].asked = tab[t].asked /\ tab'[t].uploads = tab[t].uploads
      /\ tab'[t].loads = tab[t].loads
  BY <1>1, RestoreFailsEffect
<1>4. Grows
  BY <1>2 DEF Grows, Asked
<1>5. Requests(t)'
  BY <1>1, <1>2, <1>3 DEF Requests, Awaited, Asked
<1>6. Backed(t)'
  BY <1>1, <1>2 DEF Backed, Asked
<1>7. Kept(t)'
  BY <1>3 DEF Kept
<1>8. Sessions' /\ TypeOK'
  BY <1>1, <1>2, <1>3 DEF Sessions, Moves, TypeOK
<1> QED
  BY <1>2, <1>3, <1>4, <1>5, <1>6, <1>7, <1>8, OneTab DEF IInv

LEMMA CreateIInv ==
    ASSUME IInv, NEW t \in Tabs, NEW i \in Ids, Create(t, i)
    PROVE  IInv'
<1>1. /\ TypeOK /\ Sessions /\ Requests(t) /\ Backed(t) /\ tab[t] \in Tab
      /\ tab[t].pc = "creating" /\ i \notin opened
  BY TabFields DEF IInv, Create
<1>2. /\ UNCHANGED <<log, loaded, stored, home, seen>>
      /\ opened' = opened \cup {i} /\ live' = live \cup {i}
      /\ faults' \in Nat
  BY <1>1 DEF Create, Fault, TypeOK
<1>3. /\ Moves(t)
      /\ (tab'[t].pc = "created" /\ tab'[t].id = i) \/ tab'[t].pc = "bootError"
      /\ tab'[t].asked = tab[t].asked /\ tab'[t].uploads = tab[t].uploads
      /\ tab'[t].loads = tab[t].loads
  BY <1>1, CreateEffect
<1>4. Grows
  BY <1>2 DEF Grows, Asked
<1>5. Requests(t)'
  BY <1>1, <1>2, <1>3 DEF Requests, Awaited, Asked
<1>6. Backed(t)'
  BY <1>1, <1>2 DEF Backed, Asked
<1>7. Kept(t)'
  BY <1>1, <1>2, <1>3 DEF Kept, Backed
<1>8. Sessions' /\ TypeOK'
  BY <1>1, <1>2, <1>3 DEF Sessions, Moves, TypeOK
<1> QED
  BY <1>2, <1>3, <1>4, <1>5, <1>6, <1>7, <1>8, OneTab DEF IInv

LEMMA CreateFailsIInv ==
    ASSUME IInv, NEW t \in Tabs, CreateFails(t)
    PROVE  IInv'
<1>1. /\ TypeOK /\ Sessions /\ Requests(t) /\ Backed(t) /\ tab[t] \in Tab
      /\ tab[t].pc = "creating"
  BY TabFields DEF IInv, CreateFails
<1>2. /\ UNCHANGED <<opened, live, log, loaded, stored, home, seen>>
      /\ faults' \in Nat
  BY <1>1 DEF CreateFails, Fault, backend, TypeOK
<1>3. /\ Moves(t) /\ tab'[t].pc = "bootError"
      /\ tab'[t].asked = tab[t].asked /\ tab'[t].uploads = tab[t].uploads
      /\ tab'[t].loads = tab[t].loads
  BY <1>1, CreateFailsEffect
<1>4. Grows
  BY <1>2 DEF Grows, Asked
<1>5. Requests(t)'
  BY <1>1, <1>2, <1>3 DEF Requests, Awaited, Asked
<1>6. Backed(t)'
  BY <1>1, <1>2 DEF Backed, Asked
<1>7. Kept(t)'
  BY <1>3 DEF Kept
<1>8. Sessions' /\ TypeOK'
  BY <1>1, <1>2, <1>3 DEF Sessions, Moves, TypeOK
<1> QED
  BY <1>2, <1>3, <1>4, <1>5, <1>6, <1>7, <1>8, OneTab DEF IInv

LEMMA CreatedIInv ==
    ASSUME IInv, NEW t \in Tabs, Created(t)
    PROVE  IInv'
<1>1. /\ TypeOK /\ Sessions /\ Requests(t) /\ Backed(t) /\ Kept(t) /\ tab[t] \in Tab
      /\ tab[t].pc = "created"
  BY TabFields DEF IInv, Created
<1>2. /\ UNCHANGED <<opened, live, log, loaded, faults, home, seen>>
      /\ stored' = tab[t].id
  BY DEF Created, StoreSessionId, backend
<1>3. /\ Moves(t) /\ tab'[t].pc = "ready" /\ tab'[t].id = tab[t].id
      /\ tab'[t].asked = tab[t].asked /\ tab'[t].uploads = tab[t].uploads
      /\ tab'[t].loads = tab[t].loads
  BY <1>1, CreatedEffect
<1>4. Grows
  BY <1>2 DEF Grows, Asked
<1>5. Requests(t)'
  BY <1>1, <1>2, <1>3 DEF Requests, Awaited, Asked
<1>6. Backed(t)'
  BY <1>1, <1>2 DEF Backed, Asked
<1>7. Kept(t)'
  BY <1>1, <1>2, <1>3 DEF Kept
<1>8. Sessions' /\ TypeOK'
  BY <1>1, <1>2, <1>3 DEF Sessions, Moves, TypeOK
<1> QED
  BY <1>2, <1>3, <1>4, <1>5, <1>6, <1>7, <1>8, OneTab DEF IInv

\* A question goes to the session of its tab.
LEMMA SendIInv ==
    ASSUME IInv, NEW t \in Tabs, NEW q \in Questions, Send(t, q)
    PROVE  IInv'
<1>1. /\ TypeOK /\ Sessions /\ Requests(t) /\ Backed(t) /\ Kept(t) /\ tab[t] \in Tab
      /\ tab[t].pc = "ready"
  BY TabFields DEF IInv, Send, Sendable, ChatShown
<1>2. /\ UNCHANGED <<opened, live, log, loaded, stored, faults, seen>>
      /\ home' = [home EXCEPT ![t] = tab[t].id]
  BY DEF Send, backend
<1>3. /\ Moves(t) /\ tab'[t].pc = tab[t].pc /\ tab'[t].id = tab[t].id
      /\ tab'[t].tables = tab[t].tables /\ tab'[t].messages = tab[t].messages
      /\ tab'[t].asked = tab[t].asked \cup {Asks(t, q)}
      /\ tab'[t].uploads = tab[t].uploads
      /\ tab'[t].loads = tab[t].loads
  BY <1>1, SendEffect
<1>4. Grows /\ Chat(t)' = Chat(t)
  BY <1>2, <1>3 DEF Grows, Asked, Chat
<1>5. Requests(t)'
  BY <1>1, <1>2, <1>3 DEF Requests, Awaited, Asked, Asks, Tab
<1>6. Backed(t)'
  BY <1>1, <1>2 DEF Backed, Asked
<1>7. Kept(t)'
  BY <1>1, <1>2, <1>3, <1>4 DEF Kept
<1>8. Sessions'
  BY <1>1, <1>2, <1>3 DEF Sessions, Moves
<1>9. TypeOK'
  BY <1>1, <1>2, <1>3 DEF TypeOK, Moves, Sessions
<1> QED
  BY <1>2, <1>3, <1>4, <1>5, <1>6, <1>7, <1>8, <1>9, OneTab DEF IInv

\* A turn is appended: no other is lost.
LEMMA AppendGrows ==
    ASSUME TypeOK, NEW i \in Ids, NEW q \in Questions, log' = [log EXCEPT ![i] = Append(@, q)]
    PROVE  /\ log' \in [Ids -> Seq(Questions)]
           /\ Asked(i)' = Asked(i) \cup {q}
           /\ \A k \in Ids \ {i} : Asked(k)' = Asked(k)
<1>1. log[i] \in Seq(Questions) /\ log'[i] = Append(log[i], q) /\ Len(log[i]) \in Nat
  BY LenProperties DEF TypeOK
<1>2. /\ Len(log'[i]) = Len(log[i]) + 1 /\ log'[i][Len(log[i]) + 1] = q
      /\ \A j \in 1 .. Len(log[i]) : log'[i][j] = log[i][j]
      /\ log'[i] \in Seq(Questions)
  BY <1>1, AppendProperties
<1>3. Asked(i)' = Asked(i) \cup {q}
  <2>1. 1 .. Len(log'[i]) = 1 .. Len(log[i]) \cup {Len(log[i]) + 1}
    BY <1>1, <1>2
  <2> QED
    BY <1>2, <2>1 DEF Asked
<1>4. \A k \in Ids \ {i} : log'[k] = log[k]
  BY DEF TypeOK
<1> QED
  BY <1>2, <1>3, <1>4 DEF Asked, TypeOK

\* A reply that is ok has its turn on record.
LEMMA ServeQuestionIInv ==
    ASSUME IInv, NEW t \in Tabs, NEW a \in tab[t].asked, ServeQuestion(t, a)
    PROVE  IInv'
<1>1. /\ TypeOK /\ Sessions /\ Requests(t) /\ Backed(t) /\ Kept(t) /\ tab[t] \in Tab
      /\ a.id \in Ids /\ a.question \in Questions
  BY TabFields DEF IInv, Tab
<1>2. UNCHANGED <<opened, live, loaded, stored, home, seen>> /\ faults' \in Nat
  BY <1>1 DEF ServeQuestion, Fault, TypeOK
<1>3. /\ Moves(t) /\ tab'[t].pc = tab[t].pc /\ tab'[t].id = tab[t].id
      /\ tab'[t].gotTables = tab[t].gotTables /\ tab'[t].gotMessages = tab[t].gotMessages
      /\ tab'[t].tables = tab[t].tables /\ tab'[t].messages = tab[t].messages
      /\ tab'[t].uploads = tab[t].uploads /\ tab'[t].loads = tab[t].loads
      /\ \/ tab'[t].asked = (tab[t].asked \ {a}) \cup {Replied(a, "ok")}
         \/ tab'[t].asked = (tab[t].asked \ {a}) \cup {Replied(a, "failed")}
  BY <1>1, ServeQuestionEffect
<1>4. \/ log' = [log EXCEPT ![a.id] = Append(@, a.question)]
      \/ log' = log /\ tab'[t].asked = (tab[t].asked \ {a}) \cup {Replied(a, "failed")}
  BY <1>1 DEF ServeQuestion, TypeOK, Tab
<1>5. /\ \A k \in Ids : Asked(k) \subseteq Asked(k)'
      /\ log' \in [Ids -> Seq(Questions)]
  <2>1. CASE log' = log
    BY <1>1, <2>1 DEF Asked, TypeOK
  <2>2. CASE log' = [log EXCEPT ![a.id] = Append(@, a.question)]
    BY <1>1, <2>2, AppendGrows
  <2> QED
    BY <1>4, <2>1, <2>2
<1>6. Grows /\ Chat(t)' = Chat(t)
  BY <1>2, <1>3, <1>5 DEF Grows, Chat
<1>7. Requests(t)'
  <2>1. /\ Replied(a, "ok").question = a.question /\ Replied(a, "ok").id = a.id
        /\ Replied(a, "ok").load = a.load /\ Replied(a, "ok").reply = "ok"
        /\ Replied(a, "failed").question = a.question /\ Replied(a, "failed").id = a.id
        /\ Replied(a, "failed").load = a.load /\ Replied(a, "failed").reply = "failed"
    BY <1>1 DEF Replied, Tab
  <2>2. tab'[t].asked = (tab[t].asked \ {a}) \cup {Replied(a, "ok")}
           => a.question \in Asked(a.id)'
    <3> SUFFICES ASSUME tab'[t].asked = (tab[t].asked \ {a}) \cup {Replied(a, "ok")}
                 PROVE  a.question \in Asked(a.id)'
      OBVIOUS
    <3>1. CASE log' = [log EXCEPT ![a.id] = Append(@, a.question)]
      <4>1. Asked(a.id)' = Asked(a.id) \cup {a.question}
        BY <1>1, <3>1, AppendGrows
      <4> QED
        BY <4>1
    <3>2. CASE Replied(a, "ok") \in tab[t].asked
      <4>1. a.question \in Asked(a.id)
        BY <1>1, <2>1, <3>2 DEF Requests
      <4> QED
        BY <1>1, <1>5, <4>1
    <3>3. Replied(a, "ok") # Replied(a, "failed")
      BY <2>1
    <3> QED
      BY <1>4, <3>1, <3>2, <3>3
  <2>3. ASSUME NEW b \in tab'[t].asked
        PROVE  /\ b.load <= tab[t].loads
               /\ b.load = tab[t].loads => tab[t].pc = "ready" /\ b.id = tab[t].id
               /\ b.reply = "ok" => b.question \in Asked(b.id)'
    <3>1. CASE b \in tab[t].asked
      BY <1>1, <1>5, <3>1 DEF Requests, Awaited, Tab
    <3>2. CASE b = Replied(a, "ok") /\ b \notin tab[t].asked
      <4>1. tab'[t].asked = (tab[t].asked \ {a}) \cup {Replied(a, "ok")}
        BY <1>3, <2>1, <2>3, <3>2
      <4> QED
        BY <1>1, <2>1, <2>2, <3>2, <4>1 DEF Requests, Awaited
    <3>3. CASE b = Replied(a, "failed")
      BY <1>1, <2>1, <3>3 DEF Requests, Awaited
    <3> QED
      BY <1>3, <2>3, <3>1, <3>2, <3>3
  <2> QED
    BY <1>1, <1>2, <1>3, <2>3 DEF Requests, Awaited
<1>8. Backed(t)' /\ Kept(t)'
  BY <1>1, <1>2, <1>3, <1>5, <1>6 DEF Backed, Kept, TypeOK, Sessions
<1>9. Sessions'
  BY <1>1, <1>2, <1>3 DEF Sessions, Moves
<1>10. TypeOK'
  BY <1>1, <1>2, <1>3, <1>5 DEF TypeOK, Moves
<1> QED
  BY <1>2, <1>3, <1>6, <1>7, <1>8, <1>9, <1>10, OneTab DEF IInv

\* An answer that is shown is on record, and in the chat.
LEMMA ShowReplyIInv ==
    ASSUME IInv, NEW t \in Tabs, NEW a \in tab[t].asked, ShowReply(t, a)
    PROVE  IInv'
<1>1. /\ TypeOK /\ Sessions /\ Requests(t) /\ Backed(t) /\ Kept(t) /\ tab[t] \in Tab
      /\ a.question \in Questions /\ Awaited(t, a)
      /\ tab[t].pc = "ready" /\ a.id = tab[t].id /\ tab[t].id \in opened /\ tab[t].id \in Ids
      /\ a.reply = "ok" => a.question \in Asked(a.id)
  BY TabFields DEF IInv, ShowReply, Tab, Requests, Sessions, TypeOK
<1>2. /\ UNCHANGED <<opened, live, log, loaded, stored, home, faults>>
      /\ seen' = [seen EXCEPT ![t] = IF a.reply = "ok"
                                     THEN @ \cup {<<tab[t].id, a.question>>} ELSE @]
  BY DEF ShowReply, backend
<1>3. /\ Moves(t) /\ tab'[t].pc = tab[t].pc /\ tab'[t].id = tab[t].id
      /\ tab'[t].tables = tab[t].tables
      /\ tab'[t].messages = Append(tab[t].messages, Shown(a))
      /\ tab'[t].asked = tab[t].asked \ {a}
      /\ tab'[t].uploads = tab[t].uploads /\ tab'[t].loads = tab[t].loads
  BY <1>1, ShowReplyEffect
<1>4. Grows
  BY <1>2 DEF Grows, Asked
<1>5. Chat(t) \subseteq Chat(t)' /\ a.question \in Chat(t)'
  <2>1. tab[t].messages \in Seq(Message) /\ Shown(a) \in Message
    BY <1>1 DEF Tab, Shown, Message
  <2>2. /\ Len(tab'[t].messages) = Len(tab[t].messages) + 1
        /\ tab'[t].messages[Len(tab[t].messages) + 1] = Shown(a)
        /\ \A j \in 1 .. Len(tab[t].messages) : tab'[t].messages[j] = tab[t].messages[j]
        /\ Len(tab[t].messages) \in Nat
    BY <1>3, <2>1, AppendProperties, LenProperties
  <2>3. Shown(a).question = a.question
    BY DEF Shown
  <2> QED
    BY <2>2, <2>3 DEF Chat
<1>6. Requests(t)'
  BY <1>1, <1>2, <1>3 DEF Requests, Awaited, Asked
<1>7. /\ seen'[t] \subseteq seen[t] \cup {<<tab[t].id, a.question>>}
      /\ (a.reply # "ok" => seen'[t] = seen[t])
      /\ \A u \in Tabs \ {t} : seen'[u] = seen[u]
      /\ seen' \in [Tabs -> SUBSET (Ids \X (Questions \cup Files))]
  BY <1>1, <1>2 DEF TypeOK
<1>8. Backed(t)'
  BY <1>1, <1>2, <1>7 DEF Backed, Asked
<1>9. Kept(t)'
  BY <1>1, <1>3, <1>5, <1>7 DEF Kept
<1>10. Sessions'
  BY <1>1, <1>2, <1>3 DEF Sessions, Moves
<1>11. TypeOK'
  <2>1. TypeOK /\ tab' \in [Tabs -> Tab]
    BY <1>1, <1>3 DEF Moves
  <2>2. /\ UNCHANGED <<opened, live, log, loaded, stored, home, faults>>
        /\ seen' \in [Tabs -> SUBSET (Ids \X (Questions \cup Files))]
    BY <1>2, <1>7
  <2> QED
    BY <2>1, <2>2 DEF TypeOK
<1> QED
  BY <1>3, <1>4, <1>6, <1>7, <1>8, <1>9, <1>10, <1>11, OneTab DEF IInv

LEMMA UploadIInv ==
    ASSUME IInv, NEW t \in Tabs, NEW f \in Files, Upload(t, f)
    PROVE  IInv'
<1>1. /\ TypeOK /\ Sessions /\ Requests(t) /\ Backed(t) /\ Kept(t) /\ tab[t] \in Tab
      /\ tab[t].pc = "ready"
  BY TabFields DEF IInv, Upload
<1>2. /\ UNCHANGED <<opened, live, log, loaded, stored, faults, seen>>
      /\ home' = [home EXCEPT ![t] = tab[t].id]
  BY DEF Upload, backend
<1>3. /\ Moves(t) /\ tab'[t].pc = tab[t].pc /\ tab'[t].id = tab[t].id
      /\ tab'[t].tables = tab[t].tables /\ tab'[t].messages = tab[t].messages
      /\ tab'[t].uploads = tab[t].uploads \cup {Sends(t, f)}
      /\ tab'[t].asked = tab[t].asked
      /\ tab'[t].loads = tab[t].loads
  BY <1>1, UploadEffect
<1>4. Grows /\ Chat(t)' = Chat(t)
  BY <1>2, <1>3 DEF Grows, Asked, Chat
<1>5. Requests(t)'
  BY <1>1, <1>2, <1>3 DEF Requests, Awaited, Asked, Sends, Tab
<1>6. Backed(t)'
  BY <1>1, <1>2 DEF Backed, Asked
<1>7. Kept(t)'
  BY <1>1, <1>2, <1>3, <1>4 DEF Kept
<1>8. Sessions'
  BY <1>1, <1>2, <1>3 DEF Sessions, Moves
<1>9. TypeOK'
  BY <1>1, <1>2, <1>3 DEF TypeOK, Moves, Sessions
<1> QED
  BY <1>2, <1>3, <1>4, <1>5, <1>6, <1>7, <1>8, <1>9, OneTab DEF IInv

\* A reply that is ok has its file loaded.
LEMMA ServeUploadIInv ==
    ASSUME IInv, NEW t \in Tabs, NEW u \in tab[t].uploads, ServeUpload(t, u)
    PROVE  IInv'
<1>1. /\ TypeOK /\ Sessions /\ Requests(t) /\ Backed(t) /\ Kept(t) /\ tab[t] \in Tab
      /\ u.id \in Ids /\ u.file \in Files
  BY TabFields DEF IInv, Tab
<1>2. UNCHANGED <<opened, live, log, stored, home, seen>> /\ faults' \in Nat
  BY <1>1 DEF ServeUpload, Fault, TypeOK
<1>3. /\ Moves(t) /\ tab'[t].pc = tab[t].pc /\ tab'[t].id = tab[t].id
      /\ tab'[t].gotTables = tab[t].gotTables /\ tab'[t].gotMessages = tab[t].gotMessages
      /\ tab'[t].tables = tab[t].tables /\ tab'[t].messages = tab[t].messages
      /\ tab'[t].asked = tab[t].asked /\ tab'[t].loads = tab[t].loads
      /\ \/ tab'[t].uploads = (tab[t].uploads \ {u}) \cup {Replied(u, "ok")}
         \/ tab'[t].uploads = (tab[t].uploads \ {u}) \cup {Replied(u, "failed")}
  BY <1>1, ServeUploadEffect
<1>4. \/ loaded' = [loaded EXCEPT ![u.id] = loaded[u.id] \cup {u.file}]
      \/ loaded' = loaded /\ tab'[t].uploads = (tab[t].uploads \ {u}) \cup {Replied(u, "failed")}
  BY <1>1 DEF ServeUpload, TypeOK, Tab
<1>5. /\ \A k \in Ids : loaded[k] \subseteq loaded'[k]
      /\ loaded' \in [Ids -> SUBSET Files]
  <2>1. loaded \in [Ids -> SUBSET Files]
    BY <1>1 DEF TypeOK
  <2> QED
    BY <1>1, <1>4, <2>1
<1>6. Grows /\ Chat(t)' = Chat(t) /\ \A k \in Ids : Asked(k)' = Asked(k)
  BY <1>2, <1>3, <1>5 DEF Grows, Chat, Asked
<1>7. Requests(t)'
  <2>1. /\ Replied(u, "ok").file = u.file /\ Replied(u, "ok").id = u.id
        /\ Replied(u, "ok").load = u.load /\ Replied(u, "ok").reply = "ok"
        /\ Replied(u, "failed").file = u.file /\ Replied(u, "failed").id = u.id
        /\ Replied(u, "failed").load = u.load /\ Replied(u, "failed").reply = "failed"
    BY <1>1 DEF Replied, Tab
  <2>2. tab'[t].uploads = (tab[t].uploads \ {u}) \cup {Replied(u, "ok")}
           => u.file \in loaded'[u.id]
    <3> SUFFICES ASSUME tab'[t].uploads = (tab[t].uploads \ {u}) \cup {Replied(u, "ok")}
                 PROVE  u.file \in loaded'[u.id]
      OBVIOUS
    <3>1. CASE loaded' = [loaded EXCEPT ![u.id] = loaded[u.id] \cup {u.file}]
      BY <1>1, <3>1 DEF TypeOK
    <3>2. CASE Replied(u, "ok") \in tab[t].uploads
      <4>1. u.file \in loaded[u.id]
        BY <1>1, <2>1, <3>2 DEF Requests
      <4> QED
        BY <1>1, <1>5, <4>1
    <3>3. Replied(u, "ok") # Replied(u, "failed")
      BY <2>1
    <3> QED
      BY <1>4, <3>1, <3>2, <3>3
  <2>3. ASSUME NEW b \in tab'[t].uploads
        PROVE  /\ b.load <= tab[t].loads
               /\ b.load = tab[t].loads => tab[t].pc = "ready" /\ b.id = tab[t].id
               /\ b.reply = "ok" => b.file \in loaded'[b.id]
    <3>1. CASE b \in tab[t].uploads
      BY <1>1, <1>5, <3>1 DEF Requests, Awaited, Tab
    <3>2. CASE b = Replied(u, "ok") /\ b \notin tab[t].uploads
      <4>1. tab'[t].uploads = (tab[t].uploads \ {u}) \cup {Replied(u, "ok")}
        BY <1>3, <2>1, <2>3, <3>2
      <4> QED
        BY <1>1, <2>1, <2>2, <3>2, <4>1 DEF Requests, Awaited
    <3>3. CASE b = Replied(u, "failed")
      BY <1>1, <2>1, <3>3 DEF Requests, Awaited
    <3> QED
      BY <1>3, <2>3, <3>1, <3>2, <3>3
  <2>4. \A b \in tab'[t].asked : b.id \in Ids
    BY <1>1, <1>3 DEF Tab
  <2> QED
    BY <1>1, <1>2, <1>3, <1>6, <2>3, <2>4 DEF Requests, Awaited
<1>8. Backed(t)' /\ Kept(t)'
  <2>1. seen' = seen /\ opened' = opened /\ opened \subseteq Ids
    BY <1>1, <1>2 DEF TypeOK
  <2>2. Backed(t)'
    BY <1>1, <1>5, <1>6, <2>1 DEF Backed
  <2>3. tab[t].pc \in {"restoring", "ready"} => tab[t].id \in Ids
    BY <1>1, <2>1 DEF Sessions
  <2>4. Kept(t)'
    BY <1>1, <1>3, <1>5, <1>6, <2>1, <2>3 DEF Kept
  <2> QED
    BY <2>2, <2>4
<1>9. Sessions'
  BY <1>1, <1>2, <1>3 DEF Sessions, Moves
<1>10. TypeOK'
  BY <1>1, <1>2, <1>3, <1>5 DEF TypeOK, Moves
<1> QED
  BY <1>2, <1>3, <1>6, <1>7, <1>8, <1>9, <1>10, OneTab DEF IInv

\* A table that is listed is loaded.
LEMMA ShowUploadIInv ==
    ASSUME IInv, NEW t \in Tabs, NEW u \in tab[t].uploads, ShowUpload(t, u)
    PROVE  IInv'
<1>1. /\ TypeOK /\ Sessions /\ Requests(t) /\ Backed(t) /\ Kept(t) /\ tab[t] \in Tab
      /\ u.file \in Files /\ Awaited(t, u)
      /\ tab[t].pc = "ready" /\ u.id = tab[t].id /\ tab[t].id \in opened /\ tab[t].id \in Ids
      /\ u.reply = "ok" => u.file \in loaded[u.id]
  BY TabFields DEF IInv, ShowUpload, Tab, Requests, Sessions, TypeOK
<1>2. /\ UNCHANGED <<opened, live, log, loaded, stored, home, faults>>
      /\ seen' = [seen EXCEPT ![t] = IF u.reply = "ok"
                                     THEN @ \cup {<<tab[t].id, u.file>>} ELSE @]
  BY DEF ShowUpload, backend
<1>3. /\ Moves(t) /\ tab'[t].pc = tab[t].pc /\ tab'[t].id = tab[t].id
      /\ tab[t].tables \subseteq tab'[t].tables /\ tab'[t].messages = tab[t].messages
      /\ u.reply = "ok" => u.file \in tab'[t].tables
      /\ tab'[t].uploads = tab[t].uploads \ {u}
      /\ tab'[t].asked = tab[t].asked /\ tab'[t].loads = tab[t].loads
  BY <1>1, ShowUploadEffect
<1>4. Grows /\ Chat(t)' = Chat(t)
  BY <1>2, <1>3 DEF Grows, Asked, Chat
<1>5. Requests(t)'
  BY <1>1, <1>2, <1>3 DEF Requests, Awaited, Asked
<1>6. /\ seen'[t] \subseteq seen[t] \cup {<<tab[t].id, u.file>>}
      /\ (u.reply # "ok" => seen'[t] = seen[t])
      /\ \A v \in Tabs \ {t} : seen'[v] = seen[v]
      /\ seen' \in [Tabs -> SUBSET (Ids \X (Questions \cup Files))]
  BY <1>1, <1>2 DEF TypeOK
<1>7. Backed(t)'
  BY <1>1, <1>2, <1>6 DEF Backed, Asked
<1>8. Kept(t)'
  BY <1>1, <1>3, <1>4, <1>6 DEF Kept
<1>9. Sessions'
  BY <1>1, <1>2, <1>3 DEF Sessions, Moves
<1>10. TypeOK'
  <2>1. TypeOK /\ tab' \in [Tabs -> Tab]
    BY <1>1, <1>3 DEF Moves
  <2>2. /\ UNCHANGED <<opened, live, log, loaded, stored, home, faults>>
        /\ seen' \in [Tabs -> SUBSET (Ids \X (Questions \cup Files))]
    BY <1>2, <1>6
  <2> QED
    BY <2>1, <2>2 DEF TypeOK
<1> QED
  BY <1>3, <1>4, <1>5, <1>6, <1>7, <1>8, <1>9, <1>10, OneTab DEF IInv

\* Every step preserves the inductive invariant.
LEMMA NextIInv == IInv /\ [Next]_vars => IInv'
<1> SUFFICES ASSUME IInv, [Next]_vars PROVE IInv'
  OBVIOUS
<1>1. ASSUME NEW t \in Tabs, Runs(t) PROVE IInv'
  BY <1>1, GetTablesIInv, GetMessagesIInv, RestoredIInv, RestoreFailsIInv, CreateIInv,
     CreateFailsIInv, CreatedIInv, ServeQuestionIInv, ShowReplyIInv, ServeUploadIInv,
     ShowUploadIInv DEF Runs
<1>2. CASE UNCHANGED <<opened, log, loaded, stored, tab, faults, home, seen>>
           /\ live' \subseteq live
  <2>1. \A i \in Ids : Asked(i)' = Asked(i)
    BY <1>2 DEF Asked
  <2>2. Grows
    BY <1>2, <2>1 DEF Grows
  <2>3. \A t \in Tabs : Requests(t)' /\ Backed(t)' /\ Kept(t)'
    BY <1>2, <2>2, FrameTab
  <2>4. TypeOK' /\ Sessions'
    BY <1>2 DEF IInv, TypeOK, Sessions
  <2> QED
    BY <2>3, <2>4 DEF IInv
<1>3. ASSUME NEW i \in Ids, Expire(i) PROVE IInv'
  BY <1>2, <1>3 DEF Expire
<1>4. CASE UNCHANGED vars
  BY <1>2, <1>4 DEF vars, backend
<1> QED
  BY <1>1, <1>3, <1>4, LoadIInv, SendIInv, UploadIInv DEF Next, Stopped

LEMMA Invariance == Spec => []IInv
BY InitIInv, NextIInv, PTL DEF Spec

-----------------------------------------------------------------------------
(* The order of the chat.                                                  *)

\* What is on record stays in its place.
Settled ==
    \A i \in Ids : \A x \in Asked(i) : x \in Asked(i)' /\ Place(i, x)' = Place(i, x)

LEMMA SameLog ==
    ASSUME log' = log
    PROVE  /\ Settled
           /\ \A i : Asked(i)' = Asked(i)
           /\ \A i, x : Place(i, x)' = Place(i, x)
BY DEF Settled, Asked, Place

\* A tab whose chat does not change stays in order.
LEMMA OrderedFrame ==
    ASSUME IInv, ChatInv, Settled, NEW t \in Tabs,
           tab'[t].messages = tab[t].messages, tab'[t].id = tab[t].id,
           tab'[t].asked = tab[t].asked, tab'[t].loads = tab[t].loads,
           tab'[t].pending = tab[t].pending,
           tab'[t].pc \in {"creating", "closed", "bootError"} => tab[t].messages = <<>>
    PROVE  Ordered(t)'
<1>1. Ordered(t) /\ Requests(t)
  BY DEF ChatInv, IInv
<1> DEFINE m == tab[t].messages
           i == tab[t].id
<1>2. \A j \in 1 .. Len(m) : m[j].ok =>
          /\ i \in Ids /\ m[j].question \in Asked(i) /\ m[j].question \in Asked(i)'
          /\ Place(i, m[j].question)' = Place(i, m[j].question)
  BY <1>1 DEF Ordered, Settled
<1>3. \A a \in tab[t].asked : Awaited(t, a) /\ a.reply = "ok" /\ i \in Ids =>
          Place(i, a.question)' = Place(i, a.question)
  BY <1>1 DEF Requests, Settled
<1> QED
  BY <1>1, <1>2, <1>3 DEF Ordered, Awaited

\* An empty chat is in order when no answer is awaited.
LEMMA OrderedBlank ==
    ASSUME NEW t \in Tabs, tab'[t].messages = <<>>,
           \A a \in tab'[t].asked : a.load # tab'[t].loads
    PROVE  Ordered(t)'
BY DEF Ordered, Awaited

\* One tab moves and nothing is asked or recorded.
LEMMA QuietChat ==
    ASSUME IInv, ChatInv, NEW t \in Tabs, Moves(t), log' = log,
           tab'[t].asked \subseteq tab[t].asked, Ordered(t)'
    PROVE  ChatInv'
<1>1. Settled /\ \A i : Asked(i)' = Asked(i)
  BY SameLog
<1>2. \A u \in Tabs : tab'[u].asked \subseteq tab[u].asked
  BY DEF Moves
<1>3. Once'
  BY <1>1, <1>2 DEF ChatInv, Once
<1>4. ASSUME NEW u \in Tabs \ {t} PROVE Ordered(u)'
  BY <1>1, OrderedFrame DEF Moves, ChatInv, Ordered
<1> QED
  BY <1>3, <1>4 DEF ChatInv

\* A page that is restoring or starting awaits nothing.
LEMMA NothingAwaited ==
    ASSUME IInv, NEW t \in Tabs, tab[t].pc # "ready"
    PROVE  \A a \in tab[t].asked : a.load # tab[t].loads
BY DEF IInv, Requests, Awaited

\* A restored chat is the log.
LEMMA GetMessagesChat ==
    ASSUME IInv, ChatInv, NEW t \in Tabs, GetMessages(t)
    PROVE  ChatInv'
<1>1. /\ TypeOK /\ Sessions /\ Ordered(t) /\ Once
      /\ tab[t].pc = "restoring" /\ tab[t].id \in Ids /\ log' = log
  BY DEF IInv, ChatInv, GetMessages, Sessions, TypeOK, backend
<1>2. /\ Moves(t) /\ tab'[t].pc = tab[t].pc /\ tab'[t].id = tab[t].id
      /\ tab'[t].asked = tab[t].asked /\ tab'[t].loads = tab[t].loads
      /\ tab'[t].pending = tab[t].pending
      /\ tab'[t].messages \in {Turns(tab[t].id), tab[t].messages}
  BY <1>1, GetMessagesEffect
<1>3. CASE tab'[t].messages = tab[t].messages
  <2>1. Ordered(t)'
    BY <1>1, <1>2, <1>3, SameLog, OrderedFrame
  <2> QED
    BY <1>1, <1>2, <2>1, QuietChat
<1>4. CASE tab'[t].messages = Turns(tab[t].id)
  <2>0. PICK i, m : i \in Ids /\ i = tab[t].id /\ m = tab'[t].messages
    BY <1>1
  <2>1. /\ log[i] \in Seq(Questions) /\ Len(log[i]) \in Nat
        /\ \A j, k \in 1 .. Len(log[i]) : log[i][j] = log[i][k] => j = k
    BY <1>1, <2>0, LenProperties DEF TypeOK, Once
  <2>2. /\ m = [j \in 1 .. Len(log[i]) |-> [question |-> log[i][j], ok |-> TRUE]]
        /\ Len(m) = Len(log[i])
    BY <1>4, <2>0, <2>1 DEF Turns
  <2>3. \A j \in 1 .. Len(m) : m[j].question = log[i][j] /\ log[i][j] \in Asked(i)'
    BY <1>1, <2>0, <2>1, <2>2 DEF Asked
  <2>4. \A j \in 1 .. Len(m) : \A p \in Place(i, m[j].question)' : p = j
    BY <1>1, <2>1, <2>2, <2>3 DEF Place
  <2>5. \A j, k \in 1 .. Len(m) : j < k =>
            \A p \in Place(i, m[j].question)', r \in Place(i, m[k].question)' : p < r
    BY <2>4
  <2>6. \A a \in tab'[t].asked : a.load # tab'[t].loads
    BY <1>1, <1>2, NothingAwaited
  <2>7. Ordered(t)'
    BY <1>1, <1>2, <2>0, <2>3, <2>5, <2>6 DEF Ordered, Awaited
  <2> QED
    BY <1>1, <1>2, <2>7, QuietChat
<1> QED
  BY <1>2, <1>3, <1>4

\* The other steps of bootstrap.
LEMMA BootChat ==
    ASSUME IInv, ChatInv, NEW t \in Tabs,
           \/ Load(t) \/ GetTables(t) \/ Restored(t) \/ RestoreFails(t)
           \/ \E i \in Ids : Create(t, i)
           \/ CreateFails(t) \/ Created(t)
    PROVE  ChatInv'
<1>1. TypeOK /\ Sessions /\ Ordered(t) /\ Requests(t) /\ tab[t] \in Tab
  BY TabFields DEF IInv, ChatInv
<1>2. CASE Load(t)
  <2>1. Moves(t) /\ tab'[t].asked \subseteq tab[t].asked /\ log' = log
    BY <1>1, <1>2, LoadEffect DEF Load, backend, Orphans
  <2>2. tab'[t].messages = <<>> /\ tab'[t].loads = tab[t].loads + 1
    BY <1>1, <1>2, LoadEffect
  <2>3. \A a \in tab'[t].asked : a.load # tab'[t].loads
    BY <1>1, <2>1, <2>2 DEF Requests, Tab
  <2>4. Ordered(t)'
    BY <2>2, <2>3, OrderedBlank
  <2> QED
    BY <2>1, <2>4, QuietChat
<1>3. CASE GetTables(t)
  <2>1. /\ Moves(t) /\ log' = log /\ Ordered(t)'
        /\ tab'[t].asked = tab[t].asked
    BY <1>1, <1>3, GetTablesEffect, SameLog, OrderedFrame DEF GetTables, backend
  <2> QED
    BY <2>1, QuietChat
<1>4. CASE Restored(t)
  <2>1. /\ Moves(t) /\ log' = log /\ Ordered(t)'
        /\ tab'[t].asked = tab[t].asked
    BY <1>1, <1>4, RestoredEffect, SameLog, OrderedFrame DEF Restored, backend
  <2> QED
    BY <2>1, QuietChat
<1>5. CASE RestoreFails(t)
  <2>1. Moves(t) /\ tab'[t].asked = tab[t].asked /\ log' = log
    BY <1>1, <1>5, RestoreFailsEffect DEF RestoreFails, backend
  <2>2. tab'[t].messages = <<>> /\ tab'[t].loads = tab[t].loads /\ tab[t].pc # "ready"
    BY <1>1, <1>5, RestoreFailsEffect DEF RestoreFails
  <2>3. \A a \in tab'[t].asked : a.load # tab'[t].loads
    BY <2>1, <2>2, NothingAwaited
  <2>4. Ordered(t)'
    BY <2>2, <2>3, OrderedBlank
  <2> QED
    BY <2>1, <2>4, QuietChat
<1>6. ASSUME NEW i \in Ids, Create(t, i) PROVE ChatInv'
  <2>1. Moves(t) /\ tab'[t].asked = tab[t].asked /\ log' = log
    BY <1>1, <1>6, CreateEffect DEF Create
  <2>2. tab[t].pc = "creating" /\ tab[t].messages = <<>>
    BY <1>1, <1>6 DEF Create, Ordered
  <2>3. Ordered(t)'
    BY <1>1, <1>6, <2>2, CreateEffect, NothingAwaited, OrderedBlank
  <2> QED
    BY <2>1, <2>3, QuietChat
<1>7. CASE CreateFails(t)
  <2>1. Moves(t) /\ tab'[t].asked = tab[t].asked /\ log' = log
    BY <1>1, <1>7, CreateFailsEffect DEF CreateFails, backend
  <2>2. tab[t].pc = "creating" /\ tab[t].messages = <<>>
    BY <1>1, <1>7 DEF CreateFails, Ordered
  <2>3. Ordered(t)'
    BY <1>1, <1>7, <2>2, CreateFailsEffect, NothingAwaited, OrderedBlank
  <2> QED
    BY <2>1, <2>3, QuietChat
<1>8. CASE Created(t)
  <2>1. /\ Moves(t) /\ log' = log /\ Ordered(t)'
        /\ tab'[t].asked = tab[t].asked
    BY <1>1, <1>8, CreatedEffect, SameLog, OrderedFrame DEF Created, backend
  <2> QED
    BY <2>1, QuietChat
<1> QED
  BY <1>2, <1>3, <1>4, <1>5, <1>6, <1>7, <1>8

\* Uploads are not part of the chat.
LEMMA UploadsChat ==
    ASSUME IInv, ChatInv, NEW t \in Tabs,
           \/ \E f \in Files : Upload(t, f)
           \/ \E u \in tab[t].uploads : ServeUpload(t, u) \/ ShowUpload(t, u)
    PROVE  ChatInv'
<1>1. TypeOK /\ Sessions /\ Ordered(t)
  BY DEF IInv, ChatInv
<1>2. ASSUME NEW f \in Files, Upload(t, f) PROVE ChatInv'
  <2>1. /\ Moves(t) /\ tab'[t].pc = tab[t].pc /\ tab'[t].id = tab[t].id
        /\ tab'[t].messages = tab[t].messages /\ tab'[t].pending = tab[t].pending
        /\ tab'[t].asked = tab[t].asked /\ tab'[t].loads = tab[t].loads
    BY <1>1, <1>2, UploadEffect
  <2>2. log' = log
    BY <1>2 DEF Upload, backend
  <2>3. tab'[t].pc \in {"creating", "closed", "bootError"} => tab[t].messages = <<>>
    BY <1>1, <2>1 DEF Ordered
  <2>4. Ordered(t)'
    BY <2>1, <2>2, <2>3, SameLog, OrderedFrame
  <2> QED
    BY <2>1, <2>2, <2>4, QuietChat
<1>3. ASSUME NEW u \in tab[t].uploads, ServeUpload(t, u) PROVE ChatInv'
  <2>1. /\ Moves(t) /\ tab'[t].pc = tab[t].pc /\ tab'[t].id = tab[t].id
        /\ tab'[t].messages = tab[t].messages /\ tab'[t].pending = tab[t].pending
        /\ tab'[t].asked = tab[t].asked /\ tab'[t].loads = tab[t].loads
    BY <1>1, <1>3, ServeUploadEffect
  <2>2. log' = log
    BY <1>3 DEF ServeUpload
  <2>3. tab'[t].pc \in {"creating", "closed", "bootError"} => tab[t].messages = <<>>
    BY <1>1, <2>1 DEF Ordered
  <2>4. Ordered(t)'
    BY <2>1, <2>2, <2>3, SameLog, OrderedFrame
  <2> QED
    BY <2>1, <2>2, <2>4, QuietChat
<1>4. ASSUME NEW u \in tab[t].uploads, ShowUpload(t, u) PROVE ChatInv'
  <2>1. /\ Moves(t) /\ tab'[t].pc = tab[t].pc /\ tab'[t].id = tab[t].id
        /\ tab'[t].messages = tab[t].messages /\ tab'[t].pending = tab[t].pending
        /\ tab'[t].asked = tab[t].asked /\ tab'[t].loads = tab[t].loads
    BY <1>1, <1>4, ShowUploadEffect
  <2>2. log' = log
    BY <1>4 DEF ShowUpload, backend
  <2>3. tab'[t].pc \in {"creating", "closed", "bootError"} => tab[t].messages = <<>>
    BY <1>1, <2>1 DEF Ordered
  <2>4. Ordered(t)'
    BY <2>1, <2>2, <2>3, SameLog, OrderedFrame
  <2> QED
    BY <2>1, <2>2, <2>4, QuietChat
<1> QED
  BY <1>2, <1>3, <1>4

\* A question that is new is put: it is the only one its tab awaits.
LEMMA SendChat ==
    ASSUME IInv, ChatInv, NEW t \in Tabs, NEW q \in Questions, Send(t, q)
    PROVE  ChatInv'
<1>1. /\ TypeOK /\ Sessions /\ Ordered(t) /\ Once /\ tab[t] \in Tab
      /\ tab[t].pc = "ready" /\ tab[t].id \in Ids /\ ~tab[t].pending /\ log' = log
  BY TabFields
     DEF IInv, ChatInv, Send, Sendable, ChatShown, CanSend, Sessions, TypeOK, backend
<1>2. /\ \A u \in Tabs : \A a \in tab[u].asked : a.question # q
      /\ \A i \in Ids : q \notin Asked(i)
  BY <1>1 DEF Send, Asked
<1>3. /\ Moves(t) /\ tab'[t].pc = tab[t].pc /\ tab'[t].id = tab[t].id
      /\ tab'[t].messages = tab[t].messages /\ tab'[t].pending = TRUE
      /\ tab'[t].asked = tab[t].asked \cup {Asks(t, q)} /\ tab'[t].loads = tab[t].loads
  BY <1>1, SendEffect
<1>4. Settled /\ (\A i : Asked(i)' = Asked(i)) /\ (\A i, x : Place(i, x)' = Place(i, x))
  BY <1>1, SameLog
<1>5. Asks(t, q).question = q /\ Asks(t, q).reply = "none"
  BY DEF Asks
<1>6. Once'
  <2>1. \A u \in Tabs \ {t} : tab'[u].asked = tab[u].asked
    BY <1>3 DEF Moves
  <2>2. \A i \in Ids : \A j, k \in 1 .. Len(log'[i]) : log'[i][j] = log'[i][k] => j = k
    BY <1>1 DEF Once
  <2>3. ASSUME NEW u \in Tabs, NEW v \in Tabs, NEW a \in tab'[u].asked,
               NEW b \in tab'[v].asked, a.question = b.question
        PROVE  u = v /\ a = b
    <3>1. \/ a \in tab[u].asked
          \/ u = t /\ a = Asks(t, q)
      BY <1>3, <2>1
    <3>2. \/ b \in tab[v].asked
          \/ v = t /\ b = Asks(t, q)
      BY <1>3, <2>1
    <3> QED
      BY <1>1, <1>2, <1>5, <2>3, <3>1, <3>2 DEF Once
  <2>4. ASSUME NEW u \in Tabs, NEW a \in tab'[u].asked, a.reply = "none"
        PROVE  \A i \in Ids : a.question \notin Asked(i)'
    <3>1. \/ a \in tab[u].asked
          \/ u = t /\ a = Asks(t, q)
      BY <1>3, <2>1
    <3> QED
      BY <1>1, <1>2, <1>4, <1>5, <2>4, <3>1 DEF Once
  <2> QED
    BY <2>2, <2>3, <2>4 DEF Once
<1>7. Ordered(t)'
  <2>1. \A a \in tab[t].asked : ~Awaited(t, a)
    BY <1>1 DEF Ordered
  <2>2. \A a \in tab'[t].asked : a.load = tab'[t].loads => a = Asks(t, q)
    BY <1>3, <2>1 DEF Awaited
  <2> QED
    BY <1>1, <1>3, <1>4, <1>5, <2>2 DEF Ordered, Awaited
<1>8. \A u \in Tabs \ {t} : Ordered(u)'
  BY <1>3, <1>4, OrderedFrame DEF Moves, ChatInv, Ordered
<1> QED
  BY <1>6, <1>7, <1>8 DEF ChatInv

\* A turn that is appended is the last, and no other moves.
LEMMA AppendPlace ==
    ASSUME TypeOK, NEW i \in Ids, NEW q \in Questions, log' = [log EXCEPT ![i] = Append(@, q)],
           q \notin Asked(i)
    PROVE  /\ Settled
           /\ \A x \in Asked(i) : \A p \in Place(i, x), r \in Place(i, q)' : p < r
           /\ \A j, k \in 1 .. Len(log[i]) + 1 : log'[i][j] = log'[i][k]
                 => j = k \/ (j \in 1 .. Len(log[i]) /\ k \in 1 .. Len(log[i])
                                /\ log[i][j] = log[i][k])
           /\ Len(log'[i]) = Len(log[i]) + 1
           /\ \A k \in Ids \ {i} : log'[k] = log[k]
<1>1. log[i] \in Seq(Questions) /\ log'[i] = Append(log[i], q) /\ Len(log[i]) \in Nat
  BY LenProperties DEF TypeOK
<1>2. /\ Len(log'[i]) = Len(log[i]) + 1 /\ log'[i][Len(log[i]) + 1] = q
      /\ \A j \in 1 .. Len(log[i]) : log'[i][j] = log[i][j] /\ log[i][j] # q
  BY <1>1, AppendProperties DEF Asked
<1>3. 1 .. Len(log'[i]) = 1 .. Len(log[i]) \cup {Len(log[i]) + 1}
  BY <1>1, <1>2
<1>4. \A x \in Asked(i) : x # q /\ Place(i, x)' = Place(i, x) /\ x \in Asked(i)'
  BY <1>1, <1>2, <1>3 DEF Asked, Place
<1>5. \A r \in Place(i, q)' : r = Len(log[i]) + 1
  BY <1>2, <1>3 DEF Place
<1>6. \A x : \A p \in Place(i, x) : p < Len(log[i]) + 1
  BY <1>1 DEF Place
<1>7. \A k \in Ids \ {i} : log'[k] = log[k]
  BY DEF TypeOK
<1>8. Settled
  BY <1>4, <1>7 DEF Settled, Asked, Place
<1>9. \A j, k \in 1 .. Len(log[i]) + 1 : log'[i][j] = log'[i][k]
                 => j = k \/ (j \in 1 .. Len(log[i]) /\ k \in 1 .. Len(log[i])
                                /\ log[i][j] = log[i][k])
  BY <1>1, <1>2
<1> QED
  BY <1>2, <1>5, <1>6, <1>7, <1>8, <1>9

\* The answer of a question is the last turn, as it will be the last message.
LEMMA ServeQuestionChat ==
    ASSUME IInv, ChatInv, NEW t \in Tabs, NEW a \in tab[t].asked, ServeQuestion(t, a)
    PROVE  ChatInv'
<1>1. /\ TypeOK /\ Sessions /\ Ordered(t) /\ Once /\ tab[t] \in Tab /\ Requests(t)
      /\ a.id \in Ids /\ a.question \in Questions /\ a.reply = "none"
      /\ \A i \in Ids : a.question \notin Asked(i)
  BY TabFields DEF IInv, ChatInv, ServeQuestion, Tab, Once
<1>2. /\ Moves(t) /\ tab'[t].pc = tab[t].pc /\ tab'[t].id = tab[t].id
      /\ tab'[t].messages = tab[t].messages /\ tab'[t].pending = tab[t].pending
      /\ tab'[t].loads = tab[t].loads
  BY <1>1, ServeQuestionEffect
<1>3. PICK b : /\ tab'[t].asked = (tab[t].asked \ {a}) \cup {b}
               /\ b.question = a.question /\ b.id = a.id /\ b.load = a.load
               /\ b.reply \in {"ok", "failed"}
               /\ \/ log' = [log EXCEPT ![a.id] = Append(@, a.question)]
                  \/ log' = log /\ b.reply = "failed"
  <2>1. /\ Replied(a, "ok").question = a.question /\ Replied(a, "ok").id = a.id
        /\ Replied(a, "ok").load = a.load /\ Replied(a, "ok").reply = "ok"
        /\ Replied(a, "failed").question = a.question /\ Replied(a, "failed").id = a.id
        /\ Replied(a, "failed").load = a.load /\ Replied(a, "failed").reply = "failed"
    BY <1>1 DEF Replied, Tab
  <2>2. \/ log' = [log EXCEPT ![a.id] = Append(@, a.question)]
        \/ log' = log /\ tab'[t].asked = (tab[t].asked \ {a}) \cup {Replied(a, "failed")}
    BY <1>1 DEF ServeQuestion, TypeOK, Tab
  <2>3. \/ tab'[t].asked = (tab[t].asked \ {a}) \cup {Replied(a, "ok")}
        \/ tab'[t].asked = (tab[t].asked \ {a}) \cup {Replied(a, "failed")}
    BY <1>1, ServeQuestionEffect
  <2> QED
    BY <2>1, <2>2, <2>3
<1>4. /\ Settled
      /\ \A i \in Ids : Asked(i)' \subseteq Asked(i) \cup {a.question}
      /\ \A i \in Ids : \A j, k \in 1 .. Len(log'[i]) : log'[i][j] = log'[i][k] => j = k
  <2>1. CASE log' = log
    BY <1>1, <2>1, SameLog DEF Once
  <2>2. CASE log' = [log EXCEPT ![a.id] = Append(@, a.question)]
    <3>1. Settled
      BY <1>1, <2>2, AppendPlace
    <3>2. \A i \in Ids : Asked(i)' \subseteq Asked(i) \cup {a.question}
      <4>1. Asked(a.id)' = Asked(a.id) \cup {a.question}
        BY <1>1, <2>2, AppendGrows
      <4>2. \A i \in Ids \ {a.id} : log'[i] = log[i]
        BY <1>1, <2>2, AppendGrows, AppendPlace
      <4> QED
        BY <1>1, <4>1, <4>2 DEF Asked
    <3>3. \A i \in Ids : \A j, k \in 1 .. Len(log'[i]) : log'[i][j] = log'[i][k] => j = k
      <4>1. a.question \notin Asked(a.id)
        BY <1>1
      <4>2. \A j, k \in 1 .. Len(log'[a.id]) : log'[a.id][j] = log'[a.id][k] => j = k
        <5>1. /\ Len(log'[a.id]) = Len(log[a.id]) + 1
              /\ \A j, k \in 1 .. Len(log[a.id]) + 1 : log'[a.id][j] = log'[a.id][k]
                    => j = k \/ (j \in 1 .. Len(log[a.id]) /\ k \in 1 .. Len(log[a.id])
                                   /\ log[a.id][j] = log[a.id][k])
          BY <1>1, <2>2, <4>1, AppendPlace
        <5>2. \A j, k \in 1 .. Len(log[a.id]) : log[a.id][j] = log[a.id][k] => j = k
          BY <1>1 DEF Once
        <5> QED
          BY <5>1, <5>2
      <4>3. \A i \in Ids \ {a.id} : log'[i] = log[i]
        BY <1>1, <2>2, <4>1, AppendPlace
      <4> QED
        BY <1>1, <4>2, <4>3 DEF Once
    <3> QED
      BY <3>1, <3>2, <3>3
  <2> QED
    BY <1>3, <2>1, <2>2
<1>5. Once'
  <2>1. \A u \in Tabs \ {t} : tab'[u].asked = tab[u].asked
    BY <1>2 DEF Moves
  <2>2. ASSUME NEW u \in Tabs, NEW v \in Tabs, NEW x \in tab'[u].asked,
               NEW y \in tab'[v].asked, x.question = y.question
        PROVE  u = v /\ x = y
    <3>1. \/ x \in tab[u].asked /\ (u = t => x # a)
          \/ u = t /\ x = b
      BY <1>3, <2>1
    <3>2. \/ y \in tab[v].asked /\ (v = t => y # a)
          \/ v = t /\ y = b
      BY <1>3, <2>1
    <3> QED
      BY <1>1, <1>3, <2>2, <3>1, <3>2 DEF Once
  <2>3. ASSUME NEW u \in Tabs, NEW x \in tab'[u].asked, x.reply = "none"
        PROVE  \A i \in Ids : x.question \notin Asked(i)'
    <3>1. x \in tab[u].asked /\ (u = t => x # a)
      BY <1>3, <2>1, <2>3
    <3>2. x.question # a.question
      BY <1>1, <3>1 DEF Once
    <3> QED
      BY <1>1, <1>4, <2>3, <3>1, <3>2 DEF Once
  <2> QED
    BY <1>4, <2>2, <2>3 DEF Once
<1>6. Ordered(t)'
  <2>1. PICK i, m : i = tab[t].id /\ m = tab[t].messages
    OBVIOUS
  <2>2. \A j \in 1 .. Len(m) : m[j].ok =>
          /\ i \in Ids /\ m[j].question \in Asked(i) /\ m[j].question \in Asked(i)'
          /\ Place(i, m[j].question)' = Place(i, m[j].question)
    BY <1>1, <1>4, <2>1 DEF Ordered, Settled
  <2>3. \A j, k \in 1 .. Len(m) : j < k /\ m[j].ok /\ m[k].ok =>
          \A p \in Place(i, m[j].question)', r \in Place(i, m[k].question)' : p < r
    BY <1>1, <2>1, <2>2 DEF Ordered
  <2>4. ASSUME NEW x \in tab'[t].asked, x.load = tab[t].loads
        PROVE  /\ tab[t].pending
               /\ \A y \in tab'[t].asked : y.load = tab[t].loads => x = y
               /\ x.reply = "ok" => \A j \in 1 .. Len(m) : m[j].ok =>
                     \A p \in Place(i, m[j].question)', r \in Place(i, x.question)' : p < r
    <3>1. CASE x = b
      <4>1. Awaited(t, a) /\ i = a.id
        BY <1>1, <1>3, <2>1, <2>4, <3>1 DEF Awaited, Requests
      <4>2. tab[t].pending /\ \A y \in tab[t].asked : Awaited(t, y) => a = y
        BY <1>1, <4>1 DEF Ordered
      <4>3. \A y \in tab'[t].asked : y.load = tab[t].loads => x = y
        BY <1>3, <3>1, <4>2 DEF Awaited
      <4>4. ASSUME x.reply = "ok", NEW j \in 1 .. Len(m), m[j].ok,
                   NEW p \in Place(i, m[j].question)', NEW r \in Place(i, x.question)'
            PROVE  p < r
        <5>1. log' = [log EXCEPT ![i] = Append(@, a.question)]
          BY <1>3, <3>1, <4>1, <4>4
        <5>2. i \in Ids /\ m[j].question \in Asked(i) /\ p \in Place(i, m[j].question)
          BY <2>2, <4>4
        <5>3. r \in Place(i, a.question)'
          BY <1>3, <3>1, <4>4
        <5>4. a.question \in Questions /\ a.question \notin Asked(i)
          BY <1>1, <5>2
        <5> QED
          BY <1>1, <5>1, <5>2, <5>3, <5>4, AppendPlace
      <4> QED
        BY <4>2, <4>3, <4>4
    <3>2. CASE x # b
      <4>1. x \in tab[t].asked /\ x # a /\ Awaited(t, x)
        BY <1>3, <2>4, <3>2 DEF Awaited
      <4>2. /\ tab[t].pending /\ \A y \in tab[t].asked : Awaited(t, y) => x = y
            /\ x.reply = "ok" /\ i \in Ids => x.question \in Asked(i)
        BY <1>1, <2>1, <4>1 DEF Ordered, Requests
      <4>3. b.load # tab[t].loads
        BY <1>3, <4>1, <4>2 DEF Awaited
      <4>4. \A y \in tab'[t].asked : y.load = tab[t].loads => x = y
        BY <1>3, <4>2, <4>3 DEF Awaited
      <4>5. x.reply = "ok" => \A j \in 1 .. Len(m) : m[j].ok =>
                \A p \in Place(i, m[j].question)', r \in Place(i, x.question)' : p < r
        BY <1>1, <1>4, <2>1, <2>2, <4>1, <4>2 DEF Ordered, Settled
      <4> QED
        BY <4>2, <4>4, <4>5
    <3> QED
      BY <3>1, <3>2
  <2> QED
    BY <1>1, <1>2, <2>1, <2>2, <2>3, <2>4 DEF Ordered, Awaited
<1>7. \A u \in Tabs \ {t} : Ordered(u)'
  BY <1>2, <1>4, OrderedFrame DEF Moves, ChatInv, Ordered
<1> QED
  BY <1>5, <1>6, <1>7 DEF ChatInv

\* The answer shown comes after all that is shown.
LEMMA ShowReplyChat ==
    ASSUME IInv, ChatInv, NEW t \in Tabs, NEW a \in tab[t].asked, ShowReply(t, a)
    PROVE  ChatInv'
<1>1. /\ TypeOK /\ Sessions /\ Ordered(t) /\ Requests(t) /\ tab[t] \in Tab
      /\ Awaited(t, a) /\ a.question \in Questions /\ log' = log
      /\ tab[t].pc = "ready" /\ a.id = tab[t].id /\ tab[t].id \in Ids
      /\ a.reply = "ok" => a.question \in Asked(a.id)
  BY TabFields DEF IInv, ChatInv, ShowReply, Tab, Requests, Sessions, TypeOK, backend
<1>2. /\ Moves(t) /\ tab'[t].pc = tab[t].pc /\ tab'[t].id = tab[t].id
      /\ tab'[t].messages = Append(tab[t].messages, Shown(a))
      /\ tab'[t].asked = tab[t].asked \ {a} /\ tab'[t].loads = tab[t].loads
  BY <1>1, ShowReplyEffect
<1>3. (\A i : Asked(i)' = Asked(i)) /\ (\A i, x : Place(i, x)' = Place(i, x))
  BY <1>1, SameLog
<1>4. PICK i, m, n : i = tab[t].id /\ m = tab[t].messages /\ n = tab'[t].messages
  OBVIOUS
<1>5. /\ Len(m) \in Nat /\ Len(n) = Len(m) + 1
      /\ \A j \in 1 .. Len(m) : n[j] = m[j]
      /\ n[Len(m) + 1] = Shown(a)
  <2>1. m \in Seq(Message) /\ Shown(a) \in Message /\ n = Append(m, Shown(a))
    BY <1>1, <1>2, <1>4 DEF Tab, Shown, Message
  <2> QED
    BY <2>1, AppendProperties, LenProperties
<1>6. n[Len(m) + 1].question = a.question /\ (n[Len(m) + 1].ok => a.reply = "ok")
  <2>1. Shown(a).question = a.question
    BY DEF Shown
  <2>2. Shown(a).ok <=> a.reply = "ok"
    BY DEF Shown
  <2> QED
    BY <1>5, <2>1, <2>2
<1>7. /\ \A j \in 1 .. Len(m) : m[j].ok => m[j].question \in Asked(i)
      /\ \A j, k \in 1 .. Len(m) : j < k /\ m[j].ok /\ m[k].ok =>
            \A p \in Place(i, m[j].question), r \in Place(i, m[k].question) : p < r
      /\ \A b \in tab[t].asked : Awaited(t, b) => a = b
      /\ a.reply = "ok" => \A j \in 1 .. Len(m) : m[j].ok =>
            \A p \in Place(i, m[j].question), r \in Place(i, a.question) : p < r
  BY <1>1, <1>4 DEF Ordered
<1>8. \A j \in 1 .. Len(n) : j \in 1 .. Len(m) \/ j = Len(m) + 1
  BY <1>5
<1>9. \A j \in 1 .. Len(n) : n[j].ok => n[j].question \in Asked(i)
  BY <1>1, <1>4, <1>5, <1>6, <1>7, <1>8
<1>10. ASSUME NEW j \in 1 .. Len(n), NEW k \in 1 .. Len(n), j < k, n[j].ok, n[k].ok
       PROVE  \A p \in Place(i, n[j].question), r \in Place(i, n[k].question) : p < r
  <2>1. j \in 1 .. Len(m) /\ n[j] = m[j]
    BY <1>5, <1>10
  <2>2. CASE k \in 1 .. Len(m)
    BY <1>5, <1>7, <1>10, <2>1, <2>2
  <2>3. CASE k = Len(m) + 1
    BY <1>6, <1>7, <1>10, <2>1, <2>3
  <2> QED
    BY <1>8, <2>2, <2>3
<1>11. \A b \in tab'[t].asked : b.load # tab'[t].loads
  BY <1>2, <1>7 DEF Awaited
<1>12. Ordered(t)'
  BY <1>1, <1>2, <1>3, <1>4, <1>9, <1>10, <1>11 DEF Ordered, Awaited
<1> QED
  BY <1>1, <1>2, <1>12, QuietChat

LEMMA NextChat == IInv /\ ChatInv /\ [Next]_vars => ChatInv'
<1> SUFFICES ASSUME IInv, ChatInv, [Next]_vars PROVE ChatInv'
  OBVIOUS
<1>1. ASSUME NEW t \in Tabs, Runs(t) PROVE ChatInv'
  BY <1>1, BootChat, GetMessagesChat, ServeQuestionChat, ShowReplyChat, UploadsChat DEF Runs
<1>2. CASE UNCHANGED <<log, tab>>
  <2>1. \A t \in Tabs : Ordered(t)'
    BY <1>2, SameLog DEF ChatInv, Ordered, Awaited
  <2>2. Once'
    BY <1>2, SameLog DEF ChatInv, Once
  <2> QED
    BY <2>1, <2>2 DEF ChatInv
<1> QED
  BY <1>1, <1>2, BootChat, SendChat, UploadsChat
     DEF Next, Expire, Stopped, vars, backend

-----------------------------------------------------------------------------
(* The session of a tab.                                                   *)

\* A tab stays on its session, or has just used it; no page is loaded.
LEMMA QuietHome ==
    ASSUME IInv, Homes, NEW t \in Tabs, stored' = stored, live' \subseteq live,
           opened \subseteq opened', faults' \in {faults, faults + 1},
           \A u \in Tabs : tab'[u].loads = tab[u].loads,
           tab'[t].pc = tab[t].pc, tab'[t].id = tab[t].id,
           tab'[t].gotTables = tab[t].gotTables, tab'[t].gotMessages = tab[t].gotMessages,
           home'[t] = home[t] \/ (tab[t].pc = "ready" /\ home'[t] = tab[t].id)
    PROVE  Home(t)'
<1>1. /\ Home(t)
      /\ tab[t].pc = "ready" => tab[t].id \in opened
  BY DEF IInv, Homes, Sessions
<1>2. faults \in Nat
  BY DEF IInv, TypeOK
<1>3. Alone(t)' => Alone(t)
  BY <1>2 DEF Alone
<1>4. home'[t] \in opened' \cup {None}
  BY <1>1 DEF Home
<1> QED
  BY <1>1, <1>3, <1>4 DEF Home

\* While a page starts, no other tab is alone.
LEMMA OtherHome ==
    ASSUME IInv, Homes, NEW t \in Tabs, NEW u \in Tabs \ {t}, Moves(t),
           tab'[t].loads # 0, opened \subseteq opened', home' = home
    PROVE  Home(u)'
<1>1. tab'[u] = tab[u] /\ ~Alone(u)'
  BY DEF Moves, Alone
<1> QED
  BY <1>1 DEF Homes, Home

\* Nobody's session changes when a request is put, served or answered.
LEMMA RequestHomes ==
    ASSUME IInv, Homes, NEW t \in Tabs,
           \/ \E q \in Questions : Send(t, q)
           \/ \E f \in Files : Upload(t, f)
           \/ \E a \in tab[t].asked : ServeQuestion(t, a) \/ ShowReply(t, a)
           \/ \E u \in tab[t].uploads : ServeUpload(t, u) \/ ShowUpload(t, u)
    PROVE  Homes'
<1>1. TypeOK /\ Sessions
  BY DEF IInv
<1>2. /\ Moves(t) /\ tab'[t].pc = tab[t].pc /\ tab'[t].id = tab[t].id
      /\ tab'[t].gotTables = tab[t].gotTables /\ tab'[t].gotMessages = tab[t].gotMessages
      /\ tab'[t].loads = tab[t].loads
  BY <1>1, SendEffect, UploadEffect, ServeQuestionEffect, ShowReplyEffect,
     ServeUploadEffect, ShowUploadEffect
<1>3. UNCHANGED <<opened, live, stored>> /\ faults' \in {faults, faults + 1}
  BY DEF Send, Upload, ServeQuestion, ShowReply, ServeUpload, ShowUpload, Fault, backend
<1>4. /\ home' = home \/ (tab[t].pc = "ready" /\ home' = [home EXCEPT ![t] = tab[t].id])
      /\ home \in [Tabs -> Ids \cup {None}]
  BY <1>1 DEF Send, Sendable, ChatShown, Upload, ServeQuestion, ShowReply, ServeUpload,
              ShowUpload, TypeOK
<1>5. \A u \in Tabs : tab'[u].loads = tab[u].loads
  BY <1>2 DEF Moves
<1>6. Home(t)'
  BY <1>2, <1>3, <1>4, <1>5, QuietHome
<1>7. ASSUME NEW u \in Tabs \ {t} PROVE Home(u)'
  BY <1>2, <1>3, <1>4, <1>5, QuietHome DEF Moves
<1> QED
  BY <1>6, <1>7 DEF Homes

\* A page is loaded with what is stored.
LEMMA LoadHomes ==
    ASSUME IInv, Homes, NEW t \in Tabs, Load(t)
    PROVE  Homes'
<1>1. TypeOK /\ Sessions /\ Home(t) /\ tab[t].loads \in Nat
  BY TabFields DEF IInv, Homes, Tab
<1>2. /\ Moves(t) /\ tab'[t].id = stored /\ tab'[t].loads = tab[t].loads + 1
      /\ tab'[t].gotTables = "none" /\ tab'[t].gotMessages = "none"
      /\ tab'[t].pc = (IF stored = None THEN "creating" ELSE "restoring")
  BY <1>1, LoadEffect
<1>3. UNCHANGED <<opened, live, stored, faults, home>>
  BY DEF Load, backend
<1>4. Alone(t)' => Alone(t)
  BY <1>2, <1>3 DEF Alone, Moves
<1>5. home[t] \in live => home[t] # None
  BY <1>1 DEF TypeOK
<1>6. Home(t)'
  BY <1>1, <1>2, <1>3, <1>4, <1>5 DEF Home
<1>7. tab'[t].loads # 0
  BY <1>1, <1>2
<1> QED
  BY <1>2, <1>3, <1>6, <1>7, OtherHome DEF Homes

\* A restore fails only for a session that is gone.
LEMMA RestoreHomes ==
    ASSUME IInv, Homes, NEW t \in Tabs,
           GetTables(t) \/ GetMessages(t) \/ Restored(t) \/ RestoreFails(t)
    PROVE  Homes'
<1>1. TypeOK /\ Sessions /\ Home(t) /\ tab[t] \in Tab /\ faults \in Nat
  BY TabFields DEF IInv, Homes, TypeOK
<1>2. /\ Moves(t) /\ tab'[t].loads = tab[t].loads /\ tab[t].pc = "restoring"
  BY <1>1, GetTablesEffect, GetMessagesEffect, RestoredEffect, RestoreFailsEffect
     DEF GetTables, GetMessages, Restored, RestoreFails
<1>3. UNCHANGED <<opened, live, home>> /\ faults' \in {faults, faults + 1}
  BY DEF GetTables, GetMessages, Restored, RestoreFails, Fault, backend
<1>4. Alone(t)' => Alone(t) /\ faults' = 0 /\ faults = 0
  BY <1>1, <1>2, <1>3 DEF Alone, Moves
<1>5. CASE GetTables(t)
  <2>1. /\ tab'[t].pc = tab[t].pc /\ tab'[t].id = tab[t].id
        /\ tab'[t].gotMessages = tab[t].gotMessages /\ stored' = stored
    BY <1>1, <1>5, GetTablesEffect DEF GetTables
  <2>2. tab[t].id \in live /\ faults' = 0 => tab'[t].gotTables # "failed"
    <3>1. CASE tab'[t].gotTables = "ok"
      BY <3>1
    <3>2. CASE tab'[t].gotTables # "ok"
      <4>1. tab' # [tab EXCEPT ![t].gotTables = "ok", ![t].tables = loaded[tab[t].id]]
        BY <1>1, <3>2 DEF TypeOK, Tab
      <4>2. tab[t].id \in live => faults' = faults + 1
        BY <1>5, <4>1 DEF GetTables, Fault
      <4> QED
        BY <1>1, <4>2
    <3> QED
      BY <3>1, <3>2
  <2> QED
    BY <1>1, <1>2, <1>3, <1>4, <2>1, <2>2, OtherHome DEF Homes, Home
<1>6. CASE GetMessages(t)
  <2>1. /\ tab'[t].pc = tab[t].pc /\ tab'[t].id = tab[t].id
        /\ tab'[t].gotTables = tab[t].gotTables /\ stored' = stored
    BY <1>1, <1>6, GetMessagesEffect DEF GetMessages
  <2>2. tab[t].id \in live /\ faults' = 0 => tab'[t].gotMessages # "failed"
    <3>1. CASE tab'[t].gotMessages = "ok"
      BY <3>1
    <3>2. CASE tab'[t].gotMessages # "ok"
      <4>1. tab' # [tab EXCEPT ![t].gotMessages = "ok", ![t].messages = Turns(tab[t].id)]
        BY <1>1, <3>2 DEF TypeOK, Tab
      <4>2. tab[t].id \in live => faults' = faults + 1
        BY <1>6, <4>1 DEF GetMessages, Fault, Turns
      <4> QED
        BY <1>1, <4>2
    <3> QED
      BY <3>1, <3>2
  <2> QED
    BY <1>1, <1>2, <1>3, <1>4, <2>1, <2>2, OtherHome DEF Homes, Home
<1>7. CASE Restored(t)
  <2>1. tab'[t].pc = "ready" /\ tab'[t].id = tab[t].id /\ stored' = stored
    BY <1>1, <1>7, RestoredEffect DEF Restored
  <2> QED
    BY <1>1, <1>2, <1>3, <1>4, <2>1, OtherHome DEF Homes, Home
<1>8. CASE RestoreFails(t)
  <2>1. tab'[t].pc = "creating"
    BY <1>1, <1>8, RestoreFailsEffect
  <2>2. Alone(t) => tab[t].id \notin live
    BY <1>1, <1>8 DEF Home, RestoreFails
  <2> QED
    BY <1>1, <1>2, <1>3, <1>4, <2>1, <2>2, OtherHome DEF Homes, Home
<1> QED
  BY <1>5, <1>6, <1>7, <1>8

\* A new session is not one that was used before.
LEMMA CreateHomes ==
    ASSUME IInv, Homes, NEW t \in Tabs,
           (\E i \in Ids : Create(t, i)) \/ CreateFails(t) \/ Created(t)
    PROVE  Homes'
<1>1. TypeOK /\ Sessions /\ Home(t) /\ tab[t] \in Tab /\ faults \in Nat
  BY TabFields DEF IInv, Homes, TypeOK
<1>2. Moves(t) /\ tab'[t].loads = tab[t].loads /\ tab[t].pc \in {"creating", "created"}
  BY <1>1, CreateEffect, CreateFailsEffect, CreatedEffect DEF Create, CreateFails, Created
<1>3. /\ home' = home /\ opened \subseteq opened'
      /\ faults' \in {faults, faults + 1}
  BY DEF Create, CreateFails, Created, Fault, backend
<1>4. Alone(t)' => Alone(t)
  BY <1>1, <1>2, <1>3 DEF Alone, Moves
<1>5. Alone(t) => home[t] \notin live
  BY <1>1, <1>2 DEF Home
<1>6. Alone(t)' => home[t] \notin live'
  <2>1. CASE live' = live
    BY <1>4, <1>5, <2>1
  <2>2. ASSUME NEW i \in Ids, Create(t, i) PROVE Alone(t)' => home[t] \notin live'
    BY <1>1, <1>4, <1>5, <2>2, NoneAssumption DEF Create, Home
  <2> QED
    BY <2>1, <2>2 DEF CreateFails, Created, backend
<1>7. tab'[t].pc \in {"created", "bootError", "ready"}
  BY <1>1, CreateEffect, CreateFailsEffect, CreatedEffect
<1>8. tab'[t].pc = "ready" => stored' = tab'[t].id
  <2>1. ASSUME NEW i \in Ids, Create(t, i) PROVE tab'[t].pc # "ready"
    BY <1>1, <2>1, CreateEffect
  <2>2. CASE CreateFails(t)
    BY <1>1, <2>2, CreateFailsEffect
  <2>3. CASE Created(t)
    BY <1>1, <2>3, CreatedEffect DEF Created, StoreSessionId
  <2> QED
    BY <2>1, <2>2, <2>3
<1> QED
  BY <1>1, <1>2, <1>3, <1>4, <1>6, <1>7, <1>8, OtherHome DEF Homes, Home

LEMMA NextHomes == IInv /\ Homes /\ [Next]_vars => Homes'
<1> SUFFICES ASSUME IInv, Homes, [Next]_vars PROVE Homes'
  OBVIOUS
<1>1. ASSUME NEW t \in Tabs, Runs(t) PROVE Homes'
  BY <1>1, RestoreHomes, CreateHomes, RequestHomes DEF Runs
<1>2. CASE UNCHANGED <<opened, stored, tab, faults, home>> /\ live' \subseteq live
  BY <1>2, QuietHome DEF Homes
<1> QED
  BY <1>1, <1>2, LoadHomes, RequestHomes DEF Next, Expire, Stopped, vars, backend

-----------------------------------------------------------------------------
(* The input of the chat, which is disabled while `pending`.               *)

\* The form is disabled exactly while one answer is awaited: no reload, failure
\* or late answer to an earlier load of the page leaves it disabled, or frees it
\* while the question is on its way.
InputDisabledWhileAwaiting ==
    \A t \in Tabs :
        /\ tab[t].pending <=> \E a \in tab[t].asked : Awaited(t, a)
        /\ \A a, b \in tab[t].asked : Awaited(t, a) /\ Awaited(t, b) => a = b

\* Ordered has the rest of it.
Answering(t) == tab[t].pending => \E a \in tab[t].asked : Awaited(t, a)
Inputs == \A t \in Tabs : Answering(t)

\* One tab moves, and it keeps its promise.
LEMMA OtherInputs ==
    ASSUME Inputs, NEW t \in Tabs, Moves(t), Answering(t)'
    PROVE  Inputs'
BY DEF Inputs, Answering, Awaited, Moves

\* Neither the input nor what it waits for changes.
LEMMA QuietInputs ==
    ASSUME Inputs, NEW t \in Tabs, Moves(t), tab'[t].pending = tab[t].pending,
           tab'[t].asked = tab[t].asked, tab'[t].loads = tab[t].loads
    PROVE  Inputs'
<1>1. Answering(t)'
  BY DEF Inputs, Answering, Awaited
<1> QED
  BY <1>1, OtherInputs

\* A question put, served or answered.
LEMMA QuestionInputs ==
    ASSUME IInv, Inputs, NEW t \in Tabs,
           \/ \E q \in Questions : Send(t, q)
           \/ \E a \in tab[t].asked : ServeQuestion(t, a) \/ ShowReply(t, a)
    PROVE  Inputs'
<1>1. TypeOK /\ Sessions /\ Answering(t) /\ tab[t] \in Tab
  BY TabFields DEF IInv, Inputs
<1>2. ASSUME NEW q \in Questions, Send(t, q) PROVE Inputs'
  <2>1. /\ Moves(t) /\ tab'[t].loads = tab[t].loads
        /\ tab'[t].asked = tab[t].asked \cup {Asks(t, q)}
    BY <1>1, <1>2, SendEffect
  <2>2. Asks(t, q).load = tab[t].loads
    BY DEF Asks
  <2>3. Answering(t)'
    BY <2>1, <2>2 DEF Answering, Awaited
  <2> QED
    BY <2>1, <2>3, OtherInputs
<1>3. ASSUME NEW a \in tab[t].asked, ServeQuestion(t, a) PROVE Inputs'
  <2>1. /\ Moves(t) /\ tab'[t].loads = tab[t].loads /\ tab'[t].pending = tab[t].pending
        /\ \E reply \in {"ok", "failed"} :
              tab'[t].asked = (tab[t].asked \ {a}) \cup {Replied(a, reply)}
    BY <1>1, <1>3, ServeQuestionEffect
  <2>2. a \in Request
    BY <1>1 DEF Tab, Request
  <2>3. \A reply \in {"ok", "failed"} : Replied(a, reply).load = a.load
    BY <2>2 DEF Replied, Request
  <2>4. Answering(t)'
    BY <1>1, <2>1, <2>3 DEF Answering, Awaited
  <2> QED
    BY <2>1, <2>4, OtherInputs
<1>4. ASSUME NEW a \in tab[t].asked, ShowReply(t, a) PROVE Inputs'
  <2>1. Moves(t) /\ tab'[t].pending = FALSE
    BY <1>1, <1>4, ShowReplyEffect
  <2> QED
    BY <2>1, OtherInputs DEF Answering
<1> QED
  BY <1>2, <1>3, <1>4

LEMMA NextInputs == IInv /\ Inputs /\ [Next]_vars => Inputs'
<1> SUFFICES ASSUME IInv, Inputs, [Next]_vars PROVE Inputs'
  OBVIOUS
<1>0. TypeOK /\ Sessions
  BY DEF IInv
<1>1. ASSUME NEW t \in Tabs, Load(t) PROVE Inputs'
  <2>1. Moves(t) /\ tab'[t].pending = FALSE
    BY <1>0, <1>1, LoadEffect
  <2> QED
    BY <2>1, OtherInputs DEF Answering
<1>2. ASSUME NEW t \in Tabs, Runs(t) PROVE Inputs'
  <2>1. CASE GetTables(t)
    BY <1>0, <2>1, GetTablesEffect, QuietInputs
  <2>2. CASE GetMessages(t)
    BY <1>0, <2>2, GetMessagesEffect, QuietInputs
  <2>3. CASE Restored(t)
    BY <1>0, <2>3, RestoredEffect, QuietInputs
  <2>4. CASE RestoreFails(t)
    BY <1>0, <2>4, RestoreFailsEffect, QuietInputs
  <2>5. ASSUME NEW i \in Ids, Create(t, i) PROVE Inputs'
    BY <1>0, <2>5, CreateEffect, QuietInputs
  <2>6. CASE CreateFails(t)
    BY <1>0, <2>6, CreateFailsEffect, QuietInputs
  <2>7. CASE Created(t)
    BY <1>0, <2>7, CreatedEffect, QuietInputs
  <2>8. ASSUME NEW u, ServeUpload(t, u) PROVE Inputs'
    BY <1>0, <2>8, ServeUploadEffect, QuietInputs
  <2>9. ASSUME NEW u, ShowUpload(t, u) PROVE Inputs'
    BY <1>0, <2>9, ShowUploadEffect, QuietInputs
  <2> QED
    BY <1>2, <2>1, <2>2, <2>3, <2>4, <2>5, <2>6, <2>7, <2>8, <2>9, QuestionInputs
       DEF Runs
<1>3. ASSUME NEW t \in Tabs, NEW f \in Files, Upload(t, f) PROVE Inputs'
  BY <1>0, <1>3, UploadEffect, QuietInputs
<1>4. CASE UNCHANGED tab
  BY <1>4 DEF Inputs, Answering, Awaited
<1> QED
  BY <1>1, <1>2, <1>3, <1>4, QuestionInputs DEF Next, Expire, Stopped, vars

-----------------------------------------------------------------------------
(* The theorems.                                                           *)

LEMMA InitChat == Init => ChatInv
BY LenProperties DEF Init, ChatInv, Once, Ordered, Blank, Asked

LEMMA InitHomes == Init => Homes
BY DEF Init, Homes, Home, Blank

LEMMA InitInputs == Init => Inputs
BY DEF Init, Inputs, Answering, Blank

\* The page's state and the backend's stay within their types.
THEOREM TypeCorrect == Spec => []TypeOK
BY Invariance, PTL DEF IInv

\* Tables and answers a tab has shown of its session are still there after uploads
\* answered in any order and after a refresh (handleUploaded and bootstrap of
\* page.tsx).
THEOREM ShownIsKept == Spec => []NothingForgotten
<1>1. IInv => NothingForgotten
  BY DEF IInv, Kept, Chat, NothingForgotten
<1> QED
  BY <1>1, Invariance, PTL

\* The chat of every tab agrees with the conversation on record, however many tabs
\* share the session (handleSend of page.tsx).
THEOREM ChatInOrder == Spec => []ChatFollowsLog
<1>1. ASSUME Once, NEW i \in Ids, NEW q \in Asked(i) PROVE Cardinality(Place(i, q)) = 1
  <2>1. PICK j \in 1 .. Len(log[i]) : log[i][j] = q
    BY DEF Asked
  <2>2. Place(i, q) = {j}
    BY <1>1, <2>1 DEF Place, Once
  <2> QED
    BY <2>2, FS_Singleton
<1>2. IInv /\ ChatInv => ChatFollowsLog
  BY <1>1 DEF IInv, ChatInv, Ordered, ChatFollowsLog
<1> QED
  BY <1>2, Invariance, InitChat, NextChat, PTL DEF Spec

\* Without faults and other tabs, a tab leaves the session it has used only when
\* that session is gone (bootstrap of page.tsx, storage.ts).
THEOREM TabsStay == Spec => []OnlyFailuresMoveOn
<1>1. Homes => OnlyFailuresMoveOn
  BY DEF Homes, Home, Alone, OnlyFailuresMoveOn
<1> QED
  BY <1>1, Invariance, InitHomes, NextHomes, PTL DEF Spec

\* The chat's input comes back: it is disabled only while the answer to one question
\* of the present load is on its way, and is never free while one is (handleSend of
\* page.tsx, `pending` in ChatPanel.tsx).
THEOREM InputIsFreed == Spec => []InputDisabledWhileAwaiting
<1>1. ChatInv /\ Inputs => InputDisabledWhileAwaiting
  BY DEF ChatInv, Ordered, Inputs, Answering, InputDisabledWhileAwaiting
<1> QED
  BY <1>1, Invariance, InitChat, NextChat, InitInputs, NextInputs, PTL DEF Spec
=============================================================================
