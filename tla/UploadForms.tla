----------------------------- MODULE UploadForms -----------------------------
(***************************************************************************)
(* The upload forms of one page with a session open: the FileUpload of the *)
(* empty page (hero), of the rail beside the chat (aside) and of the sheet *)
(* that shows the rail on a narrow screen, the list of tables they feed    *)
(* (handleUploaded, TablesSidebar), and the backend as they find it.       *)
(*                                                                         *)
(* Several uploads may be on their way, from one form or from several, and *)
(* their answers come in any order.  A form that is unmounted forgets its  *)
(* state; the answers of its uploads still reach the page.                 *)
(***************************************************************************)
EXTENDS Naturals

CONSTANTS
    Files,          \* each backs one table
    Picks,          \* what users select or drop: files, and whether they all fit
    MaxUploads,     \* bound: uploads sent
    MaxOpens,       \* bound: times the sheet is opened
    None

Forms == {"hero", "aside", "sheet"}

ASSUME PicksAssumption == Picks \subseteq [files: SUBSET Files, fit: BOOLEAN]
ASSUME FormsAssumption == None \notin Forms
ASSUME BoundsAssumption == MaxUploads \in Nat /\ MaxOpens \in Nat

VARIABLES
    alive,          \* the backend: the session exists
    loaded,         \*   how often each file has been loaded
    tables,         \* Home's tables: the load of each file that is listed, or 0
    sheet,          \* the sheet is open
    form,           \* the state of each FileUpload
    uploads,        \* the uploads on their way
    sent,           \* how many have been sent
    opens,          \* how often the sheet has been opened
    unsure          \* history: files the last answer for which was lost or overtaken

vars == <<alive, loaded, tables, sheet, form, uploads, sent, opens, unsure>>

\* An input without a selection; also a drop without files.
Empty == [files |-> {}, fit |-> FALSE]

\* An error and the upload it is about.
NoError == [kind |-> "none", of |-> 0]
Error == [kind: {"none", "invalid", "listed", "reason", "generic"}, of: Nat]

\* busy: uploading.  list: the upload whose fileErrors are kept, or 0.  last: the one
\* lastUploaded is of, or 0.  input: the selection of the <input>.
\* crossed: history, two uploads of this form were on their way at once.
Form == [busy: BOOLEAN, error: Error, list: Nat, last: Nat,
         input: Picks \cup {Empty}, crossed: BOOLEAN]
Blank == [busy |-> FALSE, error |-> NoError, list |-> 0, last |-> 0,
          input |-> Empty, crossed |-> FALSE]

\* form: None once it is unmounted.  got: the tables of the answer.
Upload == [id: Nat, form: Forms \cup {None}, files: SUBSET Files,
           reply: {"none", "ok", "listed", "reason", "lost"}, got: [Files -> Nat]]

TypeOK ==
    /\ alive \in BOOLEAN /\ sheet \in BOOLEAN
    /\ loaded \in [Files -> Nat] /\ tables \in [Files -> Nat]
    /\ form \in [Forms -> Form]
    /\ uploads \subseteq Upload
    /\ sent \in Nat /\ opens \in Nat
    /\ unsure \subseteq Files

Init ==
    /\ alive = TRUE
    /\ loaded = [f \in Files |-> 0] /\ tables = [f \in Files |-> 0]
    /\ sheet = FALSE
    /\ form = [w \in Forms |-> Blank]
    /\ uploads = {} /\ sent = 0 /\ opens = 0
    /\ unsure = {}

-----------------------------------------------------------------------------
(* What is on the page.                                                    *)

Listed(t) == {f \in Files : t[f] # 0}
HasTables(t) == Listed(t) # {}

HeroShown(t) == ~HasTables(t)
RailShown(t) == HasTables(t)
SheetShown(t, s) == HasTables(t) /\ s

Mounted(w, t, s) ==
    \/ w = "hero" /\ HeroShown(t)
    \/ w = "aside" /\ RailShown(t)
    \/ w = "sheet" /\ SheetShown(t, s)

\* React renders the page with the tables t and the sheet open or not: forms that are
\* not on it any more lose their state, and their uploads the form they came from.
Render(t, s, forms, ups) ==
    /\ tables' = t /\ sheet' = s
    /\ form' = [w \in Forms |-> IF Mounted(w, t, s) THEN forms[w] ELSE Blank]
    /\ uploads' = {[u EXCEPT !.form = IF Mounted(u.form, t, s) THEN @ ELSE None] : u \in ups}

\* The open sheet is modal.
Usable(w) == Mounted(w, tables, sheet) /\ (sheet => w = "sheet")

OwnUploads(w) == {u \in uploads : u.form = w}

\* What a form says: "Uploading...", an error with the errors of its files, and the
\* tables that were loaded.
Notices(w) ==
    [uploading |-> form[w].busy,
     error |-> form[w].error,
     fileErrors |-> IF form[w].error.kind = "none" THEN 0 ELSE form[w].list,
     loaded |-> form[w].last]

-----------------------------------------------------------------------------
(* handleFiles, with the selection that is in the input by then.           *)

Refuse(w, p, selection) ==
    /\ ~p.fit
    /\ form' = [form EXCEPT ![w].input = selection,
                            ![w].error = [kind |-> "invalid", of |-> 0], ![w].list = 0]
    /\ UNCHANGED <<alive, loaded, tables, sheet, uploads, sent, opens, unsure>>

\* setError(null), setFileErrors(null), setUploading(true).  The mutant leaves the
\* errors of the files.
Restarted(F, selection, crosses) ==
    [F EXCEPT !.input = selection, !.error = NoError, !.busy = TRUE,
              !.crossed = @ \/ crosses]
Started(F, selection, crosses) ==
    [F EXCEPT !.input = selection, !.error = NoError, !.list = 0, !.busy = TRUE,
              !.crossed = @ \/ crosses]

SendFiles(w, p, selection) ==
    /\ p.fit /\ sent < MaxUploads
    /\ sent' = sent + 1
    /\ form' = [form EXCEPT ![w] = Started(@, selection, OwnUploads(w) # {})]
    /\ uploads' = uploads \cup {[id |-> sent + 1, form |-> w, files |-> p.files,
                                 reply |-> "none", got |-> [f \in Files |-> 0]]}
    /\ UNCHANGED <<alive, loaded, tables, sheet, opens, unsure>>

HandleFiles(w, p, selection) == Refuse(w, p, selection) \/ SendFiles(w, p, selection)

\* The browser fires no change event for the selection that is already there.
Choose(w, p) ==
    /\ Usable(w)
    /\ p # form[w].input
    /\ HandleFiles(w, p, p)

Drop(w, p) ==
    /\ Usable(w)
    /\ HandleFiles(w, p, form[w].input)

-----------------------------------------------------------------------------
(* POST /upload and its answer.                                            *)

Reply(u, reply, got) ==
    uploads' = (uploads \ {u}) \cup {[u EXCEPT !.reply = reply, !.got = got]}

Bumped(S) == [f \in Files |-> IF f \in S THEN loaded[f] + 1 ELSE loaded[f]]

\* 200 with the tables of the batch.
Accept(u) ==
    /\ u \in uploads /\ u.reply = "none" /\ alive
    /\ loaded' = Bumped(u.files)
    /\ Reply(u, "ok", [f \in Files |-> IF f \in u.files THEN loaded[f] + 1 ELSE 0])
    /\ UNCHANGED <<alive, tables, sheet, form, sent, opens, unsure>>

\* 400 with an entry for each failing file, or 404 with a sentence.
Reject(u) ==
    /\ u \in uploads /\ u.reply = "none"
    /\ Reply(u, IF alive THEN "listed" ELSE "reason", u.got)
    /\ UNCHANGED <<alive, loaded, tables, sheet, form, sent, opens, unsure>>

\* fetch rejects: the network, or a 500, whose answer has no CORS headers.  Some of
\* the batch may have been loaded.
Lose(u) ==
    /\ u \in uploads /\ u.reply = "none"
    /\ \E S \in SUBSET u.files :
          /\ alive \/ S = {}
          /\ loaded' = Bumped(S)
          /\ unsure' = unsure \cup S
    /\ Reply(u, "lost", u.got)
    /\ UNCHANGED <<alive, tables, sheet, form, sent, opens>>

\* catch: an ApiError brings its own list of file errors or none; any other error
\* leaves the list alone.
Failed(F, u) ==
    [F EXCEPT !.error = [kind |-> IF u.reply = "lost" THEN "generic" ELSE u.reply,
                         of |-> u.id],
              !.list = IF u.reply = "lost" THEN @
                       ELSE IF u.reply = "listed" THEN u.id ELSE 0]

\* finally.  The mutants leave out one of the two for an upload that failed.
StaysBusy(F, u) == [F EXCEPT !.busy = u.reply # "ok", !.input = Empty]
KeepsInput(F, u) == [F EXCEPT !.busy = FALSE, !.input = IF u.reply = "ok" THEN Empty ELSE @]
Ended(F, u) == [F EXCEPT !.busy = FALSE, !.input = Empty]

\* handleUploaded.  The mutant shows the new tables alone.
OnlyNew(got) == got
Merged(got) == [f \in Files |-> IF got[f] # 0 THEN got[f] ELSE tables[f]]

\* The page was brought back to an older load, or up to the present one.
Overtaken(u) == {f \in u.files : u.got[f] < tables[f]}
Current(u) == {f \in u.files : u.got[f] = loaded[f]}

\* setLastUploaded, onUploaded.
Succeed(u) ==
    /\ u \in uploads /\ u.reply = "ok"
    /\ LET forms == IF u.form = None THEN form
                    ELSE [form EXCEPT ![u.form] = Ended([@ EXCEPT !.last = u.id], u)]
       IN Render(Merged(u.got), sheet, forms, uploads \ {u})
    /\ unsure' = (unsure \cup Overtaken(u)) \ Current(u)
    /\ UNCHANGED <<alive, loaded, sent, opens>>

Fail(u) ==
    /\ u \in uploads /\ u.reply \in {"listed", "reason", "lost"}
    /\ form' = IF u.form = None THEN form
               ELSE [form EXCEPT ![u.form] = Ended(Failed(@, u), u)]
    /\ uploads' = uploads \ {u}
    /\ UNCHANGED <<alive, loaded, tables, sheet, sent, opens, unsure>>

-----------------------------------------------------------------------------

OpenSheet ==
    /\ HasTables(tables) /\ ~sheet
    /\ opens < MaxOpens /\ opens' = opens + 1
    /\ Render(tables, TRUE, form, uploads)
    /\ UNCHANGED <<alive, loaded, sent, unsure>>

CloseSheet ==
    /\ sheet
    /\ Render(tables, FALSE, form, uploads)
    /\ UNCHANGED <<alive, loaded, sent, opens, unsure>>

Expire ==
    /\ alive /\ alive' = FALSE
    /\ UNCHANGED <<loaded, tables, sheet, form, uploads, sent, opens, unsure>>

Next ==
    \/ \E w \in Forms, p \in Picks \cup {Empty} : Choose(w, p) \/ Drop(w, p)
    \/ \E u \in uploads : Accept(u) \/ Reject(u) \/ Lose(u) \/ Succeed(u) \/ Fail(u)
    \/ OpenSheet \/ CloseSheet \/ Expire

Spec == Init /\ [][Next]_vars

-----------------------------------------------------------------------------
(* Safety.                                                                 *)

\* "Sidebar clearly shows which tables are currently loaded": once no upload is on
\* its way, every loaded table is listed as it was loaded last, whichever forms have
\* come and gone, unless an answer was lost or overtaken by an older one.
ListingFresh ==
    uploads = {} => \A f \in Files \ unsure : tables[f] = loaded[f]

\* The errors listed for single files are those of the upload that the error above
\* them is about, unless two uploads of the form have crossed.
OneUploadsErrors ==
    \A w \in Forms :
        Notices(w).fileErrors # 0 /\ ~form[w].crossed =>
            Notices(w).error = [kind |-> "listed", of |-> Notices(w).fileErrors]

\* A form says "Uploading..." while its upload is on its way, and only then; after
\* a crossing it may stop saying it early, never late.
LoadingShown ==
    \A w \in Forms :
        /\ Notices(w).uploading => OwnUploads(w) # {}
        /\ OwnUploads(w) # {} => Notices(w).uploading \/ form[w].crossed

\* Files whose upload has ended can be selected again at once, whatever its outcome.
Retryable ==
    \A w \in Forms : form[w].input.fit => OwnUploads(w) # {}
=============================================================================
