--------------------------- MODULE UploadFormsProofs ---------------------------
(***************************************************************************)
(* What UploadForms_pages checks for three uploads, proved for any number  *)
(* of files, selections and uploads.                                       *)
(***************************************************************************)
EXTENDS UploadForms, TLAPS

-----------------------------------------------------------------------------
(* Types.                                                                  *)

LEMMA FormTypes ==
    ASSUME NEW F \in Form, NEW i \in Picks \cup {Empty}, NEW c \in BOOLEAN,
           NEW u \in Upload, NEW n \in Nat
    PROVE  /\ Started(F, i, c) \in Form
           /\ u.reply \in {"listed", "reason", "lost"} => Failed(F, u) \in Form
           /\ Ended(F, u) \in Form
           /\ [F EXCEPT !.last = n] \in Form
<1>1. Started(F, i, c) \in Form
  BY DEF Form, Started, Error, NoError
<1>2. u.reply \in {"listed", "reason", "lost"} => Failed(F, u) \in Form
  <2>1. u.id \in Nat
    BY DEF Upload
  <2> QED
    BY <2>1 DEF Form, Failed, Error
<1>3. Ended(F, u) \in Form
  BY DEF Form, Ended
<1>4. [F EXCEPT !.last = n] \in Form
  BY DEF Form
<1> QED
  BY <1>1, <1>2, <1>3, <1>4

LEMMA RenderTypes ==
    ASSUME NEW t \in [Files -> Nat], NEW s \in BOOLEAN,
           NEW forms \in [Forms -> Form], NEW ups \in SUBSET Upload,
           Render(t, s, forms, ups)
    PROVE  /\ tables' \in [Files -> Nat] /\ sheet' \in BOOLEAN
           /\ form' \in [Forms -> Form] /\ uploads' \subseteq Upload
  <1>1. Blank \in Form
    BY DEF Blank, Form, Error, NoError
  <1>2. form' \in [Forms -> Form]
    BY <1>1 DEF Render
  <1>3. ASSUME NEW u \in Upload
        PROVE  [u EXCEPT !.form = IF Mounted(u.form, t, s) THEN @ ELSE None] \in Upload
    BY DEF Upload
  <1> QED
    BY <1>2, <1>3 DEF Render

\* The page and its forms are well typed, whatever is selected and answered (Home,
\* FileUpload).
THEOREM TypeCorrect == Spec => []TypeOK
<1>1. Init => TypeOK
  <2>1. Blank \in Form
    BY DEF Blank, Form, Error, NoError
  <2> SUFFICES ASSUME Init PROVE TypeOK
    OBVIOUS
  <2>2. /\ loaded \in [Files -> Nat] /\ tables \in [Files -> Nat]
        /\ form \in [Forms -> Form]
    BY <2>1 DEF Init
  <2>3. uploads \subseteq Upload /\ sent \in Nat /\ opens \in Nat /\ unsure \subseteq Files
    BY DEF Init
  <2>4. alive \in BOOLEAN /\ sheet \in BOOLEAN
    BY DEF Init
  <2> QED
    BY <2>2, <2>3, <2>4 DEF TypeOK
<1>2. TypeOK /\ [Next]_vars => TypeOK'
  <2> SUFFICES ASSUME TypeOK, [Next]_vars PROVE TypeOK'
    OBVIOUS
  <2> USE DEF TypeOK
  <2>1. ASSUME NEW w \in Forms, NEW p \in Picks \cup {Empty}, NEW i \in Picks \cup {Empty},
               HandleFiles(w, p, i)
        PROVE  TypeOK'
    <3>1. CASE Refuse(w, p, i)
      <4>1. [form[w] EXCEPT !.input = i, !.error = [kind |-> "invalid", of |-> 0],
                            !.list = 0] \in Form
        BY DEF Form, Error
      <4> QED
        BY <3>1, <4>1 DEF Refuse
    <3>2. CASE SendFiles(w, p, i)
      <4>1. Started(form[w], i, OwnUploads(w) # {}) \in Form
        <5>1. form[w] \in Form
          OBVIOUS
        <5> QED
          BY <5>1 DEF Started, Form, Error, NoError
      <4>2. [id |-> sent + 1, form |-> w, files |-> p.files, reply |-> "none",
             got |-> [f \in Files |-> 0]] \in Upload
        <5>1. p.files \in SUBSET Files
          BY PicksAssumption DEF Empty
        <5> QED
          BY <5>1 DEF Upload
      <4> QED
        BY <3>2, <4>1, <4>2 DEF SendFiles
    <3> QED
      BY <2>1, <3>1, <3>2 DEF HandleFiles
  <2>2. ASSUME NEW w \in Forms, NEW p \in Picks \cup {Empty}, Choose(w, p) \/ Drop(w, p)
        PROVE  TypeOK'
    <3>1. form[w].input \in Picks \cup {Empty}
      BY DEF Form
    <3> QED
      BY <2>1, <2>2, <3>1 DEF Choose, Drop
  <2>3. ASSUME NEW u \in uploads, NEW r \in {"ok", "listed", "reason", "lost"},
               NEW g \in [Files -> Nat], Reply(u, r, g)
        PROVE  uploads' \subseteq Upload
    BY <2>3 DEF Reply, Upload
  <2>4. ASSUME NEW S \in SUBSET Files PROVE Bumped(S) \in [Files -> Nat]
    BY DEF Bumped
  <2>5. ASSUME NEW u \in uploads, Accept(u) PROVE TypeOK'
    <3>1. [f \in Files |-> IF f \in u.files THEN loaded[f] + 1 ELSE 0] \in [Files -> Nat]
      OBVIOUS
    <3>2. u.files \in SUBSET Files
      BY DEF Upload
    <3> QED
      BY <2>3, <2>4, <2>5, <3>1, <3>2 DEF Accept
  <2>6. ASSUME NEW u \in uploads, Reject(u) PROVE TypeOK'
    <3>1. u.got \in [Files -> Nat]
      BY DEF Upload
    <3> QED
      BY <2>3, <2>6, <3>1 DEF Reject
  <2>7. ASSUME NEW u \in uploads, Lose(u) PROVE TypeOK'
    <3>1. u.got \in [Files -> Nat] /\ u.files \in SUBSET Files
      BY DEF Upload
    <3> QED
      BY <2>3, <2>4, <2>7, <3>1 DEF Lose
  <2>8. ASSUME NEW u \in uploads, Succeed(u) PROVE TypeOK'
    <3> DEFINE forms == IF u.form = None THEN form
                        ELSE [form EXCEPT ![u.form] = Ended([@ EXCEPT !.last = u.id], u)]
    <3>1. u \in Upload
      OBVIOUS
    <3>2. Merged(u.got) \in [Files -> Nat]
      BY <3>1 DEF Merged, Upload
    <3>3. forms \in [Forms -> Form]
      <4>1. CASE u.form \in Forms
        <5>1. u.id \in Nat /\ form[u.form] \in Form
          BY <4>1, <3>1 DEF Upload
        <5>2. Ended([form[u.form] EXCEPT !.last = u.id], u) \in Form
          BY <5>1 DEF Ended, Form
        <5> QED
          BY <4>1, <5>2
      <4> QED
        BY <4>1, <3>1 DEF Upload
    <3>4. Render(Merged(u.got), sheet, forms, uploads \ {u})
      BY <2>8 DEF Succeed
    <3>5. /\ tables' \in [Files -> Nat] /\ sheet' \in BOOLEAN
          /\ form' \in [Forms -> Form] /\ uploads' \subseteq Upload
      <4> HIDE DEF forms
      <4> QED
        BY <3>2, <3>3, <3>4, RenderTypes
    <3>6. unsure' \subseteq Files
      BY <2>8, <3>1 DEF Succeed, Overtaken, Upload
    <3> QED
      BY <2>8, <3>5, <3>6 DEF Succeed
  <2>9. ASSUME NEW u \in uploads, Fail(u) PROVE TypeOK'
    <3>1. u \in Upload
      OBVIOUS
    <3>2. CASE u.form \in Forms
      <4>1. Ended(Failed(form[u.form], u), u) \in Form
        <5>1. form[u.form] \in Form /\ u.reply \in {"listed", "reason", "lost"}
          BY <2>9, <3>2 DEF Fail
        <5>2. Failed(form[u.form], u) \in Form
          BY <3>1, <5>1, FormTypes DEF Empty
        <5> QED
          BY <5>2 DEF Ended, Form
      <4>2. u.form # None
        BY <3>2, FormsAssumption
      <4> QED
        BY <2>9, <3>2, <4>1, <4>2 DEF Fail
    <3>3. CASE u.form = None
      BY <2>9, <3>3 DEF Fail
    <3> QED
      BY <3>1, <3>2, <3>3 DEF Upload
  <2>10. CASE OpenSheet
    <3>1. Render(tables, TRUE, form, uploads)
      BY <2>10 DEF OpenSheet
    <3>2. /\ tables' \in [Files -> Nat] /\ sheet' \in BOOLEAN
          /\ form' \in [Forms -> Form] /\ uploads' \subseteq Upload
      BY <3>1, RenderTypes
    <3> QED
      BY <2>10, <3>2 DEF OpenSheet
  <2>11. CASE CloseSheet
    <3>1. Render(tables, FALSE, form, uploads)
      BY <2>11 DEF CloseSheet
    <3>2. /\ tables' \in [Files -> Nat] /\ sheet' \in BOOLEAN
          /\ form' \in [Forms -> Form] /\ uploads' \subseteq Upload
      BY <3>1, RenderTypes
    <3> QED
      BY <2>11, <3>2 DEF CloseSheet
  <2>12. CASE Expire
    BY <2>12 DEF Expire
  <2>13. CASE UNCHANGED vars
    BY <2>13 DEF vars
  <2> QED
    BY <2>2, <2>5, <2>6, <2>7, <2>8, <2>9, <2>10, <2>11, <2>12, <2>13 DEF Next
<1> QED
  BY <1>1, <1>2, PTL DEF Spec

-----------------------------------------------------------------------------
(* The list of tables.                                                     *)

\* The answer of an upload on its way brings the present load of a file.
Coming(f) == \E u \in uploads : u.reply = "ok" /\ f \in u.files /\ u.got[f] = loaded[f]

\* An answer names its own files, and no load that has not been.
AnswersPast ==
    \A u \in uploads : u.reply = "ok" =>
        \A f \in Files : IF f \in u.files THEN u.got[f] # 0 /\ u.got[f] <= loaded[f]
                                        ELSE u.got[f] = 0

FreshInv ==
    /\ AnswersPast
    /\ \A f \in Files \ unsure : tables[f] = loaded[f] \/ Coming(f)

\* What React renders changes nothing in an answer.
LEMMA RenderAnswers ==
    ASSUME NEW t, NEW s, NEW forms, NEW ups \in SUBSET Upload, Render(t, s, forms, ups)
    PROVE  /\ tables' = t
           /\ \A v \in uploads' : \E u \in ups : /\ v.reply = u.reply
                                                 /\ v.files = u.files /\ v.got = u.got
           /\ \A u \in ups : \E v \in uploads' : /\ v.reply = u.reply
                                                 /\ v.files = u.files /\ v.got = u.got
<1> DEFINE R(u) == [u EXCEPT !.form = IF Mounted(u.form, t, s) THEN @ ELSE None]
<1>1. ASSUME NEW u \in Upload
      PROVE  R(u).reply = u.reply /\ R(u).files = u.files /\ R(u).got = u.got
  BY DEF Upload
<1>2. tables' = t /\ uploads' = {R(u) : u \in ups}
  BY DEF Render
<1> HIDE DEF R
<1> QED
  BY <1>1, <1>2

LEMMA FreshStep == TypeOK /\ FreshInv /\ [Next]_vars => FreshInv'
<1> SUFFICES ASSUME TypeOK, FreshInv, [Next]_vars PROVE FreshInv'
  OBVIOUS
<1> USE DEF TypeOK
<1>1. ASSUME UNCHANGED <<loaded, tables, uploads, unsure>> PROVE FreshInv'
  BY <1>1 DEF FreshInv, AnswersPast, Coming
<1>2. ASSUME NEW w \in Forms, NEW p \in Picks \cup {Empty}, Choose(w, p) \/ Drop(w, p)
      PROVE  FreshInv'
  <2>1. PICK i : HandleFiles(w, p, i)
    BY <1>2 DEF Choose, Drop
  <2>2. CASE Refuse(w, p, i)
    BY <1>1, <2>2 DEF Refuse
  <2>3. CASE SendFiles(w, p, i)
    BY <2>3 DEF SendFiles, FreshInv, AnswersPast, Coming
  <2> QED
    BY <2>1, <2>2, <2>3 DEF HandleFiles
<1>3. ASSUME NEW u \in uploads, NEW r, NEW g, Reply(u, r, g)
      PROVE  uploads' = (uploads \ {u}) \cup {[u EXCEPT !.reply = r, !.got = g]}
  BY <1>3 DEF Reply
<1>4. ASSUME NEW u \in uploads, Accept(u) PROVE FreshInv'
  <2> DEFINE g == [f \in Files |-> IF f \in u.files THEN loaded[f] + 1 ELSE 0]
             v == [u EXCEPT !.reply = "ok", !.got = g]
  <2>1. /\ uploads' = (uploads \ {u}) \cup {v}
        /\ u.reply = "none" /\ loaded' = Bumped(u.files)
        /\ UNCHANGED <<tables, unsure>>
    BY <1>4 DEF Accept, Reply
  <2>2. v.reply = "ok" /\ v.files = u.files /\ v.got = g
    BY DEF Upload
  <2>3. \A f \in Files : /\ loaded[f] <= loaded'[f]
                         /\ f \in u.files => g[f] = loaded'[f] /\ g[f] # 0
                         /\ f \notin u.files => g[f] = 0 /\ loaded'[f] = loaded[f]
                         /\ loaded'[f] \in Nat
    <3> TAKE f \in Files
    <3>1. loaded[f] \in Nat /\ loaded'[f] = IF f \in u.files THEN loaded[f] + 1 ELSE loaded[f]
      BY <2>1 DEF Bumped
    <3>2. g[f] = IF f \in u.files THEN loaded[f] + 1 ELSE 0
      OBVIOUS
    <3> HIDE DEF g
    <3> QED
      BY <3>1, <3>2
  <2> HIDE DEF g, v
  <2>4. AnswersPast'
    <3> SUFFICES ASSUME NEW x \in uploads', x.reply = "ok", NEW f \in Files
                 PROVE  IF f \in x.files THEN x.got[f] # 0 /\ x.got[f] <= loaded'[f]
                                         ELSE x.got[f] = 0
      BY DEF AnswersPast
    <3>1. CASE x = v
      <4>1. f \in u.files => g[f] # 0 /\ g[f] <= loaded'[f]
        BY <2>3
      <4>2. f \notin u.files => g[f] = 0
        BY <2>3
      <4> QED
        BY <3>1, <4>1, <4>2, <2>2
    <3>2. CASE x \in uploads
      <4>1. x.got[f] \in Nat /\ loaded[f] \in Nat /\ loaded'[f] \in Nat
        BY <3>2, <2>3 DEF Upload
      <4>2. IF f \in x.files THEN x.got[f] # 0 /\ x.got[f] <= loaded[f] ELSE x.got[f] = 0
        BY <3>2 DEF FreshInv, AnswersPast
      <4>3. loaded[f] <= loaded'[f]
        BY <2>3
      <4> QED
        BY <4>1, <4>2, <4>3
    <3> QED
      BY <2>1, <3>1, <3>2
  <2>5. ASSUME NEW f \in Files \ unsure' PROVE tables'[f] = loaded'[f] \/ Coming(f)'
    <3>1. CASE f \in u.files
      <4>1. v \in uploads' /\ v.reply = "ok" /\ f \in v.files /\ v.got[f] = loaded'[f]
        BY <3>1, <2>1, <2>2, <2>3
      <4> QED
        BY <4>1 DEF Coming
    <3>2. CASE f \notin u.files
      <4>1. tables'[f] = tables[f] /\ loaded'[f] = loaded[f]
        BY <3>2, <2>1, <2>3
      <4>2. tables[f] = loaded[f] \/ Coming(f)
        BY <2>1, <2>5 DEF FreshInv
      <4>3. ASSUME NEW x \in uploads, x.reply = "ok" PROVE x \in uploads'
        BY <4>3, <2>1
      <4> QED
        BY <4>1, <4>2, <4>3 DEF Coming
    <3> QED
      BY <3>1, <3>2
  <2> QED
    BY <2>4, <2>5 DEF FreshInv
<1>5. ASSUME NEW u \in uploads, NEW r \in {"listed", "reason", "lost"}, Reply(u, r, u.got),
             u.reply = "none", UNCHANGED tables, unsure \subseteq unsure',
             NEW S \in SUBSET unsure', loaded' = Bumped(S) \/ loaded' = loaded
      PROVE  FreshInv'
  <2> DEFINE v == [u EXCEPT !.reply = r, !.got = u.got]
  <2>1. uploads' = (uploads \ {u}) \cup {v} /\ v.reply # "ok"
    BY <1>5 DEF Reply, Upload
  <2>2. \A f \in Files : /\ loaded[f] <= loaded'[f] /\ loaded'[f] \in Nat
                         /\ f \notin S => loaded'[f] = loaded[f]
    BY <1>5 DEF Bumped
  <2> HIDE DEF v
  <2>3. AnswersPast'
    <3> SUFFICES ASSUME NEW x \in uploads', x.reply = "ok", NEW f \in Files
                 PROVE  IF f \in x.files THEN x.got[f] # 0 /\ x.got[f] <= loaded'[f]
                                         ELSE x.got[f] = 0
      BY DEF AnswersPast
    <3>1. x \in uploads
      BY <2>1
    <3>2. x.got[f] \in Nat /\ loaded[f] \in Nat
      BY <3>1 DEF Upload
    <3>3. IF f \in x.files THEN x.got[f] # 0 /\ x.got[f] <= loaded[f] ELSE x.got[f] = 0
      BY <3>1 DEF FreshInv, AnswersPast
    <3>4. loaded[f] <= loaded'[f] /\ loaded'[f] \in Nat
      BY <2>2
    <3> QED
      BY <3>2, <3>3, <3>4
  <2>4. ASSUME NEW f \in Files \ unsure' PROVE tables'[f] = loaded'[f] \/ Coming(f)'
    <3>1. f \notin S /\ f \notin unsure
      BY <1>5
    <3>2. tables'[f] = tables[f] /\ loaded'[f] = loaded[f]
      BY <3>1, <2>2, <1>5
    <3>3. tables[f] = loaded[f] \/ Coming(f)
      BY <3>1 DEF FreshInv
    <3>4. ASSUME NEW x \in uploads, x.reply = "ok" PROVE x \in uploads'
      BY <3>4, <2>1, <1>5
    <3> QED
      BY <3>2, <3>3, <3>4 DEF Coming
  <2> QED
    BY <2>3, <2>4 DEF FreshInv
<1>6. ASSUME NEW u \in uploads, Reject(u) PROVE FreshInv'
  <2>1. UNCHANGED <<loaded, tables, unsure>> /\ u.reply = "none"
    BY <1>6 DEF Reject
  <2>2. PICK r \in {"listed", "reason", "lost"} : Reply(u, r, u.got)
    BY <1>6 DEF Reject
  <2> QED
    BY <2>1, <2>2, <1>5
<1>7. ASSUME NEW u \in uploads, Lose(u) PROVE FreshInv'
  <2>1. PICK S \in SUBSET u.files : loaded' = Bumped(S) /\ unsure' = unsure \cup S
    BY <1>7 DEF Lose
  <2>2. Reply(u, "lost", u.got) /\ u.reply = "none" /\ UNCHANGED tables
    BY <1>7 DEF Lose
  <2>3. unsure \subseteq unsure' /\ S \in SUBSET unsure'
    BY <2>1
  <2> QED
    BY <2>1, <2>2, <2>3, <1>5
<1>8. ASSUME NEW u \in uploads, Succeed(u) PROVE FreshInv'
  <2>1. PICK forms : Render(Merged(u.got), sheet, forms, uploads \ {u})
    BY <1>8 DEF Succeed
  <2>2. /\ tables' = Merged(u.got)
        /\ \A v \in uploads' : \E x \in uploads \ {u} :
              v.reply = x.reply /\ v.files = x.files /\ v.got = x.got
        /\ \A x \in uploads \ {u} : \E v \in uploads' :
              v.reply = x.reply /\ v.files = x.files /\ v.got = x.got
    <3>1. uploads \ {u} \in SUBSET Upload
      OBVIOUS
    <3> QED
      BY <2>1, <3>1, RenderAnswers
  <2>3. /\ unsure' = (unsure \cup Overtaken(u)) \ Current(u)
        /\ UNCHANGED loaded /\ u.reply = "ok"
    BY <1>8 DEF Succeed
  <2>4. AnswersPast'
    <3> SUFFICES ASSUME NEW x \in uploads', x.reply = "ok", NEW f \in Files
                 PROVE  IF f \in x.files THEN x.got[f] # 0 /\ x.got[f] <= loaded'[f]
                                         ELSE x.got[f] = 0
      BY DEF AnswersPast
    <3> QED
      BY <2>2, <2>3 DEF FreshInv, AnswersPast
  <2>5. ASSUME NEW f \in Files \ unsure' PROVE tables'[f] = loaded'[f] \/ Coming(f)'
    <3>1. u.got[f] \in Nat /\ loaded[f] \in Nat /\ tables[f] \in Nat
      BY DEF Upload
    <3>2. CASE f \notin u.files
      <4>1. tables'[f] = tables[f] /\ f \notin unsure
        BY <3>2, <2>2, <2>3, <2>5 DEF Merged, Current, Overtaken, FreshInv, AnswersPast
      <4>2. CASE tables[f] = loaded[f]
        BY <4>1, <4>2, <2>3
      <4>3. CASE Coming(f)
        <5>1. PICK x \in uploads : x.reply = "ok" /\ f \in x.files /\ x.got[f] = loaded[f]
          BY <4>3 DEF Coming
        <5> QED
          BY <5>1, <3>2, <2>2, <2>3 DEF Coming
      <4> QED
        BY <4>1, <4>2, <4>3 DEF FreshInv
    <3>3. CASE f \in u.files /\ u.got[f] = loaded[f]
      <4>1. u.got[f] # 0
        BY <3>3, <2>3 DEF FreshInv, AnswersPast
      <4>2. tables'[f] = u.got[f]
        BY <4>1, <2>2 DEF Merged
      <4> QED
        BY <3>3, <4>2, <2>3
    <3>4. CASE f \in u.files /\ u.got[f] # loaded[f]
      <4>1. u.got[f] < loaded[f]
        BY <3>1, <3>4, <2>3 DEF FreshInv, AnswersPast
      <4>2. f \notin unsure /\ ~(u.got[f] < tables[f])
        BY <3>4, <2>3, <2>5 DEF Overtaken, Current
      <4>3. Coming(f)
        BY <3>1, <4>1, <4>2 DEF FreshInv
      <4>4. PICK x \in uploads : x.reply = "ok" /\ f \in x.files /\ x.got[f] = loaded[f]
        BY <4>3 DEF Coming
      <4>5. x # u
        BY <3>4, <4>4
      <4> QED
        BY <4>4, <4>5, <2>2, <2>3 DEF Coming
    <3> QED
      BY <3>2, <3>3, <3>4
  <2> QED
    BY <2>4, <2>5 DEF FreshInv
<1>9. ASSUME NEW u \in uploads, Fail(u) PROVE FreshInv'
  <2>1. /\ uploads' = uploads \ {u} /\ u.reply # "ok"
        /\ UNCHANGED <<loaded, tables, unsure>>
    BY <1>9 DEF Fail
  <2> QED
    BY <2>1 DEF FreshInv, AnswersPast, Coming
<1>10. ASSUME NEW s, Render(tables, s, form, uploads), UNCHANGED <<loaded, unsure>>
       PROVE  FreshInv'
  <2>1. /\ tables' = tables
        /\ \A v \in uploads' : \E x \in uploads :
              v.reply = x.reply /\ v.files = x.files /\ v.got = x.got
        /\ \A x \in uploads : \E v \in uploads' :
              v.reply = x.reply /\ v.files = x.files /\ v.got = x.got
    BY <1>10, RenderAnswers
  <2>2. AnswersPast'
    <3> SUFFICES ASSUME NEW x \in uploads', x.reply = "ok", NEW f \in Files
                 PROVE  IF f \in x.files THEN x.got[f] # 0 /\ x.got[f] <= loaded'[f]
                                         ELSE x.got[f] = 0
      BY DEF AnswersPast
    <3> QED
      BY <2>1, <1>10 DEF FreshInv, AnswersPast
  <2>3. ASSUME NEW f \in Files, Coming(f) PROVE Coming(f)'
    BY <2>1, <2>3, <1>10 DEF Coming
  <2> QED
    BY <2>1, <2>2, <2>3, <1>10 DEF FreshInv
<1>11. CASE OpenSheet \/ CloseSheet
  BY <1>10, <1>11 DEF OpenSheet, CloseSheet
<1>12. CASE Expire \/ UNCHANGED vars
  BY <1>1, <1>12 DEF Expire, vars
<1> QED
  BY <1>2, <1>4, <1>6, <1>7, <1>8, <1>9, <1>11, <1>12 DEF Next

\* The tables on the page are those of the backend as loaded last once no upload is
\* on its way, unless an answer was lost or overtaken: for any number of uploads,
\* forms that come and go, and an answer in any order (handleUploaded).
THEOREM ListingsFresh == Spec => []ListingFresh
<1>1. Init => FreshInv
  BY DEF Init, FreshInv, AnswersPast
<1>2. FreshInv => ListingFresh
  BY DEF FreshInv, ListingFresh, Coming
<1> QED
  BY <1>1, <1>2, TypeCorrect, FreshStep, PTL DEF Spec

-----------------------------------------------------------------------------
(* The forms.                                                              *)

\* The state F of a form whose uploads O are on their way.
FormOK(F, O) ==
    /\ F.busy => O # {}
    /\ O # {} => F.busy \/ F.crossed
    /\ F.input.fit => O # {}
    /\ ~F.crossed => \A u, v \in O : u = v
    /\ ~F.crossed /\ O # {} => F.list = 0
    /\ ~F.crossed /\ F.list # 0 => F.error = [kind |-> "listed", of |-> F.list]

FormsInv == \A w \in Forms : FormOK(form[w], OwnUploads(w))

LEMMA BlankOK == FormOK(Blank, {})
  BY DEF FormOK, Blank, Empty

\* Selecting or dropping files, and the end of an upload, keep FormOK.
LEMMA RefusedOK ==
    ASSUME NEW F \in Form, NEW O, NEW i \in Picks \cup {Empty}, FormOK(F, O),
           i.fit => F.input.fit
    PROVE  FormOK([F EXCEPT !.input = i, !.error = [kind |-> "invalid", of |-> 0],
                            !.list = 0], O)
  BY DEF FormOK, Form

LEMMA StartedOK ==
    ASSUME NEW F \in Form, NEW O, NEW u, NEW i \in Picks \cup {Empty}, FormOK(F, O),
           NEW G, G = Started(F, i, O # {})
    PROVE  FormOK(G, O \cup {u})
<1>1. G.busy /\ G.list = 0 /\ (~G.crossed => O = {})
  BY DEF Form, Started
<1> QED
  BY <1>1 DEF FormOK

LEMMA SucceededOK ==
    ASSUME NEW F \in Form, NEW O, NEW u \in O, FormOK(F, O)
    PROVE  FormOK(Ended([F EXCEPT !.last = u.id], u), O \ {u})
<1> DEFINE G == Ended([F EXCEPT !.last = u.id], u)
<1>1. /\ G.busy = FALSE /\ G.input = Empty /\ G.list = F.list
      /\ G.crossed = F.crossed /\ G.error = F.error
  BY DEF Form, Ended
<1> HIDE DEF G
<1>2. FormOK(G, O \ {u})
  BY <1>1 DEF FormOK, Empty
<1> QED
  BY <1>2 DEF G

LEMMA FailedOK ==
    ASSUME NEW F \in Form, NEW O, NEW u \in O, FormOK(F, O),
           u.reply \in {"listed", "reason", "lost"}
    PROVE  FormOK(Ended(Failed(F, u), u), O \ {u})
<1> DEFINE G == Ended(Failed(F, u), u)
<1>1. /\ G.busy = FALSE /\ G.input = Empty /\ G.crossed = F.crossed
      /\ u.reply = "lost" => G.list = F.list
      /\ u.reply = "reason" => G.list = 0
      /\ u.reply = "listed" => /\ G.list = u.id
                               /\ G.error = [kind |-> "listed", of |-> u.id]
  BY DEF Form, Ended, Failed
<1> HIDE DEF G
<1>2. FormOK(G, O \ {u})
  BY <1>1 DEF FormOK, Empty
<1> QED
  BY <1>2 DEF G

\* React renders: the forms that stay keep their state and their uploads, the others
\* have neither.
LEMMA RenderOK ==
    ASSUME NEW t, NEW s, NEW forms \in [Forms -> Form], NEW ups \in SUBSET Upload,
           Render(t, s, forms, ups),
           \A w \in Forms : FormOK(forms[w], {u \in ups : u.form = w})
    PROVE  FormsInv'
<1> DEFINE R(u) == [u EXCEPT !.form = IF Mounted(u.form, t, s) THEN @ ELSE None]
<1> SUFFICES ASSUME NEW w \in Forms PROVE FormOK(form'[w], OwnUploads(w)')
  BY DEF FormsInv
<1>1. uploads' = {R(u) : u \in ups}
  BY DEF Render
<1>2. w # None
  BY FormsAssumption
<1>3. ASSUME NEW u \in Upload
      PROVE  /\ Mounted(u.form, t, s) => R(u) = u
             /\ ~Mounted(u.form, t, s) => R(u).form = None
  BY DEF Upload
<1> HIDE DEF R
<1>4. CASE Mounted(w, t, s)
  <2>1. form'[w] = forms[w]
    BY <1>4 DEF Render
  <2>2. OwnUploads(w)' = {u \in ups : u.form = w}
    BY <1>1, <1>2, <1>3, <1>4 DEF OwnUploads
  <2> QED
    BY <2>1, <2>2
<1>5. CASE ~Mounted(w, t, s)
  <2>1. form'[w] = Blank
    BY <1>5 DEF Render
  <2>2. OwnUploads(w)' = {}
    BY <1>1, <1>2, <1>3, <1>5 DEF OwnUploads
  <2> QED
    BY <2>1, <2>2, BlankOK
<1> QED
  BY <1>4, <1>5

LEMMA FormsStep == TypeOK /\ FormsInv /\ [Next]_vars => FormsInv'
<1> SUFFICES ASSUME TypeOK, FormsInv, [Next]_vars PROVE FormsInv'
  OBVIOUS
<1>1. /\ form \in [Forms -> Form] /\ uploads \in SUBSET Upload
      /\ \A w \in Forms : form[w].input \in Picks \cup {Empty}
  BY DEF TypeOK, Form
<1>2. ASSUME UNCHANGED <<form, uploads>> PROVE FormsInv'
  BY <1>2 DEF FormsInv, OwnUploads
<1>3. ASSUME NEW w \in Forms, NEW p \in Picks \cup {Empty}, NEW i \in Picks \cup {Empty},
             HandleFiles(w, p, i), ~p.fit => (i.fit => form[w].input.fit)
      PROVE  FormsInv'
  <2> SUFFICES ASSUME NEW x \in Forms PROVE FormOK(form'[x], OwnUploads(x)')
    BY DEF FormsInv
  <2>1. FormOK(form[x], OwnUploads(x)) /\ form[x] \in Form
    BY <1>1 DEF FormsInv
  <2>2. CASE Refuse(w, p, i)
    <3>1. OwnUploads(x)' = OwnUploads(x)
      BY <2>2 DEF Refuse, OwnUploads
    <3>2. CASE x = w
      <4>1. form'[x] = [form[x] EXCEPT !.input = i,
                                       !.error = [kind |-> "invalid", of |-> 0], !.list = 0]
        BY <1>1, <2>2, <3>2 DEF Refuse
      <4>2. i.fit => form[x].input.fit
        BY <1>3, <2>2, <3>2 DEF Refuse
      <4> QED
        BY <2>1, <3>1, <4>1, <4>2, RefusedOK
    <3>3. CASE x # w
      BY <1>1, <2>1, <2>2, <3>1, <3>3 DEF Refuse
    <3> QED
      BY <3>2, <3>3
  <2>3. CASE SendFiles(w, p, i)
    <3>1. PICK u : u.form = w /\ uploads' = uploads \cup {u}
      BY <2>3 DEF SendFiles
    <3>2. CASE x = w
      <4>1. OwnUploads(x)' = OwnUploads(x) \cup {u}
        BY <3>1, <3>2 DEF OwnUploads
      <4>2. form'[x] = Started(form[x], i, OwnUploads(x) # {})
        BY <1>1, <2>3, <3>2 DEF SendFiles
      <4>3. FormOK(form'[x], OwnUploads(x) \cup {u})
        BY <2>1, <4>2, StartedOK
      <4> QED
        BY <4>1, <4>3
    <3>3. CASE x # w
      <4>1. OwnUploads(x)' = OwnUploads(x)
        BY <3>1, <3>3 DEF OwnUploads
      <4>2. form'[x] = form[x]
        BY <1>1, <2>3, <3>3 DEF SendFiles
      <4> QED
        BY <2>1, <4>1, <4>2
    <3> QED
      BY <3>2, <3>3
  <2> QED
    BY <1>3, <2>2, <2>3 DEF HandleFiles
<1>4. ASSUME NEW w \in Forms, NEW p \in Picks \cup {Empty}, Choose(w, p) PROVE FormsInv'
  BY <1>3, <1>4 DEF Choose
<1>5. ASSUME NEW w \in Forms, NEW p \in Picks \cup {Empty}, Drop(w, p) PROVE FormsInv'
  BY <1>1, <1>3, <1>5 DEF Drop
<1>6. ASSUME NEW u \in uploads, NEW r, NEW g, Reply(u, r, g), UNCHANGED form
      PROVE  FormsInv'
  <2> DEFINE v == [u EXCEPT !.reply = r, !.got = g]
  <2>1. v.form = u.form /\ uploads' = (uploads \ {u}) \cup {v}
    BY <1>1, <1>6 DEF Reply, Upload
  <2> HIDE DEF v
  <2> SUFFICES ASSUME NEW x \in Forms PROVE FormOK(form'[x], OwnUploads(x)')
    BY DEF FormsInv
  <2>2. FormOK(form[x], OwnUploads(x)) /\ form'[x] = form[x]
    BY <1>6 DEF FormsInv
  <2>3. CASE u.form # x
    <3>1. OwnUploads(x)' = OwnUploads(x)
      BY <2>1, <2>3 DEF OwnUploads
    <3> QED
      BY <2>2, <3>1
  <2>4. CASE u.form = x
    <3>1. OwnUploads(x)' = (OwnUploads(x) \ {u}) \cup {v} /\ u \in OwnUploads(x)
      BY <2>1, <2>4 DEF OwnUploads
    <3> QED
      BY <2>2, <3>1 DEF FormOK
  <2> QED
    BY <2>3, <2>4
<1>7. ASSUME NEW u \in uploads, Accept(u) \/ Reject(u) \/ Lose(u) PROVE FormsInv'
  BY <1>6, <1>7 DEF Accept, Reject, Lose
<1>8. ASSUME NEW u \in uploads, Succeed(u) PROVE FormsInv'
  <2> DEFINE forms == IF u.form = None THEN form
                      ELSE [form EXCEPT ![u.form] = Ended([@ EXCEPT !.last = u.id], u)]
  <2>1. Render(Merged(u.got), sheet, forms, uploads \ {u})
    BY <1>8 DEF Succeed
  <2>2. u.form \in Forms \cup {None} /\ u.id \in Nat
    BY <1>1 DEF Upload
  <2>3. forms \in [Forms -> Form]
    <3>1. CASE u.form \in Forms
      <4>1. Ended([form[u.form] EXCEPT !.last = u.id], u) \in Form
        BY <1>1, <2>2, <3>1 DEF Ended, Form
      <4> QED
        BY <1>1, <4>1
    <3> QED
      BY <1>1, <2>2, <3>1
  <2>4. ASSUME NEW x \in Forms PROVE FormOK(forms[x], {v \in uploads \ {u} : v.form = x})
    <3>1. FormOK(form[x], OwnUploads(x)) /\ form[x] \in Form
      BY <1>1 DEF FormsInv
    <3>2. CASE u.form # x
      <4>1. {v \in uploads \ {u} : v.form = x} = OwnUploads(x) /\ forms[x] = form[x]
        BY <1>1, <3>2 DEF OwnUploads
      <4> QED
        BY <3>1, <4>1
    <3>3. CASE u.form = x
      <4>1. /\ {v \in uploads \ {u} : v.form = x} = OwnUploads(x) \ {u}
            /\ u \in OwnUploads(x)
        BY <3>3 DEF OwnUploads
      <4>2. forms[x] = Ended([form[x] EXCEPT !.last = u.id], u)
        BY <1>1, <3>3, FormsAssumption
      <4> QED
        BY <3>1, <4>1, <4>2, SucceededOK
    <3> QED
      BY <3>2, <3>3
  <2> HIDE DEF forms
  <2> QED
    BY <1>1, <2>1, <2>3, <2>4, RenderOK
<1>9. ASSUME NEW u \in uploads, Fail(u) PROVE FormsInv'
  <2> SUFFICES ASSUME NEW x \in Forms PROVE FormOK(form'[x], OwnUploads(x)')
    BY DEF FormsInv
  <2>1. FormOK(form[x], OwnUploads(x)) /\ form[x] \in Form
    BY <1>1 DEF FormsInv
  <2>2. CASE u.form # x
    <3>1. OwnUploads(x)' = OwnUploads(x) /\ form'[x] = form[x]
      BY <1>1, <1>9, <2>2 DEF OwnUploads, Fail
    <3> QED
      BY <2>1, <3>1
  <2>3. CASE u.form = x
    <3>1. OwnUploads(x)' = OwnUploads(x) \ {u} /\ u \in OwnUploads(x)
      BY <1>9, <2>3 DEF OwnUploads, Fail
    <3>2. form'[x] = Ended(Failed(form[x], u), u)
      BY <1>1, <1>9, <2>3, FormsAssumption DEF Fail
    <3>3. u.reply \in {"listed", "reason", "lost"}
      BY <1>9 DEF Fail
    <3> QED
      BY <2>1, <3>1, <3>2, <3>3, FailedOK
  <2> QED
    BY <2>2, <2>3
<1>10. ASSUME NEW s, Render(tables, s, form, uploads) PROVE FormsInv'
  <2>1. \A w \in Forms : FormOK(form[w], {u \in uploads : u.form = w})
    BY DEF FormsInv, OwnUploads
  <2> QED
    BY <1>1, <1>10, <2>1, RenderOK
<1>11. CASE OpenSheet \/ CloseSheet
  BY <1>10, <1>11 DEF OpenSheet, CloseSheet
<1>12. CASE Expire \/ UNCHANGED vars
  BY <1>2, <1>12 DEF Expire, vars
<1> QED
  BY <1>4, <1>5, <1>7, <1>8, <1>9, <1>11, <1>12 DEF Next

LEMMA FormsAlwaysOK == Spec => []FormsInv
<1>1. Init => FormsInv
  <2>1. ASSUME Init, NEW w \in Forms PROVE form[w] = Blank /\ OwnUploads(w) = {}
    BY <2>1 DEF Init, OwnUploads
  <2> QED
    BY <2>1, BlankOK DEF FormsInv
<1> QED
  BY <1>1, TypeCorrect, FormsStep, PTL DEF Spec

\* Outside a crossing, the errors of single files under an error are its own, however
\* the uploads of this and other forms end (setError, setFileErrors).
THEOREM FileErrorsBelong == Spec => []OneUploadsErrors
<1>1. FormsInv => OneUploadsErrors
  BY DEF FormsInv, FormOK, OneUploadsErrors, Notices
<1> QED
  BY <1>1, FormsAlwaysOK, PTL

\* "Uploading..." is shown while an upload of the form is on its way and never after
\* (setUploading).
THEOREM LoadingIsShown == Spec => []LoadingShown
<1>1. FormsInv => LoadingShown
  BY DEF FormsInv, FormOK, LoadingShown, Notices
<1> QED
  BY <1>1, FormsAlwaysOK, PTL

\* No selection is stuck in the input once its upload has ended (finally).
THEOREM SelectionsFreed == Spec => []Retryable
<1>1. FormsInv => Retryable
  BY DEF FormsInv, FormOK, Retryable
<1> QED
  BY <1>1, FormsAlwaysOK, PTL
=============================================================================
