--------------------------- MODULE AnswerViewsProofs ---------------------------
(***************************************************************************)
(* Proofs about ResponseComposer and AnswerViews: a message is what compose *)
(* makes of its rows, and the card on the screen is what the components    *)
(* make of the message.                                                    *)
(***************************************************************************)
EXTENDS AnswerViews, TLAPS, FiniteSetTheorems, SequenceTheorems, WellFoundedInduction

\* What each stage of an answer has been made of.
Stages ==
    /\ pc \in {"limit", "execute", "compose", "summarize", "answered"} =>
          matches \in Matches /\ limit \in Limit
    /\ pc \in {"compose", "summarize", "answered"} => result \in Result
    /\ pc \in {"summarize", "answered"} => answer = Composed(intent, result)

IInv == TypeOK /\ Stages

-----------------------------------------------------------------------------
(* Facts about compose.                                                    *)

\* A set of one element holds what Only takes from it.
LEMMA OnlyOne ==
    ASSUME NEW S, Cardinality(S) = 1
    PROVE  Only(S) \in S
<1>1. S # {}
  BY FS_EmptySet
<1> QED  BY <1>1 DEF Only

\* Columns are numbered, and each has one kind.
LEMMA ColumnsTyped ==
    ASSUME NEW r \in Result, NEW k
    PROVE  /\ Columns(r, k) \subseteq Nat
           /\ Columns(r, k) \subseteq DOMAIN r.cols
           /\ \A c \in Columns(r, k) : KindOf(r, c) = k
<1>1. DOMAIN r.cols = 1 .. Len(r.cols) /\ Len(r.cols) \in Nat
  BY LenProperties DEF Result
<1> QED  BY <1>1 DEF Columns

\* A chart has a column on its axis and numeric ones in its series.
LEMMA ComposedTyped ==
    ASSUME NEW i, NEW r \in Result
    PROVE  Composed(i, r) \in Answer
<1>1. Columns(r, "numeric") \subseteq Nat
  BY ColumnsTyped
<1>2. ASSUME IsTrend(i, r) PROVE Only(Columns(r, "date")) \in Nat
  BY <1>2, OnlyOne, ColumnsTyped DEF IsTrend
<1>3. ASSUME IsBreakdown(i, r) PROVE Only(Columns(r, "category")) \in Nat
  BY <1>3, OnlyOne, ColumnsTyped DEF IsBreakdown
<1> QED
  BY <1>1, <1>2, <1>3 DEF Composed, Answer, Chart, Plain

\* What compose makes a chart of.
LEMMA ChartsOf ==
    ASSUME NEW i, NEW r \in Result, Composed(i, r).type # "text"
    PROVE  /\ r.rows > 0
           /\ Composed(i, r).type = "chart:bar" => r.rows <= BarMax
           /\ Composed(i, r).type = "chart:pie" =>
                 r.rows <= PieMax /\ Cardinality(Composed(i, r).series) = 1
           /\ Composed(i, r).type # "table" =>
                 /\ r.rows > 1
                 /\ Composed(i, r).series = Columns(r, "numeric")
                 /\ Columns(r, "numeric") # {}
                 /\ Composed(i, r).x \in Columns(r, "date") \cup Columns(r, "category")
<1> USE SizesAssumption DEF Result
<1>1. CASE r.rows = 0 \/ (r.rows = 1 /\ Len(r.cols) = 1)
  BY <1>1 DEF Composed, Plain
<1>2. CASE ~(r.rows = 0 \/ (r.rows = 1 /\ Len(r.cols) = 1)) /\ IsTrend(i, r)
  <2>1. Composed(i, r) = Chart("chart:line", Only(Columns(r, "date")), r)
    BY <1>2 DEF Composed
  <2>2. Only(Columns(r, "date")) \in Columns(r, "date")
    BY <1>2, OnlyOne DEF IsTrend
  <2> QED
    BY <1>2, <2>1, <2>2 DEF Chart, IsTrend
<1>3. CASE /\ ~(r.rows = 0 \/ (r.rows = 1 /\ Len(r.cols) = 1))
           /\ ~IsTrend(i, r) /\ IsBreakdown(i, r)
  <2>1. Composed(i, r) = Chart(IF IsShare(i, r) THEN "chart:pie" ELSE "chart:bar",
                               Only(Columns(r, "category")), r)
    BY <1>3 DEF Composed
  <2>2. Only(Columns(r, "category")) \in Columns(r, "category")
    BY <1>3, OnlyOne DEF IsBreakdown
  <2> QED
    BY <1>3, <2>1, <2>2 DEF Chart, IsBreakdown, IsShare
<1>4. CASE /\ ~(r.rows = 0 \/ (r.rows = 1 /\ Len(r.cols) = 1))
           /\ ~IsTrend(i, r) /\ ~IsBreakdown(i, r)
  BY <1>4 DEF Composed, Plain
<1> QED  BY <1>1, <1>2, <1>3, <1>4

-----------------------------------------------------------------------------
(* The inductive invariant.                                                *)

\* Before the question.
LEMMA InitIInv == Init => IInv
BY DEF Init, IInv, TypeOK, Stages

\* The query has run: its rows are a result.
LEMMA ExecuteIInv == IInv /\ Execute => IInv'
<1> SUFFICES ASSUME IInv, Execute PROVE IInv'
  OBVIOUS
<1>1. matches \in Matches /\ limit \in Limit /\ matches \in Result
  BY MatchesAssumption DEF Execute, IInv, Stages
<1> DEFINE n == Cut(matches.rows, limit)
           S == [kind: Kinds, nulls: SUBSET Nat]
<1>2. n \in Nat
  BY <1>1, LimitsAssumption, SizesAssumption DEF Cut, Limit, Result
<1>3. matches.cols \in Seq(S)
  BY <1>1 DEF Result
<1> HIDE DEF S, n
<1>4. /\ DOMAIN matches.cols = 1 .. Len(matches.cols) /\ Len(matches.cols) \in Nat
      /\ \A c \in 1 .. Len(matches.cols) : matches.cols[c] \in S
  BY <1>3, LenProperties, ElementOfSeq
<1>5. result'.cols = [c \in DOMAIN matches.cols |->
                        [matches.cols[c] EXCEPT !.nulls = @ \cap (1 .. n)]]
      /\ result'.rows = n
      /\ result' = [rows |-> result'.rows, cols |-> result'.cols]
  BY DEF Execute, n
<1>6. ASSUME NEW c \in 1 .. Len(matches.cols)
      PROVE  [matches.cols[c] EXCEPT !.nulls = @ \cap (1 .. n)] \in S
  BY <1>4 DEF S
<1>7. result'.cols \in [1 .. Len(matches.cols) -> S]
  BY <1>4, <1>5, <1>6
<1>8. result'.cols \in Seq(S)
  BY <1>4, <1>7, SeqDef
<1>9. result' \in Result
  BY <1>2, <1>5, <1>8 DEF Result, S
<1> QED
  BY <1>1, <1>9 DEF Execute, IInv, TypeOK, Stages

\* Every step keeps it.
LEMMA NextIInv == IInv /\ [Next]_vars => IInv'
<1> SUFFICES ASSUME IInv, [Next]_vars PROVE IInv'
  OBVIOUS
<1>1. CASE UNCHANGED vars
  BY <1>1 DEF IInv, TypeOK, Stages, vars
<1>2. CASE Fail
  BY <1>2 DEF Fail, IInv, TypeOK, Stages
<1>3. CASE Generate
  BY <1>3, MatchesAssumption DEF Generate, IInv, TypeOK, Stages
<1>4. CASE ApplyRowLimit
  <2>1. Limited(limit) \in Limit
    BY <1>4 DEF ApplyRowLimit, Limited, Limit, IInv, Stages
  <2>2. SaysLimited(limit) \in BOOLEAN
    BY DEF SaysLimited
  <2> QED
    BY <1>4, <2>1, <2>2 DEF ApplyRowLimit, IInv, TypeOK, Stages
<1>5. CASE Execute
  BY <1>5, ExecuteIInv
<1>6. CASE Compose
  <2>1. Composed(intent, result) \in Answer
    BY <1>6, ComposedTyped DEF Compose, IInv, Stages
  <2>2. Composed(intent, result)' = Composed(intent', result')
    OBVIOUS
  <2> QED
    BY <1>6, <2>1 DEF Compose, IInv, TypeOK, Stages
<1>7. CASE Summarize
  BY <1>7 DEF Summarize, IInv, TypeOK, Stages
<1>8. CASE Stopped
  BY <1>1, <1>8 DEF Stopped
<1> QED
  BY <1>1, <1>2, <1>3, <1>4, <1>5, <1>6, <1>7, <1>8 DEF Next

\* The steps of the screen are steps of the answer or leave it alone.
LEMMA ViewSteps == [ViewNext]_viewVars => [Next]_vars
BY DEF ViewNext, Answering, ViewExecute, Show, ViewStopped, viewVars, vars, Next

\* What is on the screen is an answer of the backend.
THEOREM ViewsShowAnswers == ViewSpec => Spec
BY ViewSteps, PTL DEF ViewSpec, ViewInit, Spec

\* The invariant holds in every reachable state.
LEMMA Invariance == Spec => []IInv
BY InitIInv, NextIInv, PTL DEF Spec

-----------------------------------------------------------------------------
(* The answers.                                                            *)

\* Every variable of an answer keeps its type.
THEOREM TypeCorrect == Spec => []TypeOK
<1>1. IInv => TypeOK
  BY DEF IInv
<1> QED  BY <1>1, Invariance, PTL

\* A chart has two points or more, not more than its type bears, and numeric series
\* with a number each; no chart or table is without rows.
THEOREM ChartsReadable == Spec => []Readable
<1>1. IInv => Readable
  <2> SUFFICES ASSUME IInv, pc = "answered", answer.type # "text"
               PROVE  /\ result.rows > 0
                      /\ answer.type = "chart:bar" => result.rows <= BarMax
                      /\ answer.type = "chart:pie" => /\ result.rows <= PieMax
                                                      /\ Cardinality(answer.series) = 1
                      /\ Charted =>
                            /\ result.rows > 1
                            /\ answer.series # {} /\ answer.x \notin answer.series
                            /\ \A c \in answer.series :
                                  Known(result, c) # {} /\ result.cols[c].kind = "numeric"
    BY DEF Readable, Charted
  <2>1. result \in Result /\ answer = Composed(intent, result)
    BY DEF IInv, Stages
  <2>2. \A k : \A c \in Columns(result, k) : KindOf(result, c) = k
    BY <2>1, ColumnsTyped
  <2>3. Charted => answer.x \notin answer.series
    BY <2>1, <2>2, ChartsOf DEF Charted
  <2>4. Charted => \A c \in answer.series :
                      Known(result, c) # {} /\ result.cols[c].kind = "numeric"
    BY <2>1, <2>2, ChartsOf DEF Charted, KindOf
  <2> QED
    BY <2>1, <2>3, <2>4, ChartsOf DEF Charted
<1> QED  BY <1>1, Invariance, PTL

\* The limit only takes rows away, at most max_rows_returned are left, and the
\* chat is told whenever it took one.
THEOREM LimitsTold == Spec => LimitTold
<1>1. IInv /\ [Next]_vars =>
        [pc' = "execute" => LET given == Cut(matches.rows, limit)
                                kept == Cut(matches.rows, limit') IN
                            /\ kept <= given
                            /\ limit.form # "other" => kept <= MaxRows
                            /\ kept < given => applied']_vars
  <2> SUFFICES ASSUME IInv, ApplyRowLimit
               PROVE  /\ Cut(matches.rows, limit') <= Cut(matches.rows, limit)
                      /\ limit.form # "other" => Cut(matches.rows, limit') <= MaxRows
                      /\ Cut(matches.rows, limit') < Cut(matches.rows, limit) => applied'
    BY DEF Next, Fail, Generate, Execute, Compose, Summarize, Stopped, vars
  <2>1. matches.rows \in Nat /\ limit \in Limit
    BY MatchesAssumption DEF ApplyRowLimit, IInv, Stages, Result
  <2>2. /\ limit.n = 0 \/ limit.n = MaxRows \/ limit.n \in Limits
        /\ limit.form \in {"none", "literal", "other"}
    BY <2>1 DEF Limit
  <2>3. limit.n \in Nat /\ MaxRows \in Nat
    <3>1. MaxRows \in Nat
      BY SizesAssumption
    <3>2. CASE limit.n \in Limits
      BY <3>1, <3>2, LimitsAssumption
    <3>3. CASE limit.n = 0
      BY <3>1, <3>3
    <3> QED
      BY <2>2, <3>1, <3>2, <3>3
  <2>4. limit' = Limited(limit) /\ applied' = SaysLimited(limit)
    BY DEF ApplyRowLimit
  <2> DEFINE n == matches.rows
             lowers == limit.form = "none" \/ (limit.form = "literal" /\ limit.n > MaxRows)
  <2>5. lowers => applied'
    BY <2>4 DEF SaysLimited
  <2>6. CASE lowers
    <3>1. limit'.form = "literal" /\ limit'.n = MaxRows
      BY <2>4, <2>6 DEF Limited
    <3>2. Cut(n, limit') = IF MaxRows < n THEN MaxRows ELSE n
      BY <3>1 DEF Cut
    <3>3. Cut(n, limit) = IF limit.form # "none" /\ limit.n < n THEN limit.n ELSE n
      BY DEF Cut
    <3>4. /\ n \in Nat /\ Cut(n, limit') \in Nat /\ Cut(n, limit) \in Nat
          /\ Cut(n, limit') <= MaxRows
      BY <2>1, <2>3, <3>2, <3>3
    <3>5. Cut(n, limit') <= Cut(n, limit)
      <4>1. CASE limit.form = "none"
        BY <2>1, <2>3, <3>2, <3>3, <4>1
      <4>2. CASE limit.form # "none" /\ limit.n > MaxRows
        BY <2>1, <2>3, <3>2, <3>3, <4>2
      <4> QED
        BY <2>6, <4>1, <4>2
    <3> QED
      BY <2>5, <2>6, <3>4, <3>5
  <2>7. CASE ~lowers
    <3>1. limit' = limit
      BY <2>4, <2>7 DEF Limited
    <3>2. Cut(n, limit') = IF limit.form # "none" /\ limit.n < n THEN limit.n ELSE n
      BY <3>1 DEF Cut
    <3>3. limit.form # "none" /\ (limit.form = "literal" => limit.n <= MaxRows)
      BY <2>3, <2>7
    <3> QED
      BY <2>1, <2>2, <2>3, <2>5, <2>7, <3>1, <3>2, <3>3
  <2> QED
    BY <2>6, <2>7
<1> QED
  BY <1>1, Invariance, PTL DEF LimitTold, Spec

-----------------------------------------------------------------------------
(* The screen.                                                             *)

\* What is drawn depends on the message alone.
LEMMA SameView ==
    ASSUME UNCHANGED <<vars, names>>
    PROVE  AnswerCard' = AnswerCard /\ ErrorCard' = ErrorCard
<1> USE DEF vars
<1>1. Rows' = Rows
  BY DEF Rows
<1>2. \A p : Series(p)' = Series(p)
  BY DEF Series
<1>3. Given' = Given
  BY <1>1, <1>2 DEF Given
<1>4. SeriesNames' = SeriesNames
  BY <1>3 DEF SeriesNames
<1>5. \A p : XText(p)' = XText(p)
  BY DEF XText
<1>6. \A p, n : Written(p, n)' = Written(p, n)
  BY <1>2 DEF Written
<1>7. \A p : FlatRow(p)' = FlatRow(p)
  BY <1>2, <1>5, <1>6 DEF FlatRow
<1>8. Marks' = Marks
  BY <1>1, <1>4, <1>7 DEF Marks, Mark
<1>9. \A p : Slice(p)' = Slice(p)
  BY <1>2 DEF Slice
<1>10. \A n : FirstPlace(n)' = FirstPlace(n)
  BY <1>3 DEF FirstPlace
<1>11. \A n : Place(n)' = Place(n)
  BY <1>4, <1>10 DEF Place
<1>12. PieView' = PieView
  BY <1>1, <1>5, <1>9 DEF PieView, Mark, Hue
<1>13. /\ XYView(Marks)' = XYView(Marks)
       /\ XYView(LineMarks)' = XYView(LineMarks)
  <2>1. \A p, n : Joined(p, n)' <=> Joined(p, n)
    BY <1>1, <1>7 DEF Joined
  <2>2. LineMarks' = LineMarks
    BY <1>8, <2>1 DEF LineMarks
  <2> QED
    BY <1>1, <1>4, <1>7, <1>8, <1>11, <2>2 DEF XYView, Hue
<1>14. ChartView' = ChartView
  BY <1>12, <1>13 DEF ChartView
<1>15. TableView' = TableView
  BY <1>1 DEF TableView
<1> QED
  BY <1>14, <1>15 DEF AnswerCard, ErrorCard, SqlDisclosure, Charted

\* A card shows the message that came.
CardShown ==
    card # None =>
        \/ pc = "answered" /\ card = AnswerCard
        \/ pc = "failed" /\ card = ErrorCard

LEMMA NextCardShown == IInv /\ CardShown /\ [ViewNext]_viewVars => CardShown'
<1> SUFFICES ASSUME CardShown, [ViewNext]_viewVars, card' # None PROVE CardShown'
  BY DEF CardShown
<1>1. CASE Show
  <2>1. UNCHANGED <<vars, names>> /\ pc' = pc
    BY <1>1 DEF Show, vars
  <2>2. AnswerCard' = AnswerCard /\ ErrorCard' = ErrorCard
    BY <2>1, SameView
  <2> QED
    BY <1>1, <2>1, <2>2 DEF Show, CardShown
<1>2. CASE UNCHANGED viewVars
  <2>1. UNCHANGED <<vars, names>> /\ pc' = pc /\ card' = card
    BY <1>2 DEF viewVars, vars
  <2>2. AnswerCard' = AnswerCard /\ ErrorCard' = ErrorCard
    BY <2>1, SameView
  <2> QED
    BY <2>1, <2>2 DEF CardShown
<1>3. CASE Answering \/ ViewExecute
  <2>1. card' = card /\ pc \notin {"answered", "failed"}
    BY <1>3 DEF Answering, ViewExecute, Fail, Generate, ApplyRowLimit, Execute, Compose,
                Summarize
  <2> QED
    BY <2>1 DEF CardShown
<1> QED
  BY <1>1, <1>2, <1>3 DEF ViewNext, ViewStopped

LEMMA ViewInvariance == ViewSpec => [](IInv /\ CardShown)
<1>1. ViewInit => IInv /\ CardShown
  BY InitIInv DEF ViewInit, CardShown
<1>2. IInv /\ CardShown /\ [ViewNext]_viewVars => (IInv /\ CardShown)'
  BY ViewSteps, NextIInv, NextCardShown
<1> QED  BY <1>1, <1>2, PTL DEF ViewSpec

\* The points of a line or bar chart, one name to a series and none called x.
LEMMA PlainPoints ==
    ASSUME PlainNames, answer.series \subseteq Nat, NEW p
    PROVE  /\ FlatRow(p)[XKey] = XText(p)
           /\ \A c \in Series(p) :
                 names[c] \in DOMAIN FlatRow(p) /\ FlatRow(p)[names[c]] = <<p, c>>
<1>1. Series(p) \subseteq answer.series
  BY DEF Series
<1>2. Written(p, XKey) = {}
  BY <1>1 DEF Written, PlainNames
<1>3. FlatRow(p)[XKey] = XText(p)
  BY <1>2 DEF FlatRow
<1>4. ASSUME NEW c \in Series(p)
      PROVE  names[c] \in DOMAIN FlatRow(p) /\ FlatRow(p)[names[c]] = <<p, c>>
  <2>1. Written(p, names[c]) = {c}
    BY <1>1, <1>4 DEF Written, PlainNames
  <2>2. c \in Nat
    BY <1>1, <1>4
  <2>3. Max({c}) = c
    BY <2>2 DEF Max
  <2>4. names[c] \in {XKey} \cup {names[d] : d \in Series(p)}
    BY <1>4
  <2> QED
    BY <2>1, <2>3, <2>4 DEF FlatRow
<1> QED
  BY <1>3, <1>4

\* Charts draw the numbers they were given, each at its point: a pie and a bar chart
\* all of them, a line those with a neighbour in their series.
THEOREM ChartsFaithful == ViewSpec => []DrawnAsGiven
<1>1. ASSUME IInv, CardShown, Drawn PROVE DrawnAsGiven
  <2>1. /\ pc = "answered" /\ card.chart = ChartView
        /\ answer.type \in {"chart:line", "chart:bar", "chart:pie"}
    BY <1>1 DEF Drawn, CardShown, AnswerCard, ErrorCard, Charted
  <2>2. result \in Result /\ answer = Composed(intent, result)
    BY <1>1, <2>1 DEF IInv, Stages
  <2>3. answer.series = Columns(result, "numeric") /\ answer.series \subseteq Nat
    BY <2>1, <2>2, ChartsOf, ColumnsTyped
  <2> DEFINE values == {<<m.at, m.value>> : m \in card.chart.marks}
  <2>4. CASE answer.type = "chart:pie"
    <3>1. card.chart.marks = {Mark(p, None, Slice(p)) : p \in Rows}
      BY <2>1, <2>4 DEF ChartView, PieView
    <3>2. ASSUME NEW p \in Rows PROVE <<p, Slice(p)>> \in values
      <4>1. Mark(p, None, Slice(p)) \in card.chart.marks
        BY <3>1
      <4> QED
        BY <4>1 DEF Mark
    <3>3. PICK c : answer.series = {c}
      <4>1. IsFiniteSet(answer.series)
        <5>1. DOMAIN result.cols = 1 .. Len(result.cols) /\ Len(result.cols) \in Nat
          BY <2>2, LenProperties DEF Result
        <5>2. IsFiniteSet(1 .. Len(result.cols))
          BY <5>1, FS_Interval
        <5>3. answer.series \subseteq 1 .. Len(result.cols)
          BY <2>2, <2>3, <5>1, ColumnsTyped
        <5> QED
          BY <5>2, <5>3, FS_Subset
      <4>2. Cardinality(answer.series) = 1
        BY <2>1, <2>2, <2>4, ChartsOf
      <4> QED
        BY <4>1, <4>2, FS_Singleton
    <3>4. ASSUME NEW p \in Rows
          PROVE  Slice(p) = IF p \in result.cols[c].nulls THEN Zero ELSE <<p, c>>
      <4>1. CASE p \in result.cols[c].nulls
        BY <3>3, <4>1 DEF Slice, Series
      <4>2. CASE p \notin result.cols[c].nulls
        <5>1. Series(p) = {c}
          BY <3>3, <4>2 DEF Series
        <5>2. Min({c}) = c
          BY <2>3, <3>3 DEF Min
        <5> QED
          BY <4>2, <5>1, <5>2 DEF Slice
      <4> QED
        BY <4>1, <4>2
    <3> QED
      BY <2>4, <3>2, <3>3, <3>4 DEF DrawnAsGiven
  <2>5. CASE answer.type # "chart:pie" /\ PlainNames
    <3>1. card.chart = XYView(IF answer.type = "chart:line" THEN LineMarks ELSE Marks)
      BY <2>1, <2>5 DEF ChartView
    <3>2. /\ card.chart.marks = IF answer.type = "chart:line" THEN LineMarks ELSE Marks
          /\ \A p \in Rows : card.chart.labels[p] = FlatRow(p)[XKey]
      BY <3>1 DEF XYView
    <3>3. \A p \in Rows : card.chart.labels[p] = XText(p)
      BY <2>3, <2>5, <3>2, PlainPoints
    <3>4. ASSUME NEW m \in Marks
          PROVE  /\ \E v \in Given : m.at = v[1] /\ m.value = v
                 /\ m.key = names[m.value[2]]
      <4>1. PICK p \in Rows, n \in SeriesNames :
               n \in DOMAIN FlatRow(p) /\ m = Mark(p, n, FlatRow(p)[n])
        BY <3>4 DEF Marks
      <4>2. n # XKey
        BY <2>5, <4>1 DEF SeriesNames, Given, PlainNames
      <4>3. PICK c \in Series(p) : n = names[c]
        BY <4>1, <4>2 DEF FlatRow
      <4>4. m.at = p /\ m.key = names[c] /\ m.value = <<p, c>>
        BY <2>3, <2>5, <4>1, <4>3, PlainPoints DEF Mark
      <4>5. <<p, c>> \in Given
        BY <4>1, <4>3 DEF Given, Series
      <4> QED
        BY <4>4, <4>5
    <3>5. ASSUME NEW v \in Given
          PROVE  \E m \in Marks : m.at = v[1] /\ m.value = v
      <4>1. v[1] \in Rows /\ v[2] \in Series(v[1]) /\ v = <<v[1], v[2]>>
        BY DEF Given
      <4>2. names[v[2]] \in SeriesNames
        BY DEF SeriesNames
      <4>3. /\ names[v[2]] \in DOMAIN FlatRow(v[1])
            /\ FlatRow(v[1])[names[v[2]]] = <<v[1], v[2]>>
        BY <2>3, <2>5, <4>1, PlainPoints
      <4>4. Mark(v[1], names[v[2]], FlatRow(v[1])[names[v[2]]]) \in Marks
        <5> DEFINE q == <<v[1], names[v[2]]>>
        <5>1. q \in Rows \X SeriesNames /\ q[2] \in DOMAIN FlatRow(q[1])
          BY <4>1, <4>2, <4>3
        <5> QED
          BY <5>1 DEF Marks
      <4> QED
        BY <4>1, <4>3, <4>4 DEF Mark
    <3>6. ASSUME NEW p, NEW v \in Given
          PROVE  names[v[2]] \in DOMAIN FlatRow(p) <=> v[2] \in Series(p)
      <4>1. v[2] \in answer.series /\ Series(p) \subseteq answer.series
        BY DEF Given, Series
      <4> QED
        BY <2>5, <4>1 DEF FlatRow, PlainNames
    <3>7. ASSUME NEW m \in Marks
          PROVE  Joined(m.at, m.key) <=> ~Alone(m.value)
      <4>1. m.value \in Given /\ m.at = m.value[1] /\ m.key = names[m.value[2]]
        BY <3>4
      <4>2. \A p : m.key \in DOMAIN FlatRow(p) <=> m.value[2] \in Series(p)
        BY <3>6, <4>1
      <4> QED
        BY <4>1, <4>2 DEF Joined, Alone
    <3>8. \A m \in card.chart.marks : /\ m \in Marks
                                      /\ m.value \in Expected /\ m.at = m.value[1]
      BY <3>2, <3>4, <3>7 DEF LineMarks, Expected
    <3>9. ASSUME NEW v \in Expected
          PROVE  \E m \in card.chart.marks : m.at = v[1] /\ m.value = v
      <4>1. v \in Given
        BY DEF Expected
      <4>2. PICK m \in Marks : m.at = v[1] /\ m.value = v
        BY <3>5, <4>1
      <4>3. m \in card.chart.marks
        BY <3>2, <3>7, <4>2 DEF LineMarks, Expected
      <4> QED
        BY <4>2, <4>3
    <3>10. values = {<<v[1], v>> : v \in Expected}
      BY <3>8, <3>9
    <3> QED
      BY <2>5, <3>3, <3>4, <3>8, <3>10 DEF DrawnAsGiven
  <2> QED
    BY <2>4, <2>5 DEF DrawnAsGiven
<1>2. IInv /\ CardShown => DrawnAsGiven
  BY <1>1 DEF DrawnAsGiven
<1> QED  BY <1>2, ViewInvariance, PTL
-----------------------------------------------------------------------------
(* The colours.                                                            *)

\* A non-empty set of numbers has a least element.
LEMMA LeastNumber ==
    ASSUME NEW T \in SUBSET Nat, T # {}
    PROVE  Min(T) \in T /\ \A m \in T : Min(T) <= m
<1>1. PICK n \in T : \A m \in T : ~(<<m, n>> \in OpToRel(<, Nat))
  BY NatLessThanWellFounded, WFMin
<1>2. \A m \in T : ~(m < n)
  BY <1>1 DEF OpToRel
<1>3. \A m \in T : n <= m
  BY <1>2
<1> QED  BY <1>3 DEF Min

\* Where column c of row p comes among the L columns of the rows.
Position(L, p, c) == (p - 1) * L + c

\* Row by row and column by column, no two values have one place.
LEMMA PlacesDiffer ==
    ASSUME NEW L \in Nat, NEW p \in Nat, NEW q \in Nat,
           NEW c \in 1 .. L, NEW d \in 1 .. L,
           Position(L, p, c) = Position(L, q, d)
    PROVE  p = q /\ c = d
<1> USE DEF Position
<1>1. ASSUME NEW i \in Nat, NEW j \in Nat, i < j PROVE (j - 1) * L >= (i - 1) * L + L
  <2> DEFINE k == j - i - 1
  <2>1. k \in Nat /\ j - 1 = (i - 1) + (k + 1)
    BY <1>1
  <2>2. k * L \in Nat /\ (k + 1) * L = k * L + L
    BY <2>1
  <2>3. (j - 1) * L = (i - 1) * L + (k + 1) * L
    BY <2>1
  <2> QED  BY <2>2, <2>3
<1>2. (p - 1) * L \in Int /\ (q - 1) * L \in Int
  OBVIOUS
<1>3. ~(p < q)
  <2> SUFFICES ASSUME p < q PROVE FALSE
    OBVIOUS
  <2>1. (q - 1) * L >= (p - 1) * L + L
    BY <1>1
  <2> QED  BY <1>2, <2>1
<1>4. ~(q < p)
  <2> SUFFICES ASSUME q < p PROVE FALSE
    OBVIOUS
  <2>1. (p - 1) * L >= (q - 1) * L + L
    BY <1>1
  <2> QED  BY <1>2, <2>1
<1>5. p = q
  BY <1>3, <1>4
<1> QED  BY <1>2, <1>5

\* A chart has finitely many names, and each has a place of its own.
LEMMA FirstPlaces ==
    ASSUME result \in Result, answer.series \subseteq DOMAIN result.cols
    PROVE  /\ IsFiniteSet(SeriesNames)
           /\ \A n \in SeriesNames : FirstPlace(n) \in Nat
           /\ \A m, n \in SeriesNames : FirstPlace(m) = FirstPlace(n) => m = n
<1> DEFINE L == Len(result.cols)
           At(v) == Position(L, v[1], v[2])
           Those(n) == {v \in Given : names[v[2]] = n}
<1>1. L \in Nat /\ DOMAIN result.cols = 1 .. L /\ result.rows \in Nat
  BY LenProperties DEF Result
<1>2. ASSUME NEW v \in Given
      PROVE  v[1] \in 1 .. result.rows /\ v[2] \in 1 .. L /\ v = <<v[1], v[2]>>
  BY <1>1 DEF Given, Rows
<1>3. ASSUME NEW v \in Given PROVE At(v) \in Nat
  <2>1. v[1] - 1 \in Nat /\ v[2] \in Nat
    BY <1>1, <1>2
  <2>2. (v[1] - 1) * L \in Nat
    BY <1>1, <2>1
  <2> QED  BY <2>1, <2>2 DEF Position
<1>4. ASSUME NEW v \in Given, NEW w \in Given, At(v) = At(w) PROVE v = w
  <2>1. v[1] \in Nat /\ w[1] \in Nat
    BY <1>1, <1>2
  <2>2. Position(L, v[1], v[2]) = Position(L, w[1], w[2])
    BY <1>4
  <2>3. v[2] \in 1 .. L /\ w[2] \in 1 .. L
    BY <1>2
  <2>4. v[1] = w[1] /\ v[2] = w[2]
    <3> HIDE DEF L
    <3> QED  BY <1>1, <2>1, <2>2, <2>3, PlacesDiffer
  <2> QED  BY <1>2, <2>4
<1>5. ASSUME NEW n \in SeriesNames
      PROVE  FirstPlace(n) \in Nat /\ \E v \in Those(n) : FirstPlace(n) = At(v)
  <2> DEFINE T == {At(v) : v \in Those(n)}
  <2>1. T \in SUBSET Nat /\ T # {}
    BY <1>3 DEF SeriesNames
  <2>2. FirstPlace(n) = Min(T)
    BY DEF FirstPlace, Position
  <2>3. Min(T) \in T
    <3> HIDE DEF T
    <3> QED  BY <2>1, LeastNumber
  <2> QED  BY <2>1, <2>2, <2>3
<1>6. ASSUME NEW m \in SeriesNames, NEW n \in SeriesNames, FirstPlace(m) = FirstPlace(n)
      PROVE  m = n
  <2>1. PICK v \in Those(m) : FirstPlace(m) = At(v)
    BY <1>5
  <2>2. PICK w \in Those(n) : FirstPlace(n) = At(w)
    BY <1>5
  <2>3. v = w
    BY <1>4, <1>6, <2>1, <2>2
  <2> QED  BY <2>1, <2>2, <2>3
<1>7. IsFiniteSet(SeriesNames)
  <2>1. IsFiniteSet(1 .. result.rows) /\ IsFiniteSet(1 .. L)
    BY <1>1, FS_Interval
  <2>2. IsFiniteSet((1 .. result.rows) \X (1 .. L))
    BY <2>1, FS_Product
  <2>3. Given \subseteq (1 .. result.rows) \X (1 .. L)
    BY <1>1 DEF Given, Rows
  <2>4. IsFiniteSet(Given)
    BY <2>2, <2>3, FS_Subset
  <2> DEFINE f == [v \in Given |-> names[v[2]]]
  <2>5. f \in Surjection(Given, SeriesNames)
    BY DEF Surjection, SeriesNames
  <2> QED  BY <2>4, <2>5, FS_Surjection
<1> QED  BY <1>5, <1>6, <1>7

\* Names are numbered from 0 as they come, without a repeat.
LEMMA Places ==
    ASSUME result \in Result, answer.series \subseteq DOMAIN result.cols
    PROVE  /\ \A n \in SeriesNames : Place(n) \in 0 .. Cardinality(SeriesNames) - 1
           /\ \A m, n \in SeriesNames : Place(m) = Place(n) => m = n
<1> DEFINE Before(n) == {m \in SeriesNames : FirstPlace(m) < FirstPlace(n)}
<1>1. /\ IsFiniteSet(SeriesNames)
      /\ \A n \in SeriesNames : FirstPlace(n) \in Nat
      /\ \A m, n \in SeriesNames : FirstPlace(m) = FirstPlace(n) => m = n
  BY FirstPlaces
<1>2. \A n \in SeriesNames : Place(n) = Cardinality(Before(n))
  BY DEF Place
<1>3. ASSUME NEW n \in SeriesNames
      PROVE  /\ IsFiniteSet(Before(n)) /\ Cardinality(Before(n)) \in Nat
             /\ Before(n) # SeriesNames /\ Before(n) \subseteq SeriesNames
  <2>1. n \notin Before(n)
    BY <1>1
  <2>2. IsFiniteSet(Before(n))
    BY <1>1, FS_Subset
  <2> QED  BY <2>1, <2>2, FS_CardinalityType
<1>4. ASSUME NEW n \in SeriesNames
      PROVE  Place(n) \in 0 .. Cardinality(SeriesNames) - 1
  <2> HIDE DEF Before
  <2>1. Cardinality(Before(n)) < Cardinality(SeriesNames)
    <3>1. /\ Cardinality(Before(n)) <= Cardinality(SeriesNames)
          /\ Cardinality(Before(n)) = Cardinality(SeriesNames) => Before(n) = SeriesNames
      BY <1>1, <1>3, FS_Subset
    <3> QED  BY <1>1, <1>3, <3>1, FS_CardinalityType
  <2>2. Cardinality(SeriesNames) \in Nat
    BY <1>1, FS_CardinalityType
  <2> QED  BY <1>2, <1>3, <2>1, <2>2
<1>5. ASSUME NEW m \in SeriesNames, NEW n \in SeriesNames, FirstPlace(m) < FirstPlace(n)
      PROVE  Place(m) < Place(n)
  <2>1. m \in Before(n) /\ m \notin Before(m)
    BY <1>1, <1>5
  <2>2. Before(m) \subseteq Before(n)
    BY <1>1, <1>5
  <2>3. Cardinality(Before(m)) < Cardinality(Before(n))
    <3> HIDE DEF Before
    <3>1. IsFiniteSet(Before(n)) /\ Cardinality(Before(n)) \in Nat
      BY <1>3
    <3>2. /\ Cardinality(Before(m)) <= Cardinality(Before(n))
          /\ Cardinality(Before(m)) = Cardinality(Before(n)) => Before(m) = Before(n)
      BY <2>2, <3>1, FS_Subset
    <3>3. Cardinality(Before(m)) \in Nat
      BY <1>3
    <3> QED  BY <2>1, <3>1, <3>2, <3>3
  <2> QED  BY <1>2, <2>3
<1>6. ASSUME NEW m \in SeriesNames, NEW n \in SeriesNames, Place(m) = Place(n)
      PROVE  m = n
  <2>1. Place(m) \in Int /\ Place(n) \in Int
    <3> HIDE DEF Before
    <3> QED  BY <1>2, <1>3
  <2>2. ~(FirstPlace(m) < FirstPlace(n)) /\ ~(FirstPlace(n) < FirstPlace(m))
    BY <1>5, <1>6, <2>1
  <2>3. FirstPlace(m) \in Nat /\ FirstPlace(n) \in Nat
    BY <1>1
  <2> QED  BY <1>1, <2>2, <2>3
<1> QED  BY <1>4, <1>6

\* The first Colours hues are all different.
LEMMA HuesDiffer ==
    ASSUME NEW i \in Nat, NEW j \in Nat, i < Colours, j < Colours, Hue(i) = Hue(j)
    PROVE  i = j
<1>1. Colours \in Nat /\ Colours > 0
  BY PaletteAssumption
<1>2. i % Colours = i /\ j % Colours = j
  BY <1>1
<1> QED  BY <1>2 DEF Hue

\* Two slices never have one colour, nor two series while there are colours for
\* all, and a legend names them.
THEOREM ChartsTellApart == ViewSpec => []ToldApart
<1>1. ASSUME IInv, CardShown, Drawn PROVE ToldApart
  <2>1. /\ pc = "answered" /\ card.chart = ChartView
        /\ answer.type \in {"chart:line", "chart:bar", "chart:pie"}
    BY <1>1 DEF Drawn, CardShown, AnswerCard, ErrorCard, Charted
  <2>2. result \in Result /\ answer = Composed(intent, result)
    BY <1>1, <2>1 DEF IInv, Stages
  <2>3. answer.series \subseteq DOMAIN result.cols
    BY <2>1, <2>2, ChartsOf, ColumnsTyped
  <2>4. CASE answer.type = "chart:pie"
    <3>1. card.chart.hues = [p \in Rows |-> Hue(p - 1)] /\ card.chart.legend = TRUE
      BY <2>1, <2>4 DEF ChartView, PieView
    <3>2. result.rows \in Nat /\ result.rows <= PieMax
      BY <2>2, <2>4, ChartsOf DEF Result
    <3>3. result.rows <= Colours
      BY <3>2, PaletteAssumption, SizesAssumption
    <3>4. ASSUME NEW p \in Rows, NEW q \in Rows, Hue(p - 1) = Hue(q - 1) PROVE p = q
      <4>1. /\ p \in Nat /\ q \in Nat /\ p - 1 \in Nat /\ q - 1 \in Nat
            /\ p - 1 < Colours /\ q - 1 < Colours
        BY <3>2, <3>3, PaletteAssumption DEF Rows
      <4>2. p - 1 = q - 1
        BY <3>4, <4>1, HuesDiffer
      <4> QED  BY <4>1, <4>2
    <3>5. Cardinality(DOMAIN card.chart.hues) <= Colours
      <4>1. DOMAIN card.chart.hues = 1 .. result.rows
        BY <3>1 DEF Rows
      <4>2. Cardinality(1 .. result.rows) = result.rows
        BY <3>2, FS_Interval
      <4> QED  BY <3>3, <4>1, <4>2
    <3>6. \A m, n \in DOMAIN card.chart.hues :
             card.chart.hues[m] = card.chart.hues[n] => m = n
      BY <3>1, <3>4
    <3> QED  BY <3>1, <3>5, <3>6 DEF ToldApart
  <2>5. CASE answer.type # "chart:pie"
    <3>1. /\ card.chart.hues = [n \in SeriesNames |-> Hue(Place(n))]
          /\ card.chart.legend = (Cardinality(SeriesNames) > 1)
      <4>1. \A M : /\ XYView(M).hues = [n \in SeriesNames |-> Hue(Place(n))]
                   /\ XYView(M).legend = (Cardinality(SeriesNames) > 1)
        BY DEF XYView
      <4> QED
        BY <2>1, <2>5, <4>1 DEF ChartView
    <3>2. ASSUME Cardinality(SeriesNames) <= Colours,
                 NEW m \in SeriesNames, NEW n \in SeriesNames, Hue(Place(m)) = Hue(Place(n))
          PROVE  m = n
      <4>1. /\ Place(m) \in 0 .. Cardinality(SeriesNames) - 1
            /\ Place(n) \in 0 .. Cardinality(SeriesNames) - 1
        BY <2>2, <2>3, Places
      <4>2. Cardinality(SeriesNames) \in Nat
        BY <2>2, <2>3, FirstPlaces, FS_CardinalityType
      <4>3. /\ Place(m) \in Nat /\ Place(m) < Colours
            /\ Place(n) \in Nat /\ Place(n) < Colours
        BY <3>2, <4>1, <4>2, PaletteAssumption
      <4>4. Place(m) = Place(n)
        BY <3>2, <4>3, HuesDiffer
      <4> QED  BY <2>2, <2>3, <4>4, Places
    <3>3. DOMAIN card.chart.hues = SeriesNames
      BY <3>1
    <3>4. Cardinality(SeriesNames) <= Colours =>
             \A m, n \in SeriesNames : card.chart.hues[m] = card.chart.hues[n] => m = n
      BY <3>1, <3>2
    <3> QED  BY <2>5, <3>1, <3>3, <3>4 DEF ToldApart
  <2> QED  BY <2>4, <2>5
<1>2. IInv /\ CardShown => ToldApart
  BY <1>1 DEF ToldApart
<1> QED  BY <1>2, ViewInvariance, PTL
=============================================================================
