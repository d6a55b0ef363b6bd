----------------------------- MODULE AnswerViews -----------------------------
(***************************************************************************)
(* An answer as the chat shows it: the message that ResponseComposer's     *)
(* steps make, drawn by ChatMessage with ChartView (on Recharts), TableView *)
(* and SqlDisclosure.                                                      *)
(*                                                                         *)
(* The value of row p in column c is the pair <<p, c>>.  A chart carries   *)
(* the numeric columns under the names SQL gave them, which are any names, *)
(* also equal ones and "x".                                                *)
(***************************************************************************)
EXTENDS ResponseComposer, FiniteSetsExt

CONSTANTS
    Names,          \* column names
    XKey,           \*   "x" among them
    Zero,           \* the number 0
    Colours         \* how many CHART_COLORS there are

ASSUME NamesAssumption == XKey \in Names

\* PIE_MAX_CATEGORIES and CHART_COLORS, in two languages, are both six.
ASSUME PaletteAssumption == Colours \in Nat /\ PieMax <= Colours

VARIABLES
    names,          \* columns of the result: their names
    card            \* the answer on the screen

viewVars == <<vars, names, card>>

ViewInit == Init /\ names = <<>> /\ card = None

-----------------------------------------------------------------------------
(* The chart as JSON.                                                      *)

Rows == 1 .. result.rows

\* point.series: the numbers of a row that are not null.
Series(p) == {c \in answer.series : p \notin result.cols[c].nulls}
Given == {v \in Rows \X answer.series : v[2] \in Series(v[1])}
XText(p) == <<p, answer.x>>

-----------------------------------------------------------------------------
(* ChartView.                                                              *)

\* The mutant looks at the first point only.
FirstPointNames == {names[c] : c \in Series(1)}
SeriesNames == {names[v[2]] : v \in Given}

\* row = {x: point.x}, then row[s.name] = s.value from left to right.
Written(p, n) == {c \in Series(p) : names[c] = n}
FlatRow(p) ==
    [n \in {XKey} \cup {names[c] : c \in Series(p)} |->
        IF Written(p, n) = {} THEN XText(p) ELSE <<p, Max(Written(p, n))>>]

\* A Bar per name, with dataKey = name, for every row that has the key.
Mark(p, n, v) == [at |-> p, key |-> n, value |-> v]
Marks ==
    {Mark(q[1], q[2], FlatRow(q[1])[q[2]]) :
        q \in {q \in Rows \X SeriesNames : q[2] \in DOMAIN FlatRow(q[1])}}

\* A Line per name, with dot={false} and without connectNulls: it is drawn from row to
\* row, so a number without another one beside it leaves no mark.
Joined(p, n) == \E q \in Rows : q \in {p - 1, p + 1} /\ n \in DOMAIN FlatRow(q)
LineMarks == {m \in Marks : Joined(m.at, m.key)}

\* point.series[0]?.value ?? 0
Slice(p) == IF Series(p) = {} THEN Zero ELSE <<p, Min(Series(p))>>

\* CHART_COLORS[i % CHART_COLORS.length].  The mutant's list is one shorter.
ShortHue(i) == i % (Colours - 1)
Hue(i) == i % Colours

\* The place of a name in seriesNames, which holds them as they come.
FirstPlace(n) ==
    Min({(v[1] - 1) * Len(result.cols) + v[2] : v \in {v \in Given : names[v[2]] = n}})
Place(n) == Cardinality({m \in SeriesNames : FirstPlace(m) < FirstPlace(n)})

PieView ==
    [marks |-> {Mark(p, None, Slice(p)) : p \in Rows},
     labels |-> [p \in Rows |-> XText(p)],
     hues |-> [p \in Rows |-> Hue(p - 1)],
     legend |-> TRUE]

XYView(marks) ==
    [marks |-> marks,
     labels |-> [p \in Rows |-> FlatRow(p)[XKey]],
     hues |-> [n \in SeriesNames |-> Hue(Place(n))],
     legend |-> Cardinality(SeriesNames) > 1]

ChartView ==
    IF answer.type = "chart:pie" THEN PieView
    ELSE XYView(IF answer.type = "chart:line" THEN LineMarks ELSE Marks)

\* Every cell of every row; a null is written as one.
TableView ==
    [p \in Rows |-> [c \in DOMAIN names |->
        IF p \in result.cols[c].nulls THEN None ELSE <<p, c>>]]

-----------------------------------------------------------------------------
(* ChatMessage.                                                            *)

\* The query a reader may open, offered whenever sql_used is there, also under an
\* error.
SqlDisclosure == sql

ErrorCard ==
    [error |-> TRUE, text |-> FALSE, chart |-> None, table |-> None,
     notice |-> FALSE, sql |-> SqlDisclosure]

\* An empty caption is falsy: no paragraph for it.
AnswerCard ==
    [error |-> FALSE,
     text |-> caption \notin {"none", "blank"},
     chart |-> IF Charted THEN ChartView ELSE None,
     table |-> IF answer.type = "table" THEN TableView ELSE None,
     notice |-> applied,
     sql |-> SqlDisclosure]

\* The message arrives and is drawn.
Show ==
    /\ card = None
    /\ \/ pc = "answered" /\ card' = AnswerCard
       \/ pc = "failed" /\ card' = ErrorCard
    /\ UNCHANGED <<vars, names>>

\* [d[0] for d in cursor.description]
ViewExecute == Execute /\ names' \in [DOMAIN matches.cols -> Names] /\ UNCHANGED card

Answering ==
    /\ Fail \/ Generate \/ ApplyRowLimit \/ Compose \/ Summarize
    /\ UNCHANGED <<names, card>>

ViewStopped == card # None /\ UNCHANGED viewVars

ViewNext == Answering \/ ViewExecute \/ Show \/ ViewStopped

ViewSpec == ViewInit /\ [][ViewNext]_viewVars

-----------------------------------------------------------------------------
(* Safety.                                                                 *)

Drawn == card # None /\ card.chart # None

\* Unless two series have one name or one is called x, a bar chart draws exactly the
\* numbers the backend sent, each at its point, and every point under its own x; so
\* does a line, but for the numbers that stand alone between nulls; a pie draws the one
\* number of each point, or 0.
PlainNames ==
    \A c, d \in answer.series : names[c] # XKey /\ (names[c] = names[d] => c = d)
Alone(v) == \A p \in Rows : p \in {v[1] - 1, v[1] + 1} => v[2] \notin Series(p)
Expected ==
    IF answer.type = "chart:line" THEN {v \in Given : ~Alone(v)} ELSE Given
DrawnAsGiven ==
    Drawn =>
        LET values == {<<m.at, m.value>> : m \in card.chart.marks} IN
        IF answer.type = "chart:pie"
        THEN \A p \in Rows : \A c \in answer.series :
                <<p, IF p \in result.cols[c].nulls THEN Zero ELSE <<p, c>>>> \in values
        ELSE PlainNames =>
                /\ values = {<<v[1], v>> : v \in Expected}
                /\ \A m \in card.chart.marks : m.key = names[m.value[2]]
                /\ \A p \in Rows : card.chart.labels[p] = XText(p)

\* What a chart draws can be told apart: two slices never have one colour, nor two
\* series as long as there are colours for all, and a legend names them.
ToldApart ==
    Drawn =>
        LET hues == card.chart.hues IN
        /\ Cardinality(DOMAIN hues) <= Colours =>
              \A m, n \in DOMAIN hues : hues[m] = hues[n] => m = n
        /\ answer.type = "chart:pie" => Cardinality(DOMAIN hues) <= Colours
        /\ Cardinality(DOMAIN hues) > 1 => card.chart.legend
=============================================================================
