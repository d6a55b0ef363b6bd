-------------------------- MODULE ResponseComposer --------------------------
(***************************************************************************)
(* What becomes of one validated SELECT: its row limit (apply_row_limit),  *)
(* its rows, the shape of the answer (response_composer.compose), the      *)
(* caption (synthesize_summary, _fallback_summary), and the notice under   *)
(* the answer in the chat (ChatMessage).                                   *)
(*                                                                         *)
(* A cell is null or not; the values of a column have one kind.  A question *)
(* whose summary raises ends without an answer (QueryEngine).              *)
(***************************************************************************)
EXTENDS Integers, Sequences, FiniteSets

CONSTANTS
    Matches,        \* what the SELECTs without their LIMIT give
    Limits,         \* the numbers they may have in a LIMIT
    MaxRows,        \* max_rows_returned
    BarMax,         \* BAR_MAX_CATEGORIES
    PieMax,         \* PIE_MAX_CATEGORIES
    None

ASSUME LimitsAssumption == Limits \subseteq Nat
ASSUME SizesAssumption == /\ PieMax \in Nat /\ BarMax \in Nat /\ MaxRows \in Nat
                          /\ 1 < PieMax /\ PieMax < BarMax /\ BarMax < MaxRows

Kinds == {"numeric", "date", "category"}
Intents == {"single_value", "comparison", "trend", "distribution", "lookup"}

\* A result: how many rows, and for every column its kind and its null cells.
Result == [rows: Nat, cols: Seq([kind: Kinds, nulls: SUBSET Nat])]

\* LIMIT 10 is literal; LIMIT 5+5, LIMIT (SELECT ...), FETCH FIRST 10 ROWS are
\* not: int(existing.expression.this) raises.
Limit == [form: {"none"}, n: {0}] \cup [form: {"literal", "other"}, n: Limits \cup {MaxRows}]

ASSUME MatchesAssumption == Matches \subseteq Result

VARIABLES
    pc,
    intent,         \* as the model gave it with the SQL
    matches, limit, \* the SELECT: its rows and its LIMIT
    applied,        \* row_limit_applied
    result,         \* columns, rows
    answer,         \* Composition: the type, and what is plotted of the result
    caption,        \* text of the answer
    sql             \* sql_used: none, a query that was refused, or the one that ran

vars == <<pc, intent, matches, limit, applied, result, answer, caption, sql>>

Answer == [type: {"text", "chart:line", "chart:bar", "chart:pie", "table"},
           x: Nat, series: SUBSET Nat]

TypeOK ==
    /\ pc \in {"generate", "limit", "execute", "compose", "summarize", "answered", "failed"}
    /\ intent \in Intents \cup {None}
    /\ matches \in Result \cup {None}
    /\ limit \in Limit \cup {None}
    /\ applied \in BOOLEAN
    /\ result \in Result \cup {None}
    /\ answer \in Answer \cup {None}
    /\ caption \in {"none", "words", "blank", "fallback"}
    /\ sql \in {"none", "refused", "run"}

Init ==
    /\ pc = "generate"
    /\ intent = None /\ matches = None /\ limit = None
    /\ applied = FALSE
    /\ result = None /\ answer = None
    /\ caption = "none" /\ sql = "none"

\* The rows SQL gives with a LIMIT.
Cut(rows, l) == IF l.form # "none" /\ l.n < rows THEN l.n ELSE rows

-----------------------------------------------------------------------------

\* The question ends with an error instead: no SQL, or none but the attempt that was
\* refused by the validation or failed in DuckDB, or DuckDB failed again.
Fail ==
    /\ \/ pc = "generate" /\ sql' \in {"none", "refused", "run"}
       \/ pc = "execute" /\ sql' = "run"
    /\ pc' = "failed"
    /\ UNCHANGED <<intent, matches, limit, applied, result, answer, caption>>

\* generate_sql gave a SELECT that passed the validation.
Generate ==
    /\ pc = "generate"
    /\ pc' = "limit"
    /\ intent' \in Intents /\ matches' \in Matches /\ limit' \in Limit
    /\ UNCHANGED <<applied, result, answer, caption, sql>>

\* The LIMIT of the statement that runs.
Limited(l) ==
    IF l.form = "none" \/ (l.form = "literal" /\ l.n > MaxRows)
    THEN [form |-> "literal", n |-> MaxRows] ELSE l

\* row_limit_applied.  The mutant tells of an added LIMIT, not of a lowered one.
SaysAdded(l) == l.form = "none"
SaysLimited(l) == l.form = "none" \/ (l.form = "literal" /\ l.n > MaxRows)

ApplyRowLimit ==
    /\ pc = "limit"
    /\ pc' = "execute"
    /\ limit' = Limited(limit)
    /\ applied' = SaysLimited(limit)
    /\ UNCHANGED <<intent, matches, result, answer, caption, sql>>

Execute ==
    /\ pc = "execute"
    /\ pc' = "compose"
    /\ LET n == Cut(matches.rows, limit) IN
       result' = [rows |-> n,
                  cols |-> [c \in DOMAIN matches.cols |->
                              [matches.cols[c] EXCEPT !.nulls = @ \cap (1 .. n)]]]
    /\ UNCHANGED <<intent, matches, limit, applied, answer, caption, sql>>

\* _column_kinds: from the first value that is not null, category if all are.
Known(r, c) == (1 .. r.rows) \ r.cols[c].nulls
KindOf(r, c) == IF Known(r, c) = {} THEN "category" ELSE r.cols[c].kind

Columns(r, k) == {c \in DOMAIN r.cols : KindOf(r, c) = k}

\* compose, top to bottom.  _shape_chart plots one column against the numeric ones.
Chart(type, x, r) == [type |-> type, x |-> x, series |-> Columns(r, "numeric")]
Plain(type) == [type |-> type, x |-> 0, series |-> {}]
Only(S) == CHOOSE c \in S : TRUE

IsTrend(i, r) ==
    /\ i = "trend" /\ r.rows > 1
    /\ Cardinality(Columns(r, "date")) = 1 /\ Columns(r, "numeric") # {}

\* The mutant forgets that one row is no chart.
FromOneRow(i, r) ==
    /\ i \in {"comparison", "distribution"} /\ r.rows <= BarMax
    /\ Cardinality(Columns(r, "category")) = 1 /\ Columns(r, "numeric") # {}
IsBreakdown(i, r) ==
    /\ i \in {"comparison", "distribution"}
    /\ 1 < r.rows /\ r.rows <= BarMax
    /\ Cardinality(Columns(r, "category")) = 1 /\ Columns(r, "numeric") # {}

IsShare(i, r) ==
    /\ i = "distribution" /\ r.rows <= PieMax
    /\ Cardinality(Columns(r, "numeric")) = 1

Composed(i, r) ==
    IF r.rows = 0 \/ (r.rows = 1 /\ Len(r.cols) = 1) THEN Plain("text")
    ELSE IF IsTrend(i, r) THEN Chart("chart:line", Only(Columns(r, "date")), r)
    ELSE IF IsBreakdown(i, r)
         THEN Chart(IF IsShare(i, r) THEN "chart:pie" ELSE "chart:bar",
                    Only(Columns(r, "category")), r)
    ELSE Plain("table")

Compose ==
    /\ pc = "compose"
    /\ pc' = "summarize"
    /\ answer' = Composed(intent, result)
    /\ UNCHANGED <<intent, matches, limit, applied, result, caption, sql>>

\* (content or "").strip() may be empty; an outage gives the fixed caption.
Summarize ==
    /\ pc = "summarize"
    /\ pc' = "answered"
    /\ caption' \in {"words", "blank", "fallback"}
    /\ sql' = "run"
    /\ UNCHANGED <<intent, matches, limit, applied, result, answer>>

Stopped == pc \in {"answered", "failed"} /\ UNCHANGED vars

Next ==
    \/ Fail \/ Generate \/ ApplyRowLimit \/ Execute \/ Compose \/ Summarize
    \/ Stopped

Spec == Init /\ [][Next]_vars

-----------------------------------------------------------------------------
(* Safety.                                                                 *)

Charted == pc = "answered" /\ answer.type \in {"chart:line", "chart:bar", "chart:pie"}

\* The limit only takes rows away, and the chat says so: a query with a literal
\* LIMIT, or none, gives at most max_rows_returned rows, and every row the
\* model's own SQL would give unless row_limit_applied is set.
LimitTold ==
    [][pc' = "execute" => LET given == Cut(matches.rows, limit)
                              kept == Cut(matches.rows, limit') IN
                          /\ kept <= given
                          /\ limit.form # "other" => kept <= MaxRows
                          /\ kept < given => applied']_vars

\* A chart can be read: it has at least two points and at most as many as its type
\* bears, every series has a number and none of them is on the x axis, however the nulls
\* lie and wherever the limit cut the rows (the nulls may leave a single number of the
\* two).  No table or chart is without rows.
Readable ==
    pc = "answered" =>
        /\ answer.type # "text" => result.rows > 0
        /\ answer.type = "chart:bar" => result.rows <= BarMax
        /\ answer.type = "chart:pie" => /\ result.rows <= PieMax
                                        /\ Cardinality(answer.series) = 1
        /\ Charted =>
              /\ result.rows > 1
              /\ answer.series # {} /\ answer.x \notin answer.series
              /\ \A c \in answer.series : /\ Known(result, c) # {}
                                          /\ result.cols[c].kind = "numeric"
=============================================================================
