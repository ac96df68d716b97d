------------------------------ MODULE SqlTable ------------------------------
(***************************************************************************)
(* SQL statements on the tables of a connection (ExecuteSql, ValidateRow   *)
(* and RefreshCatalog in src/src/api/db.cpp), row by row: a statement that *)
(* fails has done what it did before.  The statements are given as trees;  *)
(* an expression that cannot be parsed has the op "bad", which is met when *)
(* the code meets the syntax error.  Persisting is left to Transactions    *)
(* and SnapshotStore; it changes no table.                                 *)
(***************************************************************************)
EXTENDS Values, SequencesExt

CONSTANTS
  Statements,        \* the statements that clients send
  Evaluate(_, _, _), \* Eval of module Expressions: an expression, a row, parameters
  Failure,           \* what Evaluate gives for an error
  MaxRows            \* bound on the rows of a table

Kinds == {"create", "drop", "insert", "update", "delete", "select"}

\* A name is a number; CREATE TABLE takes the same name twice.
Columns == [name : Nat, type : 1..5, nullable : BOOLEAN, primary : BOOLEAN, unique : BOOLEAN]

IsSeq(s) == s \in Seq(ToSet(s))

Created == {s \in Statements : s.kind = "create"}

\* The number of a table in the catalog is exact as REAL: it is compared as one.
\* COUNT(*) is the SELECT * that the code makes of it.  No value is an error.
ASSUME StatementAssumption ==
  /\ \A s \in Statements : s.kind \in Kinds
  /\ \A s \in Created : s.table \in Int /\ s.columns \in Seq(Columns)
  /\ \A s \in Statements : s.kind = "insert" =>
       /\ s.targets \in Seq(Nat) /\ IsSeq(s.values) /\ s.values # <<>>
       /\ \A i \in DOMAIN s.values : IsSeq(s.values[i])
  /\ \A s \in Statements : s.kind = "update" =>
       s.set.cols \in Seq(Nat) /\ DOMAIN s.set.exprs = DOMAIN s.set.cols
  /\ \A s \in Statements : s.kind = "select" =>
       IsSeq(s.exprs) /\ IsSeq(s.order) /\ IsSeq(s.limit) /\ (s.count => s.exprs = <<>>)
  /\ Failure.type \notin 0..5
  /\ IsFiniteSet({s.table : s \in Created}) /\ Cardinality({s.table : s \in Created}) <= Mantissa

VARIABLES
  tables,  \* the working tables: name -> [columns, rows]; the names of the
           \* user's tables are positive numbers, in the order of std::map
  stmt,    \* the statement being executed, or executed last
  pc,      \* where in ExecuteSql: "idle" outside of it
  at,      \* the row the loop is at
  buffer,  \* kept of DELETE, candidates of SELECT
  seen,    \* keys of the rows returned so far
  status,  \* "ok" or "error"
  result   \* rows of the result set

\* History: the tables when the statement began.
VARIABLE start

vars == <<tables, stmt, pc, at, buffer, seen, status, result, start>>

TablesName  == 0    \* tuplestone_tables
ColumnsName == -1   \* tuplestone_columns
Reserved    == {TablesName, ColumnsName}

Column(name, type, nullable, primary, unique) ==
  [name |-> name, type |-> type, nullable |-> nullable, primary |-> primary, unique |-> unique]

IsKey(column) == column.primary \/ column.unique

\* tuplestone_indexes, which is always empty, is left out.
CatalogSchema(name) ==
  LET plain(n, type) == Column(n, type, FALSE, FALSE, FALSE) IN
  IF name = TablesName
  THEN <<Column(1, 2, FALSE, TRUE, TRUE), Column(2, 4, FALSE, FALSE, TRUE),
         plain(3, 2), plain(4, 2)>>
  ELSE <<plain(1, 2), plain(2, 2), plain(3, 4), plain(4, 2), plain(5, 1), plain(6, 1)>>

\* The names in the order of std::map.
InOrder(names) ==
  CHOOSE f \in [1..Cardinality(names) -> names] : \A i, j \in DOMAIN f : i < j => f[i] < f[j]

\* The rows of the catalog for the tables t.
CatalogRows(t, names, catalog) ==
  LET tableRow(i) == <<Integer(i), Text(<<names[i]>>), Integer(0), Integer(Len(t[names[i]].rows))>>
      columnRow(i, j) ==
        LET c == t[names[i]].columns[j] IN
        <<Integer(i), Integer(j - 1), Text(<<c.name>>), Integer(c.type),
          Boolean(c.nullable), Boolean(c.primary)>>
  IN  IF catalog = TablesName THEN [i \in DOMAIN names |-> tableRow(i)]
      ELSE FlattenSeq([i \in DOMAIN names |->
             [j \in DOMAIN t[names[i]].columns |-> columnRow(i, j)]])

\* The catalog is made anew from the user's tables.
RefreshCatalog(t) ==
  [n \in Reserved \cup DOMAIN t |->
     IF n \in Reserved
     THEN [columns |-> CatalogSchema(n),
           rows    |-> CatalogRows(t, InOrder(DOMAIN t \ Reserved), n)]
     ELSE t[n]]

Init ==
  /\ tables = RefreshCatalog(<<>>) /\ start = tables
  /\ stmt = [kind |-> "none"] /\ pc = "idle" /\ at = 1
  /\ buffer = <<>> /\ seen = {} /\ status = "ok" /\ result = <<>>

-----------------------------------------------------------------------------
\* ValidateRow.  Numbers of either type may be put into a numeric column.
Fits(v, c) ==
  IF IsNull(v) THEN c.nullable ELSE v.type = c.type \/ {v.type, c.type} \subseteq {2, 3}

\* Mutant: a new version of a row is compared with the rows before it only.
DuplicateBefore(table, row, ignored) ==
  \E i \in DOMAIN table.rows, j \in DOMAIN row :
    /\ IsKey(table.columns[j]) /\ (ignored = 0 \/ i < ignored)
    /\ Same(table.rows[i][j], row[j]) /\ ~IsNull(row[j])

\* `ignored` is the position of the row being replaced, 0 if there is none.
Duplicate(table, row, ignored) ==
  \E i \in DOMAIN table.rows, j \in DOMAIN row :
    /\ IsKey(table.columns[j]) /\ i # ignored
    /\ Same(table.rows[i][j], row[j]) /\ ~IsNull(row[j])

ValidateRow(table, row, ignored) ==
  /\ Len(row) = Len(table.columns)
  /\ \A j \in DOMAIN row : Fits(row[j], table.columns[j])
  /\ ~Duplicate(table, row, ignored)

\* The values of a sequence of expressions.
ValuesOf(exprs, row) == [k \in DOMAIN exprs |-> Evaluate(exprs[k], row, stmt.params)]

Failed(values) == \E k \in DOMAIN values : values[k] = Failure

\* WHERE, for one row: TRUE without a predicate.
Selected(row) ==
  IF stmt.where = <<>> THEN Boolean(TRUE) ELSE Evaluate(stmt.where[1], row, stmt.params)

-----------------------------------------------------------------------------
Exists == stmt.table \in DOMAIN tables
Table  == tables[stmt.table]

Finish == pc' = "idle" /\ status' = "ok"

\* A failed SELECT COUNT(*) counts all rows instead, if the table's name has
\* letters and digits only.
Fail ==
  /\ pc' = "idle"
  /\ IF stmt.kind = "select" /\ stmt.count /\ Exists /\ stmt.table \notin Reserved
     THEN status' = "ok" /\ result' = <<<<Integer(Len(Table.rows))>>>>
     ELSE status' = "error" /\ result' = <<>>

\* Every statement begins with RefreshCatalog, in WorkingTables.
Begin(s) ==
  /\ pc = "idle"
  /\ (s.kind = "insert" /\ s.table \in DOMAIN tables) =>
       Len(tables[s.table].rows) + Len(s.values) <= MaxRows
  /\ stmt' = s /\ pc' = s.kind /\ at' = 1
  /\ tables' = RefreshCatalog(tables) /\ start' = tables'
  /\ buffer' = <<>> /\ seen' = {} /\ status' = "ok" /\ result' = <<>>

CreateTable ==
  /\ pc = "create"
  /\ IF Exists
     THEN UNCHANGED tables /\ IF stmt.ifNotExists THEN Finish /\ UNCHANGED result ELSE Fail
     ELSE /\ tables' = [n \in DOMAIN tables \cup {stmt.table} |->
                          IF n = stmt.table THEN [columns |-> stmt.columns, rows |-> <<>>]
                          ELSE tables[n]]
          /\ Finish /\ UNCHANGED result
  /\ UNCHANGED <<stmt, at, buffer, seen, start>>

DropTable ==
  /\ pc = "drop"
  /\ IF Exists
     THEN /\ tables' = [n \in DOMAIN tables \ {stmt.table} |-> tables[n]]
          /\ Finish /\ UNCHANGED result
     ELSE Fail /\ UNCHANGED tables
  /\ UNCHANGED <<stmt, at, buffer, seen, start>>

Bad(exprs) == \E k \in DOMAIN exprs : exprs[k].op = "bad"

Unknown(cols) == \E k \in DOMAIN cols : cols[k] > Len(Table.columns)

\* What is found before the first row is looked at: no such table or column,
\* a SET clause, a column list or an ORDER BY that is not SQL, a LIMIT or an
\* OFFSET that is not an integer.  A WHERE that is not SQL is found here only if
\* an ORDER BY or a LIMIT follows.
Rejected ==
  IF ~Exists THEN TRUE
  ELSE CASE stmt.kind = "insert" -> Unknown(stmt.targets)
         [] stmt.kind = "update" -> Unknown(stmt.set.cols) \/ Bad(stmt.set.exprs)
         [] stmt.kind = "delete" -> FALSE
         [] stmt.kind = "select" ->
              \/ Bad(stmt.exprs) \/ Bad(stmt.order)
              \/ (stmt.order # <<>> \/ stmt.limit # <<>>) /\ Bad(stmt.where)
              \/ \E v \in ToSet(ValuesOf(stmt.limit, <<>>)) : v.type # 2

Reject ==
  /\ pc \in {"insert", "update", "delete", "select"} /\ Rejected
  /\ Fail
  /\ UNCHANGED <<tables, stmt, at, buffer, seen, start>>

\* The columns of an INSERT: all of them without a list.
Targets == IF stmt.targets = <<>> THEN [j \in DOMAIN Table.columns |-> j] ELSE stmt.targets

\* A column that is not named is NULL; one named twice has the last value.
RowOf(values) ==
  [j \in DOMAIN Table.columns |->
     LET named == {k \in DOMAIN Targets : Targets[k] = j} IN
     IF named = {} THEN Null ELSE values[Max(named)]]

\* One parenthesised row of VALUES: with too many or too few values it is a
\* syntax error, with an error or an invalid row the earlier rows stay.
InsertRow ==
  /\ pc = "insert" /\ ~Rejected
  /\ LET values == ValuesOf(stmt.values[at], <<>>) IN
     IF \/ Len(values) # Len(Targets) \/ Failed(values)
        \/ ~ValidateRow(Table, RowOf(values), 0)
     THEN Fail /\ UNCHANGED <<tables, at>>
     ELSE /\ tables' = [tables EXCEPT ![stmt.table].rows = Append(@, RowOf(values))]
          /\ at' = at + 1
          /\ IF at = Len(stmt.values) THEN Finish ELSE UNCHANGED <<pc, status>>
          /\ UNCHANGED result
  /\ UNCHANGED <<stmt, buffer, seen, start>>

\* SET, all of it computed from the row as it was.
Assigned(row) ==
  LET next[k \in 0..Len(stmt.set.cols)] ==
        IF k = 0 THEN row
        ELSE [next[k - 1] EXCEPT ![stmt.set.cols[k]] =
                Evaluate(stmt.set.exprs[k], row, stmt.params)]
  IN  next[Len(stmt.set.cols)]

\* Mutant: the value that is stored is looked at, not each assignment.
LastSetFails(row) == Failed(Assigned(row))

\* An assignment that fails ends the statement, also if a later one to the same
\* column does not.
SetFails(row) == Failed(ValuesOf(stmt.set.exprs, row))

\* One row of an UPDATE.  The rows before it have their new values already.
UpdateRow ==
  /\ pc = "update" /\ ~Rejected /\ at <= Len(Table.rows)
  /\ LET row    == Table.rows[at]
         chosen == Selected(row)
         next   == Assigned(row)
     IN  IF chosen = Failure THEN Fail /\ UNCHANGED <<tables, at>>
         ELSE IF ~Truthy(chosen)
         THEN at' = at + 1 /\ UNCHANGED <<tables, pc, status, result>>
         ELSE IF SetFails(row) \/ ~ValidateRow(Table, next, at) THEN Fail /\ UNCHANGED <<tables, at>>
         ELSE /\ tables' = [tables EXCEPT ![stmt.table].rows[at] = next]
              /\ at' = at + 1 /\ UNCHANGED <<pc, status, result>>
  /\ UNCHANGED <<stmt, buffer, seen, start>>

UpdateEnd ==
  /\ pc = "update" /\ ~Rejected /\ at > Len(Table.rows)
  /\ Finish
  /\ UNCHANGED <<tables, stmt, at, buffer, seen, result, start>>

\* The loops over the rows of DELETE, which keeps the rows that are not
\* selected, and of SELECT, which makes the others its candidates.
FilterRow ==
  /\ pc \in {"delete", "select"} /\ ~Rejected /\ at <= Len(Table.rows)
  /\ LET chosen == Selected(Table.rows[at]) IN
     IF chosen = Failure THEN Fail /\ UNCHANGED <<at, buffer>>
     ELSE /\ at' = at + 1
          /\ buffer' = IF Truthy(chosen) = (pc = "select")
                       THEN Append(buffer, Table.rows[at]) ELSE buffer
          /\ UNCHANGED <<pc, status, result>>
  /\ UNCHANGED <<tables, stmt, seen, start>>

DeleteEnd ==
  /\ pc = "delete" /\ ~Rejected /\ at > Len(Table.rows)
  /\ tables' = [tables EXCEPT ![stmt.table].rows = buffer]
  /\ Finish
  /\ UNCHANGED <<stmt, at, buffer, seen, result, start>>

OrderKey(row) == Evaluate(stmt.order[1], row, stmt.params)

\* The comparator of ORDER BY, with one expression at most: values that cannot
\* be compared, NULL with anything among them, are equal to it.
Before(l, r) ==
  /\ stmt.order # <<>>
  /\ Compare(OrderKey(l), OrderKey(r)) = (IF stmt.desc THEN "gt" ELSE "lt")

Tied(l, r) == ~Before(l, r) /\ ~Before(r, l)

\* What std::stable_sort may make of the rows: undefined, so any permutation,
\* if the comparator is no strict weak order on them.
Sortings(rows) ==
  LET n == Len(rows)
      weak == \A i, j, k \in 1..n :
                Tied(rows[i], rows[j]) /\ Tied(rows[j], rows[k]) => Tied(rows[i], rows[k])
      inOrder(f) == \A i, j \in 1..n :
                      i < j => Before(rows[f[i]], rows[f[j]])
                               \/ (Tied(rows[f[i]], rows[f[j]]) /\ f[i] < f[j])
  IN  {[i \in 1..n |-> rows[f[i]]] :
         f \in {g \in [1..n -> 1..n] : IsInjective(g) /\ (weak => inOrder(g))}}

\* An error in the comparator is kept in the status, and noticed later.
SortRows ==
  /\ pc = "select" /\ ~Rejected /\ at > Len(Table.rows)
  /\ buffer' \in Sortings(buffer)
  /\ status' = IF /\ Len(buffer) > 1
                  /\ \E k \in DOMAIN buffer : Failed(ValuesOf(stmt.order, buffer[k]))
               THEN "error" ELSE "ok"
  /\ pc' = "output" /\ at' = 1
  /\ UNCHANGED <<tables, stmt, seen, result, start>>

Limit  == IF stmt.limit = <<>> THEN -1 ELSE AsInteger(ValuesOf(stmt.limit, <<>>)[1])
Offset == IF Len(stmt.limit) < 2 THEN 0 ELSE AsInteger(ValuesOf(stmt.limit, <<>>)[2])

\* Schema::Find: the first column with the name.
Find(name) == Min({j \in DOMAIN Table.columns : Table.columns[j].name = name})

\* `*` stands for the names of the columns.
Projected(row) ==
  IF stmt.exprs = <<>>
  THEN [j \in DOMAIN Table.columns |-> row[Find(Table.columns[j].name)]]
  ELSE ValuesOf(stmt.exprs, row)

\* The text by which DISTINCT tells rows apart.
KeyOf(values) == FlattenSeq([k \in DOMAIN values |-> Append(Shown(values[k]), 0)])

\* Mutant: a row that DISTINCT leaves out counts for the limit.
EndedByPosition == at > Len(buffer) \/ (at > Offset /\ 0 <= Limit /\ Limit < at - Offset)

Ended == at > Len(buffer) \/ (at > Offset /\ 0 <= Limit /\ Limit <= Len(result))

\* One candidate: skipped, given up, left out as a duplicate, or returned.
OutputRow ==
  /\ pc = "output" /\ ~Ended
  /\ LET values == Projected(buffer[at])
         new == ~stmt.distinct \/ KeyOf(values) \notin seen
     IN  IF at <= Offset THEN at' = at + 1 /\ UNCHANGED <<pc, seen, status, result>>
         ELSE IF status = "error" \/ Failed(values) THEN Fail /\ UNCHANGED <<at, seen>>
         ELSE /\ at' = at + 1
              /\ seen' = seen \cup {KeyOf(values)}
              /\ result' = IF new THEN Append(result, values) ELSE result
              /\ UNCHANGED <<pc, status>>
  /\ UNCHANGED <<tables, stmt, buffer, start>>

\* COUNT(*) counts the rows of the query that is left when it is replaced by *.
OutputEnd ==
  /\ pc = "output" /\ Ended
  /\ Finish
  /\ result' = IF stmt.count THEN <<<<Integer(Len(result))>>>> ELSE result
  /\ UNCHANGED <<tables, stmt, at, buffer, seen, start>>

Next ==
  \/ \E s \in Statements : Begin(s)
  \/ CreateTable \/ DropTable \/ Reject
  \/ InsertRow \/ UpdateRow \/ UpdateEnd
  \/ FilterRow \/ DeleteEnd \/ SortRows \/ OutputRow \/ OutputEnd

Spec == Init /\ [][Next]_vars

-----------------------------------------------------------------------------
\* Between any two steps, of statements that fail half-way too, every row has
\* the columns of its table, NULL only where it may be, and no two rows have
\* the same value in a PRIMARY KEY or UNIQUE column.
ConstraintsHold ==
  \A n \in DOMAIN tables :
    LET columns == tables[n].columns  rows == tables[n].rows IN
    /\ \A i \in DOMAIN rows :
         /\ Len(rows[i]) = Len(columns)
         /\ \A j \in DOMAIN columns : Fits(rows[i][j], columns[j])
    /\ \A j \in DOMAIN columns : IsKey(columns[j]) =>
         \A i, k \in DOMAIN rows :
           i # k /\ ~IsNull(rows[i][j]) => ~Same(rows[i][j], rows[k][j])

Done(kinds) == pc = "idle" /\ stmt.kind \in kinds

Hit(row) == Selected(row) = Boolean(TRUE)

\* What UPDATE makes of a row: every column from the old row, by the last
\* assignment to it.
Replaced(row) ==
  [j \in DOMAIN row |->
     LET sets == {k \in DOMAIN stmt.set.cols : stmt.set.cols[k] = j} IN
     IF sets = {} THEN row[j] ELSE Evaluate(stmt.set.exprs[Max(sets)], row, stmt.params)]

\* The rows for which WHERE is TRUE, or those for which it is not.
Those(rows, hit) ==
  LET those[k \in 0..Len(rows)] ==
        IF k = 0 THEN <<>>
        ELSE IF Hit(rows[k]) <=> hit THEN Append(those[k - 1], rows[k]) ELSE those[k - 1]
  IN  those[Len(rows)]

\* The rows of the table that statements with WHERE and SET leave behind.
Expected(rows) ==
  CASE stmt.kind = "delete" ->
         IF status = "ok" THEN Those(rows, FALSE) ELSE rows
    [] stmt.kind = "update" ->
         [i \in DOMAIN rows |-> IF i < at /\ Hit(rows[i]) THEN Replaced(rows[i]) ELSE rows[i]]
    [] stmt.kind = "insert" ->
         rows \o [i \in 1..at - 1 |-> RowOf(ValuesOf(stmt.values[i], <<>>))]
    [] OTHER -> rows

\* No expression of the rows before `at` failed: an error ends the statement.
NoErrorBefore(rows) ==
  CASE stmt.kind = "insert" ->
         \A i \in 1..at - 1 : ~Failed(ValuesOf(stmt.values[i], <<>>))
    [] stmt.kind = "update" ->
         \A i \in 1..at - 1 : Hit(rows[i]) => ~Failed(ValuesOf(stmt.set.exprs, rows[i]))
    [] OTHER -> TRUE

\* A statement changes its own table only.  One that succeeds has done all it
\* says, as if to all rows at once; one that fails has done it to the rows
\* before the one it failed at (INSERT, UPDATE), or nothing.  No expression of
\* a row that was inserted or updated gave an error.
StatementEffect ==
  pc = "idle" /\ stmt.kind # "none" =>
    /\ \A n \in (DOMAIN start \cup DOMAIN tables) \ {stmt.table} :
         n \in DOMAIN start \cap DOMAIN tables /\ tables[n] = start[n]
    /\ Done({"create"}) => stmt.table \in DOMAIN tables
    /\ Done({"drop"}) => stmt.table \notin DOMAIN tables
    /\ status = "ok" => /\ Done({"insert"}) => at = Len(stmt.values) + 1
                        /\ Done({"update"}) => at = Len(tables[stmt.table].rows) + 1
    /\ ~Done({"create", "drop"}) /\ stmt.table \in DOMAIN start =>
         /\ tables[stmt.table].rows = Expected(start[stmt.table].rows)
         /\ NoErrorBefore(start[stmt.table].rows)

\* How often a row is in a sequence.
Times(row, rows) == Cardinality({k \in DOMAIN rows : rows[k] = row})

Hits == Those(start[stmt.table].rows, TRUE)

\* DISTINCT takes rows for one that look the same, as NULL and 'NULL' do, and a
\* zero byte for the end of a value.
Mistakable(rows) ==
  \E r, q \in ToSet(rows) :
    \/ r # q /\ \A j \in DOMAIN r : Shown(r[j]) = Shown(q[j])
    \/ \E j \in DOMAIN r : 0 \in ToSet(Shown(r[j]))

\* A SELECT returns the rows for which WHERE is TRUE: each as often as it is
\* there, or once with DISTINCT; with LIMIT as many of them as it says, and
\* they are the first ones by ORDER BY if its keys can be compared (which is
\* seen in the result where the rows are returned whole).
SelectExact ==
  Done({"select"}) /\ status = "ok" /\ ~stmt.count /\ Offset = 0 =>
    LET all    == [k \in DOMAIN Hits |-> Projected(Hits[k])]
        wanted == IF stmt.distinct THEN Cardinality(ToSet(all)) ELSE Len(all)
        keyed  == \/ stmt.order = <<>>
                  \/ \A r, q \in ToSet(Hits) : Compare(OrderKey(r), OrderKey(q)) # "unknown"
    IN
    /\ \A r \in ToSet(result) :
         Times(r, result) <= IF stmt.distinct THEN 1 ELSE Times(r, all)
    /\ ~(stmt.distinct /\ Mistakable(all)) =>
         Len(result) = IF 0 <= Limit /\ Limit < wanted THEN Limit ELSE wanted
    /\ keyed /\ all = Hits =>
         /\ \A i, j \in DOMAIN result : i < j => ~Before(result[j], result[i])
         /\ ~(stmt.distinct /\ Mistakable(all)) =>
              \A r \in ToSet(Hits) \ ToSet(result) :
                \A q \in ToSet(result) : ~Before(r, q)

\* COUNT(*) is the number of rows for which WHERE is TRUE, unless the query
\* failed (then the code answers with the number of all rows) or is cut off.
CountExact ==
  Done({"select"}) /\ status = "ok" /\ stmt.count /\ stmt.limit = <<>> /\ ~stmt.distinct =>
    \/ \E r \in ToSet(start[stmt.table].rows) : Failed(<<Selected(r)>>)
    \/ Bad(stmt.order) \/ Bad(stmt.exprs) \/ (stmt.order # <<>> /\ Bad(stmt.where))
    \/ \E r \in ToSet(Hits) : Failed(ValuesOf(stmt.order, r))
    \/ result = <<<<Integer(Len(Hits))>>>>
=============================================================================
