-------------------------- MODULE SQLiteStatements --------------------------
(***************************************************************************)
(* sqlite4esl::database and esl::database: a connection factory, its        *)
(* connections, prepared statements and result sets, called by one thread. *)
(* A prepared statement has an SQLite statement, which a result set takes  *)
(* over; the next execution then compiles the SQL again.                   *)
(*                                                                         *)
(* SQLite is external: what its statements are bound to, whether they may  *)
(* be bound, and that a connection with statements is not closed.  The     *)
(* rows and the failures of sqlite3_step() are any.  Every result set has  *)
(* one column.  isEditable() is FALSE and save() and add() throw for all   *)
(* result sets of SQLite.                                                  *)
(***************************************************************************)
EXTENDS Field, FiniteSets, Sequences

CONSTANTS
    Queries,     \* prepared statements
    BulkQueries, \* ... that are PreparedBulkStatements
    ResultSets,
    Statements, NoStatement, \* of SQLite
    Parameters,  \* values a program passes, all with two parameters
    Rows,        \* values of the column
    Edits,       \* values a program assigns to a field
    MaxConnections

Gone == "gone"

ASSUME StatementsAssumption ==
    /\ BulkQueries \subseteq Queries /\ Queries \intersect ResultSets = {}
    /\ NoStatement \notin Statements /\ Gone \notin Statements \union {NoStatement}
    /\ MaxConnections \in Nat
ASSUME ValuesAssumption == \A v \in Rows \union Edits : v = Null \/ v.type \in Types

VARIABLES
    factory,          \* whether it exists
    connectionHandle, \* whether it is set
    database,         \* "none", "open", "zombie" (closed by sqlite3_close_v2), "closed"
    connections,      \* how many exist
    openFailed, fault, \* a failed open; a use of a handle that is closed
    state,            \* of a statement: "none", "ready", "row", "stopped" (by an error)
    bound, given,     \* what it is bound to, what was passed for its last run
    prepared, binding, \* statementHandle of a prepared statement and of the binding of a
                      \* result set, or Gone
    field, fetching,  \* of a result set
    row, shown,       \* the last row, and whether the program left it as it came
    threw, unnoticed  \* whether any fetch threw; a change that was not refused

dbVars     == <<factory, connectionHandle, database, connections, openFailed, fault>>
stmtVars   == <<state, bound, given>>
resultVars == <<binding, field, fetching, row, shown, threw, unnoticed>>
vars == <<dbVars, stmtVars, prepared, resultVars>>

Live == {s \in Statements : state[s] # "none"}

Init ==
    /\ factory = TRUE /\ connectionHandle = FALSE /\ database = "none"
    /\ connections = 0 /\ openFailed = FALSE /\ fault = FALSE
    /\ state = [s \in Statements |-> "none"]
    /\ bound = [s \in Statements |-> <<Null, Null>>] /\ given = [s \in Statements |-> <<>>]
    /\ prepared = [q \in Queries |-> Gone]
    /\ binding = [r \in ResultSets |-> Gone]
    /\ field = [r \in ResultSets |-> NewField] /\ fetching = [r \in ResultSets |-> FALSE]
    /\ row = [r \in ResultSets |-> Null] /\ shown = [r \in ResultSets |-> FALSE]
    /\ threw = FALSE /\ unnoticed = FALSE

-----------------------------------------------------------------------------
(* SQLite (external)                                                       *)

\* A finalized statement is forgotten, and with the last one a zombie.
Finalized(stmts) ==
    /\ state' = [s \in Statements |-> IF s \in stmts THEN "none" ELSE state[s]]
    /\ bound' = [s \in Statements |-> IF s \in stmts THEN <<Null, Null>> ELSE bound[s]]
    /\ given' = [s \in Statements |-> IF s \in stmts THEN <<>> ELSE given[s]]
    /\ database' = IF database = "zombie" /\ Live \subseteq stmts THEN "closed" ELSE database

-----------------------------------------------------------------------------
(* ConnectionFactory and Connection                                        *)

CreateConnection ==
    /\ factory /\ connections < MaxConnections
    /\ IF connectionHandle
       THEN fault' = (database # "open") /\ UNCHANGED <<connectionHandle, database>>
       ELSE connectionHandle' = TRUE /\ database' = "open" /\ UNCHANGED fault
    /\ connections' = connections + 1
    /\ UNCHANGED <<factory, openFailed, stmtVars, prepared, resultVars>>

\* sqlite3_open_v2() fails: its handle is closed, the pointer stays.
CreateConnectionFails ==
    /\ factory /\ ~connectionHandle
    /\ connectionHandle' = TRUE /\ database' = "closed" /\ openFailed' = TRUE
    /\ UNCHANGED <<factory, connections, fault, stmtVars, prepared, resultVars>>

DestroyConnection ==
    /\ connections > 0
    /\ connections' = connections - 1
    /\ UNCHANGED <<factory, connectionHandle, database, openFailed, fault, stmtVars, prepared,
                   resultVars>>

\* Mutant: one attempt to close.
DestroyFactoryOnce ==
    /\ factory /\ connections = 0
    /\ factory' = FALSE
    /\ database' = IF database = "open" /\ Live = {} THEN "closed" ELSE database
    /\ fault' = (fault \/ (connectionHandle /\ database = "closed"))
    /\ UNCHANGED <<connectionHandle, connections, openFailed, stmtVars, prepared, resultVars>>

\* sqlite3_close() refuses if there are statements, sqlite3_close_v2() then
\* leaves a zombie.
DestroyFactory ==
    /\ factory /\ connections = 0
    /\ factory' = FALSE
    /\ database' = IF database # "open" THEN database
                   ELSE IF Live = {} THEN "closed" ELSE "zombie"
    /\ fault' = (fault \/ (connectionHandle /\ database = "closed"))
    /\ UNCHANGED <<connectionHandle, connections, openFailed, stmtVars, prepared, resultVars>>

-----------------------------------------------------------------------------
(* PreparedStatement and PreparedBulkStatement                             *)

Prepare(q, s) ==
    /\ connections > 0 /\ database = "open"
    /\ prepared[q] = Gone /\ s \notin Live
    /\ prepared' = [prepared EXCEPT ![q] = s]
    /\ state' = [state EXCEPT ![s] = "ready"]
    /\ UNCHANGED <<dbVars, bound, given, resultVars>>

DestroyPrepared(q) ==
    /\ prepared[q] # Gone
    /\ prepared' = [prepared EXCEPT ![q] = Gone]
    /\ Finalized({prepared[q]} \ {NoStatement})
    /\ UNCHANGED <<factory, connectionHandle, connections, openFailed, fault, resultVars>>

\* An execution uses the statement there is or, as long as the connection
\* exists, a new one.
ExecutesOn(q, s) ==
    \/ prepared[q] = s
    \/ prepared[q] = NoStatement /\ s \notin Live /\ connections > 0 /\ database = "open"

\* SQLite does not bind a statement that runs, or was stopped by an error, nor
\* a parameter 0, which is where the NULL for the first one goes.
Binds(s, params) == state[s] # "row" /\ state[s] # "stopped" /\ params[1] # Null

AsBound(v) == IF v.type = "boolean" THEN [v EXCEPT !.type = "integer"] ELSE v

\* NULL is bound to the parameter before its own.
Bound(s, params) ==
    [i \in 1..2 |->
        IF i = 1 /\ params[2] = Null THEN Null
        ELSE IF params[i] = Null THEN bound[s][i] ELSE AsBound(params[i])]

\* The number of parameters is wrong, or one is refused.
ExecuteRefused(q, s) ==
    /\ ExecutesOn(q, s)
    /\ prepared' = [prepared EXCEPT ![q] = s]
    /\ state' = [state EXCEPT ![s] = IF @ = "none" THEN "ready" ELSE @]
    /\ UNCHANGED <<dbVars, bound, given, resultVars>>

\* Mutant: it is not looked at what sqlite3_bind_...() returns.
BindAndRunUnchecked(q, s, params) ==
    /\ ExecutesOn(q, s)
    /\ bound' = IF Binds(s, params) THEN [bound EXCEPT ![s] = Bound(s, params)] ELSE bound
    /\ given' = [given EXCEPT ![s] = params]

\* Parameters are bound and the first step is done.
BindAndRun(q, s, params) ==
    /\ ExecutesOn(q, s) /\ Binds(s, params)
    /\ bound' = [bound EXCEPT ![s] = Bound(s, params)]
    /\ given' = [given EXCEPT ![s] = params]

ExecuteFails(q, s, params) ==
    /\ BindAndRun(q, s, params)
    /\ prepared' = [prepared EXCEPT ![q] = s]
    /\ state' = [state EXCEPT ![s] = "stopped"]
    /\ UNCHANGED <<dbVars, resultVars>>

\* No row: the statement is reset.  A bulk statement returns nothing, another
\* one an empty result set.
ExecuteNoRow(q, s, params) ==
    /\ BindAndRun(q, s, params)
    /\ prepared' = [prepared EXCEPT ![q] = s]
    /\ state' = [state EXCEPT ![s] = "ready"]
    /\ IF q \in BulkQueries THEN UNCHANGED binding
       ELSE \E r \in ResultSets : binding[r] = Gone /\ binding' = [binding EXCEPT ![r] = NoStatement]
    /\ UNCHANGED <<dbVars, field, fetching, row, shown, threw, unnoticed>>

\* Mutant: the handle that is moved from is not cleared.
ExecuteRowKeeping(q, s, r, params, v) ==
    /\ q \notin BulkQueries /\ binding[r] = Gone
    /\ BindAndRun(q, s, params)
    /\ prepared' = [prepared EXCEPT ![q] = s]
    /\ state' = [state EXCEPT ![s] = "row"]
    /\ binding' = [binding EXCEPT ![r] = s]
    /\ field' = [field EXCEPT ![r] = Assigned(NewField, v)]
    /\ row' = [row EXCEPT ![r] = v] /\ shown' = [shown EXCEPT ![r] = TRUE]
    /\ UNCHANGED <<dbVars, fetching, threw, unnoticed>>

\* The constructor of the result set takes the statement and the first row.
ExecuteRow(q, s, r, params, v) ==
    /\ q \notin BulkQueries /\ binding[r] = Gone
    /\ BindAndRun(q, s, params)
    /\ prepared' = [prepared EXCEPT ![q] = NoStatement]
    /\ state' = [state EXCEPT ![s] = "row"]
    /\ binding' = [binding EXCEPT ![r] = s]
    /\ field' = [field EXCEPT ![r] = Assigned(NewField, v)]
    /\ row' = [row EXCEPT ![r] = v] /\ shown' = [shown EXCEPT ![r] = TRUE]
    /\ UNCHANGED <<dbVars, fetching, threw, unnoticed>>

-----------------------------------------------------------------------------
(* ResultSet                                                               *)

HasBinding(r) == binding[r] \notin {Gone, NoStatement}

\* next() with a row; a value that does not fit the type of the field throws,
\* and fetching stays TRUE.
FetchRow(r, v) ==
    /\ HasBinding(r)
    /\ state' = [state EXCEPT ![binding[r]] = "row"]
    /\ field' = [field EXCEPT ![r] = IF Assignable(@, v) THEN Assigned(@, v) ELSE @]
    /\ fetching' = [fetching EXCEPT ![r] = ~Assignable(field[r], v)]
    /\ shown' = [shown EXCEPT ![r] = Assignable(field[r], v)]
    /\ row' = [row EXCEPT ![r] = IF Assignable(field[r], v) THEN v ELSE Null]
    /\ threw' = (threw \/ ~Assignable(field[r], v))
    /\ UNCHANGED <<dbVars, bound, given, prepared, binding, unnoticed>>

\* The fields of the result set are gone.
Forget(r) ==
    /\ field' = [field EXCEPT ![r] = NewField]
    /\ row' = [row EXCEPT ![r] = Null]
    /\ shown' = [shown EXCEPT ![r] = FALSE]

\* The field does not show the row any more.
Touched(r) ==
    /\ row' = [row EXCEPT ![r] = Null]
    /\ shown' = [shown EXCEPT ![r] = FALSE]

\* next() at the end: the binding is destroyed, the fields cannot be reached.
FetchEnd(r) ==
    /\ HasBinding(r)
    /\ Finalized({binding[r]})
    /\ binding' = [binding EXCEPT ![r] = NoStatement]
    /\ fetching' = [fetching EXCEPT ![r] = FALSE]
    /\ Forget(r)
    /\ UNCHANGED <<factory, connectionHandle, connections, openFailed, fault, prepared, threw,
                   unnoticed>>

FetchFails(r) ==
    /\ HasBinding(r)
    /\ state' = [state EXCEPT ![binding[r]] = "stopped"]
    /\ fetching' = [fetching EXCEPT ![r] = TRUE]
    /\ threw' = TRUE
    /\ Touched(r)
    /\ UNCHANGED <<dbVars, bound, given, prepared, binding, field, unnoticed>>

\* An assignment to the field changes it; then setChanged() throws, but if
\* fetching is TRUE nobody gets to know of it.
Edit(r, v) ==
    /\ HasBinding(r)
    /\ Assignable(field[r], v) /\ Changes(field[r], v)
    /\ field' = [field EXCEPT ![r] = Assigned(@, v)]
    /\ Touched(r)
    /\ unnoticed' = (unnoticed \/ fetching[r])
    /\ UNCHANGED <<dbVars, stmtVars, prepared, binding, fetching, threw>>

\* A result set is moved to another one, which keeps its own fetching.
Move(from, to) ==
    /\ from # to /\ binding[from] # Gone /\ binding[to] # Gone
    /\ Finalized({binding[to]} \ {NoStatement})
    /\ binding' = [binding EXCEPT ![to] = binding[from], ![from] = NoStatement]
    /\ field' = [field EXCEPT ![to] = field[from], ![from] = NewField]
    /\ row' = [row EXCEPT ![to] = row[from], ![from] = Null]
    /\ shown' = [shown EXCEPT ![to] = shown[from], ![from] = FALSE]
    /\ UNCHANGED <<factory, connectionHandle, connections, openFailed, fault, prepared, fetching,
                   threw, unnoticed>>

DestroyResultSet(r) ==
    /\ binding[r] # Gone
    /\ Finalized({binding[r]} \ {NoStatement})
    /\ binding' = [binding EXCEPT ![r] = Gone]
    /\ fetching' = [fetching EXCEPT ![r] = FALSE]
    /\ Forget(r)
    /\ UNCHANGED <<factory, connectionHandle, connections, openFailed, fault, prepared, threw,
                   unnoticed>>

-----------------------------------------------------------------------------
Execute ==
    \E q \in Queries, s \in Statements :
        \/ ExecuteRefused(q, s)
        \/ \E params \in Parameters :
               \/ ExecuteFails(q, s, params) \/ ExecuteNoRow(q, s, params)
               \/ \E r \in ResultSets, v \in Rows : ExecuteRow(q, s, r, params, v)

Next ==
    /\ ~fault
    /\ \/ CreateConnection \/ CreateConnectionFails \/ DestroyConnection \/ DestroyFactory
       \/ \E q \in Queries : DestroyPrepared(q) \/ \E s \in Statements : Prepare(q, s)
       \/ Execute
       \/ \E r \in ResultSets :
             \/ \E v \in Rows : FetchRow(r, v)
             \/ \E v \in Edits : Edit(r, v)
             \/ FetchEnd(r) \/ FetchFails(r) \/ DestroyResultSet(r)
             \/ \E to \in ResultSets : Move(r, to)

Spec == Init /\ [][Next]_vars

-----------------------------------------------------------------------------
\* A statement of SQLite has exactly one owner, a prepared statement or a result
\* set, however often it was moved: it is finalized once and not used after.
Owners(s) == {q \in Queries : prepared[q] = s} \union {r \in ResultSets : binding[r] = s}
OneOwner ==
    \A s \in Statements : Cardinality(Owners(s)) = IF s \in Live THEN 1 ELSE 0

\* A field that was fetched shows the value of the row, in the type that the
\* column got from its first value: no value or NULL of an earlier row stays.  A
\* program that changes it gets an exception, as long as no fetch threw.
FieldsShowRow ==
    /\ \A r \in ResultSets : shown[r] =>
          /\ field[r].valueIsNull <=> row[r] = Null
          /\ row[r] # Null => field[r].value = Convert(row[r], field[r].columnType)
    /\ unnoticed => threw

\* A statement runs with the values passed to the execution, none of which is
\* NULL, whatever earlier executions bound it to.
RunsWithGiven ==
    \A s \in Live : given[s] # <<>> /\ Null \notin {given[s][1], given[s][2]} =>
        bound[s] = [i \in 1..2 |-> AsBound(given[s][i])]

\* The database is there as long as a statement needs it, whichever order the
\* program destroys its objects in, and not longer; a handle that is closed is
\* used only if the first open failed.
DatabaseOutlivesStatements ==
    /\ Live # {} => database \in {"open", "zombie"}
    /\ ~factory /\ Live = {} => database \in {"none", "closed"}
    /\ fault => openFailed
=============================================================================
