------------------------ MODULE MCSQLiteStatements ------------------------
(* Instances of SQLiteStatements for TLC.                                  *)
EXTENDS SQLiteStatements, TLC

CONSTANTS q1, q2, r1, r2, s1, s2, s3

One  == [type |-> "integer", halves |-> 2]
Half == [type |-> "double", halves |-> 1]
Text == [type |-> "string", halves |-> Word]
Yes  == [type |-> "boolean", halves |-> 2]

MCParameters == {<<Yes, Half>>, <<One, Null>>, <<Null, One>>}
MCRows       == {One, Text, Null}
MCEdits      == {Yes}

\* No definition names a statement of SQLite.
StatementSymmetry == Permutations(Statements)
=============================================================================
