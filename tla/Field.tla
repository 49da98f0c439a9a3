-------------------------------- MODULE Field --------------------------------
(***************************************************************************)
(* esl::database::Field: a value that may be NULL and that has the type of *)
(* its column.  A column of unknown type, as all columns of SQLite are,    *)
(* gets the type of the first value that is not NULL; from then on values  *)
(* are converted to it.                                                    *)
(*                                                                         *)
(* A value is a type and a number, counted in halves; a text that is not a *)
(* number is Word.                                                         *)
(***************************************************************************)
EXTENDS Integers

Types == {"boolean", "integer", "double", "string"}
Null  == [type |-> "null", halves |-> 0]
Word  == -1

NewField == [columnType |-> "unknown", valueIsNull |-> TRUE, value |-> 0]

\* stoll() and stod() throw for a text that is not a number.
Converts(v, type) == v.type = "string" /\ v.halves = Word => type \in {"boolean", "string"}

\* toBoolean() of a text compares a string that is always empty.
Convert(v, type) ==
    CASE type = "boolean" -> IF v.type = "string" \/ v.halves = 0 THEN 0 ELSE 2
      [] type = "integer" -> 2 * (v.halves \div 2)
      [] type = "double"  -> v.halves
      [] type = "string"  -> IF v.type = "boolean" THEN Word ELSE v.halves

TypeFor(f, v) == IF f.columnType = "unknown" THEN v.type ELSE f.columnType

\* Whether the assignment of a value can be done.
Assignable(f, v) == v # Null => Converts(v, TypeFor(f, v))

\* Mutant: a value that is the same as before the NULL is no change.
ChangesValue(f, v) ==
    IF v = Null THEN ~f.valueIsNull
    ELSE f.columnType = "unknown" \/ f.value # Convert(v, TypeFor(f, v))

\* Whether it is reported to the result set.
Changes(f, v) ==
    IF v = Null THEN ~f.valueIsNull
    ELSE f.columnType = "unknown" \/ f.valueIsNull \/ f.value # Convert(v, TypeFor(f, v))

Assigned(f, v) ==
    IF ~Changes(f, v) THEN f
    ELSE IF v = Null THEN [f EXCEPT !.valueIsNull = TRUE]
    ELSE [columnType |-> TypeFor(f, v), valueIsNull |-> FALSE,
          value |-> Convert(v, TypeFor(f, v))]
=============================================================================
