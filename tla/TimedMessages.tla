--------------------------- MODULE TimedMessages ---------------------------
(***************************************************************************)
(* What a message timer promises whoever gives it messages, without        *)
(* threads, locks or waits: a message replaces the one with its key; of    *)
(* those whose time has come the most important one is handed over, once   *)
(* for every time it was added; and one message is handed over after the   *)
(* other, however many runners there are.  MessageTimer implements this    *)
(* specification.                                                          *)
(***************************************************************************)
EXTENDS Naturals

CONSTANTS Messages, KeyOf, Priority, Movable

VARIABLES
    pending,  \* messages that wait for their time or to be handed over
    due,      \* those of them whose time has come
    busy      \* a message has been handed over and is being handled

tmVars == <<pending, due, busy>>

Init == pending = {} /\ due = {} /\ busy = FALSE

\* Its time may have come already.
Add(m) ==
    LET same == {n \in pending : KeyOf[n] = KeyOf[m]} IN
    /\ pending' = (pending \ same) \union {m}
    /\ due' \in {due \ same, (due \ same) \union {m}}
    /\ UNCHANGED busy

Elapse(m) ==
    /\ m \in pending \ due
    /\ due' = due \union {m}
    /\ UNCHANGED <<pending, busy>>

\* A movable message that is not the one starts its time again.
HandOver(m) ==
    /\ ~busy
    /\ m \in due
    /\ \A n \in due : Priority[n] <= Priority[m]
    /\ pending' = pending \ {m}
    /\ due' = due \ (Movable \union {m})
    /\ busy' = TRUE

Finish == busy /\ busy' = FALSE /\ UNCHANGED <<pending, due>>

Next ==
    \/ \E m \in Messages : Add(m) \/ Elapse(m) \/ HandOver(m)
    \/ Finish

Spec == Init /\ [][Next]_tmVars
=============================================================================
