--------------------------- MODULE SessionLending ---------------------------
(***************************************************************************)
(* What a session pool promises its users, without waiting, counters, time *)
(* or a thread that cleans up: a key has at most one object, which any     *)
(* number of borrowers may share; at most ObjectsMax lendings are open,    *)
(* whatever happened to the objects; nothing is lent once the pool is      *)
(* closing.  Only in a pool whose objects have a lifetime may an object go *)
(* away under its users, and only such a pool waits for its borrowers      *)
(* before it goes itself.  SessionPool implements this specification.      *)
(***************************************************************************)
EXTENDS Naturals, FiniteSets

CONSTANTS
    Keys,         \* keys of sessions
    Clients,      \* borrowers
    NoKey,        \* a borrower without object
    ObjectsMax    \* limit of lendings, 0: none

VARIABLES
    existing,     \* keys that have an object
    users,        \* [Clients -> key each has borrowed]
    usable,       \* borrowers whose object has not been destroyed
    phase,        \* "open", "closing", "gone"
    lasting       \* whether objects last as long as the pool

slVars == <<existing, users, usable, phase, lasting>>

Borrowers == {c \in Clients : users[c] # NoKey}

Init ==
    /\ existing = {}
    /\ users = [c \in Clients |-> NoKey]
    /\ usable = {}
    /\ phase = "open"
    /\ lasting \in BOOLEAN

\* The object of the key is created if there is none.
Lend(c, k) ==
    /\ phase = "open"
    /\ users[c] = NoKey
    /\ ObjectsMax = 0 \/ Cardinality(Borrowers) < ObjectsMax
    /\ users' = [users EXCEPT ![c] = k]
    /\ existing' = existing \union {k}
    /\ usable' = usable \union {c}
    /\ UNCHANGED <<phase, lasting>>

\* Objects go away, with them the use of those who have borrowed them.
Drop(keys) ==
    /\ keys # {} => ~lasting
    /\ existing' = existing \ keys
    /\ usable' = {c \in usable : users'[c] \notin keys \union {NoKey}}

\* The object that is given back is the only one that may go.
Return(c) ==
    /\ users[c] # NoKey
    /\ phase # "gone"
    /\ users' = [users EXCEPT ![c] = NoKey]
    /\ \E keys \in SUBSET {users[c]} : (keys # {} => phase = "open") /\ Drop(keys)
    /\ UNCHANGED <<phase, lasting>>

Discard ==
    /\ phase # "gone"
    /\ UNCHANGED <<users, phase, lasting>>
    /\ \E keys \in SUBSET existing : Drop(keys)

Close == phase = "open" /\ phase' = "closing"
         /\ UNCHANGED <<existing, users, usable, lasting>>

Vanish ==
    /\ phase = "closing"
    /\ lasting \/ Borrowers = {}
    /\ phase' = "gone"
    /\ existing' = {}
    /\ usable' = {}
    /\ UNCHANGED <<users, lasting>>

Next ==
    \/ \E c \in Clients : Return(c) \/ \E k \in Keys : Lend(c, k)
    \/ Discard \/ Close \/ Vanish

Spec == Init /\ [][Next]_slVars
=============================================================================
