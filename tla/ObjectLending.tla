--------------------------- MODULE ObjectLending ---------------------------
(***************************************************************************)
(* What an object pool promises its users, without waiting, time or a      *)
(* thread that cleans up: an object is lent to one borrower at a time, at  *)
(* most ObjectsMax objects exist, nothing is lent once the pool is closing *)
(* and nothing is left of it when it is gone.  ObjectPool implements this  *)
(* specification.                                                          *)
(***************************************************************************)
EXTENDS Naturals, FiniteSets

CONSTANTS
    Objects,      \* identities of pooled objects
    Clients,      \* borrowers
    NoObject,     \* a borrower without object
    ObjectsMax    \* limit of existing objects, 0: none

VARIABLES
    idle,         \* objects in the pool
    lent,         \* [Clients -> what each has borrowed]
    phase         \* "open", "closing", "gone"

olVars == <<idle, lent, phase>>

Borrowed == {lent[c] : c \in Clients} \ {NoObject}
Existing == idle \union Borrowed

Init ==
    /\ idle = {}
    /\ lent = [c \in Clients |-> NoObject]
    /\ phase = "open"

Lend(c) ==
    /\ phase = "open"
    /\ lent[c] = NoObject
    /\ \E o \in idle : lent' = [lent EXCEPT ![c] = o] /\ idle' = idle \ {o}
    /\ UNCHANGED phase

Create(c) ==
    /\ phase = "open"
    /\ lent[c] = NoObject
    /\ idle = {}
    /\ ObjectsMax = 0 \/ Cardinality(Existing) < ObjectsMax
    /\ \E o \in Objects \ Existing : lent' = [lent EXCEPT ![c] = o]
    /\ UNCHANGED <<idle, phase>>

\* A returned object goes back to the pool or is destroyed.
Return(c) ==
    /\ lent[c] # NoObject
    /\ phase # "gone"
    /\ \/ phase = "open" /\ idle' = idle \union {lent[c]}
       \/ UNCHANGED idle
    /\ lent' = [lent EXCEPT ![c] = NoObject]
    /\ UNCHANGED phase

Discard ==
    /\ idle' \in SUBSET idle
    /\ UNCHANGED <<lent, phase>>

Close == phase = "open" /\ phase' = "closing" /\ UNCHANGED <<idle, lent>>

Vanish ==
    /\ phase = "closing"
    /\ Borrowed = {}
    /\ phase' = "gone"
    /\ idle' = {}
    /\ UNCHANGED lent

Next ==
    \/ \E c \in Clients : Lend(c) \/ Create(c) \/ Return(c)
    \/ Discard \/ Close \/ Vanish

Spec == Init /\ [][Next]_olVars
=============================================================================
