--------------------------- MODULE TaskLifecycle ---------------------------
(***************************************************************************)
(* What a task factory promises its users, without threads, locks or a     *)
(* queue: every task follows the life cycle of esl::system::Task::Status,  *)
(* at most MaxThreads tasks run together, and once the factory is gone     *)
(* every task that was ever handed in has reached a final status.          *)
(* TaskFactory implements this specification.                              *)
(***************************************************************************)
EXTENDS Naturals, FiniteSets

CONSTANTS
    Tasks,       \* the tasks a program hands in
    MaxThreads   \* setting "max-threads"

VARIABLES
    status,      \* [Tasks -> Status], Task::getStatus()
    phase        \* "open", "closing" (destructor running), "gone"

lcVars == <<status, phase>>

Status == {"none", "waiting", "canceled", "running", "exception", "done"}
Final  == {"canceled", "exception", "done"}

RunningTasks == {t \in Tasks : status[t] = "running"}

Init ==
    /\ status = [t \in Tasks |-> "none"]
    /\ phase = "open"

Move(t, from, to) ==
    /\ status[t] = from
    /\ status' = [status EXCEPT ![t] = to]
    /\ UNCHANGED phase

Submit(t)   == phase = "open" /\ Move(t, "none", "waiting")
Withdraw(t) == phase # "gone" /\ Move(t, "waiting", "canceled")

Start(t) ==
    /\ phase # "gone"
    /\ Cardinality(RunningTasks) < MaxThreads
    /\ Move(t, "waiting", "running")

Complete(t) ==
    /\ phase # "gone"
    /\ \E result \in {"done", "exception"} : Move(t, "running", result)

\* A status listener that throws on "done" turns the result into "exception".
Overrule(t) == phase # "gone" /\ Move(t, "done", "exception")

Close == phase = "open" /\ phase' = "closing" /\ UNCHANGED status

Vanish ==
    /\ phase = "closing"
    /\ \A t \in Tasks : status[t] \in Final \union {"none"}
    /\ phase' = "gone"
    /\ UNCHANGED status

Next ==
    \/ \E t \in Tasks : \/ Submit(t) \/ Withdraw(t) \/ Start(t)
                        \/ Complete(t) \/ Overrule(t)
    \/ Close
    \/ Vanish

Spec == Init /\ [][Next]_lcVars
=============================================================================
