------------------------------ MODULE RpcTask -------------------------------
(***************************************************************************)
(* The manager of long-running RPC tasks: the map from a task's id to its  *)
(* status that the RPC methods read and change, and that the task's own    *)
(* handle changes.  Every operation takes the manager's mutex, so each is  *)
(* one step.  A task that is removed from the map loses its abort handle,  *)
(* which is how its future learns that it is cancelled.                    *)
(***************************************************************************)
EXTENDS Integers, FiniteSets

CONSTANTS Tasks

VARIABLES
    status,     \* task -> its entry: "none", "InProgress", "Awaiting", or the
                \* result "Ok" or "Error"
    listening,  \* the tasks that wait for a user action
    answered,   \* the tasks that wait with an action in their channel
    cancelled   \* the tasks that cancel_task has removed

taskVars == <<status, listening, answered, cancelled>>

Entry == {"none", "InProgress", "Awaiting", "Ok", "Error"}
Ongoing == {"InProgress", "Awaiting"}

TaskInit ==
    /\ status = [t \in Tasks |-> "none"]
    /\ listening = {} /\ answered = {} /\ cancelled = {}

register_task(t) ==
    /\ status' = [status EXCEPT ![t] = "InProgress"]
    /\ UNCHANGED <<listening, answered, cancelled>>

\* The cancel method.  A task that has a result, or none at all, is refused.
cancel_task(t) ==
    /\ status[t] \in Ongoing
    /\ status' = [status EXCEPT ![t] = "none"]
    /\ cancelled' = cancelled \union {t}
    /\ UNCHANGED <<listening, answered>>

\* The status method when it forgets a result it has delivered.
task_status_forgets(t) ==
    /\ status[t] \in {"Ok", "Error"}
    /\ status' = [status EXCEPT ![t] = "none"]
    /\ UNCHANGED <<listening, answered, cancelled>>

\* A result that is stored whether or not the task still has an entry.
on_task_finished_inserts(t, result) ==
    /\ status' = [status EXCEPT ![t] = result]
    /\ UNCHANGED <<listening, answered, cancelled>>

\* A result is stored in an entry that is there; a cancelled task has none.
on_task_finished(t, result) ==
    /\ status' = [status EXCEPT ![t] = IF @ = "none" THEN @ ELSE result]
    /\ UNCHANGED <<listening, answered, cancelled>>

\* update_in_progress_status succeeds for an ongoing task.
IsOngoing(t) == status[t] \in Ongoing

\* wait_for_user_action up to its wait.
set_task_is_waiting_for_user_action(t) ==
    /\ status[t] = "InProgress"
    /\ status' = [status EXCEPT ![t] = "Awaiting"]
    /\ listening' = listening \union {t}
    /\ UNCHANGED <<answered, cancelled>>

\* The user_action method.  The task is in progress again even when nobody
\* listens any more, and then the caller is told so.
on_user_action(t) ==
    /\ status[t] = "Awaiting"
    /\ status' = [status EXCEPT ![t] = "InProgress"]
    /\ answered' = answered \union ({t} \intersect listening)
    /\ UNCHANGED <<listening, cancelled>>

\* The wait of wait_for_user_action is over: the action arrived, or the time
\* is up (perhaps just as the action arrives), or the task was dropped.
StopListening(t) ==
    /\ listening' = listening \ {t}
    /\ answered' = answered \ {t}
=============================================================================
