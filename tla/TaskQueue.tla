----------------------------- MODULE TaskQueue -----------------------------
(***************************************************************************)
(* The asynq task queue in Redis, as the distributors in worker/ use it:   *)
(* every task is enqueued with a task id (asynq.TaskID) and a uniqueness   *)
(* lock on its payload (asynq.Unique), and the server retries a task whose *)
(* handler fails.  asynq itself is not in the repository; its steps are    *)
(* modelled from how worker/ calls it (v0.25.1).                           *)
(*                                                                         *)
(* "pending" also stands for asynq's scheduled and retry sets: the delay   *)
(* before a retry is not modelled, a task may simply wait.                 *)
(***************************************************************************)
EXTENDS Naturals

CONSTANTS TaskIds,   \* values passed to asynq.TaskID
          Payloads,  \* encoded task payloads, the uniqueness keys
          MaxRetry,  \* failed runs before a task is archived (asynq: 25)
          NoTask     \* no task key in Redis under this id

VARIABLES task,      \* task[id]: the task stored under id, or NoTask
          locked     \* payloads whose uniqueness lock is held

Tasks == [payload : Payloads,
          state   : {"pending", "active", "archived"},
          retried : 0..MaxRetry]

QueueTypeOK == /\ task \in [TaskIds -> Tasks \cup {NoTask}]
               /\ locked \subseteq Payloads

QueueInit == /\ task = [id \in TaskIds |-> NoTask]
             /\ locked = {}

InState(id, s) == task[id] # NoTask /\ task[id].state = s

\* asynq takes the payload lock first and looks at the task id second.
Available(id, p) == p \notin locked /\ task[id] = NoTask

\* One enqueue call.  When it is refused, ErrDuplicateTask leaves everything
\* as it was and ErrTaskIDConflict leaves the lock it has just taken behind.
TryEnqueue(id, p) ==
  /\ task' = IF Available(id, p)
             THEN [task EXCEPT ![id] = [payload |-> p, state |-> "pending", retried |-> 0]]
             ELSE task
  /\ locked' = locked \cup {p}

\* The lock's time to live has passed.
LockExpires(p) ==
  /\ p \in locked
  /\ locked' = locked \ {p}
  /\ UNCHANGED task

Dequeue(id) ==
  /\ InState(id, "pending")
  /\ task' = [task EXCEPT ![id].state = "active"]
  /\ UNCHANGED locked

\* The handler returned nil: the task and its lock are deleted.
Done(id) ==
  /\ InState(id, "active")
  /\ task' = [task EXCEPT ![id] = NoTask]
  /\ locked' = locked \ {task[id].payload}

\* Mutant: retries are never counted.
AfterFailureUncounted(t) == [t EXCEPT !.state = "pending"]

AfterFailure(t) ==
  IF t.retried < MaxRetry
  THEN [t EXCEPT !.state = "pending", !.retried = t.retried + 1]
  ELSE [t EXCEPT !.state = "archived"]

\* The handler returned an error or panicked, or its worker died and the lease
\* ran out: retry the task, or archive it once its retries are used up.
Failed(id) ==
  /\ InState(id, "active")
  /\ task' = [task EXCEPT ![id] = AfterFailure(task[id])]
  /\ UNCHANGED locked
=============================================================================
