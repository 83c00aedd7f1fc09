-------------------------- MODULE GlibMessageLoop --------------------------
(***************************************************************************)
(* libchromeos's GlibMessageLoop (message_loops/glib_message_loop.cc): a   *)
(* MessageLoop on a GLib main context.  PostDelayedTask() numbers a task   *)
(* with ++last_id_ (skipping kTaskIdNull), adds a GLib timeout source for  *)
(* it and records it in tasks_; CancelTask() erases the entry and removes  *)
(* the source; the loop dispatches a source through OnRanPostedTask(),     *)
(* which runs the closure and then erases the entry.                       *)
(*                                                                         *)
(* A pending GLib source is a record [sid, task]: its source id and the    *)
(* task_id of its ScheduledTask.  Delays are left out: any pending source  *)
(* may be dispatched next.  The closure being run may itself post and      *)
(* cancel tasks; running holds the source being dispatched.  Task ids are  *)
(* IdBits wide.                                                            *)
(***************************************************************************)
EXTENDS Naturals, FiniteSets, TLC

CONSTANTS
  IdBits,      \* width of TaskId
  MaxPosts     \* bound on PostDelayedTask() calls

kTaskIdNull == 0
IdSpace == 2 ^ IdBits
TaskIds == 0..IdSpace - 1
NoSource == [sid |-> 0, task |-> kTaskIdNull]

VARIABLES
  last_id,     \* last_id_
  tasks,       \* tasks_: task id |-> GLib source id
  sources,     \* GLib timeout sources not yet dispatched or removed
  running,     \* the source whose OnRanPostedTask() is running, or NoSource
  next_sid,    \* the id GLib gives the next source
  posts        \* history: PostDelayedTask() calls

vars == <<last_id, tasks, sources, running, next_sid, posts>>

Init ==
  /\ last_id = 0
  /\ tasks = [id \in {} |-> 0]
  /\ sources = {}
  /\ running = NoSource
  /\ next_sid = 1
  /\ posts = 0

\* The id ++last_id_ gives, taken again when it wraps to kTaskIdNull.
NextTaskId ==
  LET first == (last_id + 1) % IdSpace
  IN  IF first = kTaskIdNull THEN (first + 1) % IdSpace ELSE first

\* tasks_.erase(task_id).
Erase(id) == [t \in DOMAIN tasks \ {id} |-> tasks[t]]

\* PostDelayedTask(): a new id, a new GLib source, tasks_[task_id].
PostDelayedTask ==
  /\ posts < MaxPosts
  /\ posts' = posts + 1
  /\ last_id' = NextTaskId
  /\ sources' = sources \cup {[sid |-> next_sid, task |-> NextTaskId]}
  /\ next_sid' = next_sid + 1
  /\ tasks' = (NextTaskId :> next_sid) @@ tasks
  /\ UNCHANGED running

\* CancelTask(): FALSE for kTaskIdNull and unknown ids; otherwise the entry
\* is erased and g_source_remove() destroys the source (a no-op for the
\* source whose closure is running: GLib drops it when the closure
\* returns FALSE).  The boolean returned is not state.
CancelTask(id) ==
  /\ id # kTaskIdNull /\ id \in DOMAIN tasks
  /\ tasks' = Erase(id)
  /\ sources' = {s \in sources : s.sid # tasks[id]}
  /\ UNCHANGED <<last_id, running, next_sid, posts>>

\* The main context dispatches a pending source: OnRanPostedTask() starts
\* running its closure.  The source returns FALSE, so it is never
\* dispatched again.
Dispatch ==
  /\ running = NoSource
  /\ \E s \in sources :
       /\ running' = s
       /\ sources' = sources \ {s}
  /\ UNCHANGED <<last_id, tasks, next_sid, posts>>

\* Variant: OnRanPostedTask() does not erase the task's entry.
OnRanPostedTaskNoErase ==
  /\ running # NoSource
  /\ running' = NoSource
  /\ UNCHANGED <<last_id, tasks, sources, next_sid, posts>>

\* The closure returns and OnRanPostedTask() erases scheduled_task's
\* task_id from tasks_.
OnRanPostedTask ==
  /\ running # NoSource
  /\ tasks' = Erase(running.task)
  /\ running' = NoSource
  /\ UNCHANGED <<last_id, sources, next_sid, posts>>

\* Posting and cancelling happen from a running closure or from outside
\* the loop.
Next ==
  \/ PostDelayedTask
  \/ \E id \in TaskIds : CancelTask(id)
  \/ Dispatch
  \/ OnRanPostedTask

Spec == Init /\ [][Next]_vars

(***************************************************************************)
(* Properties                                                              *)
(***************************************************************************)
TypeOK ==
  /\ last_id \in TaskIds
  /\ DOMAIN tasks \subseteq TaskIds \ {kTaskIdNull}
  /\ running.task \in TaskIds

LiveTable == {<<s.task, s.sid>> : s \in sources}
Table == {<<id, tasks[id]>> : id \in DOMAIN tasks}

\* tasks_ and the GLib sources agree: every pending source has its entry,
\* and every entry names a pending source or the one whose closure is
\* running, across posts and cancels made from inside closures.
TaskTableMatchesSources ==
  /\ LiveTable \subseteq Table
  /\ Table \subseteq LiveTable \cup {<<running.task, running.sid>>}

=============================================================================
