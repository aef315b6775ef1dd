----------------------------- MODULE Dispatcher -----------------------------
(***************************************************************************)
(* The dispatcher of src/engine/src/tasks.{h,cpp}: one thread that runs the *)
(* whole game logic, one task at a time, from a list that the network       *)
(* thread, the database thread, the scheduler thread and the running task   *)
(* itself all push to.                                                      *)
(*                                                                          *)
(* A critical section under taskLock is one step.  What happens outside the *)
(* lock is a step of its own: the test of threadState at the head of the    *)
(* loop, the notify_one of addTask, the execution of a task.                *)
(***************************************************************************)
EXTENDS Naturals, Sequences

CONSTANTS
  Task,              \* the tasks ever created, Closing included
  Timer,             \* those the scheduler hands over (push_front, never expire)
  Expiring,          \* those created with an expiration (createTask(ms, f))
  Closing,           \* the task Dispatcher::shutdown pushes
  Thread,            \* the threads that call addTask
  DispatcherThread,  \* the one that runs threadMain
  SchedulerThread,   \* the only one that pushes to the front
  NoTask             \* "no task is being executed"

ASSUME DispatcherAssumption ==
  /\ Timer \subseteq Task
  /\ Expiring \subseteq Task \ Timer
  /\ Closing \in Task \ (Timer \cup Expiring)
  /\ DispatcherThread \in Thread
  /\ SchedulerThread \in Thread
  /\ DispatcherThread # SchedulerThread
  /\ NoTask \notin Task

VARIABLES
  threadState,     \* ThreadHolder::threadState
  taskList,        \* Dispatcher::taskList
  dispatcherCycle, \* tasks begun
  pc,              \* where threadMain is
  current,         \* the task being executed
  signalled,       \* taskSignal was notified since the thread went to wait
  signalling,      \* threads between the unlock and the notify_one of addTask
  fate             \* history: what became of each task

vars == <<threadState, taskList, dispatcherCycle, pc, current, signalled,
          signalling, fate>>

ThreadState == {"RUNNING", "CLOSING", "TERMINATED"}
Fate == {"new", "queued", "executing", "executed", "expired", "refused"}

(* What start() leaves behind: RUNNING, and the thread at the head of its loop. *)
Init ==
  /\ threadState = "RUNNING"
  /\ taskList = <<>>
  /\ dispatcherCycle = 0
  /\ pc = "check"
  /\ current = NoTask
  /\ signalled = FALSE
  /\ signalling = {}
  /\ fate = [t \in Task |-> "new"]

(* A thread can call into the dispatcher unless it is still inside addTask; *)
(* the dispatcher's own thread can only do so from the task it executes.    *)
CanCall(th) ==
  /\ th \notin signalling
  /\ th = DispatcherThread => pc = "executing"

(* notify_one is lost on a thread that is not waiting. *)
NotifyOne_Missing == UNCHANGED signalled
NotifyOne == signalled' = (signalled \/ pc = "waiting")

(***************************************************************************)
Push(t) ==
  taskList' = IF t \in Timer THEN <<t>> \o taskList ELSE Append(taskList, t)

AcceptTask_SignalAfterPush(th, t) ==
  /\ threadState = "RUNNING"
  /\ Push(t)
  /\ fate' = [fate EXCEPT ![t] = "queued"]
  /\ signalling' = IF taskList' = <<>> THEN signalling \cup {th} ELSE signalling

AcceptTask_WhileClosing(th, t) ==
  /\ threadState # "TERMINATED"
  /\ Push(t)
  /\ fate' = [fate EXCEPT ![t] = "queued"]
  /\ signalling' = IF taskList = <<>> THEN signalling \cup {th} ELSE signalling

AcceptTask(th, t) ==
  /\ threadState = "RUNNING"
  /\ Push(t)
  /\ fate' = [fate EXCEPT ![t] = "queued"]
  /\ signalling' = IF taskList = <<>> THEN signalling \cup {th} ELSE signalling

RefuseTask(t) ==
  /\ threadState # "RUNNING"
  /\ fate' = [fate EXCEPT ![t] = "refused"]
  /\ UNCHANGED <<taskList, signalling>>

AddTask(th, t) ==
  /\ CanCall(th)
  /\ t # Closing
  /\ t \in Timer <=> th = SchedulerThread
  /\ fate[t] = "new"
  /\ AcceptTask(th, t) \/ RefuseTask(t)
  /\ UNCHANGED <<threadState, dispatcherCycle, pc, current, signalled>>

Notify(th) ==
  /\ th \in signalling
  /\ signalling' = signalling \ {th}
  /\ NotifyOne
  /\ UNCHANGED <<threadState, taskList, dispatcherCycle, pc, current, fate>>

(***************************************************************************)
(* threadMain                                                              *)
(***************************************************************************)
CheckState ==
  /\ pc = "check"
  /\ pc' = IF threadState # "TERMINATED" THEN "lock" ELSE "exited"
  /\ UNCHANGED <<threadState, taskList, dispatcherCycle, current, signalled,
                 signalling, fate>>

Wait ==
  /\ pc = "lock"
  /\ taskList = <<>>
  /\ pc' = "waiting"
  /\ signalled' = FALSE
  /\ UNCHANGED <<threadState, taskList, dispatcherCycle, current, signalling, fate>>

(* The thread holds the lock with a non-empty list: it pops the first task *)
(* and executes it, or deletes it when its expiration has passed.          *)
Execute(t) ==
  /\ pc' = "executing"
  /\ current' = t
  /\ dispatcherCycle' = dispatcherCycle + 1
  /\ fate' = [fate EXCEPT ![t] = "executing"]

Expire(t) ==
  /\ t \in Expiring
  /\ pc' = "check"
  /\ fate' = [fate EXCEPT ![t] = "expired"]
  /\ UNCHANGED <<current, dispatcherCycle>>

TakeFirst_NotPopped ==
  /\ taskList # <<>>
  /\ UNCHANGED taskList
  /\ Execute(Head(taskList)) \/ Expire(Head(taskList))
  /\ UNCHANGED <<threadState, signalling>>

TakeFirst ==
  /\ taskList # <<>>
  /\ taskList' = Tail(taskList)
  /\ Execute(Head(taskList)) \/ Expire(Head(taskList))
  /\ UNCHANGED <<threadState, signalling>>

Take ==
  /\ pc = "lock"
  /\ TakeFirst
  /\ UNCHANGED signalled

NothingToTake ==
  /\ taskList = <<>>
  /\ pc' = "check"
  /\ UNCHANGED <<threadState, taskList, dispatcherCycle, current, signalling, fate>>

WakeUp ==
  /\ pc = "waiting"
  /\ signalled' = FALSE
  /\ TakeFirst \/ NothingToTake

WakeNotified == signalled /\ WakeUp
WakeSpurious == ~signalled /\ WakeUp

Finish_NotTerminated ==
  /\ pc = "executing"
  /\ DispatcherThread \notin signalling
  /\ UNCHANGED threadState
  /\ fate' = [fate EXCEPT ![current] = "executed"]
  /\ pc' = "check"
  /\ current' = NoTask
  /\ UNCHANGED <<taskList, dispatcherCycle, signalled, signalling>>

Finish ==
  /\ pc = "executing"
  /\ DispatcherThread \notin signalling
  /\ threadState' = IF current = Closing THEN "TERMINATED" ELSE threadState
  /\ fate' = [fate EXCEPT ![current] = "executed"]
  /\ pc' = "check"
  /\ current' = NoTask
  /\ UNCHANGED <<taskList, dispatcherCycle, signalled, signalling>>

(***************************************************************************)
(* stop() is called by Game::setGameState, in a task, before the task that *)
(* calls shutdown() runs.  main calls shutdown() without stop() when the   *)
(* server could not start.                                                 *)
(***************************************************************************)
Stop(th) ==
  /\ th = DispatcherThread
  /\ CanCall(th)
  /\ threadState = "RUNNING"
  /\ fate[Closing] = "new"
  /\ threadState' = "CLOSING"
  /\ UNCHANGED <<taskList, dispatcherCycle, pc, current, signalled, signalling, fate>>

Shutdown(th) ==
  /\ CanCall(th)
  /\ th # SchedulerThread
  /\ threadState = "CLOSING" <=> th = DispatcherThread
  /\ fate[Closing] = "new"
  /\ taskList' = Append(taskList, Closing)
  /\ fate' = [fate EXCEPT ![Closing] = "queued"]
  /\ NotifyOne
  /\ UNCHANGED <<threadState, dispatcherCycle, pc, current, signalling>>

(* What threadMain does on its own once it was woken. *)
ThreadMain == CheckState \/ Wait \/ Take \/ WakeNotified \/ Finish

Next ==
  \/ ThreadMain
  \/ WakeSpurious
  \/ \E th \in Thread : Notify(th) \/ Stop(th) \/ Shutdown(th)
  \/ \E th \in Thread, t \in Task : AddTask(th, t)

Spec == Init /\ [][Next]_vars

(* A thread that can run is scheduled, and a task returns.  A spurious wake-up *)
(* is never promised, nor that anyone adds a task or shuts the server down.    *)
Fairness ==
  /\ WF_vars(ThreadMain)
  /\ \A th \in Thread : WF_vars(Notify(th))

FairSpec == Spec /\ Fairness

-----------------------------------------------------------------------------
(* The variables have their types; a task is current just while it is executed. *)
TypeOK ==
  /\ threadState \in ThreadState
  /\ taskList \in Seq(Task)
  /\ dispatcherCycle \in Nat
  /\ pc \in {"check", "lock", "waiting", "executing", "exited"}
  /\ current \in Task \cup {NoTask}
  /\ pc = "executing" <=> current # NoTask
  /\ signalled \in BOOLEAN
  /\ signalling \subseteq Thread
  /\ fate \in [Task -> Fate]

(* addTask notifies only when the list was empty, and after it has released    *)
(* the lock: even so the thread never sleeps on a non-empty list with nobody   *)
(* left who will wake it.                                                      *)
NoLostWakeup ==
  pc = "waiting" /\ taskList # <<>> => signalled \/ signalling # {}

(* A task is in the list exactly while it waits for its turn, and once only:   *)
(* nothing that was accepted is dropped, nothing taken is left behind to run   *)
(* again, and one task at most is being executed.                              *)
EachTaskOnce ==
  /\ \A i, j \in DOMAIN taskList : taskList[i] = taskList[j] => i = j
  /\ \A t \in Task :
       /\ fate[t] = "queued" <=> \E i \in DOMAIN taskList : taskList[i] = t
       /\ fate[t] = "executing" <=> current = t

(* Everything the scheduler handed over stands before everything else: a due   *)
(* timer never waits behind the backlog of the network.                        *)
TimersFirst ==
  \A i, j \in DOMAIN taskList :
    i < j /\ taskList[j] \in Timer => taskList[i] \in Timer

(* After stop() the task that terminates the dispatcher has nothing behind it: *)
(* terminating leaves no accepted task unexecuted.                             *)
ClosingIsLast ==
  threadState = "CLOSING" =>
    \A i \in DOMAIN taskList : taskList[i] = Closing => i = Len(taskList)

(* An accepted task is executed, or dropped because it expired, unless main    *)
(* terminated the dispatcher of a server that could not start.                 *)
AcceptedTaskHandled ==
  \A t \in Task :
    fate[t] = "queued" ~>
      \/ fate[t] \in {"executed", "expired"}
      \/ threadState = "TERMINATED"
=============================================================================
