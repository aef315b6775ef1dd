--------------------------- MODULE DatabaseTasks ----------------------------
(***************************************************************************)
(* The asynchronous queries of src/engine/src/databasetasks.{h,cpp}: a      *)
(* worker thread executes them in the order they were added, and flush()    *)
(* lets another thread (the dispatcher, in Game::saveGameState) execute the *)
(* backlog itself while the worker goes on.                                 *)
(*                                                                          *)
(* A critical section under taskLock is one step.  A query is executed when *)
(* the database has done it; the callback is posted to the dispatcher next. *)
(***************************************************************************)
EXTENDS Naturals, Sequences, Functions

CONSTANTS
  Query,             \* the DatabaseTasks ever created
  WithCallback,      \* those with a callback
  Thread,            \* the threads that call addTask, flush and shutdown
  DispatcherThread,
  Worker,            \* the thread that runs threadMain
  NoQuery

ASSUME DatabaseTasksAssumption ==
  /\ WithCallback \subseteq Query
  /\ DispatcherThread \in Thread
  /\ Worker \notin Thread
  /\ NoQuery \notin Query

VARIABLES
  threadState,  \* ThreadHolder::threadState
  tasks,        \* DatabaseTasks::tasks
  pc,           \* where threadMain is
  signalled,    \* taskSignal was notified since the worker went to wait
  call,         \* what each caller is in the middle of
  hand,         \* the query each thread has popped and not finished
  accepted,     \* history: the queries in the order they were added
  executed,     \* history: the queries in the order the database did them
  dropped,      \* history: the queries addTask ignored
  posted        \* history: the queries whose callback went to the dispatcher

vars == <<threadState, tasks, pc, signalled, call, hand, accepted, executed,
          dropped, posted>>

Runner == Thread \cup {Worker}
ThreadState == {"RUNNING", "CLOSING", "TERMINATED"}

Init ==
  /\ threadState = "RUNNING"
  /\ tasks = <<>>
  /\ pc = "check"
  /\ signalled = FALSE
  /\ call = [th \in Thread |-> "idle"]
  /\ hand = [r \in Runner |-> NoQuery]
  /\ accepted = <<>>
  /\ executed = <<>>
  /\ dropped = {}
  /\ posted = {}

NotifyOne_Missing == UNCHANGED signalled
NotifyOne == signalled' = (signalled \/ pc = "waiting")

(***************************************************************************)
(* addTask                                                                 *)
(***************************************************************************)
AcceptTask_SignalAfterPush(th, q) ==
  /\ threadState = "RUNNING"
  /\ tasks' = Append(tasks, q)
  /\ accepted' = Append(accepted, q)
  /\ call' = IF tasks' = <<>> THEN [call EXCEPT ![th] = "signal"] ELSE call
  /\ UNCHANGED dropped

AcceptTask_PushFront(th, q) ==
  /\ threadState = "RUNNING"
  /\ tasks' = <<q>> \o tasks
  /\ accepted' = Append(accepted, q)
  /\ call' = IF tasks = <<>> THEN [call EXCEPT ![th] = "signal"] ELSE call
  /\ UNCHANGED dropped

AcceptTask(th, q) ==
  /\ threadState = "RUNNING"
  /\ tasks' = Append(tasks, q)
  /\ accepted' = Append(accepted, q)
  /\ call' = IF tasks = <<>> THEN [call EXCEPT ![th] = "signal"] ELSE call
  /\ UNCHANGED dropped

DropTask(q) ==
  /\ threadState # "RUNNING"
  /\ dropped' = dropped \cup {q}
  /\ UNCHANGED <<tasks, accepted, call>>

AddTask(th, q) ==
  /\ call[th] = "idle"
  /\ q \notin Range(accepted) \cup dropped
  /\ AcceptTask(th, q) \/ DropTask(q)
  /\ UNCHANGED <<threadState, pc, signalled, hand, executed, posted>>

AddTaskSignal(th) ==
  /\ call[th] = "signal"
  /\ call' = [call EXCEPT ![th] = "idle"]
  /\ NotifyOne
  /\ UNCHANGED <<threadState, tasks, pc, hand, accepted, executed, dropped, posted>>

(***************************************************************************)
(* runTask, by the worker or by a thread that flushes                      *)
(***************************************************************************)
Pop_Kept(r) ==
  /\ tasks # <<>>
  /\ hand' = [hand EXCEPT ![r] = Head(tasks)]
  /\ UNCHANGED tasks

Pop(r) ==
  /\ tasks # <<>>
  /\ hand' = [hand EXCEPT ![r] = Head(tasks)]
  /\ tasks' = Tail(tasks)

Execute(r) ==
  /\ hand[r] \notin Range(executed) \cup {NoQuery}
  /\ executed' = Append(executed, hand[r])
  /\ UNCHANGED <<threadState, tasks, pc, signalled, call, hand, accepted, dropped, posted>>

Executed(r) == hand[r] \in Range(executed)

PostCallback(r) ==
  /\ posted' = IF hand[r] \in WithCallback THEN posted \cup {hand[r]} ELSE posted
  /\ hand' = [hand EXCEPT ![r] = NoQuery]

(***************************************************************************)
(* threadMain                                                              *)
(***************************************************************************)
CheckState ==
  /\ pc = "check"
  /\ pc' = IF threadState # "TERMINATED" THEN "lock" ELSE "exited"
  /\ UNCHANGED <<threadState, tasks, signalled, call, hand, accepted, executed,
                 dropped, posted>>

Wait ==
  /\ pc = "lock"
  /\ tasks = <<>>
  /\ pc' = "waiting"
  /\ signalled' = FALSE
  /\ UNCHANGED <<threadState, tasks, call, hand, accepted, executed, dropped, posted>>

Take ==
  /\ pc = "lock"
  /\ Pop(Worker)
  /\ pc' = "running"
  /\ UNCHANGED <<threadState, signalled, call, accepted, executed, dropped, posted>>

WakeUp ==
  /\ pc = "waiting"
  /\ signalled' = FALSE
  /\ \/ Pop(Worker) /\ pc' = "running"
     \/ tasks = <<>> /\ pc' = "check" /\ UNCHANGED <<tasks, hand>>
  /\ UNCHANGED <<threadState, call, accepted, executed, dropped, posted>>

WakeNotified == signalled /\ WakeUp
WakeSpurious == ~signalled /\ WakeUp

FinishTask ==
  /\ pc = "running"
  /\ Executed(Worker)
  /\ PostCallback(Worker)
  /\ pc' = "check"
  /\ UNCHANGED <<threadState, tasks, signalled, call, accepted, executed, dropped>>

WorkerMain ==
  \/ CheckState \/ Wait \/ Take \/ WakeNotified \/ FinishTask
  \/ Execute(Worker)

(***************************************************************************)
(* flush(), called alone or from shutdown(): both hold the lock whenever   *)
(* they look at the list, and release it to run a query.                   *)
(***************************************************************************)
Flush(th) ==
  /\ th = DispatcherThread
  /\ call[th] = "idle"
  /\ threadState # "TERMINATED"
  /\ call' = [call EXCEPT ![th] = "flush"]
  /\ UNCHANGED <<threadState, tasks, pc, signalled, hand, accepted, executed,
                 dropped, posted>>

Flushing(th) == call[th] \in {"flush", "drain"}

FlushTake(th) ==
  /\ Flushing(th)
  /\ hand[th] = NoQuery
  /\ Pop(th)
  /\ UNCHANGED <<threadState, pc, signalled, call, accepted, executed, dropped, posted>>

FlushTask(th) ==
  /\ Flushing(th)
  /\ Executed(th)
  /\ PostCallback(th)
  /\ UNCHANGED <<threadState, tasks, pc, signalled, call, accepted, executed, dropped>>

FlushReturn(th) ==
  /\ Flushing(th)
  /\ hand[th] = NoQuery
  /\ tasks = <<>>
  /\ call' = [call EXCEPT ![th] = IF call[th] = "drain" THEN "notify" ELSE "idle"]
  /\ UNCHANGED <<threadState, tasks, pc, signalled, hand, accepted, executed,
                 dropped, posted>>

(***************************************************************************)
(* stop() by Game::setGameState; shutdown() by Game::shutdown after it, or *)
(* by main when the server could not start.                                *)
(***************************************************************************)
Stop(th) ==
  /\ th = DispatcherThread
  /\ call[th] = "idle"
  /\ threadState = "RUNNING"
  /\ threadState' = "CLOSING"
  /\ UNCHANGED <<tasks, pc, signalled, call, hand, accepted, executed, dropped, posted>>

Shutdown_NoFlush(th) ==
  /\ call[th] = "idle"
  /\ threadState # "TERMINATED"
  /\ threadState = "CLOSING" <=> th = DispatcherThread
  /\ threadState' = "TERMINATED"
  /\ call' = [call EXCEPT ![th] = "notify"]
  /\ UNCHANGED <<tasks, pc, signalled, hand, accepted, executed, dropped, posted>>

Shutdown(th) ==
  /\ call[th] = "idle"
  /\ threadState # "TERMINATED"
  /\ threadState = "CLOSING" <=> th = DispatcherThread
  /\ threadState' = "TERMINATED"
  /\ call' = [call EXCEPT ![th] = "drain"]
  /\ UNCHANGED <<tasks, pc, signalled, hand, accepted, executed, dropped, posted>>

ShutdownNotify(th) ==
  /\ call[th] = "notify"
  /\ call' = [call EXCEPT ![th] = "idle"]
  /\ NotifyOne
  /\ UNCHANGED <<threadState, tasks, pc, hand, accepted, executed, dropped, posted>>

(* The steps a caller has begun and will finish. *)
Continue(th) ==
  \/ AddTaskSignal(th)
  \/ FlushTake(th) \/ Execute(th) \/ FlushTask(th) \/ FlushReturn(th)
  \/ ShutdownNotify(th)

Next ==
  \/ WorkerMain
  \/ WakeSpurious
  \/ \E th \in Thread : Continue(th) \/ Flush(th) \/ Stop(th) \/ Shutdown(th)
  \/ \E th \in Thread, q \in Query : AddTask(th, q)

Spec == Init /\ [][Next]_vars

(* Threads that can run are scheduled, and the database answers every query.  *)
Fairness ==
  /\ WF_vars(WorkerMain)
  /\ \A th \in Thread : WF_vars(Continue(th))

FairSpec == Spec /\ Fairness

-----------------------------------------------------------------------------
(* The variables have their types. *)
TypeOK ==
  /\ threadState \in ThreadState
  /\ tasks \in Seq(Query)
  /\ pc \in {"check", "lock", "waiting", "running", "exited"}
  /\ signalled \in BOOLEAN
  /\ call \in [Thread -> {"idle", "signal", "flush", "drain", "notify"}]
  /\ hand \in [Runner -> Query \cup {NoQuery}]
  /\ accepted \in Seq(Query)
  /\ executed \in Seq(Query)
  /\ dropped \subseteq Query
  /\ posted \subseteq WithCallback

(* The worker never sleeps on a backlog with nobody left to wake it, although  *)
(* addTask signals only an empty list and flush() empties it behind its back.  *)
NoLostWakeup ==
  pc = "waiting" /\ tasks # <<>> => signalled \/ \E th \in Thread : call[th] = "signal"

(* The worker and a flush share the backlog without executing a query twice or *)
(* losing one between them.                                                    *)
EachQueryOnce ==
  /\ TypeOK
  /\ \A i, j \in DOMAIN executed : executed[i] = executed[j] => i = j
  /\ \A r, s \in Runner : hand[r] = hand[s] /\ hand[r] # NoQuery => r = s
  /\ Range(accepted) =
       Range(tasks) \cup Range(executed) \cup (Range(hand) \ {NoQuery})

(* A query overtakes an older one only when a flush took it while the other    *)
(* was already in the hands of another thread; the backlog keeps its order.    *)
OnlyInHandIsOvertaken ==
  [][\A i, j \in DOMAIN accepted :
       (i < j /\ accepted[j] \in Range(executed') \ Range(executed)) =>
         accepted[i] \in Range(executed) \cup Range(hand)]_vars

(* When the worker has ended and the shutdown is over, the database has done   *)
(* every query that addTask accepted, and every callback went out.             *)
NothingLostAtShutdown ==
  (pc = "exited" /\ \A th \in Thread : ~Flushing(th)) =>
    /\ Range(accepted) = Range(executed)
    /\ posted = Range(executed) \cap WithCallback

(* Every query addTask accepted is executed, shutdown or not. *)
AcceptedIsExecuted ==
  \A q \in Query : q \in Range(accepted) ~> q \in Range(executed)
=============================================================================
