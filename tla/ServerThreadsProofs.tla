------------------------ MODULE ServerThreadsProofs -------------------------
(***************************************************************************)
(* Proofs about the composition of the threads: it uses each of its three   *)
(* components as the component's own specification allows, so that their    *)
(* theorems hold of the server; a shutdown leaves nothing behind; and the   *)
(* caller of addEvent finds its event alive when it reads the event's id.   *)
(***************************************************************************)
EXTENDS ServerThreads, SequenceTheorems, TLAPS

(***************************************************************************)
(* The components and what was proved of each of them alone                *)
(***************************************************************************)
DP == INSTANCE DispatcherProofs WITH
        Task <- Work \cup Signal \cup {GameShutdown, Closing},
        Timer <- Event, Expiring <- {},
        Thread <- {"main", "dispatcher", "scheduler", "worker"},
        DispatcherThread <- "dispatcher", SchedulerThread <- "scheduler",
        threadState <- dState, pc <- dPc, signalled <- dSignalled, fate <- dFate

SP == INSTANCE SchedulerProofs WITH
        Thread <- {"dispatcher"}, DispatcherThread <- "dispatcher", NoEvent <- NoTask,
        threadState <- sState, pc <- sPc, signalled <- sSignalled, call <- sCall,
        fate <- sFate

BP == INSTANCE DatabaseTasksProofs WITH
        WithCallback <- Query,
        Thread <- {"dispatcher"}, DispatcherThread <- "dispatcher", Worker <- "worker",
        threadState <- bState, pc <- bPc, signalled <- bSignalled, call <- bCall

(***************************************************************************)
(* The components' steps                                                   *)
(***************************************************************************)
LEMMA SchedulerStep == [Next]_vars => [S!Next]_(S!vars)
<1> SUFFICES ASSUME [Next]_vars
             PROVE  S!Next \/ UNCHANGED sVars
  BY DEF S!vars, sVars
<1>1. CASE DispatcherThread
  <2>1. CASE WorkStep
    BY <2>1 DEF WorkStep, OnlyS, OnlyB, OnlyG, S!Next
  <2>2. CASE SetGameState
    BY <2>2 DEF SetGameState, EnterShutdown, SaveGameState, PostGameShutdown, StopScheduler,
                StopDatabase, StopDispatcher, OnlyD, OnlyB, OnlyG, S!Next
  <2>3. CASE ShutDown
    BY <2>3 DEF ShutDown, LastSave, ShutdownScheduler, ShutdownDatabase, ShutdownDispatcher,
                StopServices, OnlyD, OnlyB, OnlyG, S!Next
  <2>4. CASE Return
    BY <2>4 DEF Return, OnlyD
  <2>5. CASE S!Continue("dispatcher")
    BY <2>5 DEF S!Next
  <2> QED
    BY <1>1, <2>1, <2>2, <2>3, <2>4, <2>5 DEF DispatcherThread, OnlyD, OnlyB
<1>2. CASE SchedulerThread
  BY <1>2 DEF SchedulerThread, S!Next, S!ThreadMain
<1>3. CASE WorkerThread \/ MainThread \/ \E t \in Request \cup Signal : Post(t)
  BY <1>3 DEF WorkerThread, MainThread, Join, Post, OnlyD, OnlyG
<1>4. CASE Spurious
  BY <1>4 DEF Spurious, OnlyD, OnlyS, OnlyB, S!Next
<1>5. CASE S!Tick
  BY <1>5 DEF S!Next
<1>6. CASE UNCHANGED vars
  BY <1>6 DEF vars
<1> QED
  BY <1>1, <1>2, <1>3, <1>4, <1>5, <1>6 DEF Next

LEMMA DatabaseStep == [Next]_vars => [B!Next]_(B!vars)
<1> SUFFICES ASSUME [Next]_vars
             PROVE  B!Next \/ UNCHANGED bVars
  BY DEF B!vars, bVars
<1>1. CASE DispatcherThread
  <2>1. CASE WorkStep
    BY <2>1 DEF WorkStep, OnlyS, OnlyB, OnlyG, B!Next
  <2>2. CASE SetGameState
    BY <2>2 DEF SetGameState, EnterShutdown, SaveGameState, PostGameShutdown, StopScheduler,
                StopDatabase, StopDispatcher, OnlyD, OnlyS, OnlyG, B!Next
  <2>3. CASE ShutDown
    BY <2>3 DEF ShutDown, LastSave, ShutdownScheduler, ShutdownDatabase, ShutdownDispatcher,
                StopServices, OnlyD, OnlyS, OnlyG, B!Next
  <2>4. CASE Return
    BY <2>4 DEF Return, OnlyD
  <2>5. CASE \/ B!AddTaskSignal("dispatcher") \/ B!FlushTake("dispatcher")
             \/ B!Execute("dispatcher") \/ B!FlushReturn("dispatcher")
             \/ B!ShutdownNotify("dispatcher") \/ B!FlushTask("dispatcher")
    BY <2>5 DEF B!Next, B!Continue
  <2> QED
    BY <1>1, <2>1, <2>2, <2>3, <2>4, <2>5 DEF DispatcherThread, OnlyD, OnlyS
<1>2. CASE WorkerThread
  BY <1>2 DEF WorkerThread, B!Next, B!WorkerMain
<1>3. CASE SchedulerThread \/ MainThread \/ \E t \in Request \cup Signal : Post(t)
  BY <1>3 DEF SchedulerThread, MainThread, Join, Post, OnlyD, OnlyG
<1>4. CASE Spurious
  BY <1>4 DEF Spurious, OnlyD, OnlyS, OnlyB, B!Next
<1>5. CASE S!Tick /\ OnlyS
  BY <1>5 DEF OnlyS
<1>6. CASE UNCHANGED vars
  BY <1>6 DEF vars
<1> QED
  BY <1>1, <1>2, <1>3, <1>4, <1>5, <1>6 DEF Next

LEMMA SameDispatcher == [D!Next]_(D!vars) => [DP!Next]_(DP!vars)
BY DEF D!vars, DP!vars, D!CanCall, DP!CanCall, D!NotifyOne, DP!NotifyOne, D!Push, DP!Push,
       D!AcceptTask, DP!AcceptTask, D!RefuseTask, DP!RefuseTask, D!AddTask, DP!AddTask,
       D!Notify, DP!Notify, D!CheckState, DP!CheckState, D!Wait, DP!Wait,
       D!Execute, DP!Execute, D!Expire, DP!Expire, D!TakeFirst, DP!TakeFirst,
       D!Take, DP!Take, D!NothingToTake, DP!NothingToTake, D!WakeUp, DP!WakeUp,
       D!WakeNotified, DP!WakeNotified, D!WakeSpurious, DP!WakeSpurious,
       D!Finish, DP!Finish, D!Stop, DP!Stop, D!Shutdown, DP!Shutdown,
       D!ThreadMain, DP!ThreadMain, D!Next, DP!Next

LEMMA SameScheduler == [S!Next]_(S!vars) => [SP!Next]_(SP!vars)
BY DEF S!vars, SP!vars, S!queueVars, SP!queueVars, S!threadVars, SP!threadVars,
       S!callVars, SP!callVars, S!Top, SP!Top, S!NotifyOne, SP!NotifyOne, S!Tick, SP!Tick,
       S!NextEventId, SP!NextEventId, S!AcceptEvent, SP!AcceptEvent,
       S!RefuseEvent, SP!RefuseEvent, S!AddEvent, SP!AddEvent,
       S!AddEventSignal, SP!AddEventSignal, S!AddEventReturn, SP!AddEventReturn,
       S!StopEvent, SP!StopEvent, S!Stop, SP!Stop, S!Shutdown, SP!Shutdown,
       S!ShutdownClear, SP!ShutdownClear, S!ShutdownNotify, SP!ShutdownNotify,
       S!CheckState, SP!CheckState, S!Wait, SP!Wait, S!DeadlinePassed, SP!DeadlinePassed,
       S!TakeTop, SP!TakeTop, S!NothingToTake, SP!NothingToTake, S!Timeout, SP!Timeout,
       S!WakeUp, SP!WakeUp, S!WakeNotified, SP!WakeNotified,
       S!WakeSpurious, SP!WakeSpurious, S!HandOver, SP!HandOver,
       S!ThreadMain, SP!ThreadMain, S!Continue, SP!Continue, S!Next, SP!Next

LEMMA SameDatabase == [B!Next]_(B!vars) => [BP!Next]_(BP!vars)
BY DEF B!vars, BP!vars, B!Runner, BP!Runner, B!Range, BP!Range, B!NotifyOne, BP!NotifyOne,
       B!AcceptTask, BP!AcceptTask, B!DropTask, BP!DropTask, B!AddTask, BP!AddTask,
       B!AddTaskSignal, BP!AddTaskSignal, B!Pop, BP!Pop, B!Execute, BP!Execute,
       B!Executed, BP!Executed, B!PostCallback, BP!PostCallback,
       B!CheckState, BP!CheckState, B!Wait, BP!Wait, B!Take, BP!Take, B!WakeUp, BP!WakeUp,
       B!WakeNotified, BP!WakeNotified, B!WakeSpurious, BP!WakeSpurious,
       B!FinishTask, BP!FinishTask, B!WorkerMain, BP!WorkerMain, B!Flush, BP!Flush,
       B!Flushing, BP!Flushing, B!FlushTake, BP!FlushTake, B!FlushTask, BP!FlushTask,
       B!FlushReturn, BP!FlushReturn, B!Stop, BP!Stop, B!Shutdown, BP!Shutdown,
       B!ShutdownNotify, BP!ShutdownNotify, B!Continue, BP!Continue, B!Next, BP!Next

LEMMA InitComponents == Init => D!Init /\ S!Init /\ B!Init
BY DEF Init

(* The worker of the server and the dispatcher's flushes share the backlog     *)
(* without losing a query or executing one twice.                              *)
THEOREM ServerDatabaseIsSound == Spec => [](B!NoLostWakeup /\ B!EachQueryOnce)
<1>1. BP!DatabaseTasksAssumption
  BY ComponentsAssumption DEF B!DatabaseTasksAssumption, BP!DatabaseTasksAssumption
<1>2. BP!Spec => [](BP!NoLostWakeup /\ BP!EachQueryOnce)
  BY <1>1, BP!NoWakeupIsLost, BP!QueriesAreKept, PTL
<1>3. B!Init => BP!Init
  BY DEF B!Init, BP!Init, B!Runner, BP!Runner
<1>4. /\ BP!NoLostWakeup => B!NoLostWakeup
      /\ BP!EachQueryOnce => B!EachQueryOnce
  BY DEF BP!NoLostWakeup, B!NoLostWakeup, BP!EachQueryOnce, B!EachQueryOnce,
         BP!TypeOK, B!TypeOK, BP!ThreadState, B!ThreadState, BP!Runner, B!Runner,
         BP!Range, B!Range
<1> QED
  BY <1>2, <1>3, <1>4, SameDatabase, DatabaseStep, InitComponents, PTL DEF Spec, BP!Spec

LEMMA CallbackIsATask ==
  ASSUME B!TypeOK, NEW r \in {"dispatcher", "worker"}, B!Executed(r)
  PROVE  CallbackOf[hand[r]] \in Callback
<1>1. hand[r] \in Query
  BY DEF B!TypeOK, B!Executed, B!Range
<1> QED
  BY <1>1, ServerThreadsAssumption

DTask == Work \cup Signal \cup {GameShutdown, Closing}
DThread == {"main", "dispatcher", "scheduler", "worker"}

(* The dispatcher's own loop, and the notifications of those who called it. *)
Loop ==
  \/ D!CheckState \/ D!Wait \/ D!Take \/ D!WakeUp
  \/ \E th \in DThread : D!Notify(th)

(* A task enters the dispatcher's list; an event only from the scheduler's hand. *)
Entry ==
  \E th \in DThread, t \in DTask :
    D!AddTask(th, t) /\ (t \in Event => S!HandOver /\ inHand = t)

(* What a step of the server is for the dispatcher. *)
LEMMA DispatcherMoves ==
  ASSUME B!TypeOK, [Next]_vars
  PROVE  \/ UNCHANGED dVars
         \/ Loop /\ UNCHANGED <<sVars, bVars, gVars>>
         \/ Entry
         \/ StopDispatcher \/ ShutdownDispatcher \/ Return
<1> USE DEF DTask, DThread
<1>1. ASSUME NEW th \in DThread \ {"scheduler"}, NEW t \in DTask, D!AddTask(th, t)
      PROVE  Entry
  BY <1>1 DEF Entry, D!AddTask
<1>2. CASE DispatcherThread
  <2>1. CASE WorkStep
    BY <2>1 DEF WorkStep, OnlyS, OnlyB, OnlyG
  <2>2. CASE SetGameState
    <3>1. CASE PostGameShutdown
      BY <3>1, <1>1 DEF PostGameShutdown
    <3> QED
      BY <2>2, <3>1 DEF SetGameState, EnterShutdown, SaveGameState, StopScheduler,
                        StopDatabase, OnlyS, OnlyB, OnlyG
  <2>3. CASE ShutDown
    BY <2>3 DEF ShutDown, LastSave, ShutdownScheduler, ShutdownDatabase, StopServices,
                OnlyS, OnlyB, OnlyG
  <2>4. CASE \/ S!Continue("dispatcher") /\ OnlyS
             \/ /\ \/ B!AddTaskSignal("dispatcher") \/ B!FlushTake("dispatcher")
                   \/ B!Execute("dispatcher") \/ B!FlushReturn("dispatcher")
                   \/ B!ShutdownNotify("dispatcher")
                /\ OnlyB
    BY <2>4 DEF OnlyS, OnlyB
  <2>5. CASE D!AddTask("dispatcher", CallbackOf[hand["dispatcher"]])
             /\ B!FlushTask("dispatcher")
    <3>1. CallbackOf[hand["dispatcher"]] \in DTask
      BY <2>5, CallbackIsATask DEF B!FlushTask, Work
    <3> QED
      BY <2>5, <3>1, <1>1
  <2>6. CASE /\ \/ D!CheckState \/ D!Wait \/ D!Take \/ D!WakeNotified
                \/ D!Notify("dispatcher")
             /\ OnlyD /\ UNCHANGED gVars
    BY <2>6 DEF Loop, OnlyD, D!WakeNotified
  <2> QED
    BY <1>2, <2>1, <2>2, <2>3, <2>4, <2>5, <2>6 DEF DispatcherThread
<1>3. CASE SchedulerThread
  <2>1. CASE S!HandOver /\ D!AddTask("scheduler", inHand)
    <3>1. inHand \in Event
      BY <2>1 DEF D!AddTask
    <3> QED
      BY <2>1, <3>1 DEF Entry, Work
  <2>2. CASE D!Notify("scheduler") /\ UNCHANGED sVars
    BY <1>3, <2>2 DEF SchedulerThread, Loop
  <2> QED
    BY <1>3, <2>1, <2>2 DEF SchedulerThread
<1>4. CASE WorkerThread
  <2>1. CASE D!AddTask("worker", CallbackOf[hand["worker"]]) /\ B!FinishTask
    <3>1. CallbackOf[hand["worker"]] \in DTask
      BY <2>1, CallbackIsATask DEF B!FinishTask, Work
    <3> QED
      BY <2>1, <3>1, <1>1
  <2>2. CASE D!Notify("worker") /\ UNCHANGED bVars
    BY <1>4, <2>2 DEF WorkerThread, Loop
  <2> QED
    BY <1>4, <2>1, <2>2 DEF WorkerThread
<1>5. CASE MainThread
  BY <1>5 DEF MainThread, Join, OnlyD, OnlyG, Loop
<1>6. ASSUME NEW t \in Request \cup Signal, Post(t)
      PROVE  Entry
  BY <1>6, <1>1 DEF Post, Work
<1>7. CASE Spurious
  BY <1>7 DEF Spurious, OnlyD, OnlyS, OnlyB, Loop, D!WakeSpurious
<1>8. CASE S!Tick /\ OnlyS
  BY <1>8 DEF OnlyS
<1>9. CASE UNCHANGED vars
  BY <1>9 DEF vars
<1> QED
  BY <1>2, <1>3, <1>4, <1>5, <1>6, <1>7, <1>8, <1>9 DEF Next

LEMMA DispatcherStep == B!TypeOK /\ [Next]_vars => [D!Next]_(D!vars)
<1> SUFFICES ASSUME B!TypeOK, [Next]_vars
             PROVE  D!Next \/ UNCHANGED dVars
  BY DEF D!vars, dVars
<1>1. CASE Loop
  BY <1>1 DEF Loop, DThread, D!Next, D!ThreadMain, D!WakeNotified, D!WakeSpurious
<1>2. CASE Entry
  BY <1>2 DEF Entry, DTask, DThread, D!Next
<1>3. CASE StopDispatcher \/ ShutdownDispatcher
  BY <1>3 DEF StopDispatcher, ShutdownDispatcher, D!Next
<1>4. CASE Return
  BY <1>4 DEF Return, D!Next, D!ThreadMain
<1> QED
  BY <1>1, <1>2, <1>3, <1>4, DispatcherMoves

(* The server uses its threads as their own specifications allow: every        *)
(* behaviour of the composition is one of the dispatcher, of the scheduler and *)
(* of the database worker, whose theorems therefore hold of the server.        *)
THEOREM ThreadsAreUsedAsSpecified == Spec => D!Spec /\ S!Spec /\ B!Spec
<1>1. B!EachQueryOnce => B!TypeOK
  BY DEF B!EachQueryOnce
<1> QED
  BY <1>1, InitComponents, ServerDatabaseIsSound, DispatcherStep, SchedulerStep, DatabaseStep, PTL
     DEF Spec, D!Spec, S!Spec, B!Spec

(***************************************************************************)
(* The components' theorems, in the server                                 *)
(***************************************************************************)
(* The dispatcher of the server keeps its list as the dispatcher alone does.   *)
THEOREM ServerDispatcherIsSound ==
  Spec => [](D!TypeOK /\ D!NoLostWakeup /\ D!EachTaskOnce /\ D!ClosingIsLast)
<1>1. DP!DispatcherAssumption
  BY ComponentsAssumption DEF D!DispatcherAssumption, DP!DispatcherAssumption
<1>2. DP!Spec => [](DP!TypeOK /\ DP!NoLostWakeup /\ DP!EachTaskOnce /\ DP!ClosingIsLast)
  BY <1>1, DP!TypeCorrect, DP!NoWakeupIsLost, DP!TasksAreKept, DP!ClosingStaysLast, PTL
<1>3. D!Init => DP!Init
  BY DEF D!Init, DP!Init
<1>4. /\ DP!TypeOK => D!TypeOK
      /\ DP!NoLostWakeup => D!NoLostWakeup
      /\ DP!EachTaskOnce => D!EachTaskOnce
      /\ DP!ClosingIsLast => D!ClosingIsLast
  BY DEF DP!TypeOK, D!TypeOK, DP!ThreadState, D!ThreadState, DP!Fate, D!Fate,
         DP!NoLostWakeup, D!NoLostWakeup, DP!EachTaskOnce, D!EachTaskOnce,
         DP!ClosingIsLast, D!ClosingIsLast
<1> QED
  BY <1>2, <1>3, <1>4, SameDispatcher, ThreadsAreUsedAsSpecified, PTL DEF D!Spec, DP!Spec

(* The scheduler of the server never oversleeps, hands nothing over early and, *)
(* while the ids in use differ, throws nothing away that was not stopped.      *)
THEOREM ServerSchedulerIsSound ==
  /\ Spec => [](S!TypeOK /\ S!NeverOversleeps /\ S!NeverEarly)
  /\ Spec /\ []S!IdsDistinct => [](S!StoppedNeverFires /\ S!OnlyStoppedAreDeleted)
<1>1. SP!SchedulerAssumption
  BY ComponentsAssumption DEF S!SchedulerAssumption, SP!SchedulerAssumption
<1>2. SP!Spec => [](SP!TypeOK /\ SP!NeverOversleeps /\ SP!NeverEarly)
  BY <1>1, SP!TypeCorrect, SP!ThreadNeverOversleeps, SP!EventsAreNeverEarly, PTL
<1>3. SP!Spec /\ []SP!IdsDistinct
        => [](SP!StoppedNeverFires /\ SP!OnlyStoppedAreDeleted /\ SP!ActiveIdsAreQueued)
  BY <1>1, SP!StoppingIsExact
<1>4. S!Init => SP!Init
  BY DEF S!Init, SP!Init
<1>5. S!IdsDistinct => SP!IdsDistinct
  BY DEF S!IdsDistinct, SP!IdsDistinct
<1>6. /\ SP!TypeOK => S!TypeOK
      /\ SP!NeverOversleeps => S!NeverOversleeps
      /\ SP!NeverEarly => S!NeverEarly
      /\ SP!StoppedNeverFires => S!StoppedNeverFires
      /\ SP!OnlyStoppedAreDeleted => S!OnlyStoppedAreDeleted
  BY DEF SP!TypeOK, S!TypeOK, SP!ThreadState, S!ThreadState, SP!Fate, S!Fate,
         SP!NeverOversleeps, S!NeverOversleeps, SP!NeverEarly, S!NeverEarly,
         SP!StoppedNeverFires, S!StoppedNeverFires,
         SP!OnlyStoppedAreDeleted, S!OnlyStoppedAreDeleted
<1> QED
  BY <1>2, <1>3, <1>4, <1>5, <1>6, SameScheduler, ThreadsAreUsedAsSpecified, PTL
     DEF S!Spec, SP!Spec

(***************************************************************************)
(* The scheduler's events                                                  *)
(***************************************************************************)
InAddEvent == sCall["dispatcher"] \in {"signal", "return"}
Armed == arming["dispatcher"]

(* An event without a fate has no id and was not stopped; one in the list is   *)
(* pending, the one in hand taken; the event an addEvent is about was accepted *)
(* and not stopped; and a shutdown empties the list.                           *)
Events ==
  /\ \A e \in Event : sFate[e] = "new" => eventId[e] = 0 /\ e \notin stopped
  /\ \A e \in eventList : sFate[e] = "pending"
  /\ \A e \in Event : inHand = e => sFate[e] = "taken"
  /\ InAddEvent => /\ Armed \in Event \ stopped
                   /\ sFate[Armed] \in {"pending", "taken", "handed", "deleted"}
  /\ sState = "TERMINATED" => sCall["dispatcher"] = "clear" \/ eventList = {}

LEMMA InitEvents == Init => Events
BY ComponentsAssumption DEF Init, S!Init, Events, InAddEvent, S!SchedulerAssumption

(* What one step of the scheduler can do to its events and its state. *)
LEMMA EventsStep ==
  ASSUME S!TypeOK, Events, [S!Next]_(S!vars)
  PROVE  /\ Events'
         /\ \A e \in Event : sFate[e] = "handed" => sFate'[e] = "handed"
         /\ sState' = "RUNNING" => sState = "RUNNING"
         /\ sState = "TERMINATED" => sState' = "TERMINATED"
         /\ sState = "TERMINATED" /\ eventList = {} => eventList' = {}
<1> USE DEF InAddEvent, Armed
<1>1. CASE S!Tick \/ S!CheckState \/ S!Wait \/ S!WakeUp \/ UNCHANGED S!vars
  BY <1>1 DEF S!Tick, S!CheckState, S!Wait, S!WakeUp, S!vars, S!queueVars, S!threadVars,
              S!callVars, Events
<1>2. CASE S!Timeout
  BY <1>2 DEF S!Timeout, S!TakeTop, S!NothingToTake, S!Top, S!callVars, S!TypeOK, Events
<1>3. CASE S!HandOver
  BY <1>3, ComponentsAssumption
     DEF S!SchedulerAssumption, S!HandOver, S!queueVars, S!callVars, S!TypeOK, Events
<1>4. CASE S!AddEventSignal("dispatcher") \/ S!AddEventReturn("dispatcher")
  BY <1>4 DEF S!AddEventSignal, S!AddEventReturn, S!queueVars, S!threadVars, S!TypeOK, Events
<1>5. CASE S!ShutdownClear("dispatcher") \/ S!ShutdownNotify("dispatcher")
  BY <1>5 DEF S!ShutdownClear, S!ShutdownNotify, S!queueVars, S!threadVars, S!TypeOK, Events
<1>6. CASE S!Stop("dispatcher") \/ S!Shutdown("dispatcher")
  BY <1>6 DEF S!Stop, S!Shutdown, S!queueVars, S!threadVars, S!callVars, S!TypeOK, Events
<1>7. ASSUME NEW e \in Event, S!StopEvent("dispatcher", e)
      PROVE  /\ Events'
             /\ UNCHANGED <<sFate, sState, eventList>>
  BY <1>7 DEF S!StopEvent, S!callVars, S!threadVars, S!TypeOK, Events
<1>8. ASSUME NEW e \in Event, NEW d \in Delay, S!AddEvent("dispatcher", e, d)
      PROVE  /\ Events'
             /\ UNCHANGED sState
             /\ \A f \in Event : sFate[f] = "handed" => sFate'[f] = "handed"
             /\ sState = "TERMINATED" => UNCHANGED eventList
  <2>1. sFate[e] = "new" /\ e # inHand /\ e \notin eventList /\ e \notin stopped
    BY <1>8 DEF S!AddEvent, Events
  <2>2. CASE S!AcceptEvent("dispatcher", e, d)
    <3>1. /\ sFate' = [sFate EXCEPT ![e] = "pending"]
          /\ eventList' = eventList \cup {e}
          /\ sState = "RUNNING"
          /\ UNCHANGED <<sState, inHand, stopped>>
          /\ \A f \in Event : f # e => eventId'[f] = eventId[f]
      BY <1>8, <2>2 DEF S!AddEvent, S!AcceptEvent, S!threadVars, S!TypeOK
    <3>2. Armed' = e
      BY <2>2 DEF S!AcceptEvent, S!TypeOK
    <3> QED
      BY <2>1, <3>1, <3>2 DEF S!TypeOK, Events
  <2>3. CASE S!RefuseEvent(e)
    <3>1. /\ sFate' = [sFate EXCEPT ![e] = "refused"]
          /\ UNCHANGED <<sState, eventList, eventId, inHand, stopped, sCall, arming>>
      BY <1>8, <2>3 DEF S!AddEvent, S!RefuseEvent, S!queueVars, S!callVars, S!threadVars
    <3> QED
      BY <2>1, <3>1 DEF S!TypeOK, Events
  <2> QED
    BY <1>8, <2>2, <2>3 DEF S!AddEvent
<1> QED
  BY <1>1, <1>2, <1>3, <1>4, <1>5, <1>6, <1>7, <1>8
     DEF S!Next, S!ThreadMain, S!WakeNotified, S!WakeSpurious, S!Continue

(* When the worker's shutdown has drained the list, it stays empty. *)
Drained == tasks = <<>> /\ hand["dispatcher"] = NoQuery
Backlog == bState = "TERMINATED" => bCall["dispatcher"] = "drain" \/ Drained

LEMMA BacklogStep ==
  ASSUME B!TypeOK, Backlog, [B!Next]_(B!vars)
  PROVE  /\ Backlog'
         /\ bState = "TERMINATED" => bState' = "TERMINATED"
         /\ bState = "TERMINATED" /\ Drained => Drained'
<1> USE DEF Drained
<1>1. CASE B!CheckState \/ B!Wait \/ UNCHANGED B!vars
  BY <1>1 DEF B!CheckState, B!Wait, B!vars, Backlog
<1>2. CASE B!Take \/ B!WakeUp
  BY <1>2 DEF B!Take, B!WakeUp, B!Pop, B!TypeOK, B!Runner, Backlog
<1>3. CASE B!FinishTask \/ B!Execute("worker") \/ B!Execute("dispatcher")
  BY <1>3 DEF B!FinishTask, B!PostCallback, B!Execute, B!TypeOK, B!Runner, Backlog
<1>4. CASE B!FlushTake("dispatcher") \/ B!FlushTask("dispatcher") \/ B!FlushReturn("dispatcher")
  BY <1>4 DEF B!FlushTake, B!FlushTask, B!FlushReturn, B!Flushing, B!Pop, B!PostCallback,
              B!TypeOK, B!Runner, Backlog
<1>5. CASE B!AddTaskSignal("dispatcher") \/ B!ShutdownNotify("dispatcher")
  BY <1>5 DEF B!AddTaskSignal, B!ShutdownNotify, B!TypeOK, Backlog
<1>6. CASE B!Flush("dispatcher") \/ B!Stop("dispatcher") \/ B!Shutdown("dispatcher")
  BY <1>6 DEF B!Flush, B!Stop, B!Shutdown, B!TypeOK, Backlog
<1>7. ASSUME NEW q \in Query, B!AddTask("dispatcher", q)
      PROVE  /\ Backlog'
             /\ UNCHANGED bState
             /\ bState = "TERMINATED" => UNCHANGED <<tasks, hand>>
  BY <1>7 DEF B!AddTask, B!AcceptTask, B!DropTask, B!TypeOK, Backlog
<1> QED
  BY <1>1, <1>2, <1>3, <1>4, <1>5, <1>6, <1>7
     DEF B!Next, B!WorkerMain, B!WakeNotified, B!WakeSpurious, B!Continue

(***************************************************************************)
(* The order of the shutdown                                               *)
(***************************************************************************)
(* How far the shutdown is, by the step of the task that performs it and by    *)
(* what became of the task that ends the dispatcher.                           *)
Order ==
  /\ sState = "RUNNING" => dState = "RUNNING"
  /\ step \in {"stop2", "stop3"} => sState # "RUNNING"
  /\ step \in {"database", "dispatch", "services"} => sState = "TERMINATED"
  /\ step \in {"dispatch", "services"} => bState = "TERMINATED"

Ending ==
  /\ dFate[Closing] # "new" =>
       /\ dState # "RUNNING"
       /\ sState = "TERMINATED" /\ eventList = {}
       /\ bState = "TERMINATED" /\ Drained
  /\ dFate[Closing] \in {"executing", "executed"} => taskList = <<>>
  /\ dState = "TERMINATED" => dFate[Closing] = "executed"
  /\ dPc = "exited" => dState = "TERMINATED"

(* The event that an addEvent in progress is about has not been executed: it   *)
(* is the dispatcher itself that is in the call.                               *)
Handed ==
  /\ \A e \in Event : dFate[e] # "new" => sFate[e] = "handed"
  /\ InAddEvent => /\ dFate[Armed] \in {"new", "queued"}
                   /\ dPc = "executing"
                   /\ dState = "RUNNING"

(* What the components' theorems give. *)
Sound ==
  /\ D!TypeOK /\ D!EachTaskOnce /\ D!ClosingIsLast
  /\ S!TypeOK
  /\ B!TypeOK

Facts == Sound /\ Events /\ Backlog /\ Order /\ Ending /\ Handed

LEMMA StepOrder ==
  ASSUME Facts, [Next]_vars
  PROVE  /\ step' \in {"stop2", "stop3"} => sState' # "RUNNING"
         /\ step' \in {"database", "dispatch", "services"} => sState' = "TERMINATED"
         /\ step' \in {"dispatch", "services"} => bState' = "TERMINATED"
<1>1. /\ sState' = "RUNNING" => sState = "RUNNING"
      /\ sState = "TERMINATED" => sState' = "TERMINATED"
      /\ bState = "TERMINATED" => bState' = "TERMINATED"
  BY SchedulerStep, DatabaseStep, EventsStep, BacklogStep DEF Facts, Sound
<1>2. CASE UNCHANGED step
  BY <1>1, <1>2 DEF Facts, Order
<1>3. CASE step' \in {"enter", "save", "post", "stop1", "return", "sched"}
  BY <1>3
<1>4. CASE StopScheduler
  BY <1>4 DEF StopScheduler, Goto, S!Stop
<1>5. CASE StopDatabase
  BY <1>5 DEF StopDatabase, Goto, OnlyB, sVars, At, Facts, Order
<1>6. CASE ShutdownScheduler
  BY <1>6 DEF ShutdownScheduler, Goto, S!Shutdown
<1>7. CASE ShutdownDatabase
  BY <1>1, <1>7 DEF ShutdownDatabase, Goto, B!Shutdown, InShutdown, At, Facts, Order
<1>8. CASE ShutdownDispatcher
  BY <1>1, <1>8 DEF ShutdownDispatcher, Goto, InShutdown, At, Facts, Order
<1>9. \/ UNCHANGED step \/ step' \in {"enter", "save", "post", "stop1", "return", "sched"}
      \/ StopScheduler \/ StopDatabase
      \/ ShutdownScheduler \/ ShutdownDatabase \/ ShutdownDispatcher
  <2>1. CASE WorkStep \/ Return
    BY <2>1 DEF WorkStep, Return, Goto
  <2>2. CASE SetGameState
    BY <2>2 DEF SetGameState, EnterShutdown, SaveGameState, PostGameShutdown, StopDispatcher, Goto
  <2>3. CASE ShutDown
    BY <2>3 DEF ShutDown, LastSave, StopServices, Goto
  <2>4. CASE UNCHANGED step
    BY <2>4
  <2> QED
    BY <2>1, <2>2, <2>3, <2>4
       DEF Next, DispatcherThread, SchedulerThread, WorkerThread, MainThread, Join, Post,
           Spurious, gVars, vars
<1> QED
  BY <1>2, <1>3, <1>4, <1>5, <1>6, <1>7, <1>8, <1>9

LEMMA FirstOrder ==
  ASSUME Facts, [Next]_vars, sState' = "RUNNING"
  PROVE  dState' = "RUNNING"
<1>1. sState = "RUNNING" /\ dState = "RUNNING"
  BY SchedulerStep, EventsStep DEF Facts, Sound, Order
<1>2. CASE UNCHANGED dVars
  BY <1>1, <1>2 DEF dVars
<1>3. CASE Loop
  BY <1>1, <1>3 DEF Loop, D!CheckState, D!Wait, D!Take, D!WakeUp, D!TakeFirst,
                    D!NothingToTake, D!Notify
<1>4. CASE Entry
  BY <1>1, <1>4 DEF Entry, D!AddTask
<1>5. CASE StopDispatcher
  BY <1>1, <1>5 DEF StopDispatcher, At, Facts, Order
<1>6. CASE ShutdownDispatcher
  BY <1>1, <1>6 DEF ShutdownDispatcher, D!Shutdown
<1>7. CASE Return
  <2>1. current # Closing
    <3>1. current = Closing => dFate[Closing] = "executing"
      BY <1>7 DEF Return, D!Finish, D!EachTaskOnce, Facts, Sound
    <3> QED
      BY <1>1, <3>1 DEF Facts, Ending
  <2> QED
    BY <1>1, <1>7, <2>1 DEF Return, D!Finish
<1> QED
  BY <1>2, <1>3, <1>4, <1>5, <1>6, <1>7, DispatcherMoves DEF Facts, Sound

(* Nothing follows the task that ends the dispatcher out of the list. *)
LEMMA TakenLast ==
  ASSUME Facts, D!TakeFirst
  PROVE  /\ dState # "TERMINATED"
         /\ dFate'[Closing] \in {"executing", "executed"} => taskList' = <<>>
         /\ dFate'[Closing] # "new" => dFate[Closing] # "new"
         /\ UNCHANGED dState
<1>1. /\ taskList \in Seq(DTask) /\ taskList # <<>>
      /\ taskList' = Tail(taskList)
      /\ UNCHANGED dState
      /\ dFate \in [DTask -> D!Fate]
  BY DEF D!TakeFirst, D!TypeOK, DTask, Facts, Sound
<1>2. dFate[Closing] \notin {"executing", "executed"}
  BY <1>1 DEF Facts, Ending
<1>3. /\ Head(taskList) \in DTask
      /\ dFate' = [dFate EXCEPT ![Head(taskList)] = "executing"]
  BY <1>1, HeadTailProperties DEF D!TakeFirst, D!Execute, D!Expire
<1>4. Head(taskList) = taskList[1] /\ 1 \in DOMAIN taskList /\ DOMAIN taskList = 1 .. Len(taskList)
      /\ Len(taskList) \in Nat
  BY <1>1, HeadTailProperties, EmptySeq, LenProperties
<1>5. dFate[Head(taskList)] = "queued"
  BY <1>3, <1>4 DEF D!EachTaskOnce, DTask, Facts, Sound
<1>6. dState # "TERMINATED"
  BY <1>2 DEF Facts, Ending
<1>7. CASE Head(taskList) = Closing
  <2>1. dState = "CLOSING"
    BY <1>5, <1>6, <1>7 DEF D!TypeOK, D!ThreadState, Facts, Sound, Ending
  <2>2. Len(taskList) = 1
    BY <1>4, <1>7, <2>1 DEF D!ClosingIsLast, Facts, Sound
  <2>3. taskList' = <<>>
    BY <1>1, <2>2, HeadTailProperties, EmptySeq
  <2> QED
    BY <1>1, <1>5, <1>6, <1>7, <2>3
<1>8. CASE Head(taskList) # Closing
  BY <1>1, <1>2, <1>3, <1>6, <1>8 DEF DTask
<1> QED
  BY <1>7, <1>8

LEMMA EndingStep ==
  ASSUME Facts, [Next]_vars
  PROVE  Ending'
<1>1. /\ sState = "TERMINATED" => sState' = "TERMINATED"
      /\ sState = "TERMINATED" /\ eventList = {} => eventList' = {}
      /\ bState = "TERMINATED" => bState' = "TERMINATED"
      /\ bState = "TERMINATED" /\ Drained => Drained'
  BY SchedulerStep, DatabaseStep, EventsStep, BacklogStep DEF Facts, Sound
<1>2. ASSUME \/ UNCHANGED <<dState, taskList>>
             \/ D!TakeFirst
             \/ dState' \in {"CLOSING", "TERMINATED"} /\ UNCHANGED taskList,
             dFate'[Closing] # "new" => dFate[Closing] # "new",
             dFate'[Closing] \in {"executing", "executed"} => taskList' = <<>>,
             dState' = "TERMINATED" => dFate'[Closing] = "executed",
             dPc' = "exited" => dState' = "TERMINATED"
      PROVE  Ending'
  BY <1>1, <1>2, TakenLast DEF Facts, Ending
<1>3. Closing \in DTask /\ dFate \in [DTask -> D!Fate]
  BY DEF DTask, D!TypeOK, Facts, Sound
<1>4. CASE UNCHANGED dVars
  BY <1>1, <1>4 DEF dVars, Facts, Ending
<1>5. CASE Loop
  <2>1. CASE D!TakeFirst /\ dPc' # "exited"
    BY <1>2, <2>1, TakenLast DEF Facts, Ending
  <2>2. CASE UNCHANGED <<dState, taskList, dFate>> /\ (dPc' = "exited" => dState = "TERMINATED")
    BY <1>2, <2>2 DEF Facts, Ending
  <2>3. \/ D!TakeFirst /\ dPc' # "exited"
        \/ UNCHANGED <<dState, taskList, dFate>> /\ (dPc' = "exited" => dState = "TERMINATED")
    <3>1. CASE D!CheckState \/ D!Wait
      BY <3>1 DEF D!CheckState, D!Wait
    <3>2. CASE D!Take \/ D!WakeUp
      BY <3>2 DEF D!Take, D!WakeUp, D!TakeFirst, D!Execute, D!Expire, D!NothingToTake
    <3>3. CASE \E th \in DThread : D!Notify(th)
      BY <3>3 DEF D!Notify, Facts, Ending
    <3> QED
      BY <1>5, <3>1, <3>2, <3>3 DEF Loop
  <2> QED
    BY <2>1, <2>2, <2>3
<1>6. CASE Entry
  <2>1. PICK t \in DTask : /\ t # Closing /\ UNCHANGED <<dState, dPc>>
                           /\ D!RefuseTask(t) \/ dState = "RUNNING"
                           /\ dFate' = [dFate EXCEPT ![t] = dFate'[t]]
    <3>1. PICK th \in DThread, t \in DTask : D!AddTask(th, t)
      BY <1>6 DEF Entry
    <3>2. dFate' = [dFate EXCEPT ![t] = dFate'[t]]
      BY <1>3, <3>1 DEF D!AddTask, D!AcceptTask, D!RefuseTask
    <3> QED
      BY <3>1, <3>2 DEF D!AddTask, D!AcceptTask
  <2>2. dFate'[Closing] = dFate[Closing]
    BY <1>3, <2>1
  <2>3. CASE dFate[Closing] = "new"
    BY <1>2, <2>1, <2>2, <2>3 DEF Ending, Facts
  <2>4. CASE dFate[Closing] # "new"
    <3>1. UNCHANGED taskList
      BY <2>1, <2>4 DEF D!RefuseTask, Facts, Ending
    <3> QED
      BY <1>2, <2>1, <2>2, <3>1 DEF Facts, Ending
  <2> QED
    BY <2>3, <2>4
<1>7. CASE StopDispatcher
  BY <1>2, <1>7 DEF StopDispatcher, D!Stop, Facts, Ending
<1>8. CASE ShutdownDispatcher
  <2>1. /\ dState = "CLOSING" /\ UNCHANGED <<dState, dPc>>
        /\ dFate' = [dFate EXCEPT ![Closing] = "queued"]
    BY <1>8 DEF ShutdownDispatcher, D!Shutdown
  <2>2. /\ sState = "TERMINATED" /\ eventList = {}
        /\ bState = "TERMINATED" /\ Drained
    BY <1>8 DEF ShutdownDispatcher, InShutdown, At, Facts, Order, Events, Backlog
  <2> QED
    BY <1>1, <1>3, <2>1, <2>2 DEF Facts, Ending
<1>9. CASE Return
  <2>1. /\ UNCHANGED taskList
        /\ dFate' = [dFate EXCEPT ![current] = "executed"]
        /\ dFate[current] = "executing"
        /\ current \in DTask
        /\ dPc' = "check"
        /\ dState' = IF current = Closing THEN "TERMINATED" ELSE dState
    BY <1>9 DEF Return, At, D!Finish, D!EachTaskOnce, D!TypeOK, DTask, Work, Facts, Sound
  <2>2. CASE current = Closing
    BY <1>2, <1>3, <2>1, <2>2 DEF Facts, Ending
  <2>3. CASE current # Closing
    BY <1>2, <1>3, <2>1, <2>3 DEF Facts, Ending
  <2> QED
    BY <2>2, <2>3
<1> QED
  BY <1>4, <1>5, <1>6, <1>7, <1>8, <1>9, DispatcherMoves DEF Facts, Sound

LEMMA HandedStep ==
  ASSUME Facts, [Next]_vars
  PROVE  Handed'
<1> USE DEF InAddEvent, Armed
<1>1. \A e \in Event : sFate[e] = "handed" => sFate'[e] = "handed"
  BY SchedulerStep, EventsStep DEF Facts, Sound
<1>2. /\ dFate \in [DTask -> D!Fate] /\ sFate \in [Event -> S!Fate]
      /\ Event \subseteq DTask
  BY DEF DTask, Work, D!TypeOK, S!TypeOK, Facts, Sound
<1>3. ASSUME NEW e \in Event, dFate'[e] # "new"
      PROVE  sFate'[e] = "handed"
  <2>1. CASE dFate[e] # "new"
    BY <1>1, <2>1 DEF Facts, Handed
  <2>2. CASE Entry /\ dFate[e] = "new"
    <3>1. PICK th \in DThread, t \in DTask :
            D!AddTask(th, t) /\ (t \in Event => S!HandOver /\ inHand = t)
      BY <2>2 DEF Entry
    <3>2. t = e
      BY <1>2, <1>3, <2>2, <3>1 DEF D!AddTask, D!AcceptTask, D!RefuseTask
    <3> QED
      BY <1>2, <3>1, <3>2 DEF S!HandOver
  <2>3. CASE ~Entry /\ dFate[e] = "new"
    <3>1. CASE UNCHANGED dVars
      BY <1>3, <2>3, <3>1 DEF dVars
    <3>2. CASE Loop
      <4>1. D!TakeFirst \/ UNCHANGED dFate
        BY <3>2 DEF Loop, D!CheckState, D!Wait, D!Take, D!WakeUp, D!NothingToTake, D!Notify
      <4>2. CASE D!TakeFirst
        <5>1. /\ taskList \in Seq(DTask) /\ taskList # <<>>
          BY <4>2 DEF D!TakeFirst, D!TypeOK, DTask, Facts, Sound
        <5>2. Head(taskList) = taskList[1] /\ 1 \in DOMAIN taskList /\ Head(taskList) \in DTask
          BY <5>1, HeadTailProperties, EmptySeq, LenProperties
        <5>3. dFate[Head(taskList)] = "queued"
          BY <5>2 DEF D!EachTaskOnce, DTask, Facts, Sound
        <5> QED
          BY <1>2, <1>3, <2>3, <4>2, <5>3 DEF D!TakeFirst, D!Execute, D!Expire
      <4> QED
        BY <1>3, <2>3, <4>1, <4>2
    <3>3. CASE StopDispatcher
      BY <1>3, <2>3, <3>3 DEF StopDispatcher, D!Stop
    <3>4. CASE ShutdownDispatcher
      <4>1. e # Closing
        BY ComponentsAssumption DEF D!DispatcherAssumption
      <4> QED
        BY <1>2, <1>3, <2>3, <3>4, <4>1 DEF ShutdownDispatcher, D!Shutdown
    <3>5. CASE Return
      <4>1. dFate[current] = "executing" /\ dFate' = [dFate EXCEPT ![current] = "executed"]
        BY <3>5 DEF Return, At, D!Finish, D!EachTaskOnce, D!TypeOK, DTask, Work, Facts, Sound
      <4> QED
        BY <1>2, <1>3, <2>3, <4>1
    <3> QED
      BY <2>3, <3>1, <3>2, <3>3, <3>4, <3>5, DispatcherMoves DEF Facts, Sound
  <2> QED
    BY <2>1, <2>2, <2>3
<1>4. ASSUME InAddEvent'
      PROVE  (dFate[Armed] \in {"new", "queued"} /\ dPc = "executing" /\ dState = "RUNNING")'
  <2>1. CASE InAddEvent
    <3>1. Armed' = Armed /\ Armed \in Event
      <4>1. CASE UNCHANGED arming
        BY <2>1, <4>1 DEF Facts, Events
      <4>2. CASE \E e \in Event, d \in Delay : S!AddEvent("dispatcher", e, d)
        BY <2>1, <4>2 DEF S!AddEvent
      <4>3. CASE S!AddEventReturn("dispatcher")
        BY <1>4, <4>3 DEF S!AddEventReturn, S!TypeOK, Facts, Sound
      <4> QED
        BY <4>1, <4>2, <4>3, SchedulerStep
           DEF S!Next, S!vars, S!callVars, S!Tick, S!ThreadMain, S!CheckState, S!Wait, S!Timeout,
               S!WakeNotified, S!WakeSpurious, S!WakeUp, S!HandOver, S!Continue,
               S!AddEventSignal, S!ShutdownClear, S!ShutdownNotify, S!Stop, S!Shutdown,
               S!StopEvent
    <3>2. /\ dFate[Armed] \in {"new", "queued"} /\ dPc = "executing" /\ dState = "RUNNING"
      BY <2>1 DEF Facts, Handed
    <3>3. CASE UNCHANGED dVars
      BY <3>1, <3>2, <3>3 DEF dVars
    <3>4. CASE Loop
      BY <3>1, <3>2, <3>4 DEF Loop, D!CheckState, D!Wait, D!Take, D!WakeUp, D!Notify
    <3>5. CASE Entry
      BY <1>2, <3>1, <3>2, <3>5 DEF Entry, D!AddTask, D!AcceptTask, D!RefuseTask
    <3>6. CASE StopDispatcher \/ ShutdownDispatcher \/ Return
      BY <2>1, <3>6 DEF StopDispatcher, ShutdownDispatcher, Return, InShutdown, At
    <3> QED
      BY <3>3, <3>4, <3>5, <3>6, DispatcherMoves DEF Facts, Sound
  <2>2. CASE ~InAddEvent
    <3>1. CASE WorkStep /\ \E e \in Event, d \in Delay : S!AddEvent("dispatcher", e, d)
      <4>1. PICK e \in Event, d \in Delay : S!AddEvent("dispatcher", e, d)
        BY <3>1
      <4>2. S!AcceptEvent("dispatcher", e, d)
        BY <1>4, <2>2, <4>1 DEF S!AddEvent, S!RefuseEvent, S!callVars
      <4>3. Armed' = e /\ sFate[e] = "new" /\ sState = "RUNNING"
        BY <4>1, <4>2 DEF S!AddEvent, S!AcceptEvent, S!TypeOK, Facts, Sound
      <4>4. dFate[e] = "new" /\ dState = "RUNNING" /\ dPc = "executing"
        BY <3>1, <4>3 DEF WorkStep, At, Facts, Order, Handed
      <4>5. UNCHANGED dVars
        BY <3>1, <4>1 DEF WorkStep, OnlyS, OnlyB, OnlyG, S!AddEvent, S!AcceptEvent, sVars
      <4> QED
        BY <4>3, <4>4, <4>5 DEF dVars
    <3>2. CASE \/ UNCHANGED sCall
               \/ \E e \in Event : S!StopEvent("dispatcher", e)
               \/ S!Continue("dispatcher") \/ S!Stop("dispatcher") \/ S!Shutdown("dispatcher")
      BY <1>4, <2>2, <3>2
         DEF S!StopEvent, S!callVars, S!Continue, S!AddEventSignal, S!AddEventReturn,
             S!ShutdownClear, S!ShutdownNotify, S!Stop, S!Shutdown, S!TypeOK, Facts, Sound
    <3>3. CASE WorkStep
      BY <3>1, <3>2, <3>3 DEF WorkStep, OnlyB, OnlyG, sVars
    <3>4. CASE SetGameState \/ ShutDown \/ Return
      BY <3>2, <3>4
         DEF SetGameState, EnterShutdown, SaveGameState, PostGameShutdown, StopScheduler,
             StopDatabase, StopDispatcher, ShutDown, LastSave, ShutdownScheduler,
             ShutdownDatabase, ShutdownDispatcher, StopServices, Return, OnlyD, OnlyB, OnlyG,
             sVars
    <3>5. CASE DispatcherThread /\ ~(WorkStep \/ SetGameState \/ ShutDown \/ Return)
      BY <3>2, <3>5 DEF DispatcherThread, OnlyD, OnlyB, sVars
    <3>6. CASE SchedulerThread
      BY <3>2, <3>6
         DEF SchedulerThread, S!CheckState, S!Wait, S!Timeout, S!WakeNotified, S!WakeUp,
             S!HandOver, S!callVars, sVars
    <3>7. CASE WorkerThread \/ MainThread \/ \E t \in Request \cup Signal : Post(t)
      BY <3>2, <3>7 DEF WorkerThread, MainThread, Join, Post, OnlyD, OnlyG, sVars
    <3>8. CASE Spurious \/ S!Tick \/ UNCHANGED vars
      BY <3>2, <3>8
         DEF Spurious, S!WakeSpurious, S!WakeUp, S!Tick, S!callVars, OnlyD, OnlyB, sVars, vars
    <3> QED
      BY <3>3, <3>4, <3>5, <3>6, <3>7, <3>8 DEF Next
  <2> QED
    BY <2>1, <2>2
<1> QED
  BY <1>3, <1>4 DEF Handed

LEMMA FactsInit == Init => Events /\ Backlog /\ Order /\ Ending /\ Handed
<1>1. Init => Backlog /\ Order
  BY DEF Init, D!Init, S!Init, B!Init, Backlog, Order
<1>2. Init => Ending
  BY DEF Init, D!Init, Ending
<1>3. Init => Handed
  BY DEF Init, D!Init, S!Init, Handed, InAddEvent, Work
<1> QED
  BY <1>1, <1>2, <1>3, InitEvents

LEMMA FactsStep ==
  Facts /\ [Next]_vars => Events' /\ Backlog' /\ Order' /\ Ending' /\ Handed'
<1> SUFFICES ASSUME Facts, [Next]_vars
             PROVE  Events' /\ Backlog' /\ Order' /\ Ending' /\ Handed'
  OBVIOUS
<1>1. Events' /\ Backlog'
  BY SchedulerStep, DatabaseStep, EventsStep, BacklogStep DEF Facts, Sound
<1>2. Order'
  BY StepOrder, FirstOrder DEF Order
<1> QED
  BY <1>1, <1>2, EndingStep, HandedStep

LEMMA FactsHold == Spec => []Facts
<1>1. Spec => []Sound
  <2>1. B!EachQueryOnce => B!TypeOK
    BY DEF B!EachQueryOnce
  <2> QED
    BY <2>1, ServerDispatcherIsSound, ServerSchedulerIsSound, ServerDatabaseIsSound, PTL DEF Sound
<1>2. Facts <=> Sound /\ Events /\ Backlog /\ Order /\ Ending /\ Handed
  BY DEF Facts
<1> QED
  BY <1>1, <1>2, FactsInit, FactsStep, PTL DEF Spec

(* The variables of the server keep their types. *)
THEOREM TypeCorrect == Spec => []TypeOK
<1> DEFINE Steps ==
      /\ gameState \in {"NORMAL", "SHUTDOWN"}
      /\ step \in {"enter", "save", "post", "stop1", "stop2", "stop3", "return",
                   "sched", "database", "dispatch", "services"}
      /\ main \in {"serving", "joinScheduler", "joinDatabase", "joinDispatcher", "exited"}
<1>1. Init => Steps
  BY DEF Init
<1>2. Steps /\ [Next]_vars => Steps'
  <2> SUFFICES ASSUME Steps, [Next]_vars
               PROVE  Steps'
    OBVIOUS
  <2>1. CASE WorkStep \/ Return
    BY <2>1 DEF WorkStep, Return, Goto
  <2>2. CASE SetGameState
    BY <2>2 DEF SetGameState, EnterShutdown, SaveGameState, PostGameShutdown, StopScheduler,
                StopDatabase, StopDispatcher, Goto
  <2>3. CASE ShutDown
    BY <2>3 DEF ShutDown, LastSave, ShutdownScheduler, ShutdownDatabase, ShutdownDispatcher,
                StopServices, Goto
  <2>4. CASE MainThread
    BY <2>4 DEF MainThread, Join, gVars
  <2>5. CASE UNCHANGED gVars
    BY <2>5 DEF gVars
  <2> QED
    BY <2>1, <2>2, <2>3, <2>4, <2>5
       DEF Next, DispatcherThread, SchedulerThread, WorkerThread, Post, Spurious, vars
<1>3. Facts /\ Steps => TypeOK
  BY DEF Facts, Sound, TypeOK
<1> QED
  BY <1>1, <1>2, <1>3, FactsHold, PTL DEF Spec

(* A shutdown leaves no accepted task, query or timer behind, whatever the     *)
(* threads were doing when the signal came (Game::shutdown, game.cpp).         *)
THEOREM ShutdownLeavesNothing == Spec => []NothingLeftBehind
<1>1. TypeOK /\ Facts /\ B!EachQueryOnce => NothingLeftBehind
  <2> SUFFICES ASSUME TypeOK, Facts, B!EachQueryOnce, dPc = "exited",
                      NEW i \in DOMAIN accepted
               PROVE  /\ taskList = <<>>
                      /\ eventList = {}
                      /\ \/ \E j \in DOMAIN executed : executed[j] = accepted[i]
                         \/ hand["worker"] = accepted[i]
    BY DEF NothingLeftBehind, Facts, Ending
  <2>1. taskList = <<>> /\ eventList = {} /\ Drained
    BY DEF Facts, Ending
  <2>2. accepted[i] \in B!Range(accepted)
    BY DEF B!Range
  <2>3. accepted[i] \in B!Range(executed) \cup (B!Range(hand) \ {NoQuery})
    <3>1. B!Range(<<>>) = {}
      BY DEF B!Range
    <3> QED
      BY <2>1, <2>2, <3>1 DEF B!EachQueryOnce, Drained
  <2>4. hand \in [{"dispatcher", "worker"} -> Query \cup {NoQuery}]
    BY DEF Facts, Sound, B!TypeOK, B!Runner
  <2> QED
    BY <2>1, <2>3, <2>4 DEF B!Range, Drained
<1> QED
  BY <1>1, TypeCorrect, FactsHold, ServerDatabaseIsSound, PTL

(* addEvent, called from the dispatcher, reads the id of an event that is      *)
(* still there (scheduler.cpp:83-98), while the ids in use differ.             *)
THEOREM ReturnedEventsAreAlive == Spec /\ []S!IdsDistinct => []ReturnedEventIsAlive
<1>1. Facts /\ S!OnlyStoppedAreDeleted => ReturnedEventIsAlive
  BY DEF Facts, Events, Handed, InAddEvent, Armed, S!OnlyStoppedAreDeleted,
         ReturnedEventIsAlive, Deleted
<1> QED
  BY <1>1, FactsHold, ServerSchedulerIsSound, PTL

(* With no more events than ids the hypothesis on the ids is not needed: what  *)
(* addEvent reads is there, and nothing that was stopped fires.                *)
THEOREM FewEventsAreAlive ==
  ASSUME SP!FewEvents
  PROVE  Spec => [](ReturnedEventIsAlive /\ S!StoppedNeverFires)
<1>1. SP!SchedulerAssumption
  BY ComponentsAssumption DEF S!SchedulerAssumption, SP!SchedulerAssumption
<1>2. SP!Spec => []SP!IdsDistinct
  BY <1>1, SP!IdsStayDistinct
<1>3. SP!IdsDistinct => S!IdsDistinct
  BY DEF S!IdsDistinct, SP!IdsDistinct
<1>4. S!Init => SP!Init
  BY DEF S!Init, SP!Init
<1> QED
  BY <1>2, <1>3, <1>4, SameScheduler, ThreadsAreUsedAsSpecified, ReturnedEventsAreAlive,
     ServerSchedulerIsSound, PTL DEF S!Spec, SP!Spec
=============================================================================
