--------------------------- MODULE ServerThreads ----------------------------
(***************************************************************************)
(* The threads of the server and how they end: the dispatcher, the          *)
(* scheduler and the database worker (their own modules, composed here),    *)
(* and main, which serves the network and joins the three.                  *)
(*                                                                          *)
(* What the dispatcher executes are the steps below: a signal handler runs  *)
(* Game::setGameState for GAME_STATE_SHUTDOWN, which queues Game::shutdown; *)
(* any other task is the game's work, which arms and stops timers, adds     *)
(* queries, saves the game, or does nothing of interest here.               *)
(***************************************************************************)
EXTENDS Naturals, Sequences

CONSTANTS
  Event,         \* the timers, which are tasks of the dispatcher as well
  Delay, MaxEventId, MaxNow,
  Query,         \* the asynchronous queries
  Callback,      \* the tasks the database posts to the dispatcher
  CallbackOf,    \* the one of each query
  Request,       \* the tasks the network posts
  Signal,        \* the tasks of sigintHandler and sigtermHandler
  GameShutdown,  \* the task of Game::shutdown
  Closing,       \* the task of Dispatcher::shutdown
  NoTask, NoDeadline, NoQuery

ASSUME ServerThreadsAssumption ==
  /\ CallbackOf \in [Query -> Callback]
  /\ \A q, r \in Query : CallbackOf[q] = CallbackOf[r] => q = r
  /\ GameShutdown \notin Event \cup Request \cup Callback \cup Signal

VARIABLES
  dState, taskList, dispatcherCycle, dPc, current, dSignalled, signalling, dFate,
  sState, now, eventList, cycle, eventId, eventIds, lastEventId, sPc, deadline,
  sSignalled, inHand, sCall, arming, sFate, stopped,
  bState, tasks, bPc, bSignalled, bCall, hand, accepted, executed, dropped, posted,
  gameState,  \* Game::gameState
  step,       \* how far the dispatcher is in the task it executes
  main        \* where main is

dVars == <<dState, taskList, dispatcherCycle, dPc, current, dSignalled, signalling, dFate>>
sVars == <<sState, now, eventList, cycle, eventId, eventIds, lastEventId, sPc, deadline,
           sSignalled, inHand, sCall, arming, sFate, stopped>>
bVars == <<bState, tasks, bPc, bSignalled, bCall, hand, accepted, executed, dropped, posted>>
gVars == <<gameState, step, main>>
vars == <<dVars, sVars, bVars, gVars>>

Work == Event \cup Request \cup Callback

D == INSTANCE Dispatcher WITH
       Task <- Work \cup Signal \cup {GameShutdown, Closing},
       Timer <- Event, Expiring <- {},
       Thread <- {"main", "dispatcher", "scheduler", "worker"},
       DispatcherThread <- "dispatcher", SchedulerThread <- "scheduler",
       threadState <- dState, pc <- dPc, signalled <- dSignalled, fate <- dFate

S == INSTANCE Scheduler WITH
       Thread <- {"dispatcher"}, DispatcherThread <- "dispatcher", NoEvent <- NoTask,
       threadState <- sState, pc <- sPc, signalled <- sSignalled, call <- sCall,
       fate <- sFate

B == INSTANCE DatabaseTasks WITH
       WithCallback <- Query,
       Thread <- {"dispatcher"}, DispatcherThread <- "dispatcher", Worker <- "worker",
       threadState <- bState, pc <- bPc, signalled <- bSignalled, call <- bCall

ASSUME ComponentsAssumption ==
  D!DispatcherAssumption /\ S!SchedulerAssumption /\ B!DatabaseTasksAssumption

(* The server is online. *)
Init ==
  /\ D!Init /\ S!Init /\ B!Init
  /\ gameState = "NORMAL"
  /\ step = "enter"
  /\ main = "serving"

(***************************************************************************)
(* The dispatcher executes a task, step by step                            *)
(***************************************************************************)
(* The dispatcher's thread is in a task and in no call that has not returned. *)
At(kind, s) ==
  /\ dPc = "executing"
  /\ current \in kind
  /\ step = s
  /\ "dispatcher" \notin signalling
  /\ sCall["dispatcher"] = "idle"
  /\ bCall["dispatcher"] = "idle"

Goto(s) == step' = s /\ UNCHANGED <<gameState, main>>

OnlyD == UNCHANGED <<sVars, bVars>>
OnlyS == UNCHANGED <<dVars, bVars>>
OnlyB == UNCHANGED <<dVars, sVars>>
OnlyG == UNCHANGED <<dVars, sVars, bVars>>

(* A task of the game makes one call into the other threads, or none. *)
WorkStep ==
  /\ At(Work, "enter")
  /\ Goto("return")
  /\ \/ OnlyS /\ \E e \in Event, d \in Delay : S!AddEvent("dispatcher", e, d)
     \/ OnlyS /\ \E e \in Event : S!StopEvent("dispatcher", e)
     \/ OnlyB /\ \E q \in Query : B!AddTask("dispatcher", q)
     \/ OnlyB /\ B!Flush("dispatcher")
     \/ OnlyG

(* Game::setGameState(GAME_STATE_SHUTDOWN): nothing when the server is already   *)
(* shutting down; else save the game, queue Game::shutdown, stop the threads.    *)
EnterShutdown ==
  /\ At(Signal, "enter")
  /\ gameState' = "SHUTDOWN"
  /\ step' = IF gameState = "SHUTDOWN" THEN "return" ELSE "save"
  /\ UNCHANGED main
  /\ OnlyG

SaveGameState    == At(Signal, "save") /\ B!Flush("dispatcher") /\ OnlyB /\ Goto("post")
PostGameShutdown == At(Signal, "post") /\ D!AddTask("dispatcher", GameShutdown) /\ OnlyD /\ Goto("stop1")
StopScheduler_Forgotten == At(Signal, "stop1") /\ OnlyG /\ Goto("stop2")
StopScheduler    == At(Signal, "stop1") /\ S!Stop("dispatcher") /\ OnlyS /\ Goto("stop2")
StopDatabase     == At(Signal, "stop2") /\ B!Stop("dispatcher") /\ OnlyB /\ Goto("stop3")
StopDispatcher   == At(Signal, "stop3") /\ D!Stop("dispatcher") /\ OnlyD /\ Goto("return")

SetGameState ==
  \/ EnterShutdown \/ SaveGameState \/ PostGameShutdown
  \/ StopScheduler \/ StopDatabase \/ StopDispatcher

(* Game::shutdown(): it ends with the services, which lets main leave run(). *)
InShutdown(s) == At({GameShutdown}, s)

LastSave           == InShutdown("enter") /\ B!Flush("dispatcher") /\ OnlyB /\ Goto("sched")
ShutdownScheduler  == InShutdown("sched") /\ S!Shutdown("dispatcher") /\ OnlyS /\ Goto("database")
ShutdownDatabase   == InShutdown("database") /\ B!Shutdown("dispatcher") /\ OnlyB /\ Goto("dispatch")
ShutdownDispatcher == InShutdown("dispatch") /\ D!Shutdown("dispatcher") /\ OnlyD /\ Goto("services")

StopServices ==
  /\ InShutdown("services")
  /\ step' = "return"
  /\ main' = "joinScheduler"
  /\ UNCHANGED gameState
  /\ OnlyG

ShutDown ==
  \/ LastSave \/ ShutdownScheduler \/ ShutdownDatabase \/ ShutdownDispatcher
  \/ StopServices

Return ==
  /\ At({Closing}, "enter") \/ At(Work \cup Signal \cup {GameShutdown}, "return")
  /\ D!Finish
  /\ OnlyD
  /\ Goto("enter")

(* The dispatcher's own steps, those of the calls its task makes included; a    *)
(* query that flush() runs itself may post its callback.                        *)
DispatcherThread ==
  \/ (D!CheckState \/ D!Wait \/ D!Take \/ D!WakeNotified) /\ OnlyD /\ UNCHANGED gVars
  \/ D!Notify("dispatcher") /\ OnlyD /\ UNCHANGED gVars
  \/ WorkStep \/ SetGameState \/ ShutDown \/ Return
  \/ S!Continue("dispatcher") /\ OnlyS /\ UNCHANGED gVars
  \/ /\ \/ B!AddTaskSignal("dispatcher") \/ B!FlushTake("dispatcher")
        \/ B!Execute("dispatcher") \/ B!FlushReturn("dispatcher")
        \/ B!ShutdownNotify("dispatcher")
     /\ OnlyB
     /\ UNCHANGED gVars
  \/ /\ "dispatcher" \notin signalling
     /\ B!FlushTask("dispatcher")
     /\ D!AddTask("dispatcher", CallbackOf[hand["dispatcher"]])
     /\ UNCHANGED <<sVars, gVars>>

(* The scheduler's thread hands a due event to the dispatcher's list. *)
SchedulerThread ==
  /\ UNCHANGED <<bVars, gVars>>
  /\ \/ D!Notify("scheduler") /\ UNCHANGED sVars
     \/ /\ "scheduler" \notin signalling
        /\ \/ (S!CheckState \/ S!Wait \/ S!Timeout \/ S!WakeNotified) /\ UNCHANGED dVars
           \/ S!HandOver /\ D!AddTask("scheduler", inHand)

(* The worker executes queries and posts their callbacks. *)
WorkerThread ==
  /\ UNCHANGED <<sVars, gVars>>
  /\ \/ D!Notify("worker") /\ UNCHANGED bVars
     \/ /\ "worker" \notin signalling
        /\ \/ /\ \/ B!CheckState \/ B!Wait \/ B!Take \/ B!WakeNotified
                 \/ B!Execute("worker")
              /\ UNCHANGED dVars
           \/ B!FinishTask /\ D!AddTask("worker", CallbackOf[hand["worker"]])

(* The network posts requests, and signals are handled where it runs. *)
Post(t) ==
  /\ main = "serving"
  /\ D!AddTask("main", t)
  /\ OnlyD
  /\ UNCHANGED gVars

Join(from, pc, to) ==
  /\ main = from
  /\ "main" \notin signalling
  /\ pc = "exited"
  /\ main' = to
  /\ UNCHANGED <<gameState, step>>
  /\ OnlyG

MainThread ==
  \/ D!Notify("main") /\ OnlyD /\ UNCHANGED gVars
  \/ Join("joinScheduler", sPc, "joinDatabase")
  \/ Join("joinDatabase", bPc, "joinDispatcher")
  \/ Join("joinDispatcher", dPc, "exited")

Spurious ==
  /\ UNCHANGED gVars
  /\ \/ D!WakeSpurious /\ OnlyD
     \/ S!WakeSpurious /\ OnlyS
     \/ B!WakeSpurious /\ OnlyB

Next ==
  \/ DispatcherThread \/ SchedulerThread \/ WorkerThread \/ MainThread
  \/ Spurious
  \/ \E t \in Request \cup Signal : Post(t)
  \/ S!Tick /\ OnlyS /\ UNCHANGED gVars

Spec == Init /\ [][Next]_vars

(* Every thread that can run is scheduled; time passes. *)
Fairness ==
  /\ WF_vars(DispatcherThread)
  /\ WF_vars(SchedulerThread)
  /\ WF_vars(WorkerThread)
  /\ WF_vars(MainThread)
  /\ WF_vars(S!Tick /\ OnlyS /\ UNCHANGED gVars)

FairSpec == Spec /\ Fairness

(* What the end of the dispatcher rests on: it runs, and whoever has queued a   *)
(* task completes its call with the notification.                               *)
EndingFairness ==
  /\ WF_vars(DispatcherThread)
  /\ \A th \in {"main", "scheduler", "worker"} :
       WF_vars(D!Notify(th) /\ UNCHANGED <<sVars, bVars, gVars>>)

EndingSpec == Spec /\ EndingFairness

-----------------------------------------------------------------------------
(* The variables have their types, those of the three components included. *)
TypeOK ==
  /\ D!TypeOK /\ S!TypeOK /\ B!TypeOK
  /\ gameState \in {"NORMAL", "SHUTDOWN"}
  /\ step \in {"enter", "save", "post", "stop1", "stop2", "stop3", "return",
               "sched", "database", "dispatch", "services"}
  /\ main \in {"serving", "joinScheduler", "joinDatabase", "joinDispatcher", "exited"}

(* addEvent reads the event's id after it has released the lock, when another   *)
(* thread may already have deleted the event.  Called from the dispatcher's     *)
(* thread it never does: the event's own execution waits for the caller, and a  *)
(* dispatcher that refuses (and deletes) events runs with a scheduler that      *)
(* accepts none.                                                                *)
Deleted(e) ==
  \/ sFate[e] \in {"deleted", "discarded"}
  \/ dFate[e] \in {"executed", "refused"}

ReturnedEventIsAlive ==
  \A e \in Event : sCall["dispatcher"] \in {"signal", "return"} /\ arming["dispatcher"] = e
                     => ~Deleted(e)

(* Game::shutdown leaves nobody behind: when the dispatcher has ended, no task  *)
(* that was accepted is unexecuted, no query that was accepted is undone unless *)
(* the worker has it in its hands, and no timer is pending.                     *)
NothingLeftBehind ==
  /\ TypeOK
  /\ dPc = "exited" =>
       /\ taskList = <<>>
       /\ eventList = {}
       /\ \A i \in DOMAIN accepted :
            \/ \E j \in DOMAIN executed : executed[j] = accepted[i]
            \/ hand["worker"] = accepted[i]

(* A signal ends the dispatcher, however often it is sent and whatever the      *)
(* other threads are doing, be they stuck.                                      *)
SignalEndsTheGame ==
  \A t \in Signal : dFate[t] = "queued" ~> dPc = "exited"

(* signals.cpp:90: SIGINT "Shuts the server down": main, which joins the three *)
(* threads, returns.                                                            *)
SignalEndsTheServer ==
  \A t \in Signal : dFate[t] = "queued" ~> main = "exited"
=============================================================================
