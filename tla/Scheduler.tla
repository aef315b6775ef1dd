----------------------------- MODULE Scheduler ------------------------------
(***************************************************************************)
(* The scheduler of src/engine/src/scheduler.{h,cpp}: a thread that sleeps  *)
(* until the earliest pending event is due and hands it to the dispatcher.  *)
(*                                                                          *)
(* A critical section under eventLock is one step; what the callers and the *)
(* thread do outside the lock (the test of threadState, notify_one, the read *)
(* of the event id that addEvent returns, the call of g_dispatcher.addTask) *)
(* is a step each.                                                          *)
(*                                                                          *)
(* An event is one SchedulerTask object.  The priority queue eventList is   *)
(* the set of its members; its top is one of those with the least cycle.    *)
(***************************************************************************)
EXTENDS Naturals

CONSTANTS
  Event,             \* the SchedulerTasks ever created
  Delay,             \* the delays they are created with
  MaxEventId,        \* the largest event id (2^32 - 1 in the code)
  MaxNow,            \* bound: the last instant of the clock
  Thread,            \* the threads that call the scheduler
  DispatcherThread,  \* the one that runs the game
  NoEvent,
  NoDeadline

ASSUME SchedulerAssumption ==
  /\ Delay \subseteq Nat
  /\ MaxEventId \in Nat \ {0}
  /\ MaxNow \in Nat
  /\ DispatcherThread \in Thread
  /\ NoEvent \notin Event
  /\ NoDeadline \notin Nat

VARIABLES
  threadState,  \* ThreadHolder::threadState
  now,          \* system_clock::now()
  eventList,    \* Scheduler::eventList
  cycle,        \* SchedulerTask::getCycle() of each event
  eventId,      \* SchedulerTask::eventId of each event, 0 until it has one
  eventIds,     \* Scheduler::eventIds
  lastEventId,  \* Scheduler::lastEventId
  pc,           \* where threadMain is
  deadline,     \* what it waits for
  signalled,    \* eventSignal was notified since it went to wait
  inHand,       \* the event popped and not yet handed over
  call,         \* what each caller is in the middle of
  arming,       \* the event an addEvent in progress is about
  fate,         \* history: what became of each event
  stopped       \* history: the events whose stopEvent returned true

vars == <<threadState, now, eventList, cycle, eventId, eventIds, lastEventId, pc,
          deadline, signalled, inHand, call, arming, fate, stopped>>

queueVars  == <<eventList, cycle, eventId, eventIds, lastEventId>>
threadVars == <<pc, deadline, signalled, inHand>>
callVars   == <<call, arming>>

ThreadState == {"RUNNING", "CLOSING", "TERMINATED"}
Fate == {"new", "pending", "taken", "handed", "deleted", "discarded", "refused"}

(* What start() leaves behind.  lastEventId may be any value the server has  *)
(* reached, so that the wrap-around lies in the model's reach.               *)
Init ==
  /\ threadState = "RUNNING"
  /\ now = 0
  /\ eventList = {}
  /\ cycle = [e \in Event |-> 0]
  /\ eventId = [e \in Event |-> 0]
  /\ eventIds = {}
  /\ lastEventId \in 0 .. MaxEventId
  /\ pc = "check"
  /\ deadline = NoDeadline
  /\ signalled = FALSE
  /\ inHand = NoEvent
  /\ call = [th \in Thread |-> "idle"]
  /\ arming = [th \in Thread |-> NoEvent]
  /\ fate = [e \in Event |-> "new"]
  /\ stopped = {}

Top == {e \in eventList : \A f \in eventList : cycle[e] <= cycle[f]}

(* notify_one is lost on a thread that is not waiting. *)
NotifyOne_Missing == UNCHANGED signalled
NotifyOne == signalled' = (signalled \/ pc = "waiting")

(* Each event id that is in use belongs to one event.  Only the width of the *)
(* id ensures it: it takes 2^32 - 1 more events to meet an old id again.     *)
IdsDistinct ==
  \A e, f \in Event : eventId[e] = eventId[f] /\ eventId[e] # 0 => e = f

Tick ==
  /\ now < MaxNow
  /\ now' = now + 1
  /\ UNCHANGED <<threadState, queueVars, threadVars, callVars, fate, stopped>>

(***************************************************************************)
(* addEvent(createSchedulerTask(delay, f))                                 *)
(***************************************************************************)
NextEventId == IF lastEventId = MaxEventId THEN 1 ELSE lastEventId + 1

AcceptEvent_SignalsIfEmpty(th, e, d) ==
  /\ threadState = "RUNNING"
  /\ lastEventId' = NextEventId
  /\ eventId' = [eventId EXCEPT ![e] = NextEventId]
  /\ eventIds' = eventIds \cup {NextEventId}
  /\ cycle' = [cycle EXCEPT ![e] = now + d]
  /\ eventList' = eventList \cup {e}
  /\ LET doSignal == eventList = {}
     IN call' = [call EXCEPT ![th] = IF doSignal THEN "signal" ELSE "return"]
  /\ arming' = [arming EXCEPT ![th] = e]
  /\ fate' = [fate EXCEPT ![e] = "pending"]

AcceptEvent(th, e, d) ==
  /\ threadState = "RUNNING"
  /\ lastEventId' = NextEventId
  /\ eventId' = [eventId EXCEPT ![e] = NextEventId]
  /\ eventIds' = eventIds \cup {NextEventId}
  /\ cycle' = [cycle EXCEPT ![e] = now + d]
  /\ eventList' = eventList \cup {e}
  /\ LET doSignal == \A f \in eventList : now + d < cycle[f]
     IN call' = [call EXCEPT ![th] = IF doSignal THEN "signal" ELSE "return"]
  /\ arming' = [arming EXCEPT ![th] = e]
  /\ fate' = [fate EXCEPT ![e] = "pending"]

RefuseEvent(e) ==
  /\ threadState # "RUNNING"
  /\ fate' = [fate EXCEPT ![e] = "refused"]
  /\ UNCHANGED <<queueVars, callVars>>

AddEvent(th, e, d) ==
  /\ call[th] = "idle"
  /\ fate[e] = "new"
  /\ now + d <= MaxNow
  /\ AcceptEvent(th, e, d) \/ RefuseEvent(e)
  /\ UNCHANGED <<threadState, now, threadVars, stopped>>

AddEventSignal(th) ==
  /\ call[th] = "signal"
  /\ NotifyOne
  /\ call' = [call EXCEPT ![th] = "return"]
  /\ UNCHANGED <<threadState, now, queueVars, pc, deadline, inHand, arming, fate, stopped>>

(* return task->getEventId(), read without the lock. *)
AddEventReturn(th) ==
  /\ call[th] = "return"
  /\ call' = [call EXCEPT ![th] = "idle"]
  /\ arming' = [arming EXCEPT ![th] = NoEvent]
  /\ UNCHANGED <<threadState, now, queueVars, threadVars, fate, stopped>>

(* stopEvent(eventid), by a caller that addEvent gave the id of e. *)
StopEvent(th, e) ==
  /\ call[th] = "idle"
  /\ eventId[e] # 0
  /\ \A other \in Thread : arming[other] # e
  /\ eventIds' = eventIds \ {eventId[e]}
  /\ stopped' = IF eventId[e] \in eventIds THEN stopped \cup {e} ELSE stopped
  /\ UNCHANGED <<threadState, now, eventList, cycle, eventId, lastEventId,
                 threadVars, callVars, fate>>

(***************************************************************************)
(* stop() and the three steps of shutdown()                                *)
(***************************************************************************)
Stop(th) ==
  /\ th = DispatcherThread
  /\ call[th] = "idle"
  /\ threadState = "RUNNING"
  /\ threadState' = "CLOSING"
  /\ UNCHANGED <<now, queueVars, threadVars, callVars, fate, stopped>>

Shutdown(th) ==
  /\ call[th] = "idle"
  /\ threadState # "TERMINATED"
  /\ threadState = "CLOSING" <=> th = DispatcherThread
  /\ threadState' = "TERMINATED"
  /\ call' = [call EXCEPT ![th] = "clear"]
  /\ UNCHANGED <<now, queueVars, threadVars, arming, fate, stopped>>

ShutdownClear(th) ==
  /\ call[th] = "clear"
  /\ fate' = [e \in Event |-> IF e \in eventList THEN "discarded" ELSE fate[e]]
  /\ eventList' = {}
  /\ eventIds' = {}
  /\ call' = [call EXCEPT ![th] = "notify"]
  /\ UNCHANGED <<threadState, now, cycle, eventId, lastEventId, threadVars, arming, stopped>>

ShutdownNotify(th) ==
  /\ call[th] = "notify"
  /\ NotifyOne
  /\ call' = [call EXCEPT ![th] = "idle"]
  /\ UNCHANGED <<threadState, now, queueVars, pc, deadline, inHand, arming, fate, stopped>>

(***************************************************************************)
(* threadMain                                                              *)
(***************************************************************************)
CheckState ==
  /\ pc = "check"
  /\ pc' = IF threadState # "TERMINATED" THEN "lock" ELSE "exited"
  /\ UNCHANGED <<threadState, now, queueVars, deadline, signalled, inHand, callVars,
                 fate, stopped>>

(* wait() on an empty list, else wait_until() the cycle of the top. *)
Wait ==
  /\ pc = "lock"
  /\ pc' = "waiting"
  /\ deadline' \in IF eventList = {} THEN {NoDeadline} ELSE {cycle[e] : e \in Top}
  /\ UNCHANGED <<threadState, now, queueVars, signalled, inHand, callVars, fate, stopped>>

DeadlinePassed_AnyWakeUp == deadline # NoDeadline
DeadlinePassed == deadline # NoDeadline /\ deadline <= now

TakeTop_StoppedToo(e) ==
  /\ eventList' = eventList \ {e}
  /\ eventIds' = eventIds \ {eventId[e]}
  /\ pc' = "handing"
  /\ inHand' = e
  /\ fate' = [fate EXCEPT ![e] = "taken"]

(* cv_status::timeout: the lock is held again and the top is popped.  It is  *)
(* deleted when its id was erased, and kept to be handed over otherwise.     *)
TakeTop(e) ==
  /\ eventList' = eventList \ {e}
  /\ \/ /\ eventId[e] \notin eventIds
        /\ pc' = "check"
        /\ fate' = [fate EXCEPT ![e] = "deleted"]
        /\ UNCHANGED <<eventIds, inHand>>
     \/ /\ eventId[e] \in eventIds
        /\ eventIds' = eventIds \ {eventId[e]}
        /\ pc' = "handing"
        /\ inHand' = e
        /\ fate' = [fate EXCEPT ![e] = "taken"]

NothingToTake ==
  /\ eventList = {}
  /\ pc' = "check"
  /\ UNCHANGED <<eventList, eventIds, inHand, fate>>

Timeout ==
  /\ pc = "waiting"
  /\ DeadlinePassed
  /\ signalled' = FALSE
  /\ deadline' = NoDeadline
  /\ (\E e \in Top : TakeTop(e)) \/ NothingToTake
  /\ UNCHANGED <<threadState, now, cycle, eventId, lastEventId, callVars, stopped>>

(* cv_status::no_timeout: back to the head of the loop. *)
WakeUp ==
  /\ pc = "waiting"
  /\ ~DeadlinePassed
  /\ signalled' = FALSE
  /\ deadline' = NoDeadline
  /\ pc' = "check"
  /\ UNCHANGED <<threadState, now, queueVars, inHand, callVars, fate, stopped>>

WakeNotified == signalled /\ WakeUp
WakeSpurious == ~signalled /\ WakeUp

(* setDontExpire(); g_dispatcher.addTask(task, true). *)
HandOver ==
  /\ pc = "handing"
  /\ fate' = [fate EXCEPT ![inHand] = "handed"]
  /\ inHand' = NoEvent
  /\ pc' = "check"
  /\ UNCHANGED <<threadState, now, queueVars, deadline, signalled, callVars, stopped>>

ThreadMain == CheckState \/ Wait \/ Timeout \/ WakeNotified \/ HandOver

(* The steps a caller has begun and will finish. *)
Continue(th) ==
  \/ AddEventSignal(th)
  \/ AddEventReturn(th)
  \/ ShutdownClear(th)
  \/ ShutdownNotify(th)

Next ==
  \/ Tick
  \/ ThreadMain
  \/ WakeSpurious
  \/ \E th \in Thread : Continue(th) \/ Stop(th) \/ Shutdown(th)
  \/ \E th \in Thread, e \in Event : StopEvent(th, e) \/ \E d \in Delay : AddEvent(th, e, d)

Spec == Init /\ [][Next]_vars

(* Time passes, and a thread that can run is scheduled. *)
Fairness ==
  /\ WF_vars(Tick)
  /\ WF_vars(ThreadMain)
  /\ \A th \in Thread : WF_vars(Continue(th))

FairSpec == Spec /\ Fairness

-----------------------------------------------------------------------------
(* The variables have their types; an event that has been given an id keeps a  *)
(* valid one (0 means "no event" to every caller), across the wrap-around too. *)
TypeOK ==
  /\ threadState \in ThreadState
  /\ now \in Nat
  /\ eventList \subseteq Event
  /\ cycle \in [Event -> Nat]
  /\ eventId \in [Event -> 0 .. MaxEventId]
  /\ eventIds \subseteq 1 .. MaxEventId
  /\ lastEventId \in 0 .. MaxEventId
  /\ pc \in {"check", "lock", "waiting", "handing", "exited"}
  /\ deadline \in Nat \cup {NoDeadline}
  /\ signalled \in BOOLEAN
  /\ inHand \in Event \cup {NoEvent}
  /\ call \in [Thread -> {"idle", "signal", "return", "clear", "notify"}]
  /\ arming \in [Thread -> Event \cup {NoEvent}]
  /\ fate \in [Event -> Fate]
  /\ stopped \subseteq Event

(* The ids the scheduler believes active are those of queued events: no id     *)
(* outlives its event, so a late stopEvent can never claim to have stopped an  *)
(* event that has already left the list.                                       *)
ActiveIdsAreQueued ==
  /\ \A id \in eventIds : \E e \in eventList : eventId[e] = id
  /\ \A e \in Event : e \in eventList <=> fate[e] = "pending"

(* The thread never oversleeps: while it waits for a later instant than the    *)
(* earliest pending event, or for nothing, somebody is about to wake it.       *)
NeverOversleeps ==
  pc = "waiting" =>
    \/ \A e \in eventList : deadline # NoDeadline /\ deadline <= cycle[e]
    \/ signalled
    \/ \E th \in Thread : call[th] = "signal"

(* No event is handed to the dispatcher before its time. *)
NeverEarly == \A e \in Event : fate[e] \in {"taken", "handed"} => cycle[e] <= now

(* When stopEvent has returned true, the event never reaches the dispatcher;   *)
(* when it has returned false on an accepted event, the event is on its way    *)
(* there, is there already, or was stopped or discarded before.                *)
StoppedNeverFires == \A e \in stopped : fate[e] \notin {"taken", "handed"}

(* An event nobody stops is never thrown away by the thread: it is handed over *)
(* or discarded by the shutdown.                                               *)
OnlyStoppedAreDeleted == \A e \in Event : fate[e] = "deleted" => e \in stopped

(* A pending event that is due leaves the list, and it is handed over unless   *)
(* somebody stops it or shuts the scheduler down.                              *)
DueEventFires ==
  \A e \in Event :
    (fate[e] = "pending" /\ cycle[e] <= now) ~>
      fate[e] = "handed" \/ e \in stopped \/ threadState = "TERMINATED"

-----------------------------------------------------------------------------
(* What the scheduler promises, and how its state shows it. *)
Meaning ==
  [new |-> "idle", pending |-> "armed", taken |-> "fired", handed |-> "fired",
   deleted |-> "lost", discarded |-> "discarded", refused |-> "discarded"]

Status ==
  [e \in Event |->
     IF e \in stopped /\ fate[e] \in {"pending", "deleted", "discarded"}
       THEN "stopped" ELSE Meaning[fate[e]]]

Open == threadState = "RUNNING"

Timers == INSTANCE TimerService WITH status <- Status, due <- cycle, open <- Open

(* The scheduler implements the timer service. *)
TimerServiceSpec == Timers!Spec
=============================================================================
