-------------------------- MODULE SchedulerProofs ---------------------------
(***************************************************************************)
(* Proofs about the scheduler, for every set of events, threads and delays. *)
(* What is said of stopEvent supposes that no two events in use share an id *)
(* (IdsDistinct), which nothing in the code ensures; the last section shows *)
(* that it holds as long as no more events are created than there are ids.  *)
(***************************************************************************)
EXTENDS Scheduler, FiniteSetTheorems, TLAPS

(***************************************************************************)
(* The inductive invariant                                                 *)
(***************************************************************************)
(* Where an event is, as its history tells it. *)
Placed ==
  /\ \A e \in Event : e \in eventList <=> fate[e] = "pending"
  /\ \A e \in Event : fate[e] = "taken" <=> inHand = e
  /\ pc = "handing" <=> inHand # NoEvent

(* The ids in eventIds are those of the queued events nobody stopped. *)
IdsExact ==
  /\ \A id \in eventIds : \E e \in eventList : eventId[e] = id
  /\ \A e \in eventList : eventId[e] # 0 /\ (eventId[e] \notin eventIds <=> e \in stopped)
  /\ \A e \in stopped : fate[e] \in {"pending", "deleted", "discarded"}

(* Whoever is in shutdown() has set the state before. *)
ShutdownSetsState ==
  \A th \in Thread : call[th] \in {"clear", "notify"} => threadState = "TERMINATED"

(* The deadline the thread waits for is not before some queued event's, unless *)
(* the list was cleared by the shutdown.                                       *)
DeadlineIsListed ==
  pc = "waiting" /\ deadline # NoDeadline =>
    \/ \E e \in eventList : cycle[e] <= deadline
    \/ eventList = {} /\ threadState = "TERMINATED"

(***************************************************************************)
(* Type correctness                                                        *)
(***************************************************************************)
LEMMA NextIdType ==
  ASSUME lastEventId \in 0 .. MaxEventId
  PROVE  NextEventId \in 1 .. MaxEventId
BY SchedulerAssumption DEF NextEventId

LEMMA AddEventType ==
  ASSUME TypeOK, NEW th \in Thread, NEW e \in Event, NEW d \in Delay, AddEvent(th, e, d)
  PROVE  TypeOK'
<1> USE SchedulerAssumption
<1>1. UNCHANGED <<threadState, now, threadVars, stopped>>
  BY DEF AddEvent
<1>2. CASE AcceptEvent(th, e, d)
  <2>1. now + d \in Nat
    BY DEF TypeOK
  <2>2. NextEventId \in 1 .. MaxEventId
    BY NextIdType DEF TypeOK
  <2>3. cycle' \in [Event -> Nat] /\ eventList' \subseteq Event
    BY <1>2, <2>1 DEF AcceptEvent, TypeOK
  <2>4. /\ eventId' \in [Event -> 0 .. MaxEventId]
        /\ eventIds' \subseteq 1 .. MaxEventId
        /\ lastEventId' \in 0 .. MaxEventId
    BY <1>2, <2>2 DEF AcceptEvent, TypeOK
  <2>5. /\ call' \in [Thread -> {"idle", "signal", "return", "clear", "notify"}]
        /\ arming' \in [Thread -> Event \cup {NoEvent}]
        /\ fate' \in [Event -> Fate]
    BY <1>2 DEF AcceptEvent, TypeOK, Fate
  <2> QED
    BY <1>1, <2>3, <2>4, <2>5 DEF TypeOK, threadVars
<1>3. CASE RefuseEvent(e)
  <2>1. fate' \in [Event -> Fate]
    BY <1>3 DEF RefuseEvent, TypeOK, Fate
  <2> QED
    BY <1>1, <1>3, <2>1 DEF RefuseEvent, TypeOK, threadVars, queueVars, callVars
<1> QED
  BY <1>2, <1>3 DEF AddEvent

LEMMA TimeoutType ==
  ASSUME TypeOK, Timeout
  PROVE  TypeOK'
<1> USE SchedulerAssumption
<1>1. UNCHANGED <<threadState, now, cycle, eventId, lastEventId, callVars, stopped>>
  BY DEF Timeout
<1>2. signalled' = FALSE /\ deadline' = NoDeadline
  BY DEF Timeout
<1>3. CASE NothingToTake
  BY <1>1, <1>2, <1>3 DEF NothingToTake, TypeOK, callVars
<1>4. ASSUME NEW e \in Top, TakeTop(e)
      PROVE  TypeOK'
  <2>1. e \in Event
    BY DEF Top, TypeOK
  <2>2. /\ eventList' \subseteq Event
        /\ eventIds' \subseteq 1 .. MaxEventId
        /\ pc' \in {"check", "handing"}
        /\ inHand' \in Event \cup {NoEvent}
        /\ fate' \in [Event -> Fate]
    BY <1>4, <2>1 DEF TakeTop, TypeOK, Fate
  <2> QED
    BY <1>1, <1>2, <2>2 DEF TypeOK, callVars
<1> QED
  BY <1>3, <1>4 DEF Timeout

(* The variables keep their types in every behaviour of the scheduler; no id *)
(* assumption is needed.                                                     *)
THEOREM TypeCorrect == Spec => []TypeOK
<1> USE SchedulerAssumption
<1>1. Init => TypeOK
  <2> SUFFICES ASSUME Init
               PROVE  TypeOK
    OBVIOUS
  <2>1. /\ threadState \in ThreadState /\ now \in Nat /\ eventList \subseteq Event
        /\ eventIds \subseteq 1 .. MaxEventId /\ stopped \subseteq Event
    BY DEF Init, ThreadState
  <2>2. cycle \in [Event -> Nat] /\ eventId \in [Event -> 0 .. MaxEventId]
    BY DEF Init
  <2>3. lastEventId \in 0 .. MaxEventId
    BY DEF Init
  <2>4. /\ pc \in {"check", "lock", "waiting", "handing", "exited"}
        /\ deadline \in Nat \cup {NoDeadline}
        /\ inHand \in Event \cup {NoEvent}
    BY DEF Init
  <2>5. signalled \in BOOLEAN
    BY DEF Init
  <2>6. /\ call \in [Thread -> {"idle", "signal", "return", "clear", "notify"}]
        /\ arming \in [Thread -> Event \cup {NoEvent}]
        /\ fate \in [Event -> Fate]
    BY DEF Init, Fate
  <2> QED
    BY <2>1, <2>2, <2>3, <2>4, <2>5, <2>6 DEF TypeOK
<1>2. TypeOK /\ [Next]_vars => TypeOK'
  <2> SUFFICES ASSUME TypeOK, [Next]_vars
               PROVE  TypeOK'
    OBVIOUS
  <2>1. CASE Tick
    BY <2>1 DEF Tick, TypeOK, queueVars, threadVars, callVars
  <2>2. CASE CheckState
    BY <2>2 DEF CheckState, TypeOK, queueVars, callVars
  <2>3. CASE Wait
    BY <2>3 DEF Wait, Top, TypeOK, queueVars, callVars
  <2>4. CASE WakeUp
    BY <2>4 DEF WakeUp, TypeOK, queueVars, callVars
  <2>5. CASE HandOver
    BY <2>5 DEF HandOver, TypeOK, Fate, queueVars, callVars
  <2>6. ASSUME NEW th \in Thread, Continue(th)
        PROVE  TypeOK'
    <3>1. CASE AddEventSignal(th)
      BY <3>1 DEF AddEventSignal, NotifyOne, TypeOK, queueVars
    <3>2. CASE AddEventReturn(th)
      BY <3>2 DEF AddEventReturn, TypeOK, queueVars, threadVars
    <3>3. CASE ShutdownClear(th)
      BY <3>3 DEF ShutdownClear, TypeOK, Fate, threadVars
    <3>4. CASE ShutdownNotify(th)
      BY <3>4 DEF ShutdownNotify, NotifyOne, TypeOK, queueVars
    <3> QED
      BY <2>6, <3>1, <3>2, <3>3, <3>4 DEF Continue
  <2>7. ASSUME NEW th \in Thread, Stop(th)
        PROVE  TypeOK'
    BY <2>7 DEF Stop, TypeOK, ThreadState, queueVars, threadVars, callVars
  <2>8. ASSUME NEW th \in Thread, Shutdown(th)
        PROVE  TypeOK'
    BY <2>8 DEF Shutdown, TypeOK, ThreadState, queueVars, threadVars
  <2>9. ASSUME NEW th \in Thread, NEW e \in Event, StopEvent(th, e)
        PROVE  TypeOK'
    BY <2>9 DEF StopEvent, TypeOK, threadVars, callVars
  <2>10. CASE UNCHANGED vars
    BY <2>10 DEF vars, TypeOK, queueVars, threadVars, callVars
  <2> QED
    BY <2>1, <2>2, <2>3, <2>4, <2>5, <2>6, <2>7, <2>8, <2>9, <2>10, AddEventType, TimeoutType
       DEF Next, ThreadMain, WakeNotified, WakeSpurious
<1> QED
  BY <1>1, <1>2, PTL DEF Spec

(***************************************************************************)
(* The steps preserve the invariant                                        *)
(***************************************************************************)
LEMMA PlacedStep ==
  ASSUME TypeOK, Placed, [Next]_vars
  PROVE  Placed'
<1> USE SchedulerAssumption
<1>1. ASSUME NEW th \in Thread, NEW e \in Event, NEW d \in Delay, AddEvent(th, e, d)
      PROVE  Placed'
  <2>1. fate[e] = "new" /\ UNCHANGED <<pc, inHand>>
    BY <1>1 DEF AddEvent, threadVars
  <2>2. CASE AcceptEvent(th, e, d)
    <3>1. /\ eventList' = eventList \cup {e} /\ fate'[e] = "pending"
          /\ \A f \in Event : f # e => fate'[f] = fate[f]
      BY <2>2 DEF AcceptEvent, TypeOK
    <3> QED
      BY <2>1, <3>1 DEF Placed
  <2>3. CASE RefuseEvent(e)
    <3>1. /\ eventList' = eventList /\ fate'[e] = "refused"
          /\ \A f \in Event : f # e => fate'[f] = fate[f]
      BY <2>3 DEF RefuseEvent, queueVars, TypeOK
    <3> QED
      BY <2>1, <3>1 DEF Placed
  <2> QED
    BY <1>1, <2>2, <2>3 DEF AddEvent
<1>2. CASE Timeout
  <2>1. inHand = NoEvent
    BY <1>2 DEF Timeout, Placed
  <2>2. CASE NothingToTake
    BY <2>1, <2>2 DEF NothingToTake, Placed
  <2>3. ASSUME NEW e \in Top, TakeTop(e)
        PROVE  Placed'
    <3>1. e \in Event /\ e # NoEvent /\ eventList' = eventList \ {e}
      BY <2>3 DEF Top, TypeOK, TakeTop
    <3>2. \/ pc' = "check" /\ inHand' = NoEvent /\ fate' = [fate EXCEPT ![e] = "deleted"]
          \/ pc' = "handing" /\ inHand' = e /\ fate' = [fate EXCEPT ![e] = "taken"]
      BY <2>1, <2>3 DEF TakeTop
    <3>3. /\ fate'[e] = IF inHand' = e THEN "taken" ELSE "deleted"
          /\ \A f \in Event : f # e => fate'[f] = fate[f]
      BY <3>1, <3>2 DEF TypeOK
    <3> QED
      BY <2>1, <3>1, <3>2, <3>3 DEF Placed
  <2> QED
    BY <1>2, <2>2, <2>3 DEF Timeout
<1>3. CASE HandOver
  <2>1. inHand \in Event /\ fate[inHand] = "taken"
    BY <1>3 DEF HandOver, Placed, TypeOK
  <2>2. \A e \in Event : fate'[e] = IF e = inHand THEN "handed" ELSE fate[e]
    BY <1>3, <2>1 DEF HandOver, TypeOK
  <2> QED
    BY <1>3, <2>1, <2>2 DEF HandOver, Placed, queueVars
<1>4. CASE CheckState \/ Wait \/ WakeUp
  <2>1. UNCHANGED <<eventList, inHand, fate>> /\ pc # "handing" /\ pc' # "handing"
    BY <1>4 DEF CheckState, Wait, WakeUp, queueVars
  <2> QED
    BY <2>1 DEF Placed
<1>5. ASSUME NEW th \in Thread, ShutdownClear(th)
      PROVE  Placed'
  <2>1. \A e \in Event : fate'[e] = IF e \in eventList THEN "discarded" ELSE fate[e]
    BY <1>5 DEF ShutdownClear
  <2> QED
    BY <1>5, <2>1 DEF ShutdownClear, Placed, threadVars
<1>6. CASE UNCHANGED <<eventList, inHand, fate, pc>>
  BY <1>6 DEF Placed
<1>7. ASSUME NEW th \in Thread,
             \/ AddEventSignal(th) \/ AddEventReturn(th) \/ ShutdownNotify(th)
             \/ Stop(th) \/ Shutdown(th)
      PROVE  UNCHANGED <<eventList, inHand, fate, pc>>
  BY <1>7 DEF AddEventSignal, AddEventReturn, ShutdownNotify, Stop, Shutdown,
              queueVars, threadVars
<1>8. ASSUME NEW th \in Thread, NEW e \in Event, StopEvent(th, e)
      PROVE  UNCHANGED <<eventList, inHand, fate, pc>>
  BY <1>8 DEF StopEvent, threadVars
<1>9. Tick \/ UNCHANGED vars => UNCHANGED <<eventList, inHand, fate, pc>>
  BY DEF Tick, vars, queueVars, threadVars
<1> QED
  BY <1>1, <1>2, <1>3, <1>4, <1>5, <1>6, <1>7, <1>8, <1>9
     DEF Next, ThreadMain, WakeNotified, WakeSpurious, Continue

(* Which ids are active, and what became of the events that left. *)
Bookkeeping == IdsExact /\ OnlyStoppedAreDeleted

LEMMA AddEventBookkeeping ==
  ASSUME TypeOK, Placed, Bookkeeping, IdsDistinct',
         NEW th \in Thread, NEW e \in Event, NEW d \in Delay, AddEvent(th, e, d)
  PROVE  Bookkeeping'
<1> USE SchedulerAssumption
<1>1. UNCHANGED <<threadState, now, pc, inHand, stopped>> /\ fate[e] = "new"
  BY DEF AddEvent, threadVars
<1>2. e \notin eventList /\ e \notin stopped /\ inHand # e
  BY <1>1 DEF Bookkeeping, Placed, IdsExact
<1>3. CASE AcceptEvent(th, e, d)
  <2>1. NextEventId \in 1 .. MaxEventId
    BY NextIdType DEF TypeOK
  <2>2. /\ eventList' = eventList \cup {e}
        /\ eventIds' = eventIds \cup {NextEventId}
        /\ eventId' \in [Event -> 0 .. MaxEventId]
        /\ eventId'[e] = NextEventId /\ eventId'[e] # 0
        /\ \A f \in Event : f # e => eventId'[f] = eventId[f]
    BY <1>3, <2>1 DEF AcceptEvent, TypeOK
  <2>3. /\ fate'[e] = "pending"
        /\ \A f \in Event : f # e => fate'[f] = fate[f]
    BY <1>3 DEF AcceptEvent, TypeOK
  <2>4. eventList \subseteq Event /\ stopped \subseteq Event
    BY DEF TypeOK
  <2>6. \A f \in eventList : eventId'[f] # NextEventId
    BY <1>2, <2>2, <2>4 DEF IdsDistinct
  <2>7. IdsExact'
    <3>1. \A id \in eventIds' : \E f \in eventList' : eventId'[f] = id
      BY <1>2, <2>2, <2>4 DEF Bookkeeping, IdsExact
    <3>2. \A f \in eventList' :
            eventId'[f] # 0 /\ (eventId'[f] \notin eventIds' <=> f \in stopped')
      BY <1>1, <1>2, <2>2, <2>4, <2>6 DEF Bookkeeping, IdsExact
    <3>3. \A f \in stopped' : fate'[f] \in {"pending", "deleted", "discarded"}
      BY <1>1, <1>2, <2>3, <2>4 DEF Bookkeeping, IdsExact
    <3> QED
      BY <3>1, <3>2, <3>3 DEF IdsExact
  <2>8. OnlyStoppedAreDeleted'
    BY <1>1, <2>3 DEF Bookkeeping, OnlyStoppedAreDeleted
  <2> QED
    BY <2>7, <2>8 DEF Bookkeeping
<1>4. CASE RefuseEvent(e)
  <2>1. UNCHANGED <<eventList, eventId, eventIds>>
    BY <1>4 DEF RefuseEvent, queueVars
  <2>2. /\ fate'[e] = "refused"
        /\ \A f \in Event : f # e => fate'[f] = fate[f]
    BY <1>4 DEF RefuseEvent, TypeOK
  <2>3. eventList \subseteq Event /\ stopped \subseteq Event
    BY DEF TypeOK
  <2>5. IdsExact'
    BY <1>1, <1>2, <2>1, <2>2, <2>3 DEF Bookkeeping, IdsExact
  <2>6. OnlyStoppedAreDeleted'
    BY <1>1, <2>2 DEF Bookkeeping, OnlyStoppedAreDeleted
  <2> QED
    BY <2>5, <2>6 DEF Bookkeeping
<1> QED
  BY <1>3, <1>4 DEF AddEvent

LEMMA StopEventBookkeeping ==
  ASSUME TypeOK, Placed, Bookkeeping, IdsDistinct,
         NEW th \in Thread, NEW e \in Event, StopEvent(th, e)
  PROVE  Bookkeeping'
<1>1. /\ eventId[e] # 0
      /\ eventIds' = eventIds \ {eventId[e]}
      /\ stopped' = IF eventId[e] \in eventIds THEN stopped \cup {e} ELSE stopped
      /\ UNCHANGED <<eventList, eventId, fate, pc, inHand>>
  BY DEF StopEvent, threadVars
<1>2. eventList \subseteq Event /\ stopped \subseteq Event
  BY DEF TypeOK
<1>3. \A f \in eventList : eventId[f] = eventId[e] => f = e
  BY <1>1, <1>2 DEF IdsDistinct
<1>4. eventId[e] \in eventIds => e \in eventList
  BY <1>3 DEF Bookkeeping, IdsExact
<1>6. IdsExact'
  <2>1. \A id \in eventIds' : \E f \in eventList' : eventId'[f] = id
    BY <1>1 DEF Bookkeeping, IdsExact
  <2>2. \A f \in eventList' :
          eventId'[f] # 0 /\ (eventId'[f] \notin eventIds' <=> f \in stopped')
    BY <1>1, <1>3 DEF Bookkeeping, IdsExact
  <2>3. \A f \in stopped' : fate'[f] \in {"pending", "deleted", "discarded"}
    BY <1>1, <1>4 DEF Bookkeeping, IdsExact, Placed
  <2> QED
    BY <2>1, <2>2, <2>3 DEF IdsExact
<1>7. OnlyStoppedAreDeleted'
  BY <1>1 DEF Bookkeeping, OnlyStoppedAreDeleted
<1> QED
  BY <1>6, <1>7 DEF Bookkeeping

LEMMA TimeoutBookkeeping ==
  ASSUME TypeOK, Placed, Bookkeeping, IdsDistinct, Timeout
  PROVE  Bookkeeping'
<1> USE SchedulerAssumption
<1>1. pc = "waiting" /\ UNCHANGED <<eventId, stopped>>
  BY DEF Timeout
<1>2. inHand = NoEvent
  BY <1>1 DEF Bookkeeping, Placed
<1>3. eventList \subseteq Event /\ stopped \subseteq Event
  BY DEF TypeOK
<1>4. CASE NothingToTake
  BY <1>1, <1>2, <1>4 DEF NothingToTake, Bookkeeping, Placed, IdsExact, OnlyStoppedAreDeleted
<1>5. ASSUME NEW e \in Top, TakeTop(e)
      PROVE  Bookkeeping'
  <2>1. e \in eventList /\ e \in Event /\ e # NoEvent /\ fate[e] = "pending"
    BY <1>3 DEF Top, Bookkeeping, Placed
  <2>2. \A f \in eventList : f # e => eventId[f] # eventId[e]
    BY <1>3, <2>1 DEF IdsDistinct, Bookkeeping, IdsExact
  <2>3. eventList' = eventList \ {e} /\ eventIds' = eventIds \ {eventId[e]}
    BY <1>5 DEF TakeTop
  <2>4. eventId[e] \notin eventIds <=> e \in stopped
    BY <2>1 DEF Bookkeeping, IdsExact
  <2>5. /\ fate'[e] = IF e \in stopped THEN "deleted" ELSE "taken"
        /\ \A f \in Event : f # e => fate'[f] = fate[f]
        /\ inHand' = IF e \in stopped THEN NoEvent ELSE e
        /\ pc' = IF e \in stopped THEN "check" ELSE "handing"
    <3>1. CASE e \in stopped
      BY <1>2, <1>5, <2>1, <2>4, <3>1 DEF TakeTop, TypeOK
    <3>2. CASE e \notin stopped
      BY <1>5, <2>1, <2>4, <3>2 DEF TakeTop, TypeOK
    <3> QED
      BY <3>1, <3>2
  <2>7. IdsExact'
    <3>1. \A id \in eventIds' : \E f \in eventList' : eventId'[f] = id
      BY <1>1, <2>3 DEF Bookkeeping, IdsExact
    <3>2. \A f \in eventList' :
            eventId'[f] # 0 /\ (eventId'[f] \notin eventIds' <=> f \in stopped')
      BY <1>1, <2>2, <2>3 DEF Bookkeeping, IdsExact
    <3>3. \A f \in stopped' : fate'[f] \in {"pending", "deleted", "discarded"}
      BY <1>1, <1>3, <2>5 DEF Bookkeeping, IdsExact
    <3> QED
      BY <3>1, <3>2, <3>3 DEF IdsExact
  <2>8. OnlyStoppedAreDeleted'
    BY <1>1, <2>5 DEF Bookkeeping, OnlyStoppedAreDeleted
  <2> QED
    BY <2>7, <2>8 DEF Bookkeeping
<1> QED
  BY <1>4, <1>5 DEF Timeout

LEMMA ClearBookkeeping ==
  ASSUME TypeOK, Placed, Bookkeeping, NEW th \in Thread, ShutdownClear(th)
  PROVE  Bookkeeping'
<1>1. /\ eventList' = {} /\ eventIds' = {}
      /\ \A e \in Event : fate'[e] = IF e \in eventList THEN "discarded" ELSE fate[e]
      /\ UNCHANGED <<eventId, pc, inHand, stopped>>
  BY DEF ShutdownClear, threadVars
<1>2. stopped \subseteq Event
  BY DEF TypeOK
<1>4. IdsExact'
  BY <1>1, <1>2 DEF Bookkeeping, Placed, IdsExact
<1>5. OnlyStoppedAreDeleted'
  BY <1>1 DEF Bookkeeping, OnlyStoppedAreDeleted
<1> QED
  BY <1>4, <1>5 DEF Bookkeeping

LEMMA HandOverBookkeeping ==
  ASSUME TypeOK, Placed, Bookkeeping, HandOver
  PROVE  Bookkeeping'
<1> USE SchedulerAssumption
<1>1. /\ pc = "handing" /\ pc' = "check" /\ inHand' = NoEvent
      /\ fate' = [fate EXCEPT ![inHand] = "handed"]
      /\ UNCHANGED <<eventList, eventId, eventIds, stopped>>
  BY DEF HandOver, queueVars
<1>2. inHand \in Event /\ fate[inHand] = "taken"
  BY <1>1 DEF Bookkeeping, Placed, TypeOK
<1>3. /\ fate'[inHand] = "handed"
      /\ \A e \in Event : e # inHand => fate'[e] = fate[e]
  BY <1>1, <1>2 DEF TypeOK
<1>4. eventList \subseteq Event /\ stopped \subseteq Event
  BY DEF TypeOK
<1>6. IdsExact'
  BY <1>1, <1>2, <1>3, <1>4 DEF Bookkeeping, Placed, IdsExact
<1>7. OnlyStoppedAreDeleted'
  BY <1>1, <1>3 DEF Bookkeeping, OnlyStoppedAreDeleted
<1> QED
  BY <1>6, <1>7 DEF Bookkeeping

(* The other steps move no event. *)
LEMMA StillBookkeeping ==
  ASSUME Bookkeeping, UNCHANGED <<eventList, eventId, eventIds, fate, stopped>>
  PROVE  Bookkeeping'
BY DEF Bookkeeping, IdsExact, OnlyStoppedAreDeleted

(***************************************************************************)
(* The clock and the thread's sleep                                        *)
(***************************************************************************)
(* What the thread waits for, and what it hands over. *)
Punctual == ShutdownSetsState /\ DeadlineIsListed /\ NeverOversleeps /\ NeverEarly

LEMMA AddEventPunctual ==
  ASSUME TypeOK, Placed, Punctual,
         NEW th \in Thread, NEW e \in Event, NEW d \in Delay, AddEvent(th, e, d)
  PROVE  Punctual'
<1> USE SchedulerAssumption
<1>1. /\ UNCHANGED <<threadState, now, pc, deadline, signalled>>
      /\ fate[e] = "new" /\ call[th] = "idle"
  BY DEF AddEvent, threadVars
<1>2. e \notin eventList /\ eventList \subseteq Event /\ now \in Nat /\ now + d \in Nat
  BY <1>1 DEF Placed, TypeOK
<1>3. CASE AcceptEvent(th, e, d)
  <2>1. /\ eventList' = eventList \cup {e} /\ threadState = "RUNNING"
        /\ cycle'[e] = now + d
        /\ \A f \in Event : f # e => cycle'[f] = cycle[f]
        /\ fate'[e] = "pending"
        /\ \A f \in Event : f # e => fate'[f] = fate[f]
    BY <1>3 DEF AcceptEvent, TypeOK
  <2>2. /\ call'[th] = IF \A f \in eventList : now + d < cycle[f] THEN "signal" ELSE "return"
        /\ \A other \in Thread : other # th => call'[other] = call[other]
    BY <1>3 DEF AcceptEvent, TypeOK
  <2>3. ShutdownSetsState'
    BY <1>1, <2>2 DEF Punctual, ShutdownSetsState
  <2>4. DeadlineIsListed'
    BY <1>1, <1>2, <2>1 DEF Punctual, DeadlineIsListed
  <2>5. NeverEarly'
    BY <1>1, <2>1 DEF Punctual, NeverEarly
  <2>6. NeverOversleeps'
    <3> SUFFICES ASSUME pc = "waiting", ~signalled,
                        \A other \in Thread : call'[other] # "signal"
                 PROVE  \A f \in eventList' : deadline # NoDeadline /\ deadline <= cycle'[f]
      BY <1>1 DEF NeverOversleeps
    <3>1. \A other \in Thread : call[other] # "signal"
      BY <1>1, <2>2
    <3>2. \A f \in eventList : deadline # NoDeadline /\ deadline <= cycle[f]
      BY <3>1 DEF Punctual, NeverOversleeps
    <3>3. PICK f \in eventList : ~(now + d < cycle[f])
      BY <2>2
    <3>4. deadline \in Nat /\ cycle[f] \in Nat /\ deadline <= cycle[f]
      BY <1>2, <3>2, <3>3 DEF TypeOK
    <3>5. deadline <= cycle'[e]
      BY <1>2, <2>1, <3>3, <3>4
    <3> QED
      BY <1>2, <2>1, <3>2, <3>4, <3>5
  <2> QED
    BY <2>3, <2>4, <2>5, <2>6 DEF Punctual
<1>4. CASE RefuseEvent(e)
  <2>1. /\ UNCHANGED <<eventList, cycle, call>>
        /\ fate'[e] = "refused"
        /\ \A f \in Event : f # e => fate'[f] = fate[f]
    BY <1>4 DEF RefuseEvent, queueVars, callVars, TypeOK
  <2> QED
    BY <1>1, <1>2, <2>1
       DEF Punctual, ShutdownSetsState, DeadlineIsListed, NeverOversleeps, NeverEarly
<1> QED
  BY <1>3, <1>4 DEF AddEvent

LEMMA TickPunctual ==
  ASSUME TypeOK, Punctual, Tick
  PROVE  Punctual'
<1>1. /\ now' = now + 1
      /\ UNCHANGED <<threadState, eventList, cycle, pc, deadline, signalled, call, fate>>
  BY DEF Tick, queueVars, threadVars, callVars
<1>2. NeverEarly'
  BY <1>1 DEF Punctual, NeverEarly, TypeOK
<1> QED
  BY <1>1, <1>2 DEF Punctual, ShutdownSetsState, DeadlineIsListed, NeverOversleeps

LEMMA TimeoutPunctual ==
  ASSUME TypeOK, Punctual, Timeout
  PROVE  Punctual'
<1> USE SchedulerAssumption
<1>1. /\ pc = "waiting" /\ deadline # NoDeadline /\ deadline <= now
      /\ deadline' = NoDeadline
      /\ UNCHANGED <<threadState, now, cycle, call>>
  BY DEF Timeout, DeadlinePassed, callVars
<1>2. pc' # "waiting"
  BY DEF Timeout, TakeTop, NothingToTake
<1>3. NeverEarly'
  <2>1. CASE NothingToTake
    BY <1>1, <2>1 DEF NothingToTake, Punctual, NeverEarly
  <2>2. ASSUME NEW e \in Top, TakeTop(e)
        PROVE  NeverEarly'
    <3>1. e \in eventList /\ e \in Event /\ eventList \subseteq Event
      BY DEF Top, TypeOK
    <3>2. PICK f \in eventList : cycle[f] <= deadline
      BY <1>1, <3>1 DEF Punctual, DeadlineIsListed
    <3>3. cycle[e] <= cycle[f] /\ cycle[e] \in Nat /\ cycle[f] \in Nat
          /\ deadline \in Nat /\ now \in Nat
      BY <1>1, <3>1 DEF Top, TypeOK
    <3>4. cycle[e] <= now
      BY <1>1, <3>2, <3>3
    <3>5. \A g \in Event : g # e => fate'[g] = fate[g]
      BY <2>2, <3>1 DEF TakeTop, TypeOK
    <3> QED
      BY <1>1, <3>4, <3>5 DEF Punctual, NeverEarly
  <2> QED
    BY <2>1, <2>2 DEF Timeout
<1> QED
  BY <1>1, <1>2, <1>3 DEF Punctual, ShutdownSetsState, DeadlineIsListed, NeverOversleeps

LEMMA WaitPunctual ==
  ASSUME TypeOK, Punctual, Wait
  PROVE  Punctual'
<1> USE SchedulerAssumption
<1>1. UNCHANGED <<threadState, now, eventList, cycle, signalled, call, fate>>
  BY DEF Wait, queueVars, callVars
<1>2. eventList \subseteq Event /\ cycle \in [Event -> Nat]
  BY DEF TypeOK
<1>3. CASE eventList = {}
  BY <1>1, <1>3
     DEF Wait, Punctual, ShutdownSetsState, DeadlineIsListed, NeverOversleeps, NeverEarly
<1>4. CASE eventList # {}
  <2>1. PICK e \in Top : deadline' = cycle[e]
    BY <1>4 DEF Wait
  <2>2. e \in eventList /\ cycle[e] \in Nat /\ \A f \in eventList : cycle[e] <= cycle[f]
    BY <1>2, <2>1 DEF Top
  <2>3. deadline' # NoDeadline /\ cycle[e] <= deadline'
    BY <2>1, <2>2
  <2>4. DeadlineIsListed' /\ NeverOversleeps'
    BY <1>1, <2>1, <2>2, <2>3 DEF DeadlineIsListed, NeverOversleeps
  <2> QED
    BY <1>1, <2>4 DEF Punctual, ShutdownSetsState, NeverEarly
<1> QED
  BY <1>3, <1>4

LEMMA CallerPunctual ==
  ASSUME TypeOK, Placed, Punctual, NEW th \in Thread,
         Continue(th) \/ Stop(th) \/ Shutdown(th)
  PROVE  Punctual'
<1>1. CASE AddEventSignal(th)
  <2>1. /\ UNCHANGED <<threadState, now, eventList, cycle, pc, deadline, fate>>
        /\ signalled' = (signalled \/ pc = "waiting")
        /\ \A other \in Thread : call'[other] = IF other = th THEN "return" ELSE call[other]
    BY <1>1 DEF AddEventSignal, NotifyOne, queueVars, TypeOK
  <2> QED
    BY <2>1 DEF Punctual, ShutdownSetsState, DeadlineIsListed, NeverOversleeps, NeverEarly
<1>2. CASE AddEventReturn(th)
  <2>1. /\ UNCHANGED <<threadState, now, eventList, cycle, pc, deadline, signalled, fate>>
        /\ call[th] = "return"
        /\ \A other \in Thread : call'[other] = IF other = th THEN "idle" ELSE call[other]
    BY <1>2 DEF AddEventReturn, queueVars, threadVars, TypeOK
  <2> QED
    BY <2>1 DEF Punctual, ShutdownSetsState, DeadlineIsListed, NeverOversleeps, NeverEarly
<1>3. CASE ShutdownClear(th)
  <2>1. /\ UNCHANGED <<threadState, now, cycle, pc, deadline, signalled>>
        /\ call[th] = "clear" /\ eventList' = {}
        /\ \A other \in Thread : call'[other] = IF other = th THEN "notify" ELSE call[other]
        /\ \A e \in Event : fate'[e] = IF e \in eventList THEN "discarded" ELSE fate[e]
    BY <1>3 DEF ShutdownClear, threadVars, TypeOK
  <2>2. threadState = "TERMINATED"
    BY <2>1 DEF Punctual, ShutdownSetsState
  <2> QED
    BY <2>1, <2>2 DEF Punctual, ShutdownSetsState, DeadlineIsListed, NeverOversleeps, NeverEarly
<1>4. CASE ShutdownNotify(th)
  <2>1. /\ UNCHANGED <<threadState, now, eventList, cycle, pc, deadline, fate>>
        /\ signalled' = (signalled \/ pc = "waiting")
        /\ \A other \in Thread : call'[other] = IF other = th THEN "idle" ELSE call[other]
    BY <1>4 DEF ShutdownNotify, NotifyOne, queueVars, TypeOK
  <2> QED
    BY <2>1 DEF Punctual, ShutdownSetsState, DeadlineIsListed, NeverOversleeps, NeverEarly
<1>5. CASE Stop(th)
  <2>1. /\ UNCHANGED <<now, eventList, cycle, pc, deadline, signalled, call, fate>>
        /\ threadState = "RUNNING"
    BY <1>5 DEF Stop, queueVars, threadVars, callVars
  <2> QED
    BY <2>1 DEF Punctual, ShutdownSetsState, DeadlineIsListed, NeverOversleeps, NeverEarly
<1>6. CASE Shutdown(th)
  <2>1. /\ UNCHANGED <<now, eventList, cycle, pc, deadline, signalled, fate>>
        /\ threadState' = "TERMINATED" /\ call[th] = "idle"
        /\ \A other \in Thread : call'[other] = IF other = th THEN "clear" ELSE call[other]
    BY <1>6 DEF Shutdown, queueVars, threadVars, TypeOK
  <2> QED
    BY <2>1 DEF Punctual, ShutdownSetsState, DeadlineIsListed, NeverOversleeps, NeverEarly
<1> QED
  BY <1>1, <1>2, <1>3, <1>4, <1>5, <1>6 DEF Continue

LEMMA ThreadPunctual ==
  ASSUME TypeOK, Placed, Punctual, CheckState \/ WakeUp \/ HandOver
  PROVE  Punctual'
<1>1. UNCHANGED <<threadState, now, eventList, cycle, call>>
  BY DEF CheckState, WakeUp, HandOver, queueVars, callVars
<1>2. pc' # "waiting"
  BY DEF CheckState, WakeUp, HandOver
<1>3. NeverEarly'
  <2>1. CASE CheckState \/ WakeUp
    BY <1>1, <2>1 DEF CheckState, WakeUp, Punctual, NeverEarly
  <2>2. CASE HandOver
    <3>1. inHand \in Event /\ fate[inHand] = "taken"
      BY <2>2 DEF HandOver, Placed, TypeOK
    <3>2. \A e \in Event : fate'[e] = IF e = inHand THEN "handed" ELSE fate[e]
      BY <2>2, <3>1 DEF HandOver, TypeOK
    <3> QED
      BY <1>1, <3>1, <3>2 DEF Punctual, NeverEarly
  <2> QED
    BY <2>1, <2>2
<1> QED
  BY <1>1, <1>2, <1>3 DEF Punctual, ShutdownSetsState, DeadlineIsListed, NeverOversleeps

(***************************************************************************)
(* The theorems                                                            *)
(***************************************************************************)
LEMMA PunctualStep ==
  ASSUME TypeOK, Placed, Punctual, [Next]_vars
  PROVE  Punctual'
<1>1. ASSUME NEW th \in Thread, NEW e \in Event, StopEvent(th, e)
      PROVE  Punctual'
  BY <1>1 DEF StopEvent, threadVars, callVars, Punctual, ShutdownSetsState,
              DeadlineIsListed, NeverOversleeps, NeverEarly
<1>2. CASE UNCHANGED vars
  BY <1>2 DEF vars, queueVars, threadVars, callVars, Punctual, ShutdownSetsState,
              DeadlineIsListed, NeverOversleeps, NeverEarly
<1> QED
  BY <1>1, <1>2, AddEventPunctual, TickPunctual, TimeoutPunctual, WaitPunctual,
     CallerPunctual, ThreadPunctual
     DEF Next, ThreadMain, WakeNotified, WakeSpurious

LEMMA BookkeepingStep ==
  ASSUME TypeOK, Placed, Bookkeeping, IdsDistinct, IdsDistinct', [Next]_vars
  PROVE  Bookkeeping'
<1>1. CASE UNCHANGED <<eventList, eventId, eventIds, fate, stopped>>
  BY <1>1, StillBookkeeping
<1>2. CheckState \/ Wait \/ WakeUp \/ Tick \/ UNCHANGED vars =>
        UNCHANGED <<eventList, eventId, eventIds, fate, stopped>>
  BY DEF CheckState, Wait, WakeUp, Tick, vars, queueVars
<1>3. ASSUME NEW th \in Thread,
             \/ AddEventSignal(th) \/ AddEventReturn(th) \/ ShutdownNotify(th)
             \/ Stop(th) \/ Shutdown(th)
      PROVE  UNCHANGED <<eventList, eventId, eventIds, fate, stopped>>
  BY <1>3 DEF AddEventSignal, AddEventReturn, ShutdownNotify, Stop, Shutdown, queueVars
<1> QED
  BY <1>1, <1>2, <1>3, AddEventBookkeeping, StopEventBookkeeping, TimeoutBookkeeping,
     ClearBookkeeping, HandOverBookkeeping
     DEF Next, ThreadMain, WakeNotified, WakeSpurious, Continue

LEMMA InitInvariant ==
  ASSUME Init
  PROVE  Placed /\ Punctual /\ Bookkeeping
<1> USE SchedulerAssumption
<1>1. Placed
  BY DEF Init, Placed
<1>2. Punctual
  BY DEF Init, Punctual, ShutdownSetsState, DeadlineIsListed, NeverOversleeps, NeverEarly
<1>3. Bookkeeping
  BY DEF Init, Bookkeeping, IdsExact, OnlyStoppedAreDeleted
<1> QED
  BY <1>1, <1>2, <1>3

(* The thread never sleeps past the earliest pending event unless somebody is  *)
(* about to wake it (addEvent's doSignal, scheduler.cpp:84).                   *)
THEOREM ThreadNeverOversleeps == Spec => []NeverOversleeps
<1>1. TypeOK /\ Placed /\ Punctual /\ [Next]_vars => Placed' /\ Punctual'
  BY PlacedStep, PunctualStep
<1>2. Punctual => NeverOversleeps
  BY DEF Punctual
<1> QED
  BY <1>1, <1>2, InitInvariant, TypeCorrect, PTL DEF Spec

(* No event reaches the dispatcher before its cycle, whatever the deadline the *)
(* thread had gone to sleep with (threadMain, scheduler.cpp:38-54).            *)
THEOREM EventsAreNeverEarly == Spec => []NeverEarly
<1>1. TypeOK /\ Placed /\ Punctual /\ [Next]_vars => Placed' /\ Punctual'
  BY PlacedStep, PunctualStep
<1>2. Punctual => NeverEarly
  BY DEF Punctual
<1> QED
  BY <1>1, <1>2, InitInvariant, TypeCorrect, PTL DEF Spec

(* While no two events in use share an id, an event whose stopEvent returned   *)
(* true is never handed to the dispatcher, nothing else is deleted by the      *)
(* thread, and the active ids are those of queued events.                      *)
THEOREM StoppingIsExact ==
  Spec /\ []IdsDistinct => [](StoppedNeverFires /\ OnlyStoppedAreDeleted /\ ActiveIdsAreQueued)
<1>1. TypeOK /\ Placed /\ [Next]_vars => Placed'
  BY PlacedStep
<1>2. /\ TypeOK /\ Placed /\ Bookkeeping /\ IdsDistinct
      /\ IdsDistinct' /\ [Next]_vars
      => Bookkeeping'
  BY BookkeepingStep
<1>3. Placed /\ Bookkeeping => StoppedNeverFires /\ OnlyStoppedAreDeleted /\ ActiveIdsAreQueued
  BY DEF Placed, Bookkeeping, IdsExact, StoppedNeverFires, ActiveIdsAreQueued
<1> QED
  BY <1>1, <1>2, <1>3, InitInvariant, TypeCorrect, PTL DEF Spec

(***************************************************************************)
(* The scheduler implements the timer service                              *)
(***************************************************************************)
LEMMA StatusChange ==
  ASSUME NEW e \in Event, NEW s, Status'[e] = s,
         \A f \in Event : f # e => Status'[f] = Status[f]
  PROVE  Status' = [Status EXCEPT ![e] = s]
<1>1. Status = [f \in Event |-> Status[f]] /\ Status' = [f \in Event |-> Status'[f]]
  BY DEF Status
<1>2. ASSUME NEW F, NEW G, F = [f \in Event |-> F[f]], G = [f \in Event |-> G[f]],
             G[e] = s, \A f \in Event : f # e => G[f] = F[f]
      PROVE  G = [F EXCEPT ![e] = s]
  BY <1>2
<1> QED
  BY <1>1, <1>2

LEMMA StillTimers ==
  ASSUME UNCHANGED <<threadState, now, cycle, fate, stopped>>
  PROVE  UNCHANGED Timers!vars
BY DEF Timers!vars, Status, Open

LEMMA AddEventTimers ==
  ASSUME TypeOK, Placed, Bookkeeping,
         NEW th \in Thread, NEW e \in Event, NEW d \in Delay, AddEvent(th, e, d)
  PROVE  Timers!Arm(e) \/ Timers!Reject(e)
<1>1. fate[e] = "new" /\ UNCHANGED <<threadState, now, stopped>>
  BY DEF AddEvent
<1>2. e \notin stopped
  BY <1>1 DEF Bookkeeping, IdsExact
<1>3. CASE AcceptEvent(th, e, d)
  <2>1. /\ fate'[e] = "pending" /\ \A f \in Event : f # e => fate'[f] = fate[f]
        /\ cycle' = [cycle EXCEPT ![e] = now + d]
        /\ threadState = "RUNNING"
    BY <1>3 DEF AcceptEvent, TypeOK
  <2>2. /\ Status[e] = "idle" /\ Status'[e] = "armed"
        /\ \A f \in Event : f # e => Status'[f] = Status[f]
    BY <1>1, <1>2, <2>1 DEF Status, Meaning
  <2>3. Open /\ Open' = Open
    BY <1>1, <2>1 DEF Open
  <2> QED
    BY <1>1, <2>1, <2>2, <2>3, StatusChange DEF Timers!Arm, Timers!Become
<1>4. CASE RefuseEvent(e)
  <2>1. /\ fate'[e] = "refused" /\ \A f \in Event : f # e => fate'[f] = fate[f]
        /\ cycle' = cycle /\ threadState # "RUNNING"
    BY <1>4 DEF RefuseEvent, queueVars, TypeOK
  <2>2. /\ Status[e] = "idle" /\ Status'[e] = "discarded"
        /\ \A f \in Event : f # e => Status'[f] = Status[f]
    BY <1>1, <1>2, <2>1 DEF Status, Meaning
  <2>3. ~Open /\ Open' = Open
    BY <1>1, <2>1 DEF Open
  <2> QED
    BY <1>1, <2>1, <2>2, <2>3, StatusChange DEF Timers!Reject, Timers!Become
<1> QED
  BY <1>3, <1>4 DEF AddEvent

LEMMA StopEventTimers ==
  ASSUME TypeOK, Placed, Bookkeeping, IdsDistinct,
         NEW th \in Thread, NEW e \in Event, StopEvent(th, e)
  PROVE  Timers!Cancel(e) \/ UNCHANGED Timers!vars
<1>1. /\ eventId[e] # 0
      /\ UNCHANGED <<threadState, now, cycle, fate>>
  BY DEF StopEvent
<1>2. CASE eventId[e] \notin eventIds
  BY <1>1, <1>2, StillTimers DEF StopEvent
<1>3. CASE eventId[e] \in eventIds
  <2>1. e \in eventList
    BY <1>1, <1>3 DEF Bookkeeping, IdsExact, IdsDistinct, TypeOK
  <2>2. e \notin stopped /\ fate[e] = "pending" /\ stopped' = stopped \cup {e}
    BY <1>3, <2>1 DEF Bookkeeping, IdsExact, Placed, StopEvent
  <2>3. /\ Status[e] = "armed" /\ Status'[e] = "stopped"
        /\ \A f \in Event : f # e => Status'[f] = Status[f]
    BY <1>1, <2>2 DEF Status, Meaning
  <2>4. Open' = Open
    BY <1>1 DEF Open
  <2> QED
    BY <1>1, <2>3, <2>4, StatusChange DEF Timers!Cancel, Timers!Become
<1> QED
  BY <1>2, <1>3

LEMMA TimeoutTimers ==
  ASSUME TypeOK, Placed, Bookkeeping, Punctual, Timeout
  PROVE  (\E e \in Event : Timers!Fire(e)) \/ UNCHANGED Timers!vars
<1>1. UNCHANGED <<threadState, now, cycle, stopped>>
  BY DEF Timeout
<1>2. CASE NothingToTake
  BY <1>1, <1>2, StillTimers DEF NothingToTake
<1>3. ASSUME NEW e \in Top, TakeTop(e)
      PROVE  Timers!Fire(e) \/ UNCHANGED Timers!vars
  <2>1. e \in eventList /\ e \in Event /\ fate[e] = "pending"
    BY DEF Top, Placed, TypeOK
  <2>2. eventId[e] \notin eventIds <=> e \in stopped
    BY <2>1 DEF Bookkeeping, IdsExact
  <2>3. \A f \in Event : f # e => fate'[f] = fate[f]
    BY <1>3, <2>1 DEF TakeTop, TypeOK
  <2>4. CASE e \in stopped
    <3>1. fate'[e] = "deleted"
      BY <1>3, <2>1, <2>2, <2>4 DEF TakeTop, TypeOK
    <3>2. Status' = Status
      BY <1>1, <2>1, <2>3, <2>4, <3>1 DEF Status, Meaning
    <3> QED
      BY <1>1, <3>2 DEF Timers!vars, Open
  <2>5. CASE e \notin stopped
    <3>1. fate'[e] = "taken"
      BY <1>3, <2>1, <2>2, <2>5 DEF TakeTop, TypeOK
    <3>2. cycle[e] <= now
      BY <1>1, <2>1, <3>1, TimeoutPunctual DEF Punctual, NeverEarly
    <3>3. /\ Status[e] = "armed" /\ Status'[e] = "fired"
          /\ \A f \in Event : f # e => Status'[f] = Status[f]
      BY <1>1, <2>1, <2>3, <2>5, <3>1 DEF Status, Meaning
    <3>4. Open' = Open
      BY <1>1 DEF Open
    <3> QED
      BY <1>1, <2>1, <3>2, <3>3, <3>4, StatusChange DEF Timers!Fire, Timers!Become
  <2> QED
    BY <2>4, <2>5
<1> QED
  BY <1>2, <1>3 DEF Timeout, Top, TypeOK

LEMMA HandOverTimers ==
  ASSUME TypeOK, Placed, HandOver
  PROVE  UNCHANGED Timers!vars
<1>1. inHand \in Event /\ fate[inHand] = "taken"
  BY DEF HandOver, Placed, TypeOK
<1>2. /\ fate'[inHand] = "handed" /\ \A f \in Event : f # inHand => fate'[f] = fate[f]
      /\ UNCHANGED <<threadState, now, cycle, stopped>>
  BY <1>1 DEF HandOver, queueVars, TypeOK
<1>3. Status' = Status
  BY <1>1, <1>2 DEF Status, Meaning
<1> QED
  BY <1>2, <1>3 DEF Timers!vars, Open

LEMMA ClearTimers ==
  ASSUME TypeOK, Placed, Punctual, NEW th \in Thread, ShutdownClear(th)
  PROVE  Timers!Discard
<1>1. /\ call[th] = "clear" /\ UNCHANGED <<threadState, now, cycle, stopped>>
      /\ \A e \in Event : fate'[e] = IF fate[e] = "pending" THEN "discarded" ELSE fate[e]
  BY DEF ShutdownClear, Placed
<1>2. ~Open /\ Open' = Open
  BY <1>1 DEF Punctual, ShutdownSetsState, Open
<1>3. \A e \in Event : Status'[e] = IF Status[e] = "armed" THEN "discarded" ELSE Status[e]
  <2> SUFFICES ASSUME NEW e \in Event
               PROVE  Status'[e] = IF Status[e] = "armed" THEN "discarded" ELSE Status[e]
    OBVIOUS
  <2>1. fate[e] \in Fate
    BY DEF TypeOK
  <2> QED
    BY <1>1, <2>1 DEF Status, Meaning, Fate
<1>4. Status' = [e \in Event |-> Status'[e]]
  BY DEF Status
<1>5. Status' = [e \in Event |-> IF Status[e] = "armed" THEN "discarded" ELSE Status[e]]
  BY <1>3, <1>4
<1> QED
  BY <1>1, <1>2, <1>5 DEF Timers!Discard

(* Every step of the scheduler is a step of the timer service or none. *)
LEMMA NextTimers ==
  ASSUME TypeOK, Placed, Bookkeeping, Punctual, IdsDistinct, [Next]_vars
  PROVE  [Timers!Next]_(Timers!vars)
<1>1. CASE Tick
  <2>1. Status' = Status /\ Open' = Open
    BY <1>1 DEF Tick, Status, Open
  <2> QED
    BY <1>1, <2>1 DEF Tick, queueVars, Timers!Pass, Timers!Next
<1>2. ASSUME NEW th \in Thread, Stop(th) \/ Shutdown(th)
      PROVE  Timers!Close
  <2>1. threadState' # "RUNNING" /\ UNCHANGED <<now, cycle, fate, stopped>>
    BY <1>2 DEF Stop, Shutdown, queueVars
  <2> QED
    BY <2>1 DEF Timers!Close, Status, Open
<1>3. CheckState \/ Wait \/ WakeUp \/ UNCHANGED vars => UNCHANGED Timers!vars
  BY StillTimers DEF CheckState, Wait, WakeUp, vars, queueVars
<1>4. ASSUME NEW th \in Thread,
             AddEventSignal(th) \/ AddEventReturn(th) \/ ShutdownNotify(th)
      PROVE  UNCHANGED Timers!vars
  BY <1>4, StillTimers DEF AddEventSignal, AddEventReturn, ShutdownNotify, queueVars
<1> QED
  BY <1>1, <1>2, <1>3, <1>4, AddEventTimers, StopEventTimers, TimeoutTimers,
     HandOverTimers, ClearTimers
     DEF Next, ThreadMain, WakeNotified, WakeSpurious, Continue, Timers!Next

(* While no two events in use share an id, the scheduler fires an armed event  *)
(* at most once, never before it is due and never after a stopEvent that       *)
(* returned true: it implements TimerService.                                  *)
THEOREM ImplementsTimerService == Spec /\ []IdsDistinct => TimerServiceSpec
<1>1. Init => Timers!Init
  BY DEF Init, Timers!Init, Status, Meaning, Open
<1>2. TypeOK /\ Placed /\ Punctual /\ [Next]_vars => Placed' /\ Punctual'
  BY PlacedStep, PunctualStep
<1>3. /\ TypeOK /\ Placed /\ Bookkeeping /\ IdsDistinct
      /\ IdsDistinct' /\ [Next]_vars
      => Bookkeeping'
  BY BookkeepingStep
<1>4. TypeOK /\ Placed /\ Bookkeeping /\ Punctual /\ IdsDistinct /\ [Next]_vars
      => [Timers!Next]_(Timers!vars)
  BY NextTimers
<1> QED
  BY <1>1, <1>2, <1>3, <1>4, InitInvariant, TypeCorrect, PTL
     DEF Spec, TimerServiceSpec, Timers!Spec

(***************************************************************************)
(* Ids, when there are no more events than ids                             *)
(***************************************************************************)
FewEvents == IsFiniteSet(Event) /\ Cardinality(Event) <= MaxEventId

Used == {e \in Event : eventId[e] # 0}

(* How many ids were given out after id, the counter wrapping around. *)
Age(id) == IF id <= lastEventId THEN lastEventId - id ELSE lastEventId + MaxEventId - id

(* The ids in use are the last ones given out: the next one is not among them. *)
Recent ==
  /\ \A e \in Event : fate[e] = "new" => eventId[e] = 0
  /\ \A e \in Used : Age(eventId[e]) < Cardinality(Used)
  /\ IdsDistinct

(* The next id is the oldest one, and it makes every other one older by one. *)
LEMMA NextIdAge ==
  ASSUME lastEventId \in 0 .. MaxEventId, lastEventId' = NextEventId, NEW id \in 1 .. MaxEventId
  PROVE  /\ id = NextEventId => Age(id) = MaxEventId - 1 /\ Age(id)' = 0
         /\ id # NextEventId => Age(id)' = Age(id) + 1
BY SchedulerAssumption DEF NextEventId, Age

LEMMA UsedIsFinite ==
  ASSUME FewEvents
  PROVE  IsFiniteSet(Used) /\ Cardinality(Used) \in Nat
BY FS_Subset, FS_CardinalityType DEF FewEvents, Used

LEMMA AcceptRecent ==
  ASSUME FewEvents, TypeOK, Recent, NEW th \in Thread, NEW e \in Event, NEW d \in Delay,
         fate[e] = "new", AcceptEvent(th, e, d)
  PROVE  Recent'
<1> USE SchedulerAssumption
<1> DEFINE n == Cardinality(Used)
<1>1. e \notin Used
  BY DEF Recent, Used
<1>2. NextEventId \in 1 .. MaxEventId
  BY NextIdType DEF TypeOK
<1>3. /\ lastEventId' = NextEventId
      /\ \A f \in Event : eventId'[f] = IF f = e THEN NextEventId ELSE eventId[f]
      /\ \A f \in Event : fate'[f] = IF f = e THEN "pending" ELSE fate[f]
  BY DEF AcceptEvent, TypeOK
<1>4. Used' = Used \cup {e}
  BY <1>2, <1>3 DEF Used
<1>5. n \in Nat /\ Cardinality(Used') = n + 1
  BY <1>1, <1>4, UsedIsFinite, FS_AddElement
<1>6. n + 1 <= MaxEventId
  <2>1. Used \cup {e} \in SUBSET Event
    BY DEF Used
  <2>2. Cardinality(Used \cup {e}) <= Cardinality(Event)
    BY <2>1, FS_Subset DEF FewEvents
  <2>3. Cardinality(Event) \in Nat
    BY FS_CardinalityType DEF FewEvents
  <2> QED
    BY <1>4, <1>5, <2>2, <2>3 DEF FewEvents
<1>7. ASSUME NEW f \in Used
      PROVE  /\ f \in Event /\ f # e /\ eventId[f] \in 1 .. MaxEventId
             /\ eventId[f] # NextEventId
             /\ Age(eventId[f])' < n + 1
  <2>1. f \in Event /\ f # e /\ eventId[f] \in 1 .. MaxEventId
    BY <1>1 DEF Used, TypeOK
  <2>2. Age(eventId[f]) < n
    BY DEF Recent
  <2>3. eventId[f] # NextEventId
    BY <1>3, <1>5, <1>6, <2>1, <2>2, NextIdAge DEF TypeOK
  <2>4. eventId'[f] = eventId[f]
    BY <1>3, <2>1
  <2>5. Age(eventId[f])' = Age(eventId[f]) + 1
    <3> DEFINE id == eventId[f]
    <3>1. id' = id
      BY <2>4
    <3>2. (IF id <= lastEventId' THEN lastEventId' - id ELSE lastEventId' + MaxEventId - id)
          = Age(id) + 1
      BY <1>3, <2>1, <2>3 DEF Age, NextEventId, TypeOK
    <3> QED
      BY <3>1, <3>2 DEF Age
  <2>6. Age(eventId[f]) \in Int
    BY <2>1 DEF Age, TypeOK
  <2> QED
    BY <1>5, <2>1, <2>2, <2>3, <2>5, <2>6
<1>8. Age(eventId[e])' = 0
  BY <1>2, <1>3 DEF Age
<1>9. \A f \in Event : fate'[f] = "new" => eventId'[f] = 0
  BY <1>3 DEF Recent
<1>10. \A f \in Used' : Age(eventId[f])' < Cardinality(Used')
  BY <1>4, <1>5, <1>7, <1>8
<1>11. IdsDistinct'
  <2> SUFFICES ASSUME NEW f \in Event, NEW g \in Event,
                      eventId'[f] = eventId'[g], eventId'[f] # 0
               PROVE  f = g
    BY DEF IdsDistinct
  <2>1. \A h \in Event : h # e /\ eventId[h] # 0 => eventId[h] # NextEventId
    BY <1>7 DEF Used
  <2> QED
    BY <1>2, <1>3, <2>1 DEF Recent, IdsDistinct
<1>12. (\A f \in Used : Age(eventId[f]) < Cardinality(Used))'
  BY <1>10
<1> QED
  BY <1>9, <1>11, <1>12 DEF Recent

LEMMA StillRecent ==
  ASSUME Recent, UNCHANGED <<eventId, lastEventId>>,
         \A e \in Event : fate'[e] = "new" => fate[e] = "new"
  PROVE  Recent'
<1>1. Used' = Used
  BY DEF Used
<1>2. (\A e \in Used : Age(eventId[e]) < Cardinality(Used))'
  BY <1>1 DEF Recent, Age
<1>3. IdsDistinct'
  BY DEF Recent, IdsDistinct
<1> QED
  BY <1>2, <1>3 DEF Recent

LEMMA RecentStep ==
  ASSUME FewEvents, TypeOK, Placed, Recent, [Next]_vars
  PROVE  Recent'
<1>1. ASSUME NEW th \in Thread, NEW e \in Event, NEW d \in Delay, AddEvent(th, e, d)
      PROVE  Recent'
  <2>1. fate[e] = "new"
    BY <1>1 DEF AddEvent
  <2>2. CASE RefuseEvent(e)
    <3>1. \A f \in Event : fate'[f] = "new" => fate[f] = "new"
      BY <2>1, <2>2 DEF RefuseEvent, TypeOK
    <3> QED
      BY <2>2, <3>1, StillRecent DEF RefuseEvent, queueVars
  <2> QED
    BY <1>1, <2>1, <2>2, AcceptRecent DEF AddEvent
<1>2. CASE UNCHANGED <<eventId, lastEventId, fate>>
  BY <1>2, StillRecent
<1>3. CheckState \/ Wait \/ WakeUp \/ Tick \/ UNCHANGED vars =>
        UNCHANGED <<eventId, lastEventId, fate>>
  BY DEF CheckState, Wait, WakeUp, Tick, vars, queueVars
<1>4. ASSUME NEW th \in Thread,
             \/ AddEventSignal(th) \/ AddEventReturn(th) \/ ShutdownNotify(th)
             \/ Stop(th) \/ Shutdown(th) \/ \E e \in Event : StopEvent(th, e)
      PROVE  UNCHANGED <<eventId, lastEventId, fate>>
  BY <1>4 DEF AddEventSignal, AddEventReturn, ShutdownNotify, Stop, Shutdown, StopEvent,
              queueVars
<1>5. ASSUME NEW th \in Thread, ShutdownClear(th)
      PROVE  Recent'
  <2>1. \A e \in Event : fate'[e] = "new" => fate[e] = "new"
    BY <1>5 DEF ShutdownClear
  <2> QED
    BY <1>5, <2>1, StillRecent DEF ShutdownClear
<1>6. CASE Timeout
  <2>1. UNCHANGED <<eventId, lastEventId>>
    BY <1>6 DEF Timeout
  <2>2. \A e \in Event : fate'[e] = "new" => fate[e] = "new"
    BY <1>6 DEF Timeout, NothingToTake, TakeTop, Top, TypeOK
  <2> QED
    BY <2>1, <2>2, StillRecent
<1>7. CASE HandOver
  <2>1. \A e \in Event : fate'[e] = "new" => fate[e] = "new"
    BY <1>7 DEF HandOver, TypeOK
  <2> QED
    BY <1>7, <2>1, StillRecent DEF HandOver, queueVars
<1> QED
  BY <1>1, <1>2, <1>3, <1>4, <1>5, <1>6, <1>7
     DEF Next, ThreadMain, WakeNotified, WakeSpurious, Continue

(* When no more events are ever created than there are ids, no two events      *)
(* share one, wherever the counter started and though it wraps around          *)
(* (addEvent, scheduler.cpp:68-75).                                            *)
THEOREM IdsStayDistinct ==
  ASSUME FewEvents
  PROVE  Spec => []IdsDistinct
<1>1. Init => Recent
  BY DEF Init, Recent, Used, IdsDistinct
<1>2. TypeOK /\ Placed /\ [Next]_vars => Placed'
  BY PlacedStep
<1>3. TypeOK /\ Placed /\ Recent /\ [Next]_vars => Recent'
  BY RecentStep
<1>4. Recent => IdsDistinct
  BY DEF Recent
<1> QED
  BY <1>1, <1>2, <1>3, <1>4, InitInvariant, TypeCorrect, PTL DEF Spec

(* The same, with nothing supposed of the ids: a stopped event never fires and *)
(* the timer service is implemented.                                           *)
THEOREM FewEventsAreSafe ==
  ASSUME FewEvents
  PROVE  Spec => []StoppedNeverFires /\ TimerServiceSpec
BY IdsStayDistinct, StoppingIsExact, ImplementsTimerService, PTL
=============================================================================
