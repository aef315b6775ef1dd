-------------------------- MODULE DispatcherProofs --------------------------
(***************************************************************************)
(* Proofs about the dispatcher, for every set of tasks and threads.         *)
(***************************************************************************)
EXTENDS Dispatcher, SequenceTheorems, TLAPS

(* What pushing and popping do to the list, element by element. *)
LEMMA PushProperties ==
  ASSUME NEW s \in Seq(Task), NEW t \in Task
  PROVE  /\ Append(s, t) \in Seq(Task)
         /\ Len(Append(s, t)) = Len(s) + 1
         /\ DOMAIN Append(s, t) = 1 .. Len(s) + 1
         /\ \A i \in 1 .. Len(s) : Append(s, t)[i] = s[i]
         /\ Append(s, t)[Len(s) + 1] = t
         /\ <<t>> \o s \in Seq(Task)
         /\ Len(<<t>> \o s) = Len(s) + 1
         /\ DOMAIN (<<t>> \o s) = 1 .. Len(s) + 1
         /\ (<<t>> \o s)[1] = t
         /\ \A i \in 2 .. Len(s) + 1 : (<<t>> \o s)[i] = s[i - 1]
<1>1. /\ <<t>> \in Seq(Task)
      /\ Len(<<t>>) = 1
      /\ <<t>>[1] = t
  OBVIOUS
<1>2. /\ <<t>> \o s \in Seq(Task)
      /\ Len(<<t>> \o s) = 1 + Len(s)
      /\ \A i \in 1 .. 1 + Len(s) : (<<t>> \o s)[i] = IF i <= 1 THEN <<t>>[i] ELSE s[i - 1]
  BY <1>1, ConcatProperties
<1>3. Len(s) \in Nat
  BY LenProperties
<1>4. /\ (<<t>> \o s)[1] = t
      /\ \A i \in 2 .. Len(s) + 1 : (<<t>> \o s)[i] = s[i - 1]
  BY <1>1, <1>2, <1>3
<1> QED
  BY <1>2, <1>3, <1>4, AppendProperties, LenProperties

LEMMA PopProperties ==
  ASSUME NEW s \in Seq(Task), s # <<>>
  PROVE  /\ Len(s) \in Nat \ {0}
         /\ Head(s) \in Task
         /\ Head(s) = s[1]
         /\ Tail(s) \in Seq(Task)
         /\ Len(Tail(s)) = Len(s) - 1
         /\ DOMAIN s = 1 .. Len(s)
         /\ DOMAIN Tail(s) = 1 .. Len(s) - 1
         /\ \A i \in 1 .. Len(s) - 1 : Tail(s)[i] = s[i + 1]
BY HeadTailProperties, EmptySeq, LenProperties

(***************************************************************************)
(* Type correctness                                                        *)
(***************************************************************************)
LEMMA TakeFirstType ==
  ASSUME TypeOK, TakeFirst, pc \in {"lock", "waiting"}, signalled' \in BOOLEAN
  PROVE  TypeOK'
<1> USE DispatcherAssumption
<1>1. /\ Head(taskList) \in Task
      /\ taskList' \in Seq(Task)
  BY PopProperties DEF TypeOK, TakeFirst
<1>2. CASE Execute(Head(taskList))
  BY <1>1, <1>2 DEF TypeOK, TakeFirst, Execute, Fate
<1>3. CASE Expire(Head(taskList))
  BY <1>1, <1>3 DEF TypeOK, TakeFirst, Expire, Fate
<1> QED
  BY <1>2, <1>3 DEF TakeFirst

(* The variables keep their types in every behaviour of the dispatcher. *)
THEOREM TypeCorrect == Spec => []TypeOK
<1> USE DispatcherAssumption
<1>1. Init => TypeOK
  <2> SUFFICES ASSUME Init
               PROVE  TypeOK
    OBVIOUS
  <2>1. taskList \in Seq(Task) /\ dispatcherCycle \in Nat /\ threadState \in ThreadState
    BY EmptySeq DEF Init, ThreadState
  <2>2. fate \in [Task -> Fate]
    BY DEF Init, Fate
  <2>3. pc = "executing" <=> current # NoTask
    BY DEF Init
  <2>4. signalled \in BOOLEAN /\ signalling \subseteq Thread
    BY DEF Init
  <2>5. current \in Task \cup {NoTask} /\ pc \in {"check", "lock", "waiting", "executing", "exited"}
    BY DEF Init
  <2> QED
    BY <2>1, <2>2, <2>3, <2>4, <2>5 DEF TypeOK
<1>2. TypeOK /\ [Next]_vars => TypeOK'
  <2> SUFFICES ASSUME TypeOK, [Next]_vars
               PROVE  TypeOK'
    OBVIOUS
  <2>1. CASE CheckState
    BY <2>1 DEF CheckState, TypeOK
  <2>2. CASE Wait
    BY <2>2 DEF Wait, TypeOK
  <2>3. CASE Take
    BY <2>3, TakeFirstType DEF Take, TypeOK
  <2>4. CASE WakeUp
    <3>1. CASE TakeFirst
      BY <2>4, <3>1, TakeFirstType DEF WakeUp
    <3>2. CASE NothingToTake
      BY <2>4, <3>2 DEF WakeUp, NothingToTake, TypeOK
    <3> QED
      BY <2>4, <3>1, <3>2 DEF WakeUp
  <2>5. CASE Finish
    BY <2>5 DEF Finish, TypeOK, ThreadState, Fate
  <2>6. ASSUME NEW th \in Thread, Notify(th)
        PROVE  TypeOK'
    BY <2>6 DEF Notify, NotifyOne, TypeOK
  <2>7. ASSUME NEW th \in Thread, Stop(th)
        PROVE  TypeOK'
    BY <2>7 DEF Stop, TypeOK, ThreadState
  <2>8. ASSUME NEW th \in Thread, Shutdown(th)
        PROVE  TypeOK'
    BY <2>8, PushProperties DEF Shutdown, NotifyOne, TypeOK, Fate
  <2>9. ASSUME NEW th \in Thread, NEW t \in Task, AddTask(th, t)
        PROVE  TypeOK'
    <3>1. CASE AcceptTask(th, t)
      BY <2>9, <3>1, PushProperties DEF AddTask, AcceptTask, Push, TypeOK, Fate
    <3>2. CASE RefuseTask(t)
      BY <2>9, <3>2 DEF AddTask, RefuseTask, TypeOK, Fate
    <3> QED
      BY <2>9, <3>1, <3>2 DEF AddTask
  <2>10. CASE UNCHANGED vars
    BY <2>10 DEF vars, TypeOK
  <2> QED
    BY <2>1, <2>2, <2>3, <2>4, <2>5, <2>6, <2>7, <2>8, <2>9, <2>10
       DEF Next, ThreadMain, WakeNotified, WakeSpurious
<1> QED
  BY <1>1, <1>2, PTL DEF Spec

(***************************************************************************)
(* No lost wake-up                                                         *)
(***************************************************************************)
(* The thread never sleeps on a non-empty list that nobody will tell it of. *)
THEOREM NoWakeupIsLost == Spec => []NoLostWakeup
<1> USE DispatcherAssumption
<1>1. Init => NoLostWakeup
  BY DEF Init, NoLostWakeup
<1>2. TypeOK /\ NoLostWakeup /\ [Next]_vars => NoLostWakeup'
  <2> SUFFICES ASSUME TypeOK, NoLostWakeup, [Next]_vars, pc' = "waiting", taskList' # <<>>
               PROVE  signalled' \/ signalling' # {}
    BY DEF NoLostWakeup
  <2>1. CASE CheckState
    BY <2>1 DEF CheckState, NoLostWakeup
  <2>2. CASE Wait
    BY <2>2 DEF Wait
  <2>3. CASE Take \/ WakeUp
    BY <2>3 DEF Take, WakeUp, TakeFirst, Execute, Expire, NothingToTake
  <2>4. CASE Finish
    BY <2>4 DEF Finish
  <2>5. ASSUME NEW th \in Thread, Notify(th)
        PROVE  signalled'
    BY <2>5 DEF Notify, NotifyOne
  <2>6. ASSUME NEW th \in Thread, Stop(th)
        PROVE  signalled' \/ signalling' # {}
    BY <2>6 DEF Stop, NoLostWakeup
  <2>7. ASSUME NEW th \in Thread, Shutdown(th)
        PROVE  signalled'
    BY <2>7 DEF Shutdown, NotifyOne
  <2>8. ASSUME NEW th \in Thread, NEW t \in Task, AddTask(th, t)
        PROVE  signalled' \/ signalling' # {}
    <3>1. CASE AcceptTask(th, t)
      BY <2>8, <3>1 DEF AddTask, AcceptTask, NoLostWakeup
    <3>2. CASE RefuseTask(t)
      BY <2>8, <3>2 DEF AddTask, RefuseTask, NoLostWakeup
    <3> QED
      BY <2>8, <3>1, <3>2 DEF AddTask
  <2>9. CASE UNCHANGED vars
    BY <2>9 DEF vars, NoLostWakeup
  <2> QED
    BY <2>1, <2>2, <2>3, <2>4, <2>5, <2>6, <2>7, <2>8, <2>9
       DEF Next, ThreadMain, WakeNotified, WakeSpurious
<1> QED
  BY <1>1, <1>2, TypeCorrect, PTL DEF Spec

(***************************************************************************)
(* Each task once                                                          *)
(***************************************************************************)
LEMMA PushOnce ==
  ASSUME TypeOK, EachTaskOnce, UNCHANGED current,
         NEW t \in Task, fate[t] = "new",
         fate' = [fate EXCEPT ![t] = "queued"],
         taskList' = Append(taskList, t) \/ taskList' = <<t>> \o taskList
  PROVE  EachTaskOnce'
<1> DEFINE n == Len(taskList)
<1>1. /\ n \in Nat
      /\ DOMAIN taskList = 1 .. n
      /\ \A i \in 1 .. n : taskList[i] \in Task /\ taskList[i] # t
  BY LenProperties, ElementOfSeq DEF TypeOK, EachTaskOnce
<1>2. current # t
  BY DEF EachTaskOnce
<1>3. fate' \in [Task -> Fate] /\ \A u \in Task : fate'[u] = IF u = t THEN "queued" ELSE fate[u]
  BY DEF TypeOK, Fate
<1>4. CASE taskList' = Append(taskList, t)
  <2>1. /\ DOMAIN taskList' = 1 .. n + 1
        /\ \A i \in 1 .. n : taskList'[i] = taskList[i]
        /\ taskList'[n + 1] = t
    BY <1>4, PushProperties DEF TypeOK
  <2>2. \A i, j \in DOMAIN taskList' : taskList'[i] = taskList'[j] => i = j
    BY <1>1, <2>1 DEF EachTaskOnce
  <2>3. \A u \in Task : fate'[u] = "queued" <=> \E i \in DOMAIN taskList' : taskList'[i] = u
    BY <1>1, <1>3, <2>1 DEF EachTaskOnce
  <2> QED
    BY <1>2, <1>3, <2>2, <2>3 DEF EachTaskOnce
<1>5. CASE taskList' = <<t>> \o taskList
  <2>1. /\ DOMAIN taskList' = 1 .. n + 1
        /\ taskList'[1] = t
        /\ \A i \in 2 .. n + 1 : taskList'[i] = taskList[i - 1]
    BY <1>5, PushProperties DEF TypeOK
  <2>2. ASSUME NEW i \in 2 .. n + 1
        PROVE  i - 1 \in 1 .. n /\ taskList'[i] = taskList[i - 1] /\ taskList'[i] # t
    <3>1. i - 1 \in 1 .. n
      BY <1>1, <2>2
    <3> QED
      BY <1>1, <2>1, <2>2, <3>1
  <2>3. ASSUME NEW i \in DOMAIN taskList', NEW j \in DOMAIN taskList', taskList'[i] = taskList'[j]
        PROVE  i = j
    <3>1. CASE i = 1 \/ j = 1
      BY <1>1, <2>1, <2>2, <2>3, <3>1
    <3>2. CASE i \in 2 .. n + 1 /\ j \in 2 .. n + 1
      <4>1. i - 1 = j - 1
        BY <1>1, <2>2, <2>3, <3>2 DEF EachTaskOnce
      <4> QED
        BY <1>1, <3>2, <4>1
    <3> QED
      BY <1>1, <2>1, <3>1, <3>2
  <2>4. ASSUME NEW i \in 1 .. n
        PROVE  i + 1 \in DOMAIN taskList' /\ taskList'[i + 1] = taskList[i]
    <3>1. i + 1 \in 2 .. n + 1 /\ (i + 1) - 1 = i
      BY <1>1, <2>4
    <3> QED
      BY <1>1, <2>1, <2>2, <3>1
  <2>5. ASSUME NEW u \in Task
        PROVE  fate'[u] = "queued" <=> \E i \in DOMAIN taskList' : taskList'[i] = u
    <3>1. CASE u = t
      BY <1>1, <1>3, <2>1, <3>1
    <3>2. CASE u # t
      <4>1. ASSUME fate'[u] = "queued"
            PROVE  \E i \in DOMAIN taskList' : taskList'[i] = u
        <5>1. PICK i \in 1 .. n : taskList[i] = u
          BY <1>1, <1>3, <3>2, <4>1 DEF EachTaskOnce
        <5> QED
          BY <2>4, <5>1
      <4>2. ASSUME NEW i \in DOMAIN taskList', taskList'[i] = u
            PROVE  fate'[u] = "queued"
        <5>1. i \in 2 .. n + 1
          BY <1>1, <2>1, <3>2, <4>2
        <5>2. i - 1 \in DOMAIN taskList /\ taskList[i - 1] = u
          BY <1>1, <2>2, <4>2, <5>1
        <5> QED
          BY <1>3, <3>2, <5>2 DEF EachTaskOnce
      <4> QED
        BY <4>1, <4>2
    <3> QED
      BY <3>1, <3>2
  <2> QED
    BY <1>2, <1>3, <2>3, <2>5 DEF EachTaskOnce
<1> QED
  BY <1>4, <1>5

LEMMA PopOnce ==
  ASSUME TypeOK, EachTaskOnce, TakeFirst, current = NoTask
  PROVE  EachTaskOnce'
<1> USE DispatcherAssumption
<1> DEFINE n == Len(taskList)
           h == Head(taskList)
<1>1. /\ n \in Nat \ {0}
      /\ h \in Task
      /\ h = taskList[1]
      /\ DOMAIN taskList = 1 .. n
      /\ DOMAIN taskList' = 1 .. n - 1
      /\ \A i \in 1 .. n - 1 : taskList'[i] = taskList[i + 1]
  BY PopProperties DEF TypeOK, TakeFirst
<1>2. \A i, j \in DOMAIN taskList' : taskList'[i] = taskList'[j] => i = j
  BY <1>1 DEF EachTaskOnce
<1>3. \A u \in Task : (\E i \in DOMAIN taskList' : taskList'[i] = u)
                        <=> u # h /\ \E i \in DOMAIN taskList : taskList[i] = u
  <2>1. ASSUME NEW i \in 2 .. n
        PROVE  i - 1 \in 1 .. n - 1 /\ taskList'[i - 1] = taskList[i]
    BY <1>1, <2>1
  <2>2. ASSUME NEW i \in 1 .. n - 1
        PROVE  i + 1 \in 1 .. n /\ taskList'[i] = taskList[i + 1] /\ taskList[i + 1] # h
    BY <1>1, <2>2 DEF EachTaskOnce
  <2>3. ASSUME NEW i \in 1 .. n, taskList[i] # h
        PROVE  i \in 2 .. n
    BY <1>1, <2>3
  <2> SUFFICES ASSUME NEW u \in Task
               PROVE  (\E i \in DOMAIN taskList' : taskList'[i] = u)
                        <=> u # h /\ \E i \in DOMAIN taskList : taskList[i] = u
    OBVIOUS
  <2>4. ASSUME NEW i \in DOMAIN taskList', taskList'[i] = u
        PROVE  u # h /\ \E k \in DOMAIN taskList : taskList[k] = u
    <3>1. i + 1 \in 1 .. n /\ taskList[i + 1] = u /\ u # h
      BY <1>1, <2>2, <2>4
    <3> QED
      BY <1>1, <3>1
  <2>5. ASSUME NEW i \in DOMAIN taskList, taskList[i] = u, u # h
        PROVE  \E k \in DOMAIN taskList' : taskList'[k] = u
    <3>1. i - 1 \in 1 .. n - 1 /\ taskList'[i - 1] = u
      BY <1>1, <2>1, <2>3, <2>5
    <3> QED
      BY <1>1, <3>1
  <2> QED
    BY <2>4, <2>5
<1>4. fate[h] = "queued"
  BY <1>1 DEF EachTaskOnce
<1>5. \A u \in Task : fate[u] # "executing"
  BY DEF EachTaskOnce
<1>6. CASE Execute(h)
  <2>1. \A u \in Task : fate'[u] = IF u = h THEN "executing" ELSE fate[u]
    BY <1>1, <1>6 DEF Execute, TypeOK
  <2>2. current' = h
    BY <1>6 DEF Execute
  <2>3. \A u \in Task : fate'[u] = "executing" <=> current' = u
    BY <1>5, <2>1, <2>2
  <2>4. \A u \in Task : fate'[u] = "queued" <=> \E i \in DOMAIN taskList' : taskList'[i] = u
    BY <1>3, <2>1 DEF EachTaskOnce
  <2> QED
    BY <1>2, <2>3, <2>4 DEF EachTaskOnce
<1>7. CASE Expire(h)
  <2>1. \A u \in Task : fate'[u] = IF u = h THEN "expired" ELSE fate[u]
    BY <1>1, <1>7 DEF Expire, TypeOK
  <2>2. \A u \in Task : fate'[u] = "executing" <=> current' = u
    BY <1>5, <1>7, <2>1 DEF Expire
  <2>3. \A u \in Task : fate'[u] = "queued" <=> \E i \in DOMAIN taskList' : taskList'[i] = u
    BY <1>3, <2>1 DEF EachTaskOnce
  <2> QED
    BY <1>2, <2>2, <2>3 DEF EachTaskOnce
<1> QED
  BY <1>6, <1>7 DEF TakeFirst

(* Nothing but the list, the current task and the fates matters to EachTaskOnce. *)
LEMMA OnceUnchanged ==
  ASSUME EachTaskOnce, UNCHANGED <<taskList, current, fate>>
  PROVE  EachTaskOnce'
BY DEF EachTaskOnce

(* Every accepted task is in the list once until it is taken, and one task at *)
(* most is being executed.                                                    *)
THEOREM TasksAreKept == Spec => []EachTaskOnce
<1> USE DispatcherAssumption
<1>1. Init => EachTaskOnce
  BY DEF Init, EachTaskOnce
<1>2. TypeOK /\ EachTaskOnce /\ [Next]_vars => EachTaskOnce'
  <2> SUFFICES ASSUME TypeOK, EachTaskOnce, [Next]_vars
               PROVE  EachTaskOnce'
    OBVIOUS
  <2>1. CASE CheckState
    BY <2>1, OnceUnchanged DEF CheckState
  <2>2. CASE Wait
    BY <2>2, OnceUnchanged DEF Wait
  <2>3. CASE Take
    BY <2>3, PopOnce DEF Take, TypeOK
  <2>4. CASE WakeUp
    <3>1. CASE TakeFirst
      BY <2>4, <3>1, PopOnce DEF WakeUp, TypeOK
    <3>2. CASE NothingToTake
      BY <3>2, OnceUnchanged DEF NothingToTake
    <3> QED
      BY <2>4, <3>1, <3>2 DEF WakeUp
  <2>5. CASE Finish
    <3>1. current \in Task
      BY <2>5 DEF Finish, TypeOK
    <3>2. \A u \in Task : fate'[u] = IF u = current THEN "executed" ELSE fate[u]
      BY <2>5, <3>1 DEF Finish, TypeOK
    <3>3. current' = NoTask /\ taskList' = taskList
      BY <2>5 DEF Finish
    <3>4. fate[current] = "executing"
      BY <3>1 DEF EachTaskOnce
    <3>5. \A u \in Task : fate'[u] = "queued" <=> fate[u] = "queued"
      BY <3>2, <3>4
    <3>6. \A u \in Task : fate'[u] # "executing" /\ current' # u
      BY <3>2, <3>3 DEF EachTaskOnce
    <3> QED
      BY <3>3, <3>5, <3>6 DEF EachTaskOnce
  <2>6. ASSUME NEW th \in Thread, Notify(th) \/ Stop(th)
        PROVE  EachTaskOnce'
    BY <2>6, OnceUnchanged DEF Notify, Stop
  <2>7. ASSUME NEW th \in Thread, Shutdown(th)
        PROVE  EachTaskOnce'
    BY <2>7, PushOnce DEF Shutdown
  <2>8. ASSUME NEW th \in Thread, NEW t \in Task, AddTask(th, t)
        PROVE  EachTaskOnce'
    <3>1. CASE AcceptTask(th, t)
      BY <2>8, <3>1, PushOnce DEF AddTask, AcceptTask, Push
    <3>2. CASE RefuseTask(t)
      <4>1. \A u \in Task : fate'[u] = IF u = t THEN "refused" ELSE fate[u]
        BY <3>2 DEF RefuseTask, TypeOK
      <4>2. fate[t] = "new" /\ UNCHANGED <<taskList, current>>
        BY <2>8, <3>2 DEF AddTask, RefuseTask
      <4>3. \A u \in Task : /\ fate'[u] = "queued" <=> fate[u] = "queued"
                            /\ fate'[u] = "executing" <=> fate[u] = "executing"
        BY <4>1, <4>2
      <4> QED
        BY <4>2, <4>3 DEF EachTaskOnce
    <3> QED
      BY <2>8, <3>1, <3>2 DEF AddTask
  <2>9. CASE UNCHANGED vars
    BY <2>9, OnceUnchanged DEF vars
  <2> QED
    BY <2>1, <2>2, <2>3, <2>4, <2>5, <2>6, <2>7, <2>8, <2>9
       DEF Next, ThreadMain, WakeNotified, WakeSpurious
<1> QED
  BY <1>1, <1>2, TypeCorrect, PTL DEF Spec

(***************************************************************************)
(* The order of the list                                                   *)
(***************************************************************************)
LEMMA PushKeepsTimersFirst ==
  ASSUME TypeOK, TimersFirst, NEW t \in Task, Push(t)
  PROVE  TimersFirst'
<1> DEFINE n == Len(taskList)
<1>1. n \in Nat /\ DOMAIN taskList = 1 .. n
  BY LenProperties DEF TypeOK
<1> SUFFICES ASSUME NEW i \in DOMAIN taskList', NEW j \in DOMAIN taskList',
                    i < j, taskList'[j] \in Timer
             PROVE  taskList'[i] \in Timer
  BY DEF TimersFirst
<1>2. CASE t \in Timer
  <2>1. /\ DOMAIN taskList' = 1 .. n + 1
        /\ taskList'[1] = t
        /\ \A k \in 2 .. n + 1 : taskList'[k] = taskList[k - 1]
    BY <1>2, PushProperties DEF TypeOK, Push
  <2>2. CASE i = 1
    BY <1>2, <2>1, <2>2
  <2>3. CASE i # 1
    <3>1. /\ i - 1 \in 1 .. n /\ j - 1 \in 1 .. n /\ i - 1 < j - 1
          /\ i \in 2 .. n + 1 /\ j \in 2 .. n + 1
      BY <1>1, <2>1, <2>3
    <3> QED
      BY <1>1, <2>1, <3>1 DEF TimersFirst
  <2> QED
    BY <2>2, <2>3
<1>3. CASE t \notin Timer
  <2>1. /\ DOMAIN taskList' = 1 .. n + 1
        /\ \A k \in 1 .. n : taskList'[k] = taskList[k]
        /\ taskList'[n + 1] = t
    BY <1>3, PushProperties DEF TypeOK, Push
  <2>2. i \in 1 .. n /\ j \in 1 .. n
    BY <1>1, <1>3, <2>1
  <2> QED
    BY <1>1, <2>1, <2>2 DEF TimersFirst
<1> QED
  BY <1>2, <1>3

LEMMA PopKeepsTimersFirst ==
  ASSUME TypeOK, TimersFirst, TakeFirst
  PROVE  TimersFirst'
<1> DEFINE n == Len(taskList)
<1>1. /\ n \in Nat \ {0}
      /\ DOMAIN taskList = 1 .. n
      /\ DOMAIN taskList' = 1 .. n - 1
      /\ \A i \in 1 .. n - 1 : taskList'[i] = taskList[i + 1]
  BY PopProperties DEF TypeOK, TakeFirst
<1>2. ASSUME NEW i \in 1 .. n - 1, NEW j \in 1 .. n - 1, i < j, taskList'[j] \in Timer
      PROVE  taskList'[i] \in Timer
  <2>1. i + 1 \in 1 .. n /\ j + 1 \in 1 .. n /\ i + 1 < j + 1
    BY <1>1, <1>2
  <2> QED
    BY <1>1, <1>2, <2>1 DEF TimersFirst
<1> QED
  BY <1>1, <1>2 DEF TimersFirst

(* The timers stand before everything else. *)
THEOREM TimersStayFirst == Spec => []TimersFirst
<1> USE DispatcherAssumption
<1>1. Init => TimersFirst
  BY DEF Init, TimersFirst
<1>2. TypeOK /\ TimersFirst /\ [Next]_vars => TimersFirst'
  <2> SUFFICES ASSUME TypeOK, TimersFirst, [Next]_vars
               PROVE  TimersFirst'
    OBVIOUS
  <2>1. CASE UNCHANGED taskList
    BY <2>1 DEF TimersFirst
  <2>2. CASE CheckState \/ Wait \/ Finish \/ UNCHANGED vars
    BY <2>1, <2>2 DEF CheckState, Wait, Finish, vars
  <2>3. CASE Take \/ WakeUp
    BY <2>1, <2>3, PopKeepsTimersFirst DEF Take, WakeUp, NothingToTake
  <2>4. ASSUME NEW th \in Thread, Notify(th) \/ Stop(th)
        PROVE  TimersFirst'
    BY <2>1, <2>4 DEF Notify, Stop
  <2>5. ASSUME NEW th \in Thread, Shutdown(th)
        PROVE  TimersFirst'
    BY <2>5, PushKeepsTimersFirst DEF Shutdown, Push
  <2>6. ASSUME NEW th \in Thread, NEW t \in Task, AddTask(th, t)
        PROVE  TimersFirst'
    BY <2>1, <2>6, PushKeepsTimersFirst DEF AddTask, AcceptTask, RefuseTask
  <2> QED
    BY <2>2, <2>3, <2>4, <2>5, <2>6
       DEF Next, ThreadMain, WakeNotified, WakeSpurious
<1> QED
  BY <1>1, <1>2, TypeCorrect, PTL DEF Spec

(* Once the dispatcher was stopped, the task that ends it stays the last. *)
THEOREM ClosingStaysLast == Spec => []ClosingIsLast
<1> USE DispatcherAssumption
<1>1. Init => ClosingIsLast
  BY DEF Init, ClosingIsLast
<1>2. TypeOK /\ EachTaskOnce /\ ClosingIsLast /\ [Next]_vars => ClosingIsLast'
  <2> SUFFICES ASSUME TypeOK, EachTaskOnce, ClosingIsLast, [Next]_vars,
                      threadState' = "CLOSING"
               PROVE  \A i \in DOMAIN taskList' : taskList'[i] = Closing => i = Len(taskList')
    BY DEF ClosingIsLast
  <2>1. CASE UNCHANGED <<threadState, taskList>>
    BY <2>1 DEF ClosingIsLast
  <2>2. CASE CheckState \/ Wait \/ UNCHANGED vars
    BY <2>1, <2>2 DEF CheckState, Wait, vars
  <2>3. CASE Finish
    BY <2>1, <2>3 DEF Finish
  <2>4. CASE TakeFirst
    <3> DEFINE n == Len(taskList)
    <3>1. /\ n \in Nat \ {0}
          /\ DOMAIN taskList = 1 .. n
          /\ DOMAIN taskList' = 1 .. n - 1
          /\ Len(taskList') = n - 1
          /\ \A i \in 1 .. n - 1 : taskList'[i] = taskList[i + 1]
      BY <2>4, PopProperties DEF TypeOK, TakeFirst
    <3>2. ASSUME NEW i \in 1 .. n - 1, taskList'[i] = Closing
          PROVE  i = n - 1
      <4>1. i + 1 \in 1 .. n /\ taskList[i + 1] = Closing
        BY <3>1, <3>2
      <4>2. threadState = "CLOSING"
        BY <2>4 DEF TakeFirst
      <4>3. i + 1 = n
        BY <3>1, <4>1, <4>2 DEF ClosingIsLast
      <4>4. n \in Int /\ i \in Int
        BY <3>1
      <4> HIDE DEF n
      <4> QED
        BY <4>3, <4>4
    <3> QED
      BY <3>1, <3>2
  <2>5. CASE Take \/ WakeUp
    BY <2>1, <2>4, <2>5 DEF Take, WakeUp, NothingToTake
  <2>6. ASSUME NEW th \in Thread, Notify(th)
        PROVE  \A i \in DOMAIN taskList' : taskList'[i] = Closing => i = Len(taskList')
    BY <2>1, <2>6 DEF Notify
  <2>7. ASSUME NEW th \in Thread, Stop(th)
        PROVE  \A i \in DOMAIN taskList' : taskList'[i] # Closing
    BY <2>7 DEF Stop, EachTaskOnce
  <2>8. ASSUME NEW th \in Thread, Shutdown(th)
        PROVE  \A i \in DOMAIN taskList' : taskList'[i] = Closing => i = Len(taskList')
    <3> DEFINE n == Len(taskList)
    <3>1. /\ n \in Nat
          /\ DOMAIN taskList = 1 .. n
          /\ DOMAIN taskList' = 1 .. n + 1
          /\ Len(taskList') = n + 1
          /\ \A i \in 1 .. n : taskList'[i] = taskList[i]
      BY <2>8, PushProperties, LenProperties DEF Shutdown, TypeOK
    <3>2. \A i \in 1 .. n : taskList[i] # Closing
      BY <2>8, <3>1 DEF Shutdown, EachTaskOnce
    <3> QED
      BY <3>1, <3>2
  <2>9. ASSUME NEW th \in Thread, NEW t \in Task, AddTask(th, t)
        PROVE  \A i \in DOMAIN taskList' : taskList'[i] = Closing => i = Len(taskList')
    BY <2>1, <2>9 DEF AddTask, AcceptTask, RefuseTask
  <2> QED
    BY <2>2, <2>3, <2>5, <2>6, <2>7, <2>8, <2>9
       DEF Next, ThreadMain, WakeNotified, WakeSpurious
<1> QED
  BY <1>1, <1>2, TypeCorrect, TasksAreKept, PTL DEF Spec
=============================================================================
