------------------------ MODULE DatabaseTasksProofs -------------------------
(***************************************************************************)
(* Proofs about the worker's queue, for every set of queries and threads.   *)
(***************************************************************************)
EXTENDS DatabaseTasks, SequenceTheorems, TLAPS

(* What adding a query and popping one do to a list, element by element. *)
LEMMA AppendQuery ==
  ASSUME NEW s \in Seq(Query), NEW q \in Query
  PROVE  /\ Append(s, q) \in Seq(Query)
         /\ Len(s) \in Nat
         /\ Len(Append(s, q)) = Len(s) + 1
         /\ DOMAIN s = 1 .. Len(s)
         /\ DOMAIN Append(s, q) = 1 .. Len(s) + 1
         /\ \A i \in 1 .. Len(s) : Append(s, q)[i] = s[i]
         /\ Append(s, q)[Len(s) + 1] = q
         /\ Range(Append(s, q)) = Range(s) \cup {q}
<1>1. /\ Append(s, q) \in Seq(Query)
      /\ Len(s) \in Nat
      /\ Len(Append(s, q)) = Len(s) + 1
      /\ DOMAIN s = 1 .. Len(s)
      /\ DOMAIN Append(s, q) = 1 .. Len(s) + 1
      /\ \A i \in 1 .. Len(s) : Append(s, q)[i] = s[i]
      /\ Append(s, q)[Len(s) + 1] = q
  BY AppendProperties, LenProperties
<1> DEFINE longer == Append(s, q)
<1> HIDE DEF longer
<1>2. /\ DOMAIN s = 1 .. Len(s) /\ DOMAIN longer = 1 .. Len(s) + 1 /\ Len(s) \in Nat
      /\ \A i \in 1 .. Len(s) : longer[i] = s[i]
      /\ longer[Len(s) + 1] = q
  BY <1>1 DEF longer
<1>3. Range(longer) = Range(s) \cup {q}
  BY <1>2 DEF Range
<1> QED
  BY <1>1, <1>3 DEF longer

LEMMA PopQuery ==
  ASSUME NEW s \in Seq(Query), s # <<>>
  PROVE  /\ Len(s) \in Nat \ {0}
         /\ Head(s) \in Query
         /\ Head(s) = s[1]
         /\ Tail(s) \in Seq(Query)
         /\ Len(Tail(s)) = Len(s) - 1
         /\ DOMAIN s = 1 .. Len(s)
         /\ DOMAIN Tail(s) = 1 .. Len(s) - 1
         /\ \A i \in 1 .. Len(s) - 1 : Tail(s)[i] = s[i + 1]
BY HeadTailProperties, EmptySeq, LenProperties

(***************************************************************************)
(* The three things a query can go through.                                *)
(***************************************************************************)
LEMMA PopType ==
  ASSUME TypeOK, NEW r \in Runner, Pop(r)
  PROVE  /\ tasks' \in Seq(Query)
         /\ hand' = [hand EXCEPT ![r] = Head(tasks)]
         /\ hand' \in [Runner -> Query \cup {NoQuery}]
         /\ hand'[r] \in Query
BY PopQuery DEF Pop, TypeOK

LEMMA PostCallbackType ==
  ASSUME TypeOK, NEW r \in Runner, Executed(r), PostCallback(r)
  PROVE  /\ hand' \in [Runner -> Query \cup {NoQuery}]
         /\ posted' \subseteq WithCallback
BY DEF PostCallback, TypeOK

LEMMA ExecuteType ==
  ASSUME TypeOK, NEW r \in Runner, Execute(r)
  PROVE  TypeOK'
BY AppendQuery DEF Execute, TypeOK

(* The variables keep their types in every behaviour. *)
THEOREM TypeCorrect == Spec => []TypeOK
<1> USE DatabaseTasksAssumption DEF Runner
<1>1. Init => TypeOK
  BY EmptySeq DEF Init, TypeOK, ThreadState
<1>2. TypeOK /\ [Next]_vars => TypeOK'
  <2> SUFFICES ASSUME TypeOK, [Next]_vars
               PROVE  TypeOK'
    OBVIOUS
  <2>1. CASE CheckState \/ Wait
    BY <2>1 DEF CheckState, Wait, TypeOK
  <2>2. CASE Take
    BY <2>2, PopType DEF Take, TypeOK
  <2>3. CASE WakeUp
    <3>1. CASE Pop(Worker) /\ pc' = "running"
      BY <2>3, <3>1, PopType DEF WakeUp, TypeOK
    <3>2. CASE tasks = <<>> /\ pc' = "check" /\ UNCHANGED <<tasks, hand>>
      BY <2>3, <3>2 DEF WakeUp, TypeOK
    <3> QED
      BY <2>3, <3>1, <3>2 DEF WakeUp
  <2>4. CASE FinishTask
    BY <2>4, PostCallbackType DEF FinishTask, TypeOK
  <2>5. ASSUME NEW r \in Runner, Execute(r)
        PROVE  TypeOK'
    BY <2>5, ExecuteType
  <2>6. ASSUME NEW th \in Thread, FlushTake(th)
        PROVE  TypeOK'
    BY <2>6, PopType DEF FlushTake, TypeOK
  <2>7. ASSUME NEW th \in Thread, FlushTask(th)
        PROVE  TypeOK'
    BY <2>7, PostCallbackType DEF FlushTask, TypeOK
  <2>8. ASSUME NEW th \in Thread, AddTaskSignal(th) \/ ShutdownNotify(th)
        PROVE  TypeOK'
    BY <2>8 DEF AddTaskSignal, ShutdownNotify, NotifyOne, TypeOK
  <2>9. ASSUME NEW th \in Thread, FlushReturn(th) \/ Flush(th) \/ Stop(th) \/ Shutdown(th)
        PROVE  TypeOK'
    BY <2>9 DEF FlushReturn, Flush, Stop, Shutdown, TypeOK, ThreadState
  <2>10. ASSUME NEW th \in Thread, NEW q \in Query, AddTask(th, q)
         PROVE  TypeOK'
    <3>1. CASE AcceptTask(th, q)
      BY <2>10, <3>1, AppendQuery DEF AddTask, AcceptTask, TypeOK
    <3>2. CASE DropTask(q)
      BY <2>10, <3>2 DEF AddTask, DropTask, TypeOK
    <3> QED
      BY <2>10, <3>1, <3>2 DEF AddTask
  <2>11. CASE UNCHANGED vars
    BY <2>11 DEF vars, TypeOK
  <2> QED
    BY <2>1, <2>2, <2>3, <2>4, <2>5, <2>6, <2>7, <2>8, <2>9, <2>10, <2>11
       DEF Next, WorkerMain, WakeNotified, WakeSpurious, Continue
<1> QED
  BY <1>1, <1>2, PTL DEF Spec

(***************************************************************************)
(* The backlog.  The queries accepted so far are, in this order, those that *)
(* were taken and those in the list; what was taken is in hand or executed. *)
(***************************************************************************)
Taken == Len(accepted) - Len(tasks)

Backlog ==
  /\ Len(tasks) <= Len(accepted)
  /\ \A k \in 1 .. Len(tasks) : tasks[k] = accepted[Taken + k]
  /\ \A i, j \in 1 .. Len(accepted) : accepted[i] = accepted[j] => i = j

Hands ==
  /\ \A i \in 1 .. Taken : accepted[i] \in Range(executed) \cup Range(hand)
  /\ \A q \in Range(executed) \cup Range(hand) :
       q # NoQuery => \E i \in 1 .. Taken : q = accepted[i]
  /\ \A r, s \in Runner : hand[r] = hand[s] /\ hand[r] # NoQuery => r = s
  /\ \A i, j \in 1 .. Len(executed) : executed[i] = executed[j] => i = j
  /\ hand[Worker] # NoQuery => pc = "running"

Inv == TypeOK /\ Backlog /\ Hands

LEMMA Lengths ==
  ASSUME TypeOK
  PROVE  /\ Len(accepted) \in Nat /\ Len(tasks) \in Nat /\ Len(executed) \in Nat
         /\ DOMAIN accepted = 1 .. Len(accepted)
         /\ DOMAIN executed = 1 .. Len(executed)
         /\ DOMAIN tasks = 1 .. Len(tasks)
         /\ DOMAIN hand = Runner
         /\ \A i \in 1 .. Len(accepted) : accepted[i] \in Query
BY LenProperties, ElementOfSeq DEF TypeOK

LEMMA NothingMoves ==
  ASSUME Inv, UNCHANGED <<tasks, accepted, executed, hand>>,
         hand[Worker] # NoQuery => pc' = "running"
  PROVE  Backlog' /\ Hands'
BY DEF Inv, Backlog, Hands, Taken

(* The first of the list becomes the last of those taken. *)
LEMMA PopKeeps ==
  ASSUME Inv, NEW r \in Runner, Pop(r), hand[r] = NoQuery,
         UNCHANGED <<accepted, executed>>,
         IF r = Worker THEN pc' = "running" ELSE pc' = pc
  PROVE  Backlog' /\ Hands'
<1> USE DatabaseTasksAssumption
<1>1. TypeOK /\ Backlog /\ Hands
  BY DEF Inv
<1>2. /\ tasks \in Seq(Query) /\ tasks # <<>>
      /\ tasks' = Tail(tasks)
      /\ hand' = [hand EXCEPT ![r] = Head(tasks)]
      /\ hand \in [Runner -> Query \cup {NoQuery}]
  BY <1>1 DEF Pop, TypeOK
<1>3. /\ Len(tasks) \in Nat \ {0}
      /\ Head(tasks) = tasks[1] /\ Head(tasks) \in Query
      /\ Len(tasks') = Len(tasks) - 1
      /\ \A k \in 1 .. Len(tasks) - 1 : tasks'[k] = tasks[k + 1]
  BY <1>2, PopQuery
<1>4. Len(accepted) \in Nat /\ Len(tasks) <= Len(accepted)
  BY <1>1, Lengths DEF Backlog
<1>5. Taken \in Nat /\ Taken' = Taken + 1 /\ Taken + 1 <= Len(accepted)
  BY <1>3, <1>4 DEF Taken
<1>6. accepted[Taken + 1] = Head(tasks)
  BY <1>1, <1>3 DEF Backlog
<1>7. Backlog'
  <2>1. ASSUME NEW k \in 1 .. Len(tasks')
        PROVE  tasks'[k] = accepted'[Taken' + k]
    <3>1. k \in 1 .. Len(tasks) - 1 /\ k + 1 \in 1 .. Len(tasks)
      BY <1>3, <2>1
    <3>2. tasks'[k] = accepted[Taken + (k + 1)]
      BY <1>1, <1>3, <3>1 DEF Backlog
    <3>3. Taken + (k + 1) = Taken' + k
      BY <1>3, <1>5, <3>1
    <3> QED
      BY <3>2, <3>3
  <2>2. Len(tasks') <= Len(accepted')
    BY <1>3, <1>4
  <2> QED
    BY <1>1, <2>1, <2>2 DEF Backlog
<1>8. ASSUME NEW s \in Runner
      PROVE  hand[s] # Head(tasks)
  <2>1. SUFFICES ASSUME hand[s] = Head(tasks) PROVE FALSE
    OBVIOUS
  <2>2. hand[s] # NoQuery /\ hand[s] \in Range(hand)
    BY <1>2, <1>3, <2>1 DEF Range
  <2>3. PICK i \in 1 .. Taken : hand[s] = accepted[i]
    BY <1>1, <2>2 DEF Hands
  <2>4. i \in 1 .. Len(accepted) /\ Taken + 1 \in 1 .. Len(accepted) /\ i # Taken + 1
    BY <1>4, <1>5
  <2> QED
    BY <1>1, <1>6, <2>1, <2>3, <2>4 DEF Backlog
<1>9. Range(hand') \subseteq Range(hand) \cup {Head(tasks)}
  BY <1>2 DEF Range
<1>10. Head(tasks) \in Range(hand') /\ \A q \in Range(hand) : q # NoQuery => q \in Range(hand')
  BY <1>2 DEF Range
<1>11. ASSUME NEW i \in 1 .. Taken'
       PROVE  accepted'[i] \in Range(executed') \cup Range(hand')
  <2>1. CASE i = Taken + 1
    BY <1>6, <1>10, <2>1
  <2>2. CASE i # Taken + 1
    <3>1. i \in 1 .. Taken /\ i \in 1 .. Len(accepted)
      BY <1>4, <1>5, <1>11, <2>2
    <3>2. accepted[i] \in Range(executed) \cup Range(hand) /\ accepted[i] # NoQuery
      BY <1>1, <3>1, Lengths DEF Hands
    <3> QED
      BY <1>10, <3>2
  <2> QED
    BY <2>1, <2>2
<1>12. ASSUME NEW q \in Range(executed') \cup Range(hand'), q # NoQuery
       PROVE  \E i \in 1 .. Taken' : q = accepted'[i]
  <2>1. CASE q = Head(tasks)
    BY <1>5, <1>6, <2>1
  <2>2. CASE q # Head(tasks)
    <3>1. q \in Range(executed) \cup Range(hand)
      BY <1>9, <1>12, <2>2
    <3>2. PICK i \in 1 .. Taken : q = accepted[i]
      BY <1>1, <1>12, <3>1 DEF Hands
    <3> QED
      BY <1>5, <3>2
  <2> QED
    BY <2>1, <2>2
<1>13. \A x, y \in Runner : hand'[x] = hand'[y] /\ hand'[x] # NoQuery => x = y
  BY <1>1, <1>2, <1>8 DEF Hands
<1>14. hand'[Worker] # NoQuery => pc' = "running"
  BY <1>1, <1>2 DEF Hands, Runner
<1> QED
  BY <1>1, <1>7, <1>11, <1>12, <1>13, <1>14 DEF Hands

LEMMA ExecuteKeeps ==
  ASSUME Inv, NEW r \in Runner, Execute(r)
  PROVE  Backlog' /\ Hands'
<1> USE DatabaseTasksAssumption
<1>1. TypeOK /\ Backlog /\ Hands
  BY DEF Inv
<1>2. /\ hand[r] \notin Range(executed) /\ hand[r] # NoQuery
      /\ executed' = Append(executed, hand[r])
      /\ UNCHANGED <<tasks, accepted, hand, pc>>
  BY DEF Execute
<1>3. hand[r] \in Query /\ executed \in Seq(Query) /\ hand[r] \in Range(hand)
  BY <1>1, <1>2 DEF TypeOK, Range
<1>4. /\ Len(executed) \in Nat /\ Len(executed') = Len(executed) + 1
      /\ DOMAIN executed = 1 .. Len(executed)
      /\ \A i \in 1 .. Len(executed) : executed'[i] = executed[i]
      /\ executed'[Len(executed) + 1] = hand[r]
      /\ Range(executed') = Range(executed) \cup {hand[r]}
  BY <1>2, <1>3, AppendQuery
<1>5. Range(executed') \cup Range(hand') = Range(executed) \cup Range(hand)
  BY <1>2, <1>3, <1>4
<1>6. \A i \in 1 .. Len(executed) : executed[i] # hand[r]
  BY <1>2, <1>4 DEF Range
<1>7. \A i, j \in 1 .. Len(executed') : executed'[i] = executed'[j] => i = j
  BY <1>1, <1>4, <1>6 DEF Hands
<1>8. Taken' = Taken
  BY <1>2 DEF Taken
<1>9. Backlog'
  BY <1>1, <1>2, <1>8 DEF Backlog
<1> QED
  BY <1>1, <1>2, <1>5, <1>7, <1>8, <1>9 DEF Hands

LEMMA PostCallbackKeeps ==
  ASSUME Inv, NEW r \in Runner, Executed(r), PostCallback(r),
         UNCHANGED <<tasks, accepted, executed>>,
         IF r = Worker THEN TRUE ELSE pc' = pc
  PROVE  Backlog' /\ Hands'
<1> USE DatabaseTasksAssumption
<1>1. TypeOK /\ Backlog /\ Hands
  BY DEF Inv
<1>2. /\ hand' = [hand EXCEPT ![r] = NoQuery]
      /\ hand \in [Runner -> Query \cup {NoQuery}]
      /\ hand[r] \in Range(executed)
  BY <1>1 DEF PostCallback, Executed, TypeOK
<1>3. /\ Range(hand') \subseteq Range(hand) \cup {NoQuery}
      /\ \A q \in Range(hand) : q # hand[r] => q \in Range(hand')
  BY <1>2 DEF Range
<1>4. Taken' = Taken
  BY DEF Taken
<1>5. Backlog'
  BY <1>1, <1>4 DEF Backlog
<1>6. \A i \in 1 .. Taken' : accepted'[i] \in Range(executed') \cup Range(hand')
  BY <1>1, <1>2, <1>3, <1>4 DEF Hands
<1>7. \A q \in Range(executed') \cup Range(hand') :
        q # NoQuery => \E i \in 1 .. Taken' : q = accepted'[i]
  BY <1>1, <1>3, <1>4 DEF Hands
<1>8. \A x, y \in Runner : hand'[x] = hand'[y] /\ hand'[x] # NoQuery => x = y
  BY <1>1, <1>2 DEF Hands
<1>9. hand'[Worker] # NoQuery => pc' = "running"
  BY <1>1, <1>2 DEF Hands, Runner
<1> QED
  BY <1>1, <1>5, <1>6, <1>7, <1>8, <1>9 DEF Hands

(* A new query goes to the end of both lists. *)
LEMMA AcceptKeeps ==
  ASSUME Inv, NEW th \in Thread, NEW q \in Query, AddTask(th, q), AcceptTask(th, q)
  PROVE  Backlog' /\ Hands'
<1>1. TypeOK /\ Backlog /\ Hands
  BY DEF Inv
<1>2. /\ tasks' = Append(tasks, q) /\ accepted' = Append(accepted, q)
      /\ q \notin Range(accepted)
      /\ UNCHANGED <<executed, hand, pc>>
      /\ tasks \in Seq(Query) /\ accepted \in Seq(Query)
  BY <1>1 DEF AddTask, AcceptTask, TypeOK
<1>3. /\ Len(tasks) \in Nat /\ Len(tasks') = Len(tasks) + 1
      /\ \A i \in 1 .. Len(tasks) : tasks'[i] = tasks[i]
      /\ tasks'[Len(tasks) + 1] = q
  BY <1>2, AppendQuery
<1>4. /\ Len(accepted) \in Nat /\ Len(accepted') = Len(accepted) + 1
      /\ DOMAIN accepted = 1 .. Len(accepted)
      /\ \A i \in 1 .. Len(accepted) : accepted'[i] = accepted[i]
      /\ accepted'[Len(accepted) + 1] = q
  BY <1>2, AppendQuery
<1>5. Taken' = Taken /\ Taken \in 0 .. Len(accepted)
  BY <1>1, <1>3, <1>4 DEF Taken, Backlog
<1>6. Backlog'
  <2>1. ASSUME NEW k \in 1 .. Len(tasks')
        PROVE  tasks'[k] = accepted'[Taken' + k]
    <3>1. CASE k = Len(tasks) + 1
      <4>1. Taken + k = Len(accepted) + 1
        BY <1>3, <1>4, <3>1 DEF Taken
      <4> QED
        BY <1>3, <1>4, <1>5, <3>1, <4>1
    <3>2. CASE k # Len(tasks) + 1
      <4>1. k \in 1 .. Len(tasks)
        BY <1>3, <2>1, <3>2
      <4>2. tasks'[k] = accepted[Taken + k]
        BY <1>1, <1>3, <4>1 DEF Backlog
      <4>3. Taken + k \in 1 .. Len(accepted)
        BY <1>3, <1>4, <1>5, <4>1 DEF Taken
      <4> QED
        BY <1>4, <1>5, <4>2, <4>3
    <3> QED
      BY <3>1, <3>2
  <2>2. \A i \in 1 .. Len(accepted) : accepted[i] # q
    BY <1>2, <1>4 DEF Range
  <2>3. \A i, j \in 1 .. Len(accepted') : accepted'[i] = accepted'[j] => i = j
    BY <1>1, <1>4, <2>2 DEF Backlog
  <2>4. Len(tasks') <= Len(accepted')
    BY <1>1, <1>3, <1>4 DEF Backlog
  <2> QED
    BY <2>1, <2>3, <2>4 DEF Backlog
<1>7. \A i \in 1 .. Taken : i \in 1 .. Len(accepted) /\ accepted'[i] = accepted[i]
  BY <1>4, <1>5
<1> QED
  BY <1>1, <1>2, <1>5, <1>6, <1>7 DEF Hands

LEMMA InvHolds == Spec => []Inv
<1> USE DatabaseTasksAssumption DEF Runner
<1>1. Init => Inv
  <2> SUFFICES ASSUME Init
               PROVE  Inv
    OBVIOUS
  <2>1. /\ Len(tasks) = 0 /\ Len(accepted) = 0 /\ Len(executed) = 0
        /\ Range(executed) = {}
    BY EmptySeq DEF Init, Range
  <2>2. \A q \in Range(hand) : q = NoQuery
    BY DEF Init, Range
  <2>3. hand = [r \in Runner |-> NoQuery]
    BY DEF Init
  <2>4. TypeOK
    BY EmptySeq DEF Init, TypeOK, ThreadState
  <2>5. Backlog
    BY <2>1 DEF Backlog
  <2>6. Hands
    BY <2>1, <2>2, <2>3 DEF Hands, Taken
  <2> QED
    BY <2>4, <2>5, <2>6 DEF Inv
<1>2. TypeOK' /\ Inv /\ [Next]_vars => Inv'
  <2> SUFFICES ASSUME TypeOK', Inv, [Next]_vars
               PROVE  Backlog' /\ Hands'
    BY DEF Inv
  <2>1. pc # "running" => hand[Worker] = NoQuery
    BY DEF Inv, Hands
  <2>2. CASE CheckState \/ Wait
    BY <2>1, <2>2, NothingMoves DEF CheckState, Wait
  <2>3. CASE Take
    BY <2>1, <2>3, PopKeeps DEF Take
  <2>4. CASE WakeUp
    <3>1. CASE Pop(Worker) /\ pc' = "running"
      BY <2>1, <2>4, <3>1, PopKeeps DEF WakeUp
    <3>2. CASE tasks = <<>> /\ pc' = "check" /\ UNCHANGED <<tasks, hand>>
      BY <2>1, <2>4, <3>2, NothingMoves DEF WakeUp
    <3> QED
      BY <2>4, <3>1, <3>2 DEF WakeUp
  <2>5. CASE FinishTask
    BY <2>5, PostCallbackKeeps DEF FinishTask
  <2>6. ASSUME NEW r \in Runner, Execute(r)
        PROVE  Backlog' /\ Hands'
    BY <2>6, ExecuteKeeps
  <2>7. ASSUME NEW th \in Thread, FlushTake(th)
        PROVE  Backlog' /\ Hands'
    BY <2>7, PopKeeps DEF FlushTake
  <2>8. ASSUME NEW th \in Thread, FlushTask(th)
        PROVE  Backlog' /\ Hands'
    BY <2>8, PostCallbackKeeps DEF FlushTask
  <2>9. ASSUME NEW th \in Thread, AddTaskSignal(th) \/ ShutdownNotify(th)
        PROVE  Backlog' /\ Hands'
    BY <2>1, <2>9, NothingMoves DEF AddTaskSignal, ShutdownNotify
  <2>10. ASSUME NEW th \in Thread, FlushReturn(th) \/ Flush(th) \/ Stop(th) \/ Shutdown(th)
         PROVE  Backlog' /\ Hands'
    BY <2>1, <2>10, NothingMoves DEF FlushReturn, Flush, Stop, Shutdown
  <2>11. ASSUME NEW th \in Thread, NEW q \in Query, AddTask(th, q)
         PROVE  Backlog' /\ Hands'
    <3>1. CASE AcceptTask(th, q)
      BY <2>11, <3>1, AcceptKeeps
    <3>2. CASE DropTask(q)
      BY <2>1, <2>11, <3>2, NothingMoves DEF AddTask, DropTask
    <3> QED
      BY <2>11, <3>1, <3>2 DEF AddTask
  <2>12. CASE UNCHANGED vars
    BY <2>1, <2>12, NothingMoves DEF vars
  <2> QED
    BY <2>2, <2>3, <2>4, <2>5, <2>6, <2>7, <2>8, <2>9, <2>10, <2>11, <2>12
       DEF Next, WorkerMain, WakeNotified, WakeSpurious, Continue
<1> QED
  BY <1>1, <1>2, TypeCorrect, PTL DEF Spec

(* The worker and a flush share the backlog: every accepted query is in the    *)
(* list, in one hand, or executed, and is executed once (databasetasks.cpp:37, *)
(* 86, 104).                                                                   *)
THEOREM QueriesAreKept == Spec => []EachQueryOnce
<1>1. Inv => EachQueryOnce
  <2> SUFFICES ASSUME Inv
               PROVE  EachQueryOnce
    OBVIOUS
  <2> USE DatabaseTasksAssumption
  <2>1. TypeOK /\ Backlog /\ Hands
    BY DEF Inv
  <2>2. Taken \in 0 .. Len(accepted)
    BY <2>1, Lengths DEF Taken, Backlog
  <2>3. Range(tasks) \subseteq Range(accepted)
    <3>1. ASSUME NEW k \in 1 .. Len(tasks)
          PROVE  tasks[k] \in Range(accepted)
      <4>1. Taken + k \in 1 .. Len(accepted)
        BY <2>1, <2>2, Lengths DEF Taken
      <4>2. tasks[k] = accepted[Taken + k]
        BY <2>1 DEF Backlog
      <4> QED
        BY <2>1, <4>1, <4>2, Lengths DEF Range
    <3> QED
      BY <2>1, <3>1, Lengths DEF Range
  <2>4. ASSUME NEW q \in Range(executed) \cup (Range(hand) \ {NoQuery})
        PROVE  q \in Range(accepted)
    <3>1. q # NoQuery
      <4>1. CASE q \in Range(executed)
        BY <2>1, <4>1, Lengths, ElementOfSeq DEF Range, TypeOK
      <4> QED
        BY <2>4, <4>1
    <3>2. PICK i \in 1 .. Taken : q = accepted[i]
      BY <2>1, <2>4, <3>1 DEF Hands
    <3> QED
      BY <2>1, <2>2, <3>2, Lengths DEF Range
  <2>5. ASSUME NEW i \in 1 .. Len(accepted)
        PROVE  accepted[i] \in Range(tasks) \cup Range(executed) \cup (Range(hand) \ {NoQuery})
    <3>1. CASE i <= Taken
      <4>1. accepted[i] \in Range(executed) \cup Range(hand)
        BY <2>1, <2>2, <3>1 DEF Hands
      <4> QED
        BY <2>1, <4>1, Lengths
    <3>2. CASE i > Taken
      <4>1. i - Taken \in 1 .. Len(tasks) /\ Taken + (i - Taken) = i
        BY <2>1, <2>2, <3>2, Lengths DEF Taken
      <4>2. tasks[i - Taken] = accepted[i]
        BY <2>1, <4>1 DEF Backlog
      <4> QED
        BY <2>1, <4>1, <4>2, Lengths DEF Range
    <3> QED
      BY <2>2, <3>1, <3>2
  <2>6. Range(accepted) \subseteq Range(tasks) \cup Range(executed) \cup (Range(hand) \ {NoQuery})
    BY <2>1, <2>5, Lengths DEF Range
  <2> QED
    BY <2>1, <2>3, <2>4, <2>6, Lengths DEF EachQueryOnce, Hands
<1> QED
  BY <1>1, InvHolds, PTL

(* A query is executed before an older one only while the older one is in      *)
(* another thread's hand: the list itself keeps its order, whoever pops it.    *)
THEOREM BacklogKeepsItsOrder == Spec => OnlyInHandIsOvertaken
<1> DEFINE InOrder == \A i, j \in DOMAIN accepted :
                        (i < j /\ accepted[j] \in Range(executed') \ Range(executed)) =>
                          accepted[i] \in Range(executed) \cup Range(hand)
<1>1. Inv /\ [Next]_vars => InOrder
  <2> SUFFICES ASSUME Inv, [Next]_vars,
                      NEW i \in DOMAIN accepted, NEW j \in DOMAIN accepted,
                      i < j, accepted[j] \in Range(executed') \ Range(executed)
               PROVE  accepted[i] \in Range(executed) \cup Range(hand)
    OBVIOUS
  <2> USE DatabaseTasksAssumption
  <2>1. TypeOK /\ Backlog /\ Hands
    BY DEF Inv
  <2>2. \E r \in Runner : Execute(r)
    <3>1. executed' # executed
      OBVIOUS
    <3>2. ASSUME \A r \in Runner : ~Execute(r)
          PROVE  UNCHANGED executed
      BY <3>2 DEF Next, WorkerMain, WakeNotified, WakeSpurious, Continue, Runner,
                  CheckState, Wait, Take, WakeUp, FinishTask, AddTask, AddTaskSignal,
                  FlushTake, FlushTask, FlushReturn, Flush, Stop, Shutdown, ShutdownNotify, vars
    <3> QED
      BY <3>1, <3>2
  <2>3. PICK r \in Runner : Execute(r)
    BY <2>2
  <2>4. /\ executed' = Append(executed, hand[r]) /\ hand[r] # NoQuery
        /\ hand[r] \in Query /\ executed \in Seq(Query) /\ hand[r] \in Range(hand)
    BY <2>1, <2>3 DEF Execute, TypeOK, Range
  <2>5. accepted[j] = hand[r]
    BY <2>4, AppendQuery
  <2>6. PICK k \in 1 .. Taken : hand[r] = accepted[k]
    BY <2>1, <2>4 DEF Hands
  <2>7. Taken \in 0 .. Len(accepted) /\ i \in 1 .. Len(accepted) /\ j \in 1 .. Len(accepted)
    BY <2>1, Lengths DEF Taken, Backlog
  <2>8. j = k
    BY <2>1, <2>5, <2>6, <2>7 DEF Backlog
  <2>9. i \in 1 .. Taken
    BY <2>6, <2>7, <2>8
  <2> QED
    BY <2>1, <2>9 DEF Hands
<1>2. Inv /\ [Next]_vars => [InOrder]_vars
  BY <1>1
<1> QED
  BY <1>2, InvHolds, PTL DEF Spec, OnlyInHandIsOvertaken

(***************************************************************************)
(* Shutdown                                                                *)
(***************************************************************************)
(* Once terminated, somebody drains the list or it is empty; who flushes     *)
(* nothing holds nothing; a callback is posted by whoever executed its query. *)
Drained ==
  /\ threadState = "TERMINATED" /\ (\A th \in Thread : ~Flushing(th)) => tasks = <<>>
  /\ \A th \in Thread : hand[th] # NoQuery => Flushing(th)
  /\ pc = "exited" => threadState = "TERMINATED"
  /\ posted \subseteq Range(executed)
  /\ \A q \in Range(executed) \cap WithCallback : q \in posted \/ q \in Range(hand)

LEMMA OthersHandsStay ==
  ASSUME TypeOK, NEW r \in Runner, NEW q, hand' = [hand EXCEPT ![r] = q]
  PROVE  \A s \in Runner : hand'[s] = IF s = r THEN q ELSE hand[s]
BY DEF TypeOK

LEMMA DrainedPop ==
  ASSUME Inv, Drained, NEW r \in Runner, Pop(r), hand[r] = NoQuery,
         r \in Thread => Flushing(r), pc' # "exited" \/ pc' = pc,
         UNCHANGED <<threadState, call, accepted, executed, dropped, posted>>
  PROVE  Drained'
<1> USE DatabaseTasksAssumption
<1>1. /\ tasks # <<>> /\ hand' = [hand EXCEPT ![r] = Head(tasks)]
      /\ hand \in [Runner -> Query \cup {NoQuery}]
  BY DEF Pop, Inv, TypeOK
<1>2. \E th \in Thread : Flushing(th) \/ threadState # "TERMINATED"
  BY <1>1 DEF Drained
<1>3. \A th \in Thread : Flushing(th)' = Flushing(th)
  BY DEF Flushing
<1>4. \A q \in Range(hand) : q # NoQuery => q \in Range(hand')
  BY <1>1 DEF Range
<1>5. \A q \in Range(executed) \cap WithCallback : q # NoQuery
  BY DatabaseTasksAssumption
<1>6. \A th \in Thread : hand'[th] # NoQuery => Flushing(th)
  BY <1>1 DEF Drained, Runner
<1> QED
  BY <1>2, <1>3, <1>4, <1>5, <1>6 DEF Drained

LEMMA DrainedPost ==
  ASSUME Inv, Drained, NEW r \in Runner, Executed(r), PostCallback(r),
         pc' # "exited" \/ pc' = pc,
         UNCHANGED <<threadState, tasks, call, accepted, executed, dropped>>
  PROVE  Drained'
<1> USE DatabaseTasksAssumption
<1>1. /\ hand' = [hand EXCEPT ![r] = NoQuery]
      /\ hand \in [Runner -> Query \cup {NoQuery}]
      /\ hand[r] \in Range(executed)
      /\ posted' = IF hand[r] \in WithCallback THEN posted \cup {hand[r]} ELSE posted
  BY DEF PostCallback, Executed, Inv, TypeOK
<1>2. \A th \in Thread : Flushing(th)' = Flushing(th)
  BY DEF Flushing
<1>3. \A q \in Range(hand) : q # hand[r] => q \in Range(hand')
  BY <1>1 DEF Range
<1>4. \A th \in Thread : hand'[th] # NoQuery => Flushing(th)
  BY <1>1 DEF Drained, Runner
<1>5. posted' \subseteq Range(executed)
  BY <1>1 DEF Drained
<1>6. \A q \in Range(executed) \cap WithCallback : q \in posted' \/ q \in Range(hand')
  BY <1>1, <1>3 DEF Drained
<1> QED
  BY <1>2, <1>4, <1>5, <1>6 DEF Drained

LEMMA DrainedExecute ==
  ASSUME Inv, Drained, NEW r \in Runner, Execute(r)
  PROVE  Drained'
<1>1. /\ executed' = Append(executed, hand[r]) /\ hand[r] \in Query
      /\ executed \in Seq(Query) /\ hand[r] \in Range(hand)
      /\ UNCHANGED <<threadState, tasks, pc, call, hand, posted>>
  BY DEF Execute, Inv, TypeOK, Range
<1>2. Range(executed') = Range(executed) \cup {hand[r]}
  BY <1>1, AppendQuery
<1>3. \A th \in Thread : Flushing(th)' = Flushing(th)
  BY <1>1 DEF Flushing
<1> QED
  BY <1>1, <1>2, <1>3 DEF Drained

(* Who begins or ends a call. *)
LEMMA DrainedCall ==
  ASSUME Inv, Drained, NEW th \in Thread,
         \/ FlushReturn(th) \/ Flush(th) \/ Stop(th) \/ Shutdown(th)
         \/ AddTaskSignal(th) \/ ShutdownNotify(th)
  PROVE  Drained'
<1>1. /\ UNCHANGED <<tasks, pc, hand, executed, posted>>
      /\ call \in [Thread -> {"idle", "signal", "flush", "drain", "notify"}]
  BY DEF FlushReturn, Flush, Stop, Shutdown, AddTaskSignal, ShutdownNotify, Inv, TypeOK
<1>2. ASSUME NEW t \in Thread, t # th
      PROVE  Flushing(t)' = Flushing(t)
  BY <1>1, <1>2 DEF Flushing, FlushReturn, Flush, Stop, Shutdown, AddTaskSignal, ShutdownNotify
<1>3. threadState = "TERMINATED" => threadState' = "TERMINATED"
  BY DEF FlushReturn, Flush, Stop, Shutdown, AddTaskSignal, ShutdownNotify
<1>4. hand[th] # NoQuery => Flushing(th)' \/ hand'[th] = NoQuery
  <2>1. SUFFICES ASSUME hand[th] # NoQuery PROVE Flushing(th)'
    OBVIOUS
  <2>2. call[th] \in {"flush", "drain"}
    BY <2>1 DEF Drained, Flushing
  <2>3. ~FlushReturn(th) /\ ~Flush(th) /\ ~Shutdown(th) /\ ~AddTaskSignal(th) /\ ~ShutdownNotify(th) /\ ~Stop(th)
    BY <2>1, <2>2 DEF FlushReturn, Flush, Shutdown, Stop, AddTaskSignal, ShutdownNotify
  <2> QED
    BY <2>3
<1>5. threadState' = "TERMINATED" /\ (\A t \in Thread : ~Flushing(t)') => tasks' = <<>>
  <2> SUFFICES ASSUME threadState' = "TERMINATED", \A t \in Thread : ~Flushing(t)'
               PROVE  tasks = <<>>
    BY <1>1
  <2>1. CASE FlushReturn(th)
    BY <2>1 DEF FlushReturn
  <2>2. CASE Shutdown(th)
    <3>1. call'[th] = "drain"
      BY <1>1, <2>2 DEF Shutdown
    <3> QED
      BY <3>1 DEF Flushing
  <2>3. CASE Flush(th)
    <3>1. call'[th] = "flush"
      BY <1>1, <2>3 DEF Flush
    <3> QED
      BY <3>1 DEF Flushing
  <2>4. CASE Stop(th)
    BY <2>4 DEF Stop
  <2>5. CASE AddTaskSignal(th) \/ ShutdownNotify(th)
    <3>1. threadState = "TERMINATED" /\ ~Flushing(th)
      BY <2>5 DEF AddTaskSignal, ShutdownNotify, Flushing
    <3> QED
      BY <1>2, <3>1 DEF Drained
  <2> QED
    BY <2>1, <2>2, <2>3, <2>4, <2>5
<1>6. \A t \in Thread : hand'[t] # NoQuery => Flushing(t)'
  BY <1>1, <1>2, <1>4 DEF Drained
<1> QED
  BY <1>1, <1>3, <1>5, <1>6 DEF Drained

LEMMA DrainedAdd ==
  ASSUME Inv, Drained, NEW th \in Thread, NEW q \in Query, AddTask(th, q)
  PROVE  Drained'
<1>1. /\ UNCHANGED <<threadState, pc, hand, executed, posted>> /\ call[th] = "idle"
      /\ call \in [Thread -> {"idle", "signal", "flush", "drain", "notify"}]
      /\ call' = call \/ call' = [call EXCEPT ![th] = "signal"]
      /\ threadState = "TERMINATED" => UNCHANGED tasks
  BY DEF AddTask, AcceptTask, DropTask, Inv, TypeOK
<1>2. \A t \in Thread : Flushing(t)' = Flushing(t)
  BY <1>1 DEF Flushing
<1> QED
  BY <1>1, <1>2 DEF Drained

(* When the worker has ended and the shutdown's flush is over, the database    *)
(* has done every query that addTask accepted, and every callback went out:    *)
(* the worker leaves its loop with queries in the list, and flush() has them.  *)
THEOREM ShutdownLosesNothing == Spec => []NothingLostAtShutdown
<1> USE DatabaseTasksAssumption
<1>1. Init => Drained
  <2> SUFFICES ASSUME Init
               PROVE  Drained
    OBVIOUS
  <2>1. Range(executed) = {}
    BY DEF Init, Range
  <2> QED
    BY <2>1 DEF Init, Drained, Runner
<1>2. Inv /\ Drained /\ [Next]_vars => Drained'
  <2> SUFFICES ASSUME Inv, Drained, [Next]_vars
               PROVE  Drained'
    OBVIOUS
  <2>1. hand[Worker] # NoQuery => pc = "running"
    BY DEF Inv, Hands
  <2>2. Worker \in Runner /\ Worker \notin Thread /\ \A th \in Thread : th \in Runner
    BY DEF Runner
  <2>3. CASE CheckState \/ Wait
    BY <2>3 DEF CheckState, Wait, Drained, Flushing
  <2>4. CASE Take
    BY <2>1, <2>2, <2>4, DrainedPop DEF Take
  <2>5. CASE WakeUp
    <3>1. CASE Pop(Worker) /\ pc' = "running"
      BY <2>1, <2>2, <2>5, <3>1, DrainedPop DEF WakeUp
    <3>2. CASE tasks = <<>> /\ pc' = "check" /\ UNCHANGED <<tasks, hand>>
      BY <2>5, <3>2 DEF WakeUp, Drained, Flushing
    <3> QED
      BY <2>5, <3>1, <3>2 DEF WakeUp
  <2>6. CASE FinishTask
    BY <2>2, <2>6, DrainedPost DEF FinishTask
  <2>7. ASSUME NEW r \in Runner, Execute(r)
        PROVE  Drained'
    BY <2>7, DrainedExecute
  <2>8. ASSUME NEW th \in Thread, FlushTake(th)
        PROVE  Drained'
    BY <2>2, <2>8, DrainedPop DEF FlushTake
  <2>9. ASSUME NEW th \in Thread, FlushTask(th)
        PROVE  Drained'
    BY <2>2, <2>9, DrainedPost DEF FlushTask
  <2>10. CASE UNCHANGED vars
    BY <2>10 DEF vars, Drained, Flushing
  <2> QED
    BY <2>2, <2>3, <2>4, <2>5, <2>6, <2>7, <2>8, <2>9, <2>10, DrainedCall, DrainedAdd
       DEF Next, WorkerMain, WakeNotified, WakeSpurious, Continue
<1>3. Inv /\ Drained => NothingLostAtShutdown
  <2> SUFFICES ASSUME Inv, Drained, pc = "exited", \A th \in Thread : ~Flushing(th)
               PROVE  /\ Range(accepted) = Range(executed)
                      /\ posted = Range(executed) \cap WithCallback
    BY DEF NothingLostAtShutdown
  <2>1. TypeOK /\ Backlog /\ Hands
    BY DEF Inv
  <2>2. tasks = <<>>
    BY DEF Drained
  <2>3. \A r \in Runner : hand[r] = NoQuery
    BY <2>1 DEF Drained, Hands, Runner
  <2>4. \A q \in Range(hand) : q = NoQuery
    BY <2>1, <2>3 DEF Range, TypeOK
  <2>5. Taken = Len(accepted) /\ Len(accepted) \in Nat
    BY <2>1, <2>2, EmptySeq, Lengths DEF Taken
  <2>6. ASSUME NEW q \in Range(accepted)
        PROVE  q \in Range(executed)
    <3>1. PICK i \in 1 .. Len(accepted) : q = accepted[i]
      BY <2>1, <2>6, Lengths DEF Range
    <3>2. accepted[i] \in Range(executed) \cup Range(hand) /\ accepted[i] # NoQuery
      BY <2>1, <2>5, Lengths DEF Hands
    <3> QED
      BY <2>4, <3>1, <3>2
  <2>7. ASSUME NEW q \in Range(executed)
        PROVE  q \in Range(accepted) /\ q # NoQuery
    <3>1. q # NoQuery
      BY <2>1, <2>7, Lengths, ElementOfSeq DEF Range, TypeOK
    <3>2. PICK i \in 1 .. Taken : q = accepted[i]
      BY <2>1, <2>7, <3>1 DEF Hands
    <3> QED
      BY <2>1, <2>5, <3>1, <3>2, Lengths DEF Range
  <2>8. posted = Range(executed) \cap WithCallback
    BY <2>1, <2>4, <2>7 DEF Drained, TypeOK
  <2> QED
    BY <2>6, <2>7, <2>8
<1> QED
  BY <1>1, <1>2, <1>3, InvHolds, PTL DEF Spec

(* The worker never sleeps on a backlog with nobody left to wake it, although  *)
(* addTask signals only an empty list and a flush empties it behind its back.  *)
THEOREM NoWakeupIsLost == Spec => []NoLostWakeup
<1> USE DatabaseTasksAssumption
<1>1. Init => NoLostWakeup
  BY DEF Init, NoLostWakeup
<1>2. TypeOK /\ NoLostWakeup /\ [Next]_vars => NoLostWakeup'
  <2> SUFFICES ASSUME TypeOK, NoLostWakeup, [Next]_vars, pc' = "waiting", tasks' # <<>>
               PROVE  signalled' \/ \E th \in Thread : call'[th] = "signal"
    BY DEF NoLostWakeup
  <2>1. CASE CheckState \/ Wait \/ Take \/ WakeUp \/ FinishTask
    BY <2>1 DEF CheckState, Wait, Take, WakeUp, FinishTask
  <2>2. ASSUME NEW r \in Runner, Execute(r)
        PROVE  signalled' \/ \E th \in Thread : call'[th] = "signal"
    BY <2>2 DEF Execute, NoLostWakeup
  <2>3. ASSUME NEW th \in Thread, AddTaskSignal(th) \/ ShutdownNotify(th)
        PROVE  signalled'
    BY <2>3 DEF AddTaskSignal, ShutdownNotify, NotifyOne
  <2>4. ASSUME NEW th \in Thread, FlushTake(th) \/ FlushTask(th)
        PROVE  signalled' \/ \E t \in Thread : call'[t] = "signal"
    <3>1. tasks # <<>> /\ UNCHANGED <<pc, signalled, call>>
      BY <2>4 DEF FlushTake, FlushTask, Pop
    <3> QED
      BY <3>1 DEF NoLostWakeup
  <2>5. ASSUME NEW th \in Thread, FlushReturn(th) \/ Flush(th) \/ Stop(th) \/ Shutdown(th)
        PROVE  signalled' \/ \E t \in Thread : call'[t] = "signal"
    <3>1. UNCHANGED <<pc, signalled, tasks>> /\ call[th] # "signal"
      BY <2>5 DEF FlushReturn, Flush, Stop, Shutdown, Flushing
    <3>2. \A t \in Thread : call[t] = "signal" => call'[t] = "signal"
      BY <2>5, <3>1 DEF FlushReturn, Flush, Stop, Shutdown, TypeOK
    <3> QED
      BY <3>1, <3>2 DEF NoLostWakeup
  <2>6. ASSUME NEW th \in Thread, NEW q \in Query, AddTask(th, q)
        PROVE  signalled' \/ \E t \in Thread : call'[t] = "signal"
    <3>1. CASE tasks = <<>>
      <4>1. call' = [call EXCEPT ![th] = "signal"]
        BY <2>6, <3>1 DEF AddTask, AcceptTask, DropTask
      <4> QED
        BY <4>1 DEF TypeOK
    <3>2. CASE tasks # <<>>
      <4>1. UNCHANGED <<pc, signalled, call>>
        BY <2>6, <3>2 DEF AddTask, AcceptTask, DropTask
      <4> QED
        BY <3>2, <4>1 DEF NoLostWakeup
    <3> QED
      BY <3>1, <3>2
  <2>7. CASE UNCHANGED vars
    BY <2>7 DEF vars, NoLostWakeup
  <2> QED
    BY <2>1, <2>2, <2>3, <2>4, <2>5, <2>6, <2>7
       DEF Next, WorkerMain, WakeNotified, WakeSpurious, Continue, Runner
<1> QED
  BY <1>1, <1>2, TypeCorrect, PTL DEF Spec
=============================================================================
