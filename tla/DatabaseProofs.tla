--------------------------- MODULE DatabaseProofs ---------------------------
(***************************************************************************)
(* Proofs about the shared connection, for saves of any length, tried any    *)
(* number of times, over any number of losses and refusals.                  *)
(*                                                                           *)
(* The argument: the dispatcher holds the lock from the first statement of a *)
(* save to its end (Locks), so what the session sees and has not committed   *)
(* is seen by nobody else (Visible); and while the transaction of a save is  *)
(* open, it has all the rows that were written (Written).  A transaction is  *)
(* lost with its connection and never opened again, so that what is written  *)
(* then is written at once, and the kind excused.                            *)
(*                                                                           *)
(* And proofs about the market, whose offers and coins are in that database, *)
(* for any players, prices, fee and number of offers.  Their argument: the   *)
(* rows of a search agree with the offers still there in all but amount and  *)
(* age (MarketInv), and what players and offers have of gold or of a good    *)
(* (Wealth) changes in each action at one or two players and one offer only, *)
(* or in what an answered search gives back.  The sums over finite sets come *)
(* first: SumFunction is defined by recursion over the set, so a sum exists  *)
(* as the set grows (GrowsToAll) and is the same in every order (TheSum).    *)
(***************************************************************************)
EXTENDS Database, Market, SequenceTheorems, FiniteSetTheorems, WellFoundedInduction, TLAPS

(* The dispatcher holds the lock of its transaction. *)
InTransaction ==
  statement # 0 /\ pc \in {"lock", "query", "unlock", "commit", "rollback"}

Held == (IF InTransaction THEN 1 ELSE 0) + (IF pc \in {"query", "unlock"} THEN 1 ELSE 0)

Locks ==
  /\ network \in {"query", "read", "failed"} <=> owner = "network"
  /\ owner = "dispatcher" <=> Held > 0
  /\ depth = IF owner = NoThread THEN 0 ELSE IF owner = "network" THEN 1 ELSE Held
  /\ pc = "begun" => statement = 0
  /\ pc = "commit" => statement = MaxStatement

Visible ==
  /\ open => alive /\ believes
  /\ ~open => view = durable
  /\ view # durable => InTransaction
  /\ open => InTransaction \/ (statement = 0 /\ pc \in {"unlock", "begun", "rollback"})
  /\ \A k \in Kind \ {kind} : view[k] = durable[k]

(* Statement r of this save has been executed. *)
Done(r) ==
  \/ pc \in {"lock", "query", "unlock"} /\ r < statement
  \/ pc = "unlock" /\ r = statement /\ succeeded
  \/ pc = "commit"

Written ==
  kind \notin excused =>
    /\ open /\ InTransaction => \A r \in Row : Done(r) => view[kind][r] = saves
    /\ (pc = "commit" \/ (pc = "unlock" /\ statement # 0 /\ succeeded)) /\ ~open =>
         ~alive /\ believes

Whole ==
  /\ \A k \in Kind \ excused :
       /\ \A r, s \in Row : durable[k][r] = durable[k][s]
       /\ pc = "done" /\ succeeded /\ kind = k => durable[k][1] = saves
  /\ pc = "rollback" => ~succeeded

Inv == TypeOK /\ Locks /\ Visible /\ Written /\ Whole

-----------------------------------------------------------------------------
LEMMA Constants ==
  /\ MaxStatement \in Nat /\ MaxStatement > 0
  /\ MaxTries \in Nat /\ MaxTries > 0 /\ MaxSaves \in Nat /\ MaxSaves > 0
  /\ MaxLosses \in Nat /\ MaxRefusals \in Nat
  /\ NoThread # "dispatcher" /\ NoThread # "network"
BY DatabaseAssumption

(* Who holds the lock, and how often.  A rollback that comes after a refused   *)
(* BEGIN unlocks what it does not hold, which changes nothing.                 *)
LEMMA LocksKept ==
  ASSUME TypeOK, Locks, [Next]_vars
  PROVE  Locks'
<1> USE Constants DEF Locks, Held, InTransaction, Lock, Free, Unlock, TypeOK
<1>1. CASE UNCHANGED vars
  BY <1>1 DEF vars, lockVars, saveVars
<1>2. ASSUME NEW k \in Kind, Save(k)
      PROVE  Locks'
  BY <1>2 DEF Save, lockVars
<1>3. CASE ExecuteQuery
  BY <1>3 DEF ExecuteQuery, saveVars
<1>4. CASE QueryAnswered \/ QueryAnswerLost \/ QueryRefused
  BY <1>4 DEF QueryAnswered, QueryAnswerLost, QueryRefused, lockVars, saveVars
<1>5. CASE QueryReturns
  <2>1. /\ pc = "unlock" /\ UNCHANGED network
        /\ owner = "dispatcher" /\ depth = Held
        /\ statement \in 0 .. MaxStatement
    BY <1>5 DEF QueryReturns
  <2>2. /\ depth' = depth - 1
        /\ owner' = IF depth = 1 THEN NoThread ELSE "dispatcher"
    BY <1>5, <2>1 DEF QueryReturns
  <2>3. \/ statement = 0 /\ pc' = "begun" /\ statement' = statement
        \/ statement \in 1 .. MaxStatement - 1 /\ pc' = "lock" /\ statement' = statement + 1
        \/ statement = MaxStatement /\ pc' = "commit" /\ statement' = statement
        \/ pc' = "rollback" /\ statement' = statement
    BY <1>5 DEF QueryReturns, AfterQuery, NextStatement
  <2>4. CASE statement = 0
    BY <2>1, <2>2, <2>3, <2>4
  <2>5. CASE statement # 0
    BY <2>1, <2>2, <2>3, <2>5
  <2> QED
    BY <2>4, <2>5
<1>6. CASE BeginTransaction
  BY <1>6 DEF BeginTransaction
<1>7. CASE Commit
  <2>1. /\ pc = "commit" /\ statement = MaxStatement /\ pc' = "done"
        /\ owner = "dispatcher" /\ depth = 1
        /\ UNCHANGED <<statement, network>>
    BY <1>7 DEF Commit
  <2>2. owner' = NoThread /\ depth' = 0
    BY <1>7, <2>1 DEF Commit
  <2> QED
    BY <2>1, <2>2
<1>8. CASE Rollback
  BY <1>8 DEF Rollback, saveVars, lockVars
<1>9. CASE Return \/ TryAgain
  BY <1>9 DEF Return, TryAgain, lockVars
<1>10. CASE StoreLocks
  BY <1>10 DEF StoreLocks, NetworkGoes, saveVars
<1>11. CASE StoreAnswered \/ StoreQuery \/ StoreRefused
  BY <1>11 DEF StoreAnswered, StoreQuery, StoreRefused, NetworkGoes, saveVars, lockVars
<1>12. CASE StoreReturns
  BY <1>12 DEF StoreReturns, saveVars
<1>13. CASE Reconnected \/ Retried \/ ConnectionLost
  BY <1>13 DEF Reconnected, Retried, ConnectionLost, saveVars, lockVars
<1> QED
  BY <1>1, <1>2, <1>3, <1>4, <1>5, <1>6, <1>7, <1>8, <1>9, <1>10, <1>11, <1>12, <1>13
  DEF Next, DispatcherCall, NetworkCall, Library

LEMMA TypesKept ==
  ASSUME TypeOK, Locks, [Next]_vars
  PROVE  TypeOK'
<1> USE Constants
<1>1. Locks'
  BY LocksKept
<1>2. CASE UNCHANGED vars
  BY <1>2 DEF vars, serverVars, lockVars, saveVars, countVars, TypeOK
<1>3. CASE ~UNCHANGED vars
  <2>1. /\ {durable', view'} \subseteq Rows
        /\ excused' \subseteq Kind /\ kind' \in Kind
    <3>1. ASSUME NEW t \in Rows, NEW r \in Row
          PROVE  [t EXCEPT ![kind][r] = saves] \in Rows
      BY <3>1 DEF TypeOK, Rows
    <3>2. CASE QueryAnswered
      <4>1. CASE statement = 0
        BY <3>2, <4>1 DEF TypeOK, QueryAnswered, Executed
      <4>2. CASE statement # 0
        <5>1. statement \in Row
          BY <4>2 DEF TypeOK, Row
        <5>2. [view EXCEPT ![kind][statement] = saves] \in Rows
          BY <3>1, <5>1 DEF TypeOK
        <5> QED
          BY <3>2, <4>2, <5>2 DEF TypeOK, QueryAnswered, Executed
      <4> QED
        BY <4>1, <4>2
    <3>3. CASE QueryAnswerLost
      <4>1. CASE statement = 0
        BY <3>3, <4>1 DEF TypeOK, QueryAnswerLost, saveVars
      <4>2. CASE statement # 0
        <5>1. statement \in Row
          BY <4>2 DEF TypeOK, Row
        <5>2. [durable EXCEPT ![kind][statement] = saves] \in Rows
          BY <3>1, <5>1 DEF TypeOK
        <5> QED
          BY <3>3, <4>2, <5>2 DEF TypeOK, QueryAnswerLost, saveVars
      <4> QED
        BY <4>1, <4>2
    <3>4. CASE ~QueryAnswered /\ ~QueryAnswerLost
      BY <1>3, <3>4 DEF TypeOK, Next, DispatcherCall, NetworkCall, Library, Save, ExecuteQuery,
                 QueryReturns, BeginTransaction, Commit, CommitOutcome, Rollback, Return, TryAgain,
                 QueryRefused, StoreQuery, StoreLocks, StoreAnswered, StoreRefused, StoreReturns,
                 Reconnected, Retried, ConnectionLost, Refusal, serverVars, saveVars, countVars
    <3> QED
      BY <3>2, <3>3, <3>4
  <2>2. {open', alive', believes', succeeded'} \subseteq BOOLEAN
    BY <1>3 DEF TypeOK, Next, DispatcherCall, NetworkCall, Library, Save, ExecuteQuery,
               QueryAnswered, Executed, QueryReturns, BeginTransaction, Commit, CommitOutcome,
               Rollback, Return, TryAgain, QueryAnswerLost,
               QueryRefused, StoreQuery, StoreLocks, StoreAnswered, StoreRefused, StoreReturns,
               Reconnected, Retried, ConnectionLost, Refusal, serverVars, saveVars, countVars
  <2>3. owner' \in {NoThread, "dispatcher", "network"}
    BY <1>3 DEF TypeOK, Next, DispatcherCall, NetworkCall, Library, Save, ExecuteQuery,
               QueryAnswered, QueryReturns, BeginTransaction, Commit,
               Rollback, Return, TryAgain, QueryAnswerLost,
               QueryRefused, StoreQuery, StoreLocks, StoreAnswered, StoreRefused, StoreReturns,
               Reconnected, Retried, ConnectionLost, lockVars, Lock, Unlock
  <2>4. depth' \in 0 .. 2
    BY <1>1, <2>3 DEF Locks, Held
  <2>5. /\ pc' \in {"idle", "lock", "query", "unlock", "begun", "commit", "rollback", "done"}
        /\ statement' \in 0 .. MaxStatement /\ tries' \in 0 .. MaxTries
        /\ network' \in {"idle", "lock", "query", "read", "failed"}
    BY <1>3 DEF TypeOK, Next, DispatcherCall, NetworkCall, Library, Save, ExecuteQuery,
               QueryAnswered, QueryReturns, AfterQuery, NextStatement, BeginTransaction, Commit,
               Rollback, Return, TryAgain, QueryAnswerLost,
               QueryRefused, StoreQuery, StoreLocks, StoreAnswered, StoreRefused, StoreReturns,
               Reconnected, Retried, ConnectionLost, NetworkGoes, saveVars
  <2>6. /\ saves' \in 0 .. MaxSaves /\ losses' \in 0 .. MaxLosses
        /\ refusals' \in 0 .. MaxRefusals
    <3>1. ASSUME NEW k \in Kind, Save(k)
          PROVE  saves' \in 0 .. MaxSaves /\ losses' = losses /\ refusals' = refusals
      <4>1. saves % MaxSaves \in 0 .. MaxSaves - 1
        BY DEF TypeOK
      <4> QED
        BY <3>1, <4>1 DEF Save
    <3>2. CASE ~\E k \in Kind : Save(k)
      BY <1>3, <3>2 DEF TypeOK, Next, DispatcherCall, NetworkCall, Library, ExecuteQuery,
                 QueryAnswered, QueryReturns, BeginTransaction, Commit, CommitOutcome,
                 Rollback, Return, TryAgain, QueryAnswerLost,
                 QueryRefused, StoreQuery, StoreLocks, StoreAnswered, StoreRefused, StoreReturns,
                 Reconnected, Retried, ConnectionLost, Refusal, countVars
    <3> QED
      BY <3>1, <3>2 DEF TypeOK
  <2> QED
    BY <2>1, <2>2, <2>3, <2>4, <2>5, <2>6 DEF TypeOK
<1> QED
  BY <1>2, <1>3

(* What the server keeps for the session and what everybody sees. *)
LEMMA VisibleKept ==
  ASSUME TypeOK, Locks, Visible, [Next]_vars
  PROVE  Visible'
<1> USE Constants DEF Visible, InTransaction
<1>0. /\ durable \in Rows /\ view \in Rows /\ kind \in Kind
      /\ statement \in 0 .. MaxStatement
      /\ open \in BOOLEAN /\ alive \in BOOLEAN /\ believes \in BOOLEAN
  BY DEF TypeOK
<1>1. CASE UNCHANGED vars
  BY <1>1 DEF vars, serverVars, saveVars
<1>2. ASSUME NEW k \in Kind, Save(k)
      PROVE  Visible'
  BY <1>0, <1>2 DEF Save, serverVars
<1>3. CASE ExecuteQuery \/ QueryRefused \/ BeginTransaction \/ Return \/ TryAgain
  BY <1>0, <1>3 DEF ExecuteQuery, QueryRefused, BeginTransaction, Return, TryAgain, serverVars, saveVars
<1>4. CASE QueryAnswered
  <2>1. /\ pc = "query" /\ pc' = "unlock" /\ alive /\ alive' = alive /\ Executed
        /\ believes' = open' /\ UNCHANGED <<kind, statement>>
    BY <1>4 DEF QueryAnswered
  <2>2. CASE statement = 0
    BY <1>0, <2>1, <2>2 DEF Executed
  <2>3. CASE statement # 0
    <3> DEFINE written == [view EXCEPT ![kind][statement] = saves]
    <3>1. /\ view' = written
          /\ durable' = IF open THEN durable ELSE written
          /\ open' = open
      BY <2>1, <2>3 DEF Executed
    <3>2. \A k \in Kind \ {kind} : written[k] = view[k]
      BY <1>0 DEF Rows
    <3> HIDE DEF written
    <3> QED
      BY <1>0, <2>1, <2>3, <3>1, <3>2
  <2> QED
    BY <2>2, <2>3
<1>5. CASE QueryAnswerLost
  BY <1>0, <1>5 DEF QueryAnswerLost, saveVars
<1>6. CASE QueryReturns
  <2>1. pc = "unlock" /\ UNCHANGED <<serverVars, kind>>
    BY <1>6 DEF QueryReturns
  <2>2. \/ statement = 0 /\ pc' = "begun" /\ statement' = statement
        \/ statement \in 1 .. MaxStatement - 1 /\ pc' = "lock" /\ statement' = statement + 1
        \/ statement = MaxStatement /\ pc' = "commit" /\ statement' = statement
        \/ pc' = "rollback" /\ statement' = statement
    BY <1>6 DEF QueryReturns, AfterQuery, NextStatement
  <2> QED
    BY <1>0, <2>1, <2>2 DEF serverVars
<1>7. CASE Commit
  <2>1. pc' = "done" /\ UNCHANGED <<kind, statement>> /\ CommitOutcome
    BY <1>7 DEF Commit
  <2> QED
    BY <1>0, <2>1 DEF CommitOutcome
<1>8. CASE Rollback
  BY <1>0, <1>8 DEF Rollback, saveVars
<1>9. CASE StoreLocks \/ StoreAnswered \/ StoreQuery \/ StoreRefused \/ StoreReturns
  BY <1>0, <1>9 DEF StoreLocks, StoreAnswered, StoreQuery, StoreRefused, StoreReturns, serverVars, saveVars
<1>10. CASE Reconnected \/ Retried
  BY <1>0, <1>10 DEF Reconnected, Retried, saveVars
<1>11. CASE ConnectionLost
  BY <1>0, <1>11 DEF ConnectionLost, saveVars
<1> QED
  BY <1>1, <1>2, <1>3, <1>4, <1>5, <1>6, <1>7, <1>8, <1>9, <1>10, <1>11
  DEF Next, DispatcherCall, NetworkCall, Library

(* What a save has written while its transaction was open, and that one which  *)
(* lost it ends with a commit that fails.                                      *)
LEMMA WrittenKept ==
  ASSUME TypeOK, Locks, Visible, Written, [Next]_vars
  PROVE  Written'
<1> USE Constants DEF Written, InTransaction, Done
<1>0. /\ view \in Rows /\ kind \in Kind /\ excused \subseteq Kind
      /\ statement \in 0 .. MaxStatement /\ Row \subseteq Nat
      /\ open \in BOOLEAN /\ alive \in BOOLEAN /\ believes \in BOOLEAN
      /\ succeeded \in BOOLEAN
  BY DEF TypeOK, Row
<1>1. CASE UNCHANGED vars
  BY <1>1 DEF vars, serverVars, saveVars, countVars
<1>2. ASSUME NEW k \in Kind, Save(k)
      PROVE  Written'
  BY <1>2 DEF Save
<1>3. CASE ExecuteQuery
  BY <1>0, <1>3 DEF ExecuteQuery, serverVars, saveVars, countVars
<1>4. CASE QueryAnswered
  <2>1. /\ pc = "query" /\ pc' = "unlock" /\ Executed /\ succeeded' = TRUE
        /\ UNCHANGED <<kind, statement, saves>>
    BY <1>4 DEF QueryAnswered
  <2>2. CASE statement = 0
    BY <2>1, <2>2
  <2>3. CASE statement # 0 /\ open
    <3>1. statement \in Row
      BY <1>0, <2>3 DEF Row
    <3>2. /\ view' = [view EXCEPT ![kind][statement] = saves]
          /\ excused' = excused /\ open' = open
      BY <2>1, <2>3 DEF Executed
    <3>3. \A r \in Row : view'[kind][r] = IF r = statement THEN saves ELSE view[kind][r]
      BY <1>0, <3>1, <3>2 DEF Rows
    <3>4. \A r \in Row : r <= statement => r = statement \/ r < statement
      BY <1>0
    <3> QED
      BY <1>0, <2>1, <2>3, <3>2, <3>3, <3>4
  <2>4. CASE statement # 0 /\ ~open
    BY <1>0, <2>1, <2>4 DEF Executed
  <2> QED
    BY <1>0, <2>2, <2>3, <2>4
<1>5. CASE QueryAnswerLost
  BY <1>0, <1>5 DEF QueryAnswerLost, saveVars
<1>6. CASE QueryRefused
  BY <1>0, <1>6 DEF QueryRefused, serverVars
<1>7. CASE QueryReturns
  <2> DEFINE ignored == ~succeeded /\ statement # 0 /\ ~LooksAtAnswer(kind, statement)
  <2>1. /\ pc = "unlock"
        /\ AfterQuery(succeeded \/ ignored)
        /\ excused' = IF ignored THEN excused \cup {kind} ELSE excused
        /\ UNCHANGED <<serverVars, kind, succeeded, saves>>
    BY <1>7 DEF QueryReturns
  <2> HIDE DEF ignored
  <2>2. CASE ignored
    BY <1>0, <2>1, <2>2
  <2>3. CASE ~ignored /\ succeeded
    <3>1. \/ statement = 0 /\ pc' = "begun" /\ statement' = statement
          \/ statement \in 1 .. MaxStatement - 1 /\ pc' = "lock" /\ statement' = statement + 1
          \/ statement = MaxStatement /\ pc' = "commit" /\ statement' = statement
      BY <2>1, <2>3 DEF AfterQuery, NextStatement
    <3>2. CASE statement = 0
      BY <1>0, <3>1, <3>2
    <3>3. CASE statement \in 1 .. MaxStatement - 1 /\ pc' = "lock" /\ statement' = statement + 1
      <4>1. \A r \in Row : r < statement + 1 => r < statement \/ r = statement
        BY <1>0
      <4> QED
        BY <1>0, <2>1, <2>3, <3>3, <4>1 DEF serverVars
    <3>4. CASE statement = MaxStatement /\ statement # 0 /\ pc' = "commit" /\ statement' = statement
      <4>1. \A r \in Row : r < statement \/ r = statement
        BY <1>0, <3>4 DEF Row
      <4> QED
        BY <1>0, <2>1, <2>3, <3>4, <4>1 DEF serverVars
    <3> QED
      BY <1>0, <3>1, <3>2, <3>3, <3>4
  <2>4. CASE ~ignored /\ ~succeeded
    BY <2>1, <2>4 DEF AfterQuery
  <2> QED
    BY <2>2, <2>3, <2>4
<1>8. CASE BeginTransaction
  <2>1. pc' = "lock" /\ statement' = 1
    BY <1>8 DEF BeginTransaction
  <2> QED
    BY <1>0, <2>1 DEF Row
<1>9. CASE Commit \/ Rollback \/ Return
  BY <1>9 DEF Commit, Rollback, Return
<1>10. CASE TryAgain
  <2>1. pc' = "lock" /\ statement' = 0
    BY <1>10 DEF TryAgain
  <2> QED
    BY <1>0, <2>1
<1>11. CASE StoreLocks \/ StoreQuery \/ StoreRefused \/ StoreReturns
  BY <1>0, <1>11 DEF StoreLocks, StoreQuery, StoreRefused, StoreReturns, serverVars, saveVars, countVars
<1>12. CASE StoreAnswered
  <2>1. ~(pc \in {"commit", "unlock"} /\ statement # 0)
    BY <1>12 DEF StoreAnswered, NetworkGoes, Locks, Held, TypeOK
  <2> QED
    BY <1>0, <1>12, <2>1 DEF StoreAnswered, saveVars, countVars, Locks
<1>13. CASE Reconnected
  BY <1>0, <1>13 DEF Reconnected, saveVars, countVars
<1>14. CASE Retried
  <2>1. ~(pc \in {"commit", "unlock"} /\ statement # 0)
    BY <1>14 DEF Retried, Locks, Held, TypeOK
  <2>2. pc # "commit"
    BY <1>0, <2>1 DEF Locks
  <2>3. UNCHANGED <<view, open, pc, kind, statement, succeeded, saves, excused>>
    BY <1>14 DEF Retried, saveVars, countVars
  <2> QED
    BY <2>1, <2>2, <2>3
<1>15. CASE ConnectionLost
  BY <1>0, <1>15 DEF ConnectionLost, saveVars, Visible
<1> QED
  BY <1>1, <1>2, <1>3, <1>4, <1>5, <1>6, <1>7, <1>8, <1>9, <1>10, <1>11, <1>12, <1>13, <1>14, <1>15
  DEF Next, DispatcherCall, NetworkCall, Library

LEMMA WholeKept ==
  ASSUME TypeOK, Locks, Visible, Written, Whole, [Next]_vars
  PROVE  Whole'
<1> USE Constants DEF Whole
<1>0. /\ durable \in Rows /\ view \in Rows /\ kind \in Kind /\ excused \subseteq Kind
      /\ statement \in 0 .. MaxStatement
      /\ open \in BOOLEAN /\ alive \in BOOLEAN /\ succeeded \in BOOLEAN
      /\ 1 \in Row
  BY DEF TypeOK, Row
<1>1. CASE UNCHANGED vars
  BY <1>1 DEF vars, serverVars, saveVars, countVars
<1>2. ASSUME NEW k \in Kind, Save(k)
      PROVE  Whole'
  BY <1>2 DEF Save, serverVars
<1>3. CASE ExecuteQuery \/ QueryRefused \/ BeginTransaction \/ Return \/ TryAgain
  BY <1>3 DEF ExecuteQuery, QueryRefused, BeginTransaction, Return, TryAgain, serverVars, countVars
<1>4. CASE QueryAnswered
  <2>1. /\ pc' = "unlock" /\ Executed
    BY <1>4 DEF QueryAnswered
  <2>2. CASE statement = 0 \/ open
    BY <2>1, <2>2 DEF Executed
  <2>3. CASE statement # 0 /\ ~open
    <3> DEFINE written == [view EXCEPT ![kind][statement] = saves]
    <3>1. durable' = written /\ excused' = excused \cup {kind} /\ view = durable
      BY <2>1, <2>3 DEF Executed, Visible
    <3>2. \A k \in Kind \ {kind} : written[k] = durable[k]
      BY <1>0, <3>1 DEF Rows
    <3> HIDE DEF written
    <3> QED
      BY <2>1, <3>1, <3>2
  <2> QED
    BY <1>0, <2>2, <2>3
<1>5. CASE QueryAnswerLost
  <2>1. pc = "query" /\ pc' = pc
    BY <1>5 DEF QueryAnswerLost
  <2>2. CASE statement = 0 \/ open
    BY <1>5, <2>1, <2>2 DEF QueryAnswerLost
  <2>3. CASE statement # 0 /\ ~open
    <3> DEFINE written == [durable EXCEPT ![kind][statement] = saves]
    <3>1. durable' = written /\ excused' = excused \cup {kind}
      BY <1>5, <2>3 DEF QueryAnswerLost
    <3>2. \A k \in Kind \ {kind} : written[k] = durable[k]
      BY <1>0 DEF Rows
    <3> HIDE DEF written
    <3> QED
      BY <2>1, <3>1, <3>2
  <2> QED
    BY <1>0, <2>2, <2>3
<1>6. CASE QueryReturns
  <2>1. /\ pc' # "done" /\ durable' = durable /\ excused \subseteq excused'
        /\ pc' = "rollback" => ~succeeded'
    BY <1>6 DEF QueryReturns, AfterQuery, NextStatement, serverVars
  <2> QED
    BY <2>1
<1>7. CASE Commit
  <2>1. /\ pc = "commit" /\ pc' = "done" /\ CommitOutcome
        /\ UNCHANGED <<kind, saves>>
    BY <1>7 DEF Commit
  <2>2. InTransaction /\ \A r \in Row : Done(r)
    BY <1>0, <2>1 DEF Locks, InTransaction, Done
  <2>3. ASSUME NEW k \in Kind, k # kind, k \notin excused, durable' = view \/ durable' = durable
        PROVE  \A r, s \in Row : durable'[k][r] = durable'[k][s]
    BY <2>3 DEF Visible
  <2>4. kind \notin excused => IF open THEN \A r \in Row : view[kind][r] = saves
                                       ELSE ~alive /\ view = durable
    BY <2>1, <2>2 DEF Written, Visible
  <2>5. CASE /\ alive /\ durable' = view
             /\ excused' = IF open /\ \A r \in Row : view[kind][r] = saves
                             THEN excused \ {kind} ELSE excused
    <3>1. kind \notin excused' => \A r \in Row : durable'[kind][r] = saves'
      BY <2>1, <2>4, <2>5
    <3>2. ASSUME NEW k \in Kind \ excused'
          PROVE  /\ \A r, s \in Row : durable'[k][r] = durable'[k][s]
                 /\ pc' = "done" /\ succeeded' /\ kind' = k => durable'[k][1] = saves'
      <4>1. CASE k = kind
        BY <1>0, <3>1, <3>2, <4>1
      <4>2. CASE k # kind
        BY <2>1, <2>3, <2>5, <3>2, <4>2
      <4> QED
        BY <4>1, <4>2
    <3> QED
      BY <2>1, <3>2
  <2>6. CASE /\ alive /\ durable' = view /\ succeeded' = FALSE /\ excused' = excused
    <3>1. ASSUME NEW k \in Kind \ excused
          PROVE  \A r, s \in Row : durable'[k][r] = durable'[k][s]
      BY <2>3, <2>4, <2>6, <3>1
    <3> QED
      BY <2>1, <2>6, <3>1
  <2>7. CASE durable' = durable /\ succeeded' = FALSE /\ excused' = excused
    BY <2>1, <2>7
  <2> QED
    BY <2>1, <2>5, <2>6, <2>7 DEF CommitOutcome
<1>8. CASE Rollback
  BY <1>8 DEF Rollback, saveVars, countVars
<1>9. CASE StoreLocks \/ StoreAnswered \/ StoreQuery \/ StoreRefused \/ StoreReturns
  BY <1>9 DEF StoreLocks, StoreAnswered, StoreQuery, StoreRefused, StoreReturns, serverVars, saveVars, countVars
<1>10. CASE Reconnected \/ Retried \/ ConnectionLost
  BY <1>10 DEF Reconnected, Retried, ConnectionLost, saveVars, countVars
<1> QED
  BY <1>1, <1>2, <1>3, <1>4, <1>5, <1>6, <1>7, <1>8, <1>9, <1>10
  DEF Next, DispatcherCall, NetworkCall, Library

LEMMA InvHolds == Spec => []Inv
<1>1. Init => Inv
  <2> SUFFICES ASSUME Init
               PROVE  Inv
    OBVIOUS
  <2> USE Constants
  <2>1. [k \in Kind |-> [r \in Row |-> 0]] \in Rows
    BY DEF Rows
  <2>2. TypeOK
    <3>1. {durable, view} \subseteq Rows
      BY <2>1 DEF Init
    <3>2. 0 \in 0 .. MaxStatement /\ 0 \in 0 .. MaxTries /\ 0 \in 0 .. MaxSaves
          /\ 0 \in 0 .. MaxLosses /\ 0 \in 0 .. MaxRefusals
      OBVIOUS
    <3>3. {open, alive, believes, succeeded} \subseteq BOOLEAN
      BY DEF Init
    <3>4. /\ pc = "idle" /\ network = "idle" /\ owner = NoThread /\ depth = 0
          /\ kind \in Kind /\ statement = 0 /\ tries = 0
          /\ saves = 0 /\ losses = 0 /\ refusals = 0 /\ excused = {}
      BY DEF Init
    <3> QED
      BY <3>1, <3>2, <3>3, <3>4 DEF TypeOK
  <2>3. Locks
    BY DEF Init, Locks, Held, InTransaction
  <2>4. Visible /\ Written /\ Whole
    BY DEF Init, Visible, Written, Whole, InTransaction
  <2> QED
    BY <2>2, <2>3, <2>4 DEF Inv
<1>2. Inv /\ [Next]_vars => Inv'
  BY TypesKept, LocksKept, VisibleKept, WrittenKept, WholeKept DEF Inv
<1> QED
  BY <1>1, <1>2, PTL DEF Spec

-----------------------------------------------------------------------------
(* What is durable is one save as a whole, and the one that returned true, for *)
(* saves of any length (iologindata.cpp, iomapserialize.cpp over database.h):  *)
(* a lost connection takes the whole transaction with it, unless statements    *)
(* follow on a new one, and a commit that was not executed returns false.      *)
THEOREM SavesStayAtomic == Spec => []SavesAreAtomic
<1>1. Inv => SavesAreAtomic
  BY DEF Inv, Whole, SavesAreAtomic
<1> QED
  BY <1>1, InvHolds, PTL

(* The network's thread shares the session of a transaction (database.h:182)   *)
(* and never reads a row that is not committed, although BEGIN is executed     *)
(* before the lock is taken.                                                   *)
THEOREM ReadsAreCommitted == Spec => NoDirtyRead
<1>1. Inv /\ [Next]_vars => [network = "query" /\ network' = "read" => view = durable]_vars
  BY DEF Inv, Locks, Visible, Held, TypeOK
<1> QED
  BY <1>1, InvHolds, PTL DEF Spec, NoDirtyRead

-----------------------------------------------------------------------------
(* Sums over finite sets *)

(* Of some parts of a finite set one has no other of them in it ... *)
LEMMA SmallestPart ==
  ASSUME NEW S, IsFiniteSet(S), NEW Parts \in SUBSET SUBSET S, Parts # {}
  PROVE  \E T \in Parts : \A U \in SUBSET T : U # T => U \notin Parts
<1> DEFINE R == StrictSubsetOrdering(S)
<1>1. IsWellFoundedOn(R, SUBSET S)
  BY FS_StrictSubsetOrderingWellFounded, FS_FiniteSubsetsOfFinite
<1>2. PICK T \in Parts : \A U \in Parts : <<U, T>> \notin R
  <2> HIDE DEF R
  <2> QED BY <1>1, WFMin, Zenon
<1>3. ASSUME NEW U \in SUBSET T, U # T, U \in Parts
      PROVE  FALSE
  <2>1. <<U, T>> \in R
    BY <1>3 DEF StrictSubsetOrdering
  <2> QED BY <2>1, <1>2, <1>3
<1> QED BY <1>3

(* ... so what holds of nothing and of one element more holds of all. *)
LEMMA GrowsToAll ==
  ASSUME NEW S, IsFiniteSet(S), NEW Good, {} \in Good,
         \A T \in SUBSET S : \A x \in S \ T : T \in Good => T \cup {x} \in Good
  PROVE  S \in Good
<1> SUFFICES ASSUME S \notin Good PROVE FALSE
  OBVIOUS
<1> DEFINE Bad == {T \in SUBSET S : T \notin Good}
<1>1. PICK T \in Bad : \A U \in SUBSET T : U # T => U \notin Bad
  <2>1. Bad \in SUBSET SUBSET S /\ Bad # {}
    OBVIOUS
  <2> HIDE DEF Bad
  <2> QED BY <2>1, SmallestPart
<1>2. PICK x \in T : TRUE
  OBVIOUS
<1>3. T \ {x} \in Good /\ T \ {x} \in SUBSET S /\ x \in S \ (T \ {x})
  BY <1>1, <1>2
<1>4. (T \ {x}) \cup {x} = T
  BY <1>2
<1>5. (T \ {x}) \cup {x} \in Good
  BY <1>3
<1> QED BY <1>4, <1>5

(* g sums f over every part of S, whichever element is taken first. *)
IsSum(f, S, g) ==
  /\ g \in [SUBSET S -> Int]
  /\ g[{}] = 0
  /\ \A U \in SUBSET S : \A x \in U : g[U] = f[x] + g[U \ {x}]

(* Every function on a finite set has such sums ... *)
LEMMA SomeSum ==
  ASSUME NEW S, IsFiniteSet(S), NEW f \in [S -> Int]
  PROVE  \E g : IsSum(f, S, g)
<1> DEFINE Good == {T \in SUBSET S : \E g : IsSum(f, T, g)}
<1>1. {} \in Good
  <2> DEFINE g == [U \in SUBSET {} |-> 0]
  <2>1. IsSum(f, {}, g)
    BY DEF IsSum
  <2> QED BY <2>1
<1>2. ASSUME NEW T \in SUBSET S, NEW x \in S \ T, T \in Good
      PROVE  T \cup {x} \in Good
  <2>1. PICK g : IsSum(f, T, g)
    BY <1>2
  <2> DEFINE h == [U \in SUBSET (T \cup {x}) |->
                     IF x \in U THEN f[x] + g[U \ {x}] ELSE g[U]]
  <2>2. h \in [SUBSET (T \cup {x}) -> Int]
    <3> SUFFICES ASSUME NEW U \in SUBSET (T \cup {x})
                 PROVE  (IF x \in U THEN f[x] + g[U \ {x}] ELSE g[U]) \in Int
      OBVIOUS
    <3>1. U \ {x} \in SUBSET T /\ (x \notin U => U \in SUBSET T)
      OBVIOUS
    <3> QED BY <2>1, <3>1 DEF IsSum
  <2>3. h[{}] = 0
    BY <2>1 DEF IsSum
  <2>4. ASSUME NEW U \in SUBSET (T \cup {x}), NEW y \in U
        PROVE  h[U] = f[y] + h[U \ {y}]
    <3>1. U \ {y} \in SUBSET (T \cup {x})
      OBVIOUS
    <3>2. CASE y = x
      BY <3>1, <3>2
    <3>3. CASE y # x /\ x \notin U
      <4>1. U \in SUBSET T
        BY <3>3
      <4>2. h[U] = g[U] /\ h[U \ {y}] = g[U \ {y}]
        BY <3>1, <3>3
      <4> QED BY <4>1, <4>2, <2>1 DEF IsSum
    <3>4. CASE y # x /\ x \in U
      <4>1. U \ {x} \in SUBSET T /\ y \in U \ {x} /\ y \in S
        BY <3>4
      <4>2. h[U] = f[x] + g[U \ {x}] /\ h[U \ {y}] = f[x] + g[(U \ {y}) \ {x}]
        BY <3>1, <3>4
      <4>3. g[U \ {x}] = f[y] + g[(U \ {x}) \ {y}]
        BY <4>1, <2>1 DEF IsSum
      <4>4. (U \ {x}) \ {y} = (U \ {y}) \ {x} /\ (U \ {x}) \ {y} \in SUBSET T
        BY <4>1
      <4>5. g[(U \ {x}) \ {y}] \in Int /\ f[x] \in Int /\ f[y] \in Int
        BY <2>1, <4>1, <4>4 DEF IsSum
      <4>6. h[U] = f[x] + (f[y] + g[(U \ {x}) \ {y}])
        BY <4>2, <4>3, Zenon
      <4>7. h[U \ {y}] = f[x] + g[(U \ {x}) \ {y}]
        BY <4>2, <4>4, Zenon
      <4>8. f[x] + (f[y] + g[(U \ {x}) \ {y}]) = f[y] + (f[x] + g[(U \ {x}) \ {y}])
        BY <4>5
      <4> HIDE DEF h
      <4> QED BY <4>6, <4>7, <4>8
    <3> QED BY <3>2, <3>3, <3>4
  <2>5. IsSum(f, T \cup {x}, h)
    <3> HIDE DEF h
    <3> QED BY <2>2, <2>3, <2>4 DEF IsSum
  <2> QED BY <2>5
<1>3. S \in Good
  <2> HIDE DEF Good
  <2> QED BY <1>1, <1>2, GrowsToAll
<1> QED BY <1>3

Some(s) == CHOOSE x \in s : TRUE
Steps(f, S, g) ==
  g = [s \in SUBSET S |-> IF s = {} THEN 0 ELSE f[Some(s)] + g[s \ {Some(s)}]]

(* SumFunctionOnSet is one such. *)
LEMMA TheSum ==
  ASSUME NEW S, IsFiniteSet(S), NEW f, NEW g, IsSum(f, S, g)
  PROVE  SumFunctionOnSet(f, S) = g[S]
<1> DEFINE h == CHOOSE iter : Steps(f, S, iter)
<1>1. SumFunctionOnSet(f, S) = h[S]
  BY DEF SumFunctionOnSet, FoldFunctionOnSet, MapThenFoldSet, Steps, Some
<1>2. \A s \in SUBSET S : s # {} => Some(s) \in s
  BY DEF Some
<1>3. Steps(f, S, g)
  <2>1. \A s \in SUBSET S : g[s] = IF s = {} THEN 0 ELSE f[Some(s)] + g[s \ {Some(s)}]
    BY <1>2 DEF IsSum
  <2>2. g = [s \in SUBSET S |-> g[s]]
    BY DEF IsSum
  <2> QED BY <2>1, <2>2 DEF Steps
<1>4. Steps(f, S, h)
  BY <1>3
<1> HIDE DEF h
<1>5. \A s \in SUBSET S : h[s] = IF s = {} THEN 0 ELSE f[Some(s)] + h[s \ {Some(s)}]
  <2>1. h = [s \in SUBSET S |-> IF s = {} THEN 0 ELSE f[Some(s)] + h[s \ {Some(s)}]]
    BY <1>4 DEF Steps
  <2> DEFINE k == [s \in SUBSET S |-> IF s = {} THEN 0 ELSE f[Some(s)] + h[s \ {Some(s)}]]
  <2>2. \A s \in SUBSET S : k[s] = IF s = {} THEN 0 ELSE f[Some(s)] + h[s \ {Some(s)}]
    OBVIOUS
  <2>3. h = k
    BY <2>1
  <2> HIDE DEF k
  <2> QED BY <2>2, <2>3
<1>6. ASSUME h[S] # g[S] PROVE FALSE
  <2> DEFINE Bad == {T \in SUBSET S : h[T] # g[T]}
  <2>1. PICK T \in Bad : \A U \in SUBSET T : U # T => U \notin Bad
    <3>1. Bad \in SUBSET SUBSET S /\ Bad # {}
      BY <1>6
    <3> HIDE DEF Bad
    <3> QED BY <3>1, SmallestPart
  <2>2. T # {}
    BY <2>1, <1>5 DEF IsSum
  <2>3. Some(T) \in T /\ T \ {Some(T)} \notin Bad
    BY <2>1, <2>2, <1>2
  <2>4. h[T \ {Some(T)}] = g[T \ {Some(T)}]
    BY <2>1, <2>3
  <2> QED BY <2>1, <2>2, <2>3, <2>4, <1>5 DEF IsSum
<1> QED BY <1>1, <1>6

(* The sum of no terms, and of integers *)
LEMMA SumOfNothing ==
  ASSUME NEW f, DOMAIN f = {}
  PROVE  SumFunction(f) = 0
<1>1. \E g : IsSum(f, {}, g) 
  <2>1. IsSum(f, {}, [U \in SUBSET {} |-> 0])
    BY DEF IsSum
  <2> QED BY <2>1
<1>2. IsFiniteSet({})
  BY FS_EmptySet
<1> QED BY <1>1, <1>2, TheSum DEF SumFunction, IsSum

LEMMA SumIsInt ==
  ASSUME NEW D, IsFiniteSet(D), NEW f \in [D -> Int]
  PROVE  SumFunction(f) \in Int
<1>1. PICK g : IsSum(f, D, g)
  BY SomeSum
<1>2. SumFunction(f) = g[D]
  BY <1>1, TheSum DEF SumFunction
<1> QED BY <1>1, <1>2 DEF IsSum

Without(f, x) == [y \in DOMAIN f \ {x} |-> f[y]]

(* A sum without one of its terms *)
LEMMA SumWithout ==
  ASSUME NEW D, IsFiniteSet(D), NEW f \in [D -> Int], NEW x \in D
  PROVE  SumFunction(f) = f[x] + SumFunction(Without(f, x))
<1>1. PICK g : IsSum(f, D, g)
  BY SomeSum
<1> DEFINE E == D \ {x}
           k == [U \in SUBSET E |-> g[U]]
<1>2. /\ Without(f, x) \in [E -> Int] /\ DOMAIN Without(f, x) = E
      /\ \A y \in E : Without(f, x)[y] = f[y]
      /\ IsFiniteSet(E)
  BY FS_RemoveElement DEF Without
<1>3. \A U \in SUBSET E : U \in SUBSET D /\ k[U] = g[U]
  OBVIOUS
<1>4. k \in [SUBSET E -> Int]
  BY <1>1, <1>3 DEF IsSum
<1>5. IsSum(Without(f, x), E, k)
  <2>1. k[{}] = 0
    BY <1>1, <1>3 DEF IsSum
  <2>2. ASSUME NEW U \in SUBSET E, NEW y \in U
        PROVE  k[U] = Without(f, x)[y] + k[U \ {y}]
    <3>1. U \ {y} \in SUBSET E
      OBVIOUS
    <3> HIDE DEF k
    <3>2. g[U] = f[y] + g[U \ {y}]
      BY <1>1, <1>3 DEF IsSum
    <3> QED BY <3>1, <3>2, <1>2, <1>3
  <2> HIDE DEF k, E
  <2> QED BY <1>4, <2>1, <2>2 DEF IsSum
<1>6. SumFunction(f) = g[D]
  BY <1>1, TheSum DEF SumFunction
<1>7. SumFunction(Without(f, x)) = k[E]
  <2> HIDE DEF E, k
  <2> QED BY <1>2, <1>5, TheSum DEF SumFunction
<1>8. g[D] = f[x] + g[D \ {x}]
  BY <1>1 DEF IsSum
<1> QED BY <1>2, <1>3, <1>6, <1>7, <1>8

(* Sums of zeros, of two functions term by term, of a function changed at one *)
(* place, and of one that is zero but at one place                            *)
LEMMA SumOfZeros ==
  ASSUME NEW D, IsFiniteSet(D), NEW f \in [D -> {0}]
  PROVE  SumFunction(f) = 0
<1> DEFINE g == [U \in SUBSET D |-> 0]
<1>1. IsSum(f, D, g)
  BY DEF IsSum
<1>2. SumFunctionOnSet(f, D) = g[D]
  <2> HIDE DEF g
  <2> QED BY <1>1, TheSum
<1> QED BY <1>2 DEF SumFunction

LEMMA SumOfBoth ==
  ASSUME NEW D, IsFiniteSet(D), NEW f \in [D -> Int], NEW g \in [D -> Int],
         NEW both \in [D -> Int], \A x \in D : both[x] = f[x] + g[x]
  PROVE  SumFunction(both) = SumFunction(f) + SumFunction(g)
<1>1. PICK sf : IsSum(f, D, sf)
  BY SomeSum
<1>2. PICK sg : IsSum(g, D, sg)
  BY SomeSum
<1> DEFINE s == [U \in SUBSET D |-> sf[U] + sg[U]]
<1>3. IsSum(both, D, s)
  <2>1. s \in [SUBSET D -> Int] /\ s[{}] = 0
    BY <1>1, <1>2 DEF IsSum
  <2>2. ASSUME NEW U \in SUBSET D, NEW x \in U
        PROVE  s[U] = both[x] + s[U \ {x}]
    <3>1. U \ {x} \in SUBSET D /\ x \in D
      OBVIOUS
    <3>2. s[U] = sf[U] + sg[U] /\ s[U \ {x}] = sf[U \ {x}] + sg[U \ {x}]
      BY <3>1
    <3>3. /\ sf[U] = f[x] + sf[U \ {x}] /\ sg[U] = g[x] + sg[U \ {x}]
          /\ sf[U \ {x}] \in Int /\ sg[U \ {x}] \in Int /\ f[x] \in Int /\ g[x] \in Int
      BY <1>1, <1>2, <3>1 DEF IsSum
    <3>4. both[x] = f[x] + g[x]
      BY <3>1
    <3> HIDE DEF s
    <3> QED BY <3>2, <3>3, <3>4
  <2> HIDE DEF s
  <2> QED BY <2>1, <2>2 DEF IsSum
<1>4. SumFunctionOnSet(both, D) = s[D]
  <2> HIDE DEF s
  <2> QED BY <1>3, TheSum
<1>5. s[D] = sf[D] + sg[D] /\ DOMAIN both = D
  OBVIOUS
<1>6. SumFunctionOnSet(f, D) = sf[D] /\ SumFunctionOnSet(g, D) = sg[D]
  BY <1>1, <1>2, TheSum
<1> HIDE DEF s
<1> QED BY <1>4, <1>5, <1>6 DEF SumFunction

LEMMA SumChanged ==
  ASSUME NEW D, IsFiniteSet(D), NEW f \in [D -> Int], NEW g \in [D -> Int], NEW x \in D,
         \A y \in D \ {x} : f[y] = g[y]
  PROVE  SumFunction(g) = SumFunction(f) + g[x] - f[x]
<1>1. Without(f, x) = Without(g, x)
  BY DEF Without
<1>2. SumFunction(f) = f[x] + SumFunction(Without(f, x))
  BY SumWithout
<1>3. SumFunction(g) = g[x] + SumFunction(Without(g, x))
  BY SumWithout
<1>4. SumFunction(Without(f, x)) \in Int
  <2>1. IsFiniteSet(D \ {x}) /\ Without(f, x) \in [D \ {x} -> Int]
    BY FS_RemoveElement DEF Without
  <2> QED BY <2>1, SumIsInt
<1> QED BY <1>1, <1>2, <1>3, <1>4

LEMMA SumOfOne ==
  ASSUME NEW D, IsFiniteSet(D), NEW x \in D, NEW n \in Int,
         NEW one \in [D -> Int], \A y \in D : one[y] = IF y = x THEN n ELSE 0
  PROVE  SumFunction(one) = n
<1> DEFINE zero == [y \in D |-> 0]
<1>1. SumFunction(zero) = 0
  BY SumOfZeros
<1>2. /\ zero \in [D -> Int] /\ one \in [D -> Int] /\ one[x] = n /\ zero[x] = 0
      /\ \A y \in D \ {x} : zero[y] = one[y]
  OBVIOUS
<1> HIDE DEF zero
<1> QED BY <1>1, <1>2, SumChanged

(* Zeros add nothing: a sum over a part is one over the whole. *)
IsPart(f, T, F, D) ==
  /\ IsFiniteSet(D) /\ T \subseteq D /\ f \in [T -> Int] /\ F \in [D -> Int]
  /\ \A x \in D : F[x] = IF x \in T THEN f[x] ELSE 0

LEMMA SumOverPart ==
  ASSUME NEW f, NEW T, NEW F, NEW D, IsPart(f, T, F, D)
  PROVE  SumFunction(f) = SumFunction(F)
<1>1. /\ IsFiniteSet(D) /\ T \in SUBSET D /\ f \in [T -> Int] /\ F \in [D -> Int]
      /\ \A x \in D : F[x] = IF x \in T THEN f[x] ELSE 0
  BY DEF IsPart
<1>2. PICK g : IsSum(F, D, g)
  BY <1>1, SomeSum
<1> DEFINE k == [U \in SUBSET T |-> g[U]]
<1>3. IsSum(f, T, k)
  <2>1. k \in [SUBSET T -> Int] /\ k[{}] = 0
    BY <1>1, <1>2 DEF IsSum
  <2>2. ASSUME NEW U \in SUBSET T, NEW x \in U
        PROVE  k[U] = f[x] + k[U \ {x}]
    <3>1. U \in SUBSET D /\ U \ {x} \in SUBSET T /\ F[x] = f[x]
      BY <1>1
    <3>2. k[U] = g[U] /\ k[U \ {x}] = g[U \ {x}]
      BY <3>1
    <3> HIDE DEF k
    <3>3. g[U] = F[x] + g[U \ {x}]
      BY <1>2, <3>1 DEF IsSum
    <3> QED BY <3>1, <3>2, <3>3
  <2> HIDE DEF k
  <2> QED BY <1>1, <2>1, <2>2 DEF IsSum
<1>4. IsFiniteSet(T) /\ IsFiniteSet(D \ T)
  BY <1>1, FS_Subset, FS_Difference
<1>5. SumFunction(f) = g[T]
  <2>1. SumFunctionOnSet(f, T) = k[T]
    <3> HIDE DEF k
    <3> QED BY <1>3, <1>4, TheSum
  <2> QED BY <1>1, <2>1 DEF SumFunction
<1>6. SumFunction(F) = g[D]
  BY <1>1, <1>2, TheSum DEF SumFunction
<1> DEFINE Good == {U \in SUBSET (D \ T) : g[T \cup U] = g[T]}
<1>7. {} \in Good
  OBVIOUS
<1>8. ASSUME NEW U \in SUBSET (D \ T), NEW x \in (D \ T) \ U, U \in Good
      PROVE  U \cup {x} \in Good
  <2>1. g[T \cup U] = g[T] /\ g[T] \in Int
    BY <1>1, <1>8, <1>2 DEF IsSum
  <2>2. /\ T \cup (U \cup {x}) \in SUBSET D /\ x \in T \cup (U \cup {x})
        /\ (T \cup (U \cup {x})) \ {x} = T \cup U
        /\ F[x] = 0
    BY <1>1
  <2>3. g[T \cup (U \cup {x})] = F[x] + g[(T \cup (U \cup {x})) \ {x}]
    BY <1>2, <2>2 DEF IsSum
  <2>4. g[T \cup (U \cup {x})] = 0 + g[T]
    BY <2>1, <2>2, <2>3, Zenon
  <2> QED BY <2>1, <2>4
<1>9. D \ T \in Good
  <2> HIDE DEF Good
  <2> QED BY <1>4, <1>7, <1>8, GrowsToAll
<1>10. g[D] = g[T]
  <2>1. T \cup (D \ T) = D
    BY <1>1
  <2> QED BY <1>9, <2>1
<1> QED BY <1>5, <1>6, <1>10

(* A sum of naturals is one. *)
LEMMA SumIsNat ==
  ASSUME NEW D, IsFiniteSet(D), NEW f \in [D -> Nat]
  PROVE  SumFunction(f) \in Nat
<1>1. f \in [D -> Int]
  OBVIOUS
<1>2. PICK g : IsSum(f, D, g)
  BY <1>1, SomeSum
<1> DEFINE Good == {U \in SUBSET D : g[U] \in Nat}
<1>3. {} \in Good
  BY <1>2 DEF IsSum
<1>4. ASSUME NEW U \in SUBSET D, NEW x \in D \ U, U \in Good
      PROVE  U \cup {x} \in Good
  <2>1. U \cup {x} \in SUBSET D /\ (U \cup {x}) \ {x} = U /\ x \in U \cup {x}
    OBVIOUS
  <2>2. g[U \cup {x}] = f[x] + g[(U \cup {x}) \ {x}]
    BY <1>2, <2>1 DEF IsSum
  <2>3. g[U \cup {x}] = f[x] + g[U]
    BY <2>1, <2>2, Zenon
  <2> QED BY <1>4, <2>1, <2>3
<1>5. D \in Good
  <2> HIDE DEF Good
  <2> QED BY <1>3, <1>4, GrowsToAll
<1>6. SumFunctionOnSet(f, D) = g[D]
  BY <1>2, TheSum
<1> QED BY <1>5, <1>6 DEF SumFunction

(* The terms of f are those of g, under other names: they have one sum. *)
SameTerms(f, D, g, E, b) ==
  /\ IsFiniteSet(D) /\ IsFiniteSet(E) /\ f \in [D -> Int] /\ g \in [E -> Int]
  /\ b \in [E -> D]
  /\ \A y, z \in E : b[y] = b[z] => y = z
  /\ \A x \in D : \E y \in E : b[y] = x
  /\ \A y \in E : g[y] = f[b[y]]

LEMMA SumRenamed ==
  ASSUME NEW f, NEW D, NEW fb, NEW E, NEW b, SameTerms(f, D, fb, E, b)
  PROVE  SumFunction(f) = SumFunction(fb)
<1>0. /\ b \in [E -> D]
      /\ \A y, z \in E : b[y] = b[z] => y = z
      /\ \A x \in D : \E y \in E : b[y] = x
      /\ IsFiniteSet(D) /\ IsFiniteSet(E) /\ f \in [D -> Int] /\ fb \in [E -> Int]
      /\ \A y \in E : fb[y] = f[b[y]]
  BY DEF SameTerms
<1> DEFINE Im(U) == {b[y] : y \in U}
<1>1. PICK g : IsSum(f, D, g)
  BY <1>0, SomeSum
<1> DEFINE k == [U \in SUBSET E |-> g[Im(U)]]
<1>2. IsSum(fb, E, k)
  <2>1. \A U \in SUBSET E : Im(U) \in SUBSET D
    BY <1>0
  <2>2. k \in [SUBSET E -> Int]
    BY <1>1, <2>1 DEF IsSum
  <2>3. k[{}] = 0
    <3>1. Im({}) = {}
      OBVIOUS
    <3> QED BY <1>1, <3>1 DEF IsSum
  <2>4. ASSUME NEW U \in SUBSET E, NEW y \in U
        PROVE  k[U] = fb[y] + k[U \ {y}]
    <3>1. Im(U) \in SUBSET D /\ b[y] \in Im(U) /\ fb[y] = f[b[y]]
      BY <1>0
    <3>2. Im(U \ {y}) = Im(U) \ {b[y]}
      BY <1>0
    <3>3. k[U] = g[Im(U)] /\ k[U \ {y}] = g[Im(U \ {y})]
      BY <1>0
    <3> HIDE DEF k, Im
    <3>4. g[Im(U)] = f[b[y]] + g[Im(U) \ {b[y]}]
      BY <1>1, <3>1 DEF IsSum
    <3> QED BY <3>1, <3>2, <3>3, <3>4
  <2> HIDE DEF k
  <2> QED BY <1>0, <2>2, <2>3, <2>4 DEF IsSum
<1>3. k[E] = g[D]
  <2>1. Im(E) = D
    BY <1>0
  <2> QED BY <2>1
<1>4. SumFunctionOnSet(fb, E) = k[E] /\ DOMAIN fb = E
  <2>1. DOMAIN fb = E
    BY <1>0
  <2> HIDE DEF k
  <2> QED BY <1>0, <1>2, <2>1, TheSum
<1>5. SumFunctionOnSet(f, D) = g[D]
  BY <1>0, <1>1, TheSum
<1> HIDE DEF k
<1> QED BY <1>0, <1>3, <1>4, <1>5 DEF SumFunction

(* A sum in parts, one for each owner, is the sum of all. *)
LEMMA SumByOwner ==
  ASSUME NEW D, IsFiniteSet(D), NEW P, IsFiniteSet(P), NEW w \in [D -> Int], NEW whose \in [D -> P],
         NEW all \in [P -> Int],
         \A p \in P : all[p] = SumFunction([x \in D |-> IF whose[x] = p THEN w[x] ELSE 0])
  PROVE  SumFunction(all) = SumFunction(w)
<1> DEFINE part(U, p) == [x \in D |-> IF x \in U /\ whose[x] = p THEN w[x] ELSE 0]
           parts(U) == [p \in P |-> SumFunction(part(U, p))]
           s == [U \in SUBSET D |-> SumFunction(parts(U))]
<1>1. ASSUME NEW U \in SUBSET D
      PROVE  /\ \A p \in P : part(U, p) \in [D -> Int]
             /\ parts(U) \in [P -> Int]
             /\ s[U] = SumFunction(parts(U))
  <2>1. \A p \in P : part(U, p) \in [D -> Int]
    OBVIOUS
  <2>2. \A p \in P : SumFunction(part(U, p)) \in Int
    <3> HIDE DEF part
    <3> QED BY <2>1, SumIsInt
  <2> HIDE DEF part
  <2> QED BY <2>1, <2>2
<1>2. s[{}] = 0
  <2>1. \A p \in P : part({}, p) \in [D -> {0}]
    OBVIOUS
  <2>2. parts({}) \in [P -> {0}]
    <3>1. \A p \in P : SumFunction(part({}, p)) = 0
      <4> HIDE DEF part
      <4> QED BY <2>1, SumOfZeros
    <3> HIDE DEF part
    <3> QED BY <3>1
  <2>3. SumFunction(parts({})) = 0
    <3> HIDE DEF parts
    <3> QED BY <2>2, SumOfZeros
  <2> QED BY <2>3, <1>1
<1>3. ASSUME NEW U \in SUBSET D, NEW x \in U
      PROVE  s[U] = w[x] + s[U \ {x}]
  <2> DEFINE V == U \ {x}
  <2>1. V \in SUBSET D /\ x \in D /\ whose[x] \in P
    OBVIOUS
  <2>2. \A p \in P \ {whose[x]} : part(V, p) = part(U, p)
    OBVIOUS
  <2>3. /\ \A y \in D \ {x} : part(V, whose[x])[y] = part(U, whose[x])[y]
        /\ part(V, whose[x])[x] = 0 /\ part(U, whose[x])[x] = w[x] /\ w[x] \in Int
    OBVIOUS
  <2>4. /\ part(V, whose[x]) \in [D -> Int] /\ part(U, whose[x]) \in [D -> Int]
        /\ parts(V) \in [P -> Int] /\ parts(U) \in [P -> Int]
        /\ s[V] = SumFunction(parts(V)) /\ s[U] = SumFunction(parts(U))
    <3> HIDE DEF part, parts, s, V
    <3> QED BY <1>1, <2>1
  <2>5. /\ \A p \in P : parts(V)[p] = SumFunction(part(V, p))
        /\ \A p \in P : parts(U)[p] = SumFunction(part(U, p))
    <3> HIDE DEF part
    <3> QED OBVIOUS
  <2> HIDE DEF part, parts, s, V
  <2>6. SumFunction(part(U, whose[x])) = SumFunction(part(V, whose[x])) + w[x] - 0
    BY <2>1, <2>3, <2>4, SumChanged
  <2>7. \A p \in P \ {whose[x]} : parts(V)[p] = parts(U)[p]
    BY <2>2, <2>5
  <2>8. SumFunction(parts(U)) = SumFunction(parts(V)) + parts(U)[whose[x]] - parts(V)[whose[x]]
    BY <2>1, <2>4, <2>7, SumChanged
  <2>9. SumFunction(parts(V)) \in Int /\ SumFunction(part(V, whose[x])) \in Int
    BY <2>4, SumIsInt
  <2>10. s[U] = w[x] + s[V]
    BY <2>1, <2>3, <2>4, <2>5, <2>6, <2>8, <2>9
  <2> QED BY <2>10 DEF V
<1>4. s \in [SUBSET D -> Int]
  <2>1. \A U \in SUBSET D : SumFunction(parts(U)) \in Int
    <3> HIDE DEF parts, part, s
    <3> QED BY <1>1, SumIsInt
  <2> HIDE DEF parts
  <2> QED BY <2>1
<1>5. SumFunctionOnSet(w, D) = s[D]
  <2> HIDE DEF s
  <2>1. IsSum(w, D, s)
    BY <1>2, <1>3, <1>4 DEF IsSum
  <2> QED BY <2>1, TheSum
<1>6. s[D] = SumFunction(parts(D))
  BY <1>1
<1>7. parts(D) = all
  <2>1. \A p \in P : part(D, p) = [x \in D |-> IF whose[x] = p THEN w[x] ELSE 0]
    OBVIOUS
  <2>2. \A p \in P : all[p] = SumFunction(part(D, p))
    BY <2>1
  <2>3. all = [p \in P |-> all[p]]
    OBVIOUS
  <2> HIDE DEF part
  <2> QED BY <2>2, <2>3
<1>8. SumFunction(parts(D)) = SumFunction(w)
  <2> HIDE DEF parts, s
  <2> QED BY <1>5, <1>6 DEF SumFunction
<1> QED BY <1>7, <1>8

(* Sums over 1 .. n lose their first term, or get one more at the end. *)
LEMMA SumFromSecond ==
  ASSUME NEW n \in Nat, n > 0, NEW f \in [1 .. n -> Int],
         NEW g \in [1 .. n - 1 -> Int], \A i \in 1 .. n - 1 : g[i] = f[i + 1]
  PROVE  SumFunction(f) = f[1] + SumFunction(g)
<1> DEFINE D == 1 .. n
           C == D \ {1}
           E == 1 .. n - 1
           b == [i \in E |-> i + 1]
           rest == Without(f, 1)
<1>1. IsFiniteSet(D) /\ IsFiniteSet(E) /\ IsFiniteSet(C) /\ 1 \in D
  <2>1. IsFiniteSet(D) /\ IsFiniteSet(E)
    BY FS_Interval
  <2>2. 1 \in D
    OBVIOUS
  <2> HIDE DEF D, E
  <2> QED BY <2>1, <2>2, FS_RemoveElement
<1>2. SumFunction(f) = f[1] + SumFunction(rest)
  BY <1>1, SumWithout
<1>3. rest \in [C -> Int] /\ \A i \in C : rest[i] = f[i]
  BY DEF Without
<1>4. SameTerms(rest, C, g, E, b)
  <2>1. \A x \in C : x - 1 \in E /\ b[x - 1] = x
    OBVIOUS
  <2>2. \A y \in E : y + 1 \in C
    OBVIOUS
  <2>3. \A y \in E : g[y] = rest[b[y]]
    BY <1>3, <2>2
  <2> QED BY <1>1, <1>3, <2>1, <2>2, <2>3 DEF SameTerms
<1>6. SumFunction(g) = SumFunction(rest)
  <2> HIDE DEF C, E, b, rest
  <2> QED BY <1>4, SumRenamed
<1> QED BY <1>2, <1>6

LEMMA SumWithOneMore ==
  ASSUME NEW n \in Nat, NEW f \in [1 .. n + 1 -> Int],
         NEW most \in [1 .. n -> Int], \A i \in 1 .. n : most[i] = f[i]
  PROVE  SumFunction(f) = SumFunction(most) + f[n + 1]
<1> DEFINE D == 1 .. n + 1
<1>1. IsFiniteSet(D) /\ IsFiniteSet(1 .. n)
  BY FS_Interval
<1>2. n + 1 \in D /\ D \ {n + 1} = 1 .. n
  OBVIOUS
<1>3. Without(f, n + 1) = most
  BY <1>2 DEF Without
<1>4. SumFunction(f) = f[n + 1] + SumFunction(Without(f, n + 1))
  BY <1>1, <1>2, SumWithout
<1>5. SumFunction(most) \in Int /\ f[n + 1] \in Int
  BY <1>1, <1>2, SumIsInt
<1> QED BY <1>3, <1>4, <1>5

(* SumOfBoth and SumOfOne again, for functions of any form *)
AddsUp(h, f, g, D) ==
  /\ IsFiniteSet(D)
  /\ h \in [D -> Int] /\ f \in [D -> Int] /\ g \in [D -> Int]
  /\ \A x \in D : h[x] = f[x] + g[x]

LEMMA SumAddsUp ==
  ASSUME NEW D, NEW h, NEW f, NEW g, AddsUp(h, f, g, D)
  PROVE  SumFunction(h) = SumFunction(f) + SumFunction(g)
<1>1. /\ IsFiniteSet(D) /\ f \in [D -> Int] /\ g \in [D -> Int] /\ h \in [D -> Int]
      /\ \A x \in D : h[x] = f[x] + g[x]
  BY DEF AddsUp
<1> QED BY <1>1, SumOfBoth

IsOnly(f, D, x, n) ==
  IsFiniteSet(D) /\ x \in D /\ n \in Int /\ f \in [D -> Int] /\ \A y \in D : f[y] = IF y = x THEN n ELSE 0

LEMMA SumIsOnly ==
  ASSUME NEW D, NEW f, NEW x, NEW n, IsOnly(f, D, x, n)
  PROVE  SumFunction(f) = n
<1>1. IsFiniteSet(D) /\ x \in D /\ n \in Int /\ f \in [D -> Int] /\ \A y \in D : f[y] = IF y = x THEN n ELSE 0
  BY DEF IsOnly
<1> QED BY <1>1, SumOfOne

(* and SumByOwner. *)
ByOwner(all, P, w, D, whose) ==
  /\ IsFiniteSet(D) /\ IsFiniteSet(P) /\ w \in [D -> Int] /\ whose \in [D -> P] /\ all \in [P -> Int]
  /\ \A p \in P : all[p] = SumFunction([x \in D |-> IF whose[x] = p THEN w[x] ELSE 0])

LEMMA SumsByOwner ==
  ASSUME NEW D, NEW P, NEW w, NEW whose, NEW all, ByOwner(all, P, w, D, whose)
  PROVE  SumFunction(all) = SumFunction(w)
BY SumByOwner DEF ByOwner

-----------------------------------------------------------------------------
(* The market: its types, and the rows of a search *)

Update == [query : {"coins"}, player : Players, amount : Int]
Offer == [player : Players, sale : BOOLEAN, kind : Kinds, amount : Amounts, price : Prices,
          expired : BOOLEAN]
Tables == UNION {[S -> Offer] : S \in SUBSET Ids}

OffersTyped ==
  /\ lastId \in 0 .. MaxOffers
  /\ offers \in Tables /\ DOMAIN offers \subseteq 1 .. lastId
PursesTyped ==
  /\ gold \in [Players -> Nat]
  /\ items \in [Players -> [Kinds -> Nat]]
  /\ coins \in [Players -> Int] /\ coinBalance \in [Players -> Int]
QueueTyped == queue \in Seq(Update \cup {SearchExpired})

Alike(r, s) == r.player = s.player /\ r.sale = s.sale /\ r.kind = s.kind /\ r.price = s.price
RowsAgree ==
  /\ results \in Seq(Tables)
  /\ \A i \in DOMAIN results :
       /\ DOMAIN results[i] \subseteq 1 .. lastId
       /\ \A id \in DOMAIN results[i] \cap DOMAIN offers : Alike(results[i][id], offers[id])

MarketInv == OffersTyped /\ PursesTyped /\ QueueTyped /\ RowsAgree

(* Facts about the constants *)
LEMMA MarketConstants ==
  /\ IsFiniteSet(Players) /\ IsFiniteSet(Ids)
  /\ InitialGold \in [Players -> Nat]
  /\ InitialItems \in [Players -> Nat] /\ InitialCoins \in [Players -> Nat]
  /\ Prices \subseteq Nat /\ Fee \in Nat /\ MaxOffers \in Nat
<1>1. IsFiniteSet(Ids)
  BY MarketAssumption, FS_Interval DEF Ids
<1> QED BY <1>1, MarketAssumption

(* What a part of an amount leaves is an amount. *)
LEMMA AmountsArePositive ==
  /\ Amounts \subseteq Nat \ {0}
  /\ \A a, n \in Amounts : n < a => a - n \in Amounts
<1> DEFINE all == [p \in Players |-> InitialGold[p] + InitialItems[p] + InitialCoins[p]]
<1>1. all \in [Players -> Int]
  BY MarketConstants
<1>2. SumFunction(all) \in Int
  <2> HIDE DEF all
  <2> QED BY <1>1, MarketConstants, SumIsInt
<1> HIDE DEF all
<1> QED BY <1>2 DEF Amounts, all

(* The offers of a table, and their fields *)
LEMMA TablesAre ==
  ASSUME NEW t \in Tables
  PROVE  DOMAIN t \in SUBSET Ids /\ \A id \in DOMAIN t : t[id] \in Offer
BY DEF Tables

LEMMA TablesFrom ==
  ASSUME NEW S \in SUBSET Ids, NEW t \in [S -> Offer]
  PROVE  t \in Tables
BY DEF Tables

LEMMA OfferIs ==
  ASSUME NEW r \in Offer
  PROVE  /\ r.player \in Players /\ r.sale \in BOOLEAN /\ r.kind \in Kinds
         /\ r.amount \in Amounts /\ r.amount \in Nat /\ r.price \in Nat
         /\ \A n \in Nat : r.price * n \in Nat
<1>1. /\ r.player \in Players /\ r.sale \in BOOLEAN /\ r.kind \in Kinds
      /\ r.amount \in Amounts /\ r.price \in Prices
  BY DEF Offer
<1>2. r.amount \in Nat /\ r.price \in Nat
  BY <1>1, MarketConstants, AmountsArePositive
<1>3. \A m, n \in Nat : m * n \in Nat
  OBVIOUS
<1> QED BY <1>1, <1>2, <1>3

(* A row with another amount or age belongs to the same offer. *)
LEMMA RowChanged ==
  ASSUME NEW r \in Offer, NEW a \in Amounts
  PROVE  /\ [r EXCEPT !.amount = a] \in Offer /\ [r EXCEPT !.expired = TRUE] \in Offer
         /\ Alike([r EXCEPT !.amount = a], r) /\ Alike([r EXCEPT !.expired = TRUE], r)
         /\ [r EXCEPT !.amount = a].amount = a
         /\ [r EXCEPT !.expired = TRUE].amount = r.amount
BY DEF Offer, Alike

(* The invariant of the market holds at first. *)
LEMMA MarketInitially == MarketInit => MarketInv
<1> SUFFICES ASSUME MarketInit PROVE MarketInv
  OBVIOUS
<1>1. OffersTyped
  <2>1. offers \in [{} -> Offer] /\ DOMAIN offers = {}
    BY DEF MarketInit
  <2>2. offers \in Tables
    BY <2>1, TablesFrom
  <2> QED BY <2>1, <2>2, MarketConstants DEF OffersTyped, MarketInit
<1>2. PursesTyped
  BY MarketConstants DEF PursesTyped, MarketInit, Kinds
<1>3. QueueTyped /\ RowsAgree
  BY DEF QueueTyped, RowsAgree, MarketInit
<1> QED BY <1>1, <1>2, <1>3 DEF MarketInv

(* What holds of the offers and rows goes on when offers are dropped, or
   change in amount or age only. *)
LEMMA FewerOffers ==
  ASSUME OffersTyped, RowsAgree, lastId' = lastId, results' \in Seq(Tables),
         \A i \in DOMAIN results' : \E j \in DOMAIN results : results'[i] = results[j],
         DOMAIN offers' \subseteq DOMAIN offers,
         offers' = [id \in DOMAIN offers' |-> offers'[id]],
         \A id \in DOMAIN offers' : offers'[id] \in Offer /\ Alike(offers'[id], offers[id])
  PROVE  OffersTyped' /\ RowsAgree'
<1>1. DOMAIN offers \subseteq Ids
  BY TablesAre DEF OffersTyped
<1>2. offers' \in [DOMAIN offers' -> Offer]
  OBVIOUS
<1>3. offers' \in Tables
  BY <1>1, <1>2, TablesFrom
<1>4. OffersTyped'
  BY <1>3 DEF OffersTyped
<1>5. ASSUME NEW i \in DOMAIN results'
      PROVE  /\ DOMAIN results'[i] \subseteq 1 .. lastId'
             /\ \A id \in DOMAIN results'[i] \cap DOMAIN offers' : Alike(results'[i][id], offers'[id])
  <2>1. PICK j \in DOMAIN results : results'[i] = results[j]
    OBVIOUS
  <2> QED BY <2>1 DEF RowsAgree, Alike
<1>6. RowsAgree'
  BY <1>5 DEF RowsAgree
<1> QED BY <1>4, <1>6

(* One offer is dropped, or changed. *)
LEMMA DroppedOffer ==
  ASSUME OffersTyped, RowsAgree, lastId' = lastId, results' = results,
         NEW id \in DOMAIN offers, offers' = Drop(offers, id)
  PROVE  OffersTyped' /\ RowsAgree'
<1>1. /\ DOMAIN offers' \subseteq DOMAIN offers
      /\ offers' = [i \in DOMAIN offers' |-> offers'[i]]
      /\ \A i \in DOMAIN offers' : offers'[i] = offers[i]
  BY DEF Drop
<1>2. \A i \in DOMAIN offers' : offers'[i] \in Offer /\ Alike(offers'[i], offers[i])
  BY <1>1, TablesAre DEF OffersTyped, Alike
<1>3. results' \in Seq(Tables)
  BY DEF RowsAgree
<1> QED BY <1>1, <1>2, <1>3, FewerOffers

LEMMA ChangedOffer ==
  ASSUME OffersTyped, RowsAgree, lastId' = lastId, results' = results,
         NEW id \in DOMAIN offers, NEW r \in Offer, Alike(r, offers[id]),
         offers' = [offers EXCEPT ![id] = r]
  PROVE  OffersTyped' /\ RowsAgree'
<1>0. offers = [i \in DOMAIN offers |-> offers[i]]
  BY DEF OffersTyped, Tables
<1>1. /\ DOMAIN offers' = DOMAIN offers
      /\ offers' = [i \in DOMAIN offers' |-> offers'[i]]
      /\ \A i \in DOMAIN offers' : offers'[i] = IF i = id THEN r ELSE offers[i]
  BY <1>0
<1>2. \A i \in DOMAIN offers' : offers'[i] \in Offer /\ Alike(offers'[i], offers[i])
  BY <1>1, TablesAre DEF OffersTyped, Alike
<1>3. results' \in Seq(Tables)
  BY DEF RowsAgree
<1> QED BY <1>1, <1>2, <1>3, FewerOffers

(* A new offer has an id that no row has. *)
LEMMA NewOfferTyped ==
  ASSUME OffersTyped, RowsAgree, NEW p \in Players, NEW sale \in BOOLEAN, NEW k \in Kinds,
         NEW n \in Amounts, NEW price \in Prices, NewOffer(p, sale, k, n, price)
  PROVE  OffersTyped' /\ RowsAgree'
<1> DEFINE row == [player |-> p, sale |-> sale, kind |-> k, amount |-> n, price |-> price,
                   expired |-> FALSE]
           S == DOMAIN offers \cup {lastId'}
<1>1. /\ lastId' = lastId + 1 /\ lastId' \in 0 .. MaxOffers /\ lastId \in Nat /\ lastId' \in Ids
      /\ results' = results
      /\ offers' = [id \in S |-> IF id # lastId' THEN offers[id] ELSE row]
  BY MarketConstants DEF NewOffer, OffersTyped, Ids
<1>2. row \in Offer
  BY DEF Offer
<1>3. DOMAIN offers \subseteq Ids /\ \A id \in DOMAIN offers : offers[id] \in Offer
  BY TablesAre DEF OffersTyped
<1> HIDE DEF row
<1>4. S \in SUBSET Ids /\ offers' \in [S -> Offer]
  BY <1>1, <1>2, <1>3
<1>5. offers' \in Tables
  BY <1>4, TablesFrom
<1>6. OffersTyped'
  BY <1>1, <1>5 DEF OffersTyped
<1>7. \A i \in DOMAIN results : \A id \in DOMAIN results[i] : id # lastId'
  BY <1>1 DEF RowsAgree
<1>8. RowsAgree'
  BY <1>1, <1>7 DEF RowsAgree, Alike
<1> QED BY <1>6, <1>8

(* A queue gets more queries. *)
LEMMA QueueGrows ==
  ASSUME QueueTyped, NEW qs \in Seq(Update \cup {SearchExpired}), Enqueue(qs)
  PROVE  QueueTyped'
BY DEF QueueTyped, Enqueue

LEMMA OneUpdate ==
  ASSUME NEW p \in Players, NEW n \in Int
  PROVE  AddCoins(p, n) \in Update /\ AddCoins(p, -n) \in Update
BY DEF AddCoins, Update

(* Each request, the expiry and the worker keep the invariant. *)
LEMMA CreateTyped ==
  ASSUME MarketInv, NEW p \in Players, NEW n \in Amounts, NEW k \in Kinds, NEW price \in Prices,
         CreateSale(p, k, n, price) \/ CreatePurchase(p, k, n, price)
  PROVE  MarketInv'
<1>1. n \in Nat /\ price \in Nat /\ Fee \in Nat
  BY MarketConstants, AmountsArePositive
<1>2. CASE CreateSale(p, k, n, price)
  <2>1. OffersTyped' /\ RowsAgree'
    BY <1>2, NewOfferTyped DEF CreateSale, MarketInv
  <2>2. QueueTyped'
    <3>1. CASE k = "coin"
      <4>1. Enqueue(<<AddCoins(p, -n)>>)
        BY <1>2, <3>1 DEF CreateSale
      <4>2. <<AddCoins(p, -n)>> \in Seq(Update \cup {SearchExpired})
        BY <1>1, OneUpdate
      <4> QED BY <4>1, <4>2, QueueGrows DEF MarketInv
    <3>2. CASE k = "item"
      BY <1>2, <3>2 DEF CreateSale, MarketInv, QueueTyped
    <3> QED BY <3>1, <3>2 DEF Kinds
  <2>3. gold' \in [Players -> Nat]
    <3>1. gold' = [gold EXCEPT ![p] = @ - Fee] /\ Fee <= gold[p]
      BY <1>2 DEF CreateSale
    <3> QED BY <3>1, <1>1 DEF MarketInv, PursesTyped
  <2>4. items' \in [Players -> [Kinds -> Nat]]
    <3>1. CASE k = "coin"
      BY <1>2, <3>1 DEF CreateSale, MarketInv, PursesTyped
    <3>2. CASE k = "item"
      <4>1. items' = [items EXCEPT ![p]["item"] = @ - n] /\ n <= items[p]["item"]
        BY <1>2, <3>2 DEF CreateSale
      <4> QED BY <4>1, <1>1 DEF MarketInv, PursesTyped, Kinds
    <3> QED BY <3>1, <3>2 DEF Kinds
  <2>5. coins' = coins /\ coinBalance' = coinBalance
    BY <1>2 DEF CreateSale
  <2> QED BY <2>1, <2>2, <2>3, <2>4, <2>5 DEF MarketInv, PursesTyped
<1>3. CASE CreatePurchase(p, k, n, price)
  <2>1. OffersTyped' /\ RowsAgree'
    BY <1>3, NewOfferTyped DEF CreatePurchase, MarketInv
  <2>2. gold' \in [Players -> Nat]
    <3>1. /\ gold' = [gold EXCEPT ![p] = @ - (price * n + Fee)] /\ price * n + Fee <= gold[p]
          /\ price * n \in Nat
      BY <1>1, <1>3 DEF CreatePurchase
    <3> QED BY <3>1, <1>1 DEF MarketInv, PursesTyped
  <2>3. UNCHANGED <<items, coins, coinBalance, queue>>
    BY <1>3 DEF CreatePurchase
  <2> QED BY <2>1, <2>2, <2>3 DEF MarketInv, PursesTyped, QueueTyped
<1> QED BY <1>2, <1>3

LEMMA CancelTyped ==
  ASSUME MarketInv, NEW p \in Players, NEW id \in Ids, CancelOffer(p, id)
  PROVE  MarketInv'
<1> DEFINE o == offers[id]
<1>1. id \in DOMAIN offers /\ o \in Offer
  BY TablesAre DEF CancelOffer, MarketInv, OffersTyped
<1>2. o.price \in Nat /\ o.amount \in Nat /\ o.price * o.amount \in Nat
  BY <1>1, OfferIs
<1>3. OffersTyped' /\ RowsAgree'
  BY <1>1, DroppedOffer DEF CancelOffer, MarketInv
<1>4. QueueTyped'
  <2> DEFINE qs == IF o.sale /\ o.kind = "coin" THEN <<AddCoins(p, o.amount)>> ELSE <<>>
  <2>1. Enqueue(qs)
    BY DEF CancelOffer
  <2>2. AddCoins(p, o.amount) \in Update
    BY <1>2, OneUpdate
  <2> DEFINE U == Update \cup {SearchExpired}
  <2>3. <<>> \in Seq(U) /\ <<AddCoins(p, o.amount)>> \in Seq(U)
    BY <2>2
  <2>4. qs \in Seq(U)
    <3> HIDE DEF U, o
    <3> QED BY <2>3
  <2> QED BY <2>1, <2>4, QueueGrows DEF MarketInv
<1>5. gold' \in [Players -> Nat]
  <2>1. gold' = [gold EXCEPT ![p] = @ + IF o.sale THEN 0 ELSE o.price * o.amount]
    BY DEF CancelOffer
  <2> HIDE DEF o
  <2> QED BY <1>2, <2>1 DEF MarketInv, PursesTyped
<1>6. items' \in [Players -> [Kinds -> Nat]]
  <2>1. items' = [items EXCEPT ![p]["item"] = @ + IF o.sale /\ o.kind = "item" THEN o.amount ELSE 0]
    BY DEF CancelOffer
  <2> HIDE DEF o
  <2> QED BY <1>2, <2>1 DEF MarketInv, PursesTyped, Kinds
<1>7. coins' = coins /\ coinBalance' = coinBalance
  BY DEF CancelOffer
<1> QED BY <1>3, <1>4, <1>5, <1>6, <1>7 DEF MarketInv, PursesTyped

(* What accepting n of an offer does to the two. *)
LEMMA AcceptedTyped ==
  ASSUME OffersTyped, RowsAgree, lastId' = lastId, results' = results,
         NEW id \in DOMAIN offers, NEW n \in Amounts, n <= offers[id].amount, Accepted(id, n)
  PROVE  OffersTyped' /\ RowsAgree'
<1>1. offers[id] \in Offer
  BY TablesAre DEF OffersTyped
<1>2. CASE offers[id].amount = n
  <2>1. offers' = Drop(offers, id)
    BY <1>2 DEF Accepted
  <2> QED BY <2>1, DroppedOffer
<1>3. CASE offers[id].amount # n
  <2> DEFINE r == [offers[id] EXCEPT !.amount = @ - n]
  <2>1. offers' = [offers EXCEPT ![id] = r]
    BY <1>3 DEF Accepted
  <2>2. offers[id].amount - n \in Amounts
    <3>1. offers[id].amount \in Amounts
      BY <1>1 DEF Offer
    <3>2. offers[id].amount \in Nat /\ n \in Nat
      BY <3>1, AmountsArePositive
    <3>3. n < offers[id].amount
      BY <1>3, <3>2
    <3> QED BY <3>1, <3>3, AmountsArePositive
  <2>3. r \in Offer /\ Alike(r, offers[id])
    BY <1>1, <2>2, RowChanged
  <2> HIDE DEF r
  <2> QED BY <2>1, <2>3, ChangedOffer
<1> QED BY <1>2, <1>3

LEMMA AcceptTyped ==
  ASSUME MarketInv, NEW p \in Players, NEW id \in Ids, NEW n \in Amounts, AcceptOffer(p, id, n)
  PROVE  MarketInv'
<1> DEFINE o == offers[id]
           seller == IF o.sale THEN o.player ELSE p
           buyer == IF o.sale THEN p ELSE o.player
           price == o.price * n
<1>1. id \in DOMAIN offers /\ n <= o.amount /\ o \in Offer
  BY TablesAre DEF AcceptOffer, AmountIsOffered, MarketInv, OffersTyped
<1>2. /\ n \in Nat /\ o.price \in Nat /\ price \in Nat /\ o.player \in Players
      /\ seller \in Players /\ buyer \in Players
  <2>1. n \in Nat
    BY AmountsArePositive
  <2> QED BY <1>1, <2>1, OfferIs
<1>3. OffersTyped' /\ RowsAgree'
  BY <1>1, AcceptedTyped DEF AcceptOffer, MarketInv
<1>4. QueueTyped'
  <2> DEFINE qs == IF o.kind = "item" THEN <<>>
                   ELSE (IF o.sale THEN <<>> ELSE <<AddCoins(p, -n)>>) \o <<AddCoins(buyer, n)>>
  <2>1. Enqueue(qs)
    BY DEF AcceptOffer
  <2>2. AddCoins(p, -n) \in Update /\ AddCoins(buyer, n) \in Update
    BY <1>2, OneUpdate
  <2> DEFINE U == Update \cup {SearchExpired}
  <2>3. <<>> \in Seq(U) /\ <<AddCoins(p, -n)>> \in Seq(U) /\ <<AddCoins(buyer, n)>> \in Seq(U)
    BY <2>2
  <2>4. qs \in Seq(U)
    <3> HIDE DEF U, buyer, o
    <3> QED BY <2>3, ConcatProperties
  <2> QED BY <2>1, <2>4, QueueGrows DEF MarketInv
<1>5. gold' \in [Players -> Nat]
  <2>1. gold' = [q \in Players |->
              gold[q] + (IF q = seller THEN price ELSE 0) - (IF q = p /\ o.sale THEN price ELSE 0)]
    BY DEF AcceptOffer
  <2>2. o.sale => price <= gold[p]
    BY DEF AcceptOffer
  <2> HIDE DEF price, seller
  <2> QED BY <1>2, <2>1, <2>2 DEF MarketInv, PursesTyped
<1>6. items' \in [Players -> [Kinds -> Nat]]
  <2>1. items' = [q \in Players |-> [items[q] EXCEPT !["item"] =
              IF o.kind = "coin" THEN @
              ELSE @ + (IF q = buyer THEN n ELSE 0) - (IF q = p /\ ~o.sale THEN n ELSE 0)]]
    BY DEF AcceptOffer
  <2>2. ~o.sale => n <= IF o.kind = "coin" THEN GetCoinBalance(p) ELSE items[p]["item"]
    BY DEF AcceptOffer
  <2> HIDE DEF buyer, price
  <2> QED BY <1>2, <2>1, <2>2 DEF MarketInv, PursesTyped, Kinds
<1>7. coins' = coins /\ coinBalance' = coinBalance
  BY DEF AcceptOffer
<1> QED BY <1>3, <1>4, <1>5, <1>6, <1>7 DEF MarketInv, PursesTyped

LEMMA TransferTyped ==
  ASSUME MarketInv, NEW p \in Players, NEW q \in Players, NEW n \in Amounts, TransferCoins(p, q, n)
  PROVE  MarketInv'
<1>1. n \in Nat
  BY AmountsArePositive
<1>2. QueueTyped'
  <2>1. Enqueue(<<AddCoins(p, -n), AddCoins(q, n)>>)
    BY DEF TransferCoins
  <2>2. <<AddCoins(p, -n), AddCoins(q, n)>> \in Seq(Update \cup {SearchExpired})
    BY <1>1, OneUpdate
  <2> QED BY <2>1, <2>2, QueueGrows DEF MarketInv
<1>3. coinBalance' \in [Players -> Int]
  BY <1>1 DEF TransferCoins, MarketInv, PursesTyped
<1> QED BY <1>2, <1>3 DEF TransferCoins, tableVars, MarketInv, PursesTyped, OffersTyped, RowsAgree

LEMMA ExpireTyped ==
  ASSUME MarketInv, NEW id \in Ids, Expire(id)
  PROVE  MarketInv'
<1> DEFINE r == [offers[id] EXCEPT !.expired = TRUE]
<1>1. id \in DOMAIN offers /\ offers[id] \in Offer
  BY TablesAre DEF Expire, MarketInv, OffersTyped
<1>2. offers[id].amount \in Amounts
  BY <1>1 DEF Offer
<1>3. r \in Offer /\ Alike(r, offers[id])
  BY <1>1, <1>2, RowChanged
<1>4. offers' = [offers EXCEPT ![id] = r]
  BY DEF Expire
<1>5. OffersTyped' /\ RowsAgree'
  <2> HIDE DEF r
  <2> QED BY <1>1, <1>3, <1>4, ChangedOffer DEF Expire, MarketInv
<1> QED BY <1>5 DEF Expire, MarketInv, PursesTyped, QueueTyped

LEMMA RunTaskTyped ==
  ASSUME MarketInv, RunTask
  PROVE  MarketInv'
<1>1. Head(queue) \in Update \cup {SearchExpired} /\ QueueTyped'
  BY HeadTailProperties DEF RunTask, MarketInv, QueueTyped
<1>2. OffersTyped'
  BY DEF RunTask, tableVars, MarketInv, OffersTyped
<1>3. CASE Head(queue).query = "coins"
  <2>1. Head(queue) \in Update
    BY <1>1, <1>3 DEF SearchExpired
  <2>2. coins' \in [Players -> Int]
    <3>1. coins' = [coins EXCEPT ![Head(queue).player] = @ + Head(queue).amount]
      BY <1>3 DEF RunTask
    <3>2. Head(queue).player \in Players /\ Head(queue).amount \in Int
      BY <2>1 DEF Update
    <3> QED BY <3>1, <3>2 DEF MarketInv, PursesTyped
  <2>3. PursesTyped'
    BY <2>2 DEF RunTask, MarketInv, PursesTyped
  <2>4. RowsAgree'
    BY <1>3 DEF RunTask, tableVars, MarketInv, RowsAgree
  <2> QED BY <1>1, <1>2, <2>3, <2>4 DEF MarketInv
<1>4. CASE Head(queue).query # "coins"
  <2>1. PursesTyped'
    BY <1>4 DEF RunTask, MarketInv, PursesTyped
  <2>2. /\ DOMAIN ExpiredRows \subseteq DOMAIN offers
        /\ \A id \in DOMAIN ExpiredRows : ExpiredRows[id] = offers[id]
    BY DEF ExpiredRows
  <2>3. DOMAIN offers \in SUBSET Ids /\ \A id \in DOMAIN offers : offers[id] \in Offer
    BY TablesAre DEF MarketInv, OffersTyped
  <2>4. ExpiredRows \in [DOMAIN ExpiredRows -> Offer]
    BY <2>2, <2>3 DEF ExpiredRows
  <2>5. ExpiredRows \in Tables
    BY <2>2, <2>3, <2>4, TablesFrom
  <2>6. CASE results' = results
    BY <2>6, <1>1, <1>2, <2>1 DEF RunTask, tableVars, MarketInv, RowsAgree
  <2>7. CASE results' = Append(results, ExpiredRows)
    <3>1. results \in Seq(Tables)
      BY DEF MarketInv, RowsAgree
    <3>2. results' \in Seq(Tables)
      BY <2>5, <2>7, <3>1
    <3>3. \A i \in DOMAIN results' :
            (i \in DOMAIN results /\ results'[i] = results[i]) \/ results'[i] = ExpiredRows
      <4> HIDE DEF ExpiredRows
      <4> QED BY <2>5, <2>7, <3>1
    <3>4. lastId' = lastId /\ offers' = offers /\ DOMAIN offers \subseteq 1 .. lastId
      BY DEF RunTask, tableVars, MarketInv, OffersTyped
    <3>5. ASSUME NEW i \in DOMAIN results'
          PROVE  /\ DOMAIN results'[i] \subseteq 1 .. lastId'
                 /\ \A id \in DOMAIN results'[i] \cap DOMAIN offers' : Alike(results'[i][id], offers'[id])
      <4>1. CASE i \in DOMAIN results /\ results'[i] = results[i]
        BY <3>4, <4>1 DEF MarketInv, RowsAgree
      <4>2. CASE results'[i] = ExpiredRows
        BY <2>2, <3>4, <4>2 DEF Alike
      <4> QED BY <3>3, <4>1, <4>2
    <3>6. RowsAgree'
      BY <3>2, <3>5 DEF RowsAgree
    <3> QED BY <1>1, <1>2, <2>1, <3>6 DEF MarketInv
  <2> QED BY <1>4, <2>6, <2>7 DEF RunTask
<1> QED BY <1>3, <1>4

LEMMA ProcessTyped ==
  ASSUME MarketInv, ProcessExpiredOffers
  PROVE  MarketInv'
<1> DEFINE rows == Head(results)
           back == StillOffered(rows)
           Of(p, sale) == {id \in back : rows[id].player = p /\ rows[id].sale = sale}
<1>1. /\ results \in Seq(Tables) /\ results # <<>> /\ results' = Tail(results)
      /\ lastId' = lastId /\ UNCHANGED <<coins, coinBalance, queue>>
      /\ offers' = [id \in DOMAIN offers \ back |-> offers[id]]
  BY DEF ProcessExpiredOffers, MarketInv, RowsAgree
<1>2. rows \in Tables
  BY <1>1, HeadTailProperties
<1>3. /\ DOMAIN rows \subseteq Ids /\ IsFiniteSet(DOMAIN rows)
      /\ \A id \in DOMAIN rows : rows[id].amount \in Nat /\ rows[id].price \in Nat
      /\ \A id \in DOMAIN rows : rows[id].price * rows[id].amount \in Nat
  <2>1. DOMAIN rows \in SUBSET Ids /\ \A id \in DOMAIN rows : rows[id] \in Offer
    BY <1>2, TablesAre
  <2>2. IsFiniteSet(DOMAIN rows)
    BY <2>1, MarketConstants, FS_Subset
  <2>3. \A id \in DOMAIN rows : rows[id].amount \in Nat /\ rows[id].price \in Nat
    BY <2>1, MarketConstants, AmountsArePositive DEF Offer
  <2> QED BY <2>1, <2>2, <2>3
<1>4. \A S \in SUBSET DOMAIN rows : IsFiniteSet(S)
  BY <1>3, FS_Subset
<1>5. back \subseteq DOMAIN rows
  BY DEF StillOffered
<1>6. OffersTyped' /\ RowsAgree'
  <2>1. /\ results' \in Seq(Tables)
        /\ \A i \in DOMAIN results' : \E j \in DOMAIN results : results'[i] = results[j]
    <3>1. /\ Tail(results) \in Seq(Tables) /\ Len(Tail(results)) = Len(results) - 1 /\ Len(results) \in Nat
          /\ DOMAIN Tail(results) = 1 .. Len(results) - 1 /\ DOMAIN results = 1 .. Len(results)
          /\ \A i \in 1 .. Len(results) - 1 : Tail(results)[i] = results[i + 1]
      <4>1. Tail(results) \in Seq(Tables) /\ Len(Tail(results)) = Len(results) - 1
        BY <1>1, HeadTailProperties
      <4> QED BY <1>1, <4>1, HeadTailProperties, LenProperties
    <3> QED BY <1>1, <3>1
  <2>2. /\ DOMAIN offers' \subseteq DOMAIN offers
        /\ offers' = [i \in DOMAIN offers' |-> offers'[i]]
        /\ \A i \in DOMAIN offers' : offers'[i] = offers[i]
    BY <1>1
  <2>3. \A i \in DOMAIN offers' : offers'[i] \in Offer /\ Alike(offers'[i], offers[i])
    BY <2>2, TablesAre DEF MarketInv, OffersTyped, Alike
  <2> QED BY <1>1, <2>1, <2>2, <2>3, FewerOffers DEF MarketInv
<1>7. gold' \in [Players -> Nat]
  <2> DEFINE paid(p) == [id \in Of(p, FALSE) |-> rows[id].price * rows[id].amount]
  <2>1. gold' = [p \in Players |-> gold[p] + SumFunction(paid(p))]
    BY DEF ProcessExpiredOffers
  <2>2. ASSUME NEW p \in Players PROVE SumFunction(paid(p)) \in Nat
    <3> DEFINE S == Of(p, FALSE)
    <3>1. S \in SUBSET DOMAIN rows
      BY <1>5
    <3>2. paid(p) \in [S -> Nat]
      BY <1>3, <3>1
    <3> HIDE DEF S, paid, Of, back
    <3> QED BY <1>4, <3>1, <3>2, SumIsNat
  <2> HIDE DEF paid
  <2> QED BY <2>1, <2>2 DEF MarketInv, PursesTyped
<1>8. items' \in [Players -> [Kinds -> Nat]]
  <2> DEFINE given(p, k) == [id \in {i \in Of(p, TRUE) : rows[i].kind = k} |-> rows[id].amount]
  <2>1. items' = [p \in Players |-> [k \in Kinds |-> items[p][k] + SumFunction(given(p, k))]]
    BY DEF ProcessExpiredOffers
  <2>2. ASSUME NEW p \in Players, NEW k \in Kinds PROVE SumFunction(given(p, k)) \in Nat
    <3> DEFINE S == {i \in Of(p, TRUE) : rows[i].kind = k}
    <3>1. S \in SUBSET DOMAIN rows
      BY <1>5
    <3>2. given(p, k) \in [S -> Nat]
      BY <1>3, <3>1
    <3> HIDE DEF S, given, Of, back
    <3> QED BY <1>4, <3>1, <3>2, SumIsNat
  <2> HIDE DEF given
  <2> QED BY <2>1, <2>2 DEF MarketInv, PursesTyped
<1> QED BY <1>1, <1>6, <1>7, <1>8 DEF MarketInv, PursesTyped, QueueTyped

LEMMA MarketStepTyped ==
  ASSUME MarketInv, [MarketNext]_marketVars
  PROVE  MarketInv'
<1>1. CASE CheckExpiredOffers
  <2>1. Enqueue(<<SearchExpired>>) /\ <<SearchExpired>> \in Seq(Update \cup {SearchExpired})
    BY <1>1 DEF CheckExpiredOffers
  <2>2. QueueTyped'
    BY <2>1, QueueGrows DEF MarketInv
  <2> QED BY <1>1, <2>2 DEF CheckExpiredOffers, tableVars, MarketInv, PursesTyped, OffersTyped, RowsAgree
<1>2. ASSUME NEW p \in Players, UpdateCoinBalance(p) PROVE MarketInv'
  <2>1. coins[p] \in Int /\ Words \in Nat \ {0}
    BY MarketAssumption DEF MarketInv, PursesTyped
  <2>2. GetCoinBalance(p) \in Int
    BY <2>1 DEF GetCoinBalance
  <2>3. AsInt32(GetCoinBalance(p)) \in Int
    BY <2>1, <2>2 DEF AsInt32
  <2>4. coinBalance' \in [Players -> Int]
    BY <1>2, <2>3 DEF UpdateCoinBalance, MarketInv, PursesTyped
  <2> QED BY <1>2, <2>4 DEF UpdateCoinBalance, tableVars, MarketInv, PursesTyped, OffersTyped, RowsAgree, QueueTyped
<1>3. CASE UNCHANGED marketVars
  BY <1>3 DEF marketVars, MarketInv, PursesTyped, OffersTyped, RowsAgree, QueueTyped
<1>4. CASE MarketNext
  BY <1>1, <1>2, <1>4, CreateTyped, CancelTyped, AcceptTyped, TransferTyped, ExpireTyped, RunTaskTyped,
     ProcessTyped DEF MarketNext
<1> QED BY <1>3, <1>4

(* The types of the market hold, and the rows that checkExpiredOffers read and *)
(* processExpiredOffers has not yet worked on agree with the offers still      *)
(* there in all but amount and age: no id is given out twice, and a part       *)
(* accepted changes the amount only.                                           *)
THEOREM MarketTypesHold == MarketSpec => []MarketInv
BY MarketInitially, MarketStepTyped, PTL DEF MarketSpec

-----------------------------------------------------------------------------
(* The coins of a player and the queries still queued *)

(* What a query brings a player, and what a queue of them does. *)
Brings(t, p) == IF t.query = "coins" /\ t.player = p THEN t.amount ELSE 0
Owed(q, p) == SumFunction([i \in DOMAIN q |-> Brings(q[i], p)])
Queries == Update \cup {SearchExpired}

(* What queries bring are integers. *)
LEMMA BringsInt ==
  ASSUME NEW t \in Queries, NEW p
  PROVE  Brings(t, p) \in Int
BY DEF Queries, Update, SearchExpired, Brings

LEMMA QueueIs ==
  ASSUME NEW q \in Seq(Queries)
  PROVE  /\ Len(q) \in Nat /\ DOMAIN q = 1 .. Len(q) /\ IsFiniteSet(DOMAIN q)
         /\ \A i \in DOMAIN q : q[i] \in Queries
<1>1. Len(q) \in Nat /\ DOMAIN q = 1 .. Len(q)
  OBVIOUS
<1>2. IsFiniteSet(1 .. Len(q))
  BY <1>1, FS_Interval
<1> QED BY <1>1, <1>2

LEMMA OwedInt ==
  ASSUME NEW q \in Seq(Queries), NEW p
  PROVE  Owed(q, p) \in Int
<1> DEFINE f == [i \in DOMAIN q |-> Brings(q[i], p)]
<1>1. f \in [DOMAIN q -> Int]
  BY QueueIs, BringsInt
<1> HIDE DEF f
<1>2. SumFunction(f) \in Int
  BY <1>1, QueueIs, SumIsInt
<1> QED BY <1>2 DEF Owed, f

(* The sum in Settled is over all queries, as others bring nothing. *)
LEMMA OwedByUpdates ==
  ASSUME NEW q \in Seq(Queries), NEW p
  PROVE  SumFunction([i \in {j \in DOMAIN q : q[j].query = "coins" /\ q[j].player = p} |-> q[i].amount])
           = Owed(q, p)
<1> DEFINE T == {j \in DOMAIN q : q[j].query = "coins" /\ q[j].player = p}
           f == [i \in T |-> q[i].amount]
           D == DOMAIN q
           F == [i \in D |-> Brings(q[i], p)]
<1>1. \A j \in D : Brings(q[j], p) \in Int /\ IsFiniteSet(D)
  BY QueueIs, BringsInt
<1>2. \A j \in T : q[j].amount = Brings(q[j], p)
  BY DEF Brings
<1>3. IsPart(f, T, F, D)
  <2>1. \A j \in D : Brings(q[j], p) = IF j \in T THEN q[j].amount ELSE 0
    BY DEF Brings
  <2>2. IsFiniteSet(D)
    BY QueueIs
  <2> QED BY <1>1, <1>2, <2>1, <2>2 DEF IsPart
<1>4. SumFunction(f) = SumFunction(F)
  <2> HIDE DEF T, f, D, F
  <2> QED BY <1>3, SumOverPart
<1> QED BY <1>4 DEF Owed

(* A queue gets a query at its end, or loses its first. *)
LEMMA OwedAppend ==
  ASSUME NEW q \in Seq(Queries), NEW t \in Queries, NEW p
  PROVE  Owed(q \o <<t>>, p) = Owed(q, p) + Brings(t, p)
<1> DEFINE r == q \o <<t>>
           n == Len(q)
           f == [i \in DOMAIN r |-> Brings(r[i], p)]
           g == [i \in DOMAIN q |-> Brings(q[i], p)]
<1>1. /\ n \in Nat /\ DOMAIN q = 1 .. n /\ DOMAIN r = 1 .. n + 1 /\ r \in Seq(Queries)
      /\ \A i \in 1 .. n : r[i] = q[i]
      /\ r[n + 1] = t
  OBVIOUS
<1>2. f \in [1 .. n + 1 -> Int] /\ g \in [1 .. n -> Int]
  BY <1>1, QueueIs, BringsInt
<1>3. (\A i \in 1 .. n : g[i] = f[i]) /\ f[n + 1] = Brings(t, p)
  BY <1>1
<1>4. SumFunction(f) = SumFunction(g) + f[n + 1]
  <2> HIDE DEF f, g, n
  <2> QED BY <1>1, <1>2, <1>3, SumWithOneMore
<1> QED BY <1>3, <1>4 DEF Owed

LEMMA OwedTail ==
  ASSUME NEW q \in Seq(Queries), q # <<>>, NEW p
  PROVE  Owed(q, p) = Brings(Head(q), p) + Owed(Tail(q), p)
<1> DEFINE n == Len(q)
           f == [i \in DOMAIN q |-> Brings(q[i], p)]
           g == [i \in DOMAIN Tail(q) |-> Brings(Tail(q)[i], p)]
<1>1. /\ n \in Nat /\ n > 0 /\ DOMAIN q = 1 .. n /\ Head(q) = q[1]
      /\ DOMAIN Tail(q) = 1 .. n - 1
      /\ \A i \in 1 .. n - 1 : Tail(q)[i] = q[i + 1]
  <2>1. n \in Nat /\ n > 0 /\ DOMAIN q = 1 .. n /\ Head(q) = q[1]
    OBVIOUS
  <2>2. Tail(q) \in Seq(Queries) /\ Len(Tail(q)) = n - 1 /\ \A i \in 1 .. n - 1 : Tail(q)[i] = q[i + 1]
    BY HeadTailProperties
  <2>3. DOMAIN Tail(q) = 1 .. n - 1
    BY <2>2, QueueIs
  <2> QED BY <2>1, <2>2, <2>3
<1>2. f \in [1 .. n -> Int] /\ f[1] = Brings(Head(q), p)
  BY <1>1, QueueIs, BringsInt
<1>3. \A i \in 1 .. n - 1 : i + 1 \in 1 .. n /\ g[i] = f[i + 1]
  BY <1>1
<1>4. g \in [1 .. n - 1 -> Int]
  BY <1>1, <1>2, <1>3
<1>5. SumFunction(f) = f[1] + SumFunction(g)
  <2> HIDE DEF f, g, n
  <2> QED BY <1>1, <1>2, <1>3, <1>4, SumFromSecond
<1> QED BY <1>2, <1>5 DEF Owed

(* What an update brings, and two queries as one and another *)
LEMMA BroughtByUpdate ==
  ASSUME NEW p \in Players, NEW n \in Int
  PROVE  /\ AddCoins(p, n) \in Queries /\ AddCoins(p, -n) \in Queries
         /\ \A q : Brings(AddCoins(p, n), q) = IF q = p THEN n ELSE 0
         /\ \A q : Brings(AddCoins(p, -n), q) = IF q = p THEN -n ELSE 0
BY DEF AddCoins, Update, Brings, Queries

LEMMA TwoQueries ==
  ASSUME NEW t \in Queries, NEW u \in Queries
  PROVE  <<t, u>> = <<t>> \o <<u>>
<1>1. <<t>> \in Seq(Queries) /\ <<u>> \in Seq(Queries) /\ <<t, u>> \in Seq(Queries)
  OBVIOUS
<1>2. Len(<<t>>) = 1 /\ Len(<<u>>) = 1 /\ Len(<<t, u>>) = 2
  OBVIOUS
<1>3. <<t>> \o <<u>> \in Seq(Queries) /\ Len(<<t>> \o <<u>>) = 2
  BY <1>1, <1>2, ConcatProperties
<1>4. (<<t>> \o <<u>>)[1] = t /\ (<<t>> \o <<u>>)[2] = u
  BY <1>1, <1>2, ConcatProperties
<1>5. <<t, u>>[1] = t /\ <<t, u>>[2] = u
  OBVIOUS
<1> DEFINE a == <<t, u>>
           b == <<t>> \o <<u>>
<1>6. a \in Seq(Queries) /\ b \in Seq(Queries) /\ Len(a) = 2 /\ Len(b) = 2 /\ a[1] = b[1] /\ a[2] = b[2]
  BY <1>1, <1>2, <1>3, <1>4, <1>5
<1>7. a = b
  <2> HIDE DEF a, b
  <2> QED BY <1>6, SeqEqual
<1> QED BY <1>7

LEMMA OwedTwo ==
  ASSUME NEW q \in Seq(Queries), NEW t \in Queries, NEW u \in Queries, NEW p
  PROVE  Owed(q \o <<t, u>>, p) = Owed(q, p) + Brings(t, p) + Brings(u, p)
<1>1. q \o <<t, u>> = (q \o <<t>>) \o <<u>> /\ q \o <<t>> \in Seq(Queries)
  <2> DEFINE tt == <<t>>
             uu == <<u>>
             tu == <<t, u>>
  <2>1. tu = tt \o uu /\ tt \in Seq(Queries) /\ uu \in Seq(Queries)
    BY TwoQueries
  <2> HIDE DEF tt, uu, tu
  <2>2. (q \o tt) \o uu = q \o (tt \o uu)
    BY <2>1, ConcatAssociative
  <2>3. q \o tt \in Seq(Queries)
    BY <2>1, ConcatProperties
  <2>4. q \o tu = (q \o tt) \o uu /\ q \o tt \in Seq(Queries)
    BY <2>1, <2>2, <2>3
  <2> QED BY <2>4 DEF tt, uu, tu
<1>2. Owed((q \o <<t>>) \o <<u>>, p) = Owed(q \o <<t>>, p) + Brings(u, p)
  BY <1>1, OwedAppend
<1> QED BY <1>1, <1>2, OwedAppend

(* A player's coins, now and after a step *)
LEMMA SettledIs ==
  ASSUME MarketInv, NEW p \in Players
  PROVE  /\ Settled(p) = coins[p] + Owed(queue, p)
         /\ Settled(p) \in Int
<1>1. queue \in Seq(Queries) /\ coins[p] \in Int
  BY DEF MarketInv, QueueTyped, PursesTyped, Queries
<1>2. Settled(p) = coins[p] + Owed(queue, p)
  BY <1>1, OwedByUpdates DEF Settled
<1> QED BY <1>1, <1>2, OwedInt

LEMMA SettledIsNext ==
  ASSUME MarketInv', NEW p \in Players
  PROVE  /\ Settled(p)' = coins'[p] + Owed(queue', p)
         /\ Settled(p)' \in Int
<1>1. queue' \in Seq(Queries) /\ coins'[p] \in Int
  BY DEF MarketInv, QueueTyped, PursesTyped, Queries
<1>2. Settled(p)' = coins'[p] + Owed(queue', p)
  BY <1>1, OwedByUpdates DEF Settled
<1> QED BY <1>1, <1>2, OwedInt

(* What the queries a request adds do to the settled coins. *)
LEMMA NothingAdded ==
  ASSUME MarketInv, MarketInv', NEW q \in Players, coins'[q] = coins[q],
         queue' = queue \/ Enqueue(<<>>) \/ Enqueue(<<SearchExpired>>)
  PROVE  Settled(q)' = Settled(q)
<1>1. queue \in Seq(Queries) /\ SearchExpired \in Queries
  BY DEF MarketInv, QueueTyped, Queries
<1>2. Owed(queue', q) = Owed(queue, q)
  <2>1. CASE queue' = queue
    BY <2>1
  <2>2. CASE Enqueue(<<>>)
    <3>1. queue' = queue
      BY <1>1, <2>2, ConcatEmptySeq DEF Enqueue
    <3> QED BY <3>1
  <2>3. CASE Enqueue(<<SearchExpired>>)
    <3>1. Owed(queue', q) = Owed(queue, q) + Brings(SearchExpired, q)
      BY <1>1, <2>3, OwedAppend DEF Enqueue
    <3>2. Brings(SearchExpired, q) = 0
      BY DEF Brings, SearchExpired
    <3> QED BY <1>1, <3>1, <3>2, OwedInt
  <2> QED BY <2>1, <2>2, <2>3
<1> QED BY <1>2, SettledIs, SettledIsNext

LEMMA OneAdded ==
  ASSUME MarketInv, MarketInv', NEW q \in Players, coins' = coins, NEW p \in Players, NEW n \in Int,
         Enqueue(<<AddCoins(p, n)>>)
  PROVE  Settled(q)' = Settled(q) + IF q = p THEN n ELSE 0
<1>1. queue \in Seq(Queries) /\ AddCoins(p, n) \in Queries
  BY BroughtByUpdate DEF MarketInv, QueueTyped, Queries
<1>2. Owed(queue', q) = Owed(queue, q) + Brings(AddCoins(p, n), q)
  BY <1>1, OwedAppend DEF Enqueue
<1>3. Brings(AddCoins(p, n), q) = IF q = p THEN n ELSE 0
  BY BroughtByUpdate
<1>4. Owed(queue, q) \in Int /\ coins[q] \in Int
  BY <1>1, OwedInt DEF MarketInv, PursesTyped
<1> QED BY <1>2, <1>3, <1>4, SettledIs, SettledIsNext

LEMMA TwoAdded ==
  ASSUME MarketInv, MarketInv', NEW x \in Players, coins' = coins,
         NEW p \in Players, NEW q \in Players, NEW n \in Int,
         Enqueue(<<AddCoins(p, -n), AddCoins(q, n)>>)
  PROVE  Settled(x)' = Settled(x) + (IF x = p THEN -n ELSE 0) + (IF x = q THEN n ELSE 0)
<1>1. queue \in Seq(Queries) /\ AddCoins(p, -n) \in Queries /\ AddCoins(q, n) \in Queries
  BY BroughtByUpdate DEF MarketInv, QueueTyped, Queries
<1>2. Owed(queue', x) = Owed(queue, x) + Brings(AddCoins(p, -n), x) + Brings(AddCoins(q, n), x)
  BY <1>1, OwedTwo DEF Enqueue
<1>3. /\ Brings(AddCoins(p, -n), x) = IF x = p THEN -n ELSE 0
      /\ Brings(AddCoins(q, n), x) = IF x = q THEN n ELSE 0
  BY BroughtByUpdate
<1>4. Owed(queue, x) \in Int /\ coins[x] \in Int
  BY <1>1, OwedInt DEF MarketInv, PursesTyped
<1> QED BY <1>2, <1>3, <1>4, SettledIs, SettledIsNext

(* A task that is run changes no settled coins. *)
LEMMA RunTaskSettles ==
  ASSUME MarketInv, MarketInv', RunTask, NEW p \in Players
  PROVE  Settled(p)' = Settled(p)
<1>1. queue \in Seq(Queries) /\ queue # <<>> /\ queue' = Tail(queue) /\ Head(queue) \in Queries
  BY HeadTailProperties DEF RunTask, MarketInv, QueueTyped, Queries
<1>2. Owed(queue, p) = Brings(Head(queue), p) + Owed(queue', p)
  BY <1>1, OwedTail
<1>3. queue' \in Seq(Queries) /\ coins[p] \in Int /\ Brings(Head(queue), p) \in Int
  BY <1>1, BringsInt DEF MarketInv, PursesTyped, QueueTyped, Queries
<1>4. coins'[p] = coins[p] + Brings(Head(queue), p)
  BY <1>1, <1>3 DEF RunTask, MarketInv, PursesTyped, Brings, Queries, Update, SearchExpired
<1> QED BY <1>2, <1>3, <1>4, OwedInt, SettledIs, SettledIsNext

-----------------------------------------------------------------------------
(* The balances that players know *)

(* A balance that was right is no more than what its player has. *)
BalanceInv ==
  /\ upToDate \subseteq Players
  /\ \A p \in upToDate : coinBalance[p] <= Settled(p)

(* What a step takes of x's coins, and how his balance keeps up with it *)
Takes(x) ==
  Settled(x)' < Settled(x) =>
    \/ Settled(x)' >= Settled(x) - coinBalance[x]
    \/ offers' # offers /\ lastId' = lastId /\ Settled(x)' >= Settled(x) - GetCoinBalance(x)
KeepsUp(x) ==
  x \in upToDate' =>
    \/ coinBalance'[x] = Settled(x)'
    \/ x \in upToDate /\ coinBalance'[x] - coinBalance[x] <= Settled(x)' - Settled(x)

(* A balance that is read is an integer, and no more than what is not negative. *)
LEMMA BalanceRead ==
  ASSUME MarketInv, NEW x \in Players
  PROVE  /\ GetCoinBalance(x) \in Int /\ AsInt32(GetCoinBalance(x)) \in Int
         /\ coins[x] >= 0 => GetCoinBalance(x) <= coins[x]
<1>1. coins[x] \in Int /\ Words \in Nat \ {0}
  BY MarketAssumption DEF MarketInv, PursesTyped
<1>2. GetCoinBalance(x) \in Int
  BY <1>1 DEF GetCoinBalance
<1>3. ASSUME coins[x] >= 0 PROVE GetCoinBalance(x) <= coins[x]
  BY <1>1, <1>3 DEF GetCoinBalance
<1> QED BY <1>1, <1>2, <1>3 DEF AsInt32

LEMMA QuietKeepsUp ==
  ASSUME MarketInv, MarketInv', NEW x \in Players, coinBalance'[x] = coinBalance[x], upToDate' = upToDate,
         Settled(x)' >= Settled(x)
  PROVE  Takes(x) /\ KeepsUp(x)
<1>1. Settled(x) \in Int /\ Settled(x)' \in Int /\ coinBalance[x] \in Int
  BY SettledIs, SettledIsNext DEF MarketInv, PursesTyped
<1> QED BY <1>1 DEF Takes, KeepsUp

LEMMA CreateSaleTakes ==
  ASSUME MarketInv, MarketInv', NEW p \in Players, NEW sort \in Kinds, NEW n \in Amounts,
         NEW price \in Prices, CreateSale(p, sort, n, price), NEW x \in Players
  PROVE  Takes(x) /\ KeepsUp(x)
<1>1. Settled(x) \in Int /\ Settled(x)' \in Int /\ coinBalance[x] \in Int /\ n \in Nat
  BY SettledIs, SettledIsNext, AmountsArePositive DEF MarketInv, PursesTyped
<1>2. coins' = coins /\ coinBalance' = coinBalance
  BY DEF CreateSale
<1>3. CASE sort = "coin"
  <2>1. Enqueue(<<AddCoins(p, -n)>>) /\ n <= coinBalance[p] /\ upToDate' = upToDate \ {p}
    BY <1>3 DEF CreateSale
  <2>2. Settled(x)' = Settled(x) + IF x = p THEN -n ELSE 0
    BY <1>1, <1>2, <2>1, OneAdded
  <2> QED BY <1>1, <1>2, <2>1, <2>2 DEF Takes, KeepsUp
<1>4. CASE sort = "item"
  <2>1. queue' = queue /\ upToDate' = upToDate
    BY <1>4 DEF CreateSale
  <2>2. Settled(x)' = Settled(x)
    BY <1>2, <2>1, NothingAdded
  <2> QED BY <1>1, <1>2, <2>1, <2>2, QuietKeepsUp
<1> QED BY <1>3, <1>4 DEF Kinds

LEMMA CancelTakes ==
  ASSUME MarketInv, MarketInv', NEW p \in Players, NEW id \in Ids, CancelOffer(p, id), NEW x \in Players
  PROVE  Takes(x) /\ KeepsUp(x)
<1> DEFINE o == offers[id]
<1>1. Settled(x) \in Int /\ Settled(x)' \in Int
  BY SettledIs, SettledIsNext
<1>2. o \in Offer
  BY TablesAre DEF CancelOffer, MarketInv, OffersTyped
<1>3. o.amount \in Nat
  BY <1>2, OfferIs
<1>4. /\ Enqueue(IF o.sale /\ o.kind = "coin" THEN <<AddCoins(p, o.amount)>> ELSE <<>>)
      /\ coins' = coins /\ coinBalance' = coinBalance /\ upToDate' = upToDate
  BY DEF CancelOffer
<1> HIDE DEF o
<1>5. CASE Enqueue(<<>>)
  <2>1. Settled(x)' = Settled(x)
    BY <1>4, <1>5, NothingAdded
  <2> QED BY <1>1, <1>4, <2>1, QuietKeepsUp
<1>6. CASE Enqueue(<<AddCoins(p, o.amount)>>)
  <2>1. Settled(x)' = Settled(x) + IF x = p THEN o.amount ELSE 0
    BY <1>3, <1>4, <1>6, OneAdded
  <2> QED BY <1>1, <1>3, <1>4, <2>1, QuietKeepsUp
<1> QED BY <1>4, <1>5, <1>6

(* An offer accepted is gone or has a smaller amount. *)
LEMMA AcceptedOfferChanges ==
  ASSUME MarketInv, NEW p \in Players, NEW id \in Ids, NEW n \in Amounts, AcceptOffer(p, id, n)
  PROVE  offers' # offers /\ lastId' = lastId
<1>1. id \in DOMAIN offers /\ Accepted(id, n) /\ lastId' = lastId
  BY DEF AcceptOffer, AmountIsOffered
<1>2. offers[id] \in Offer
  BY <1>1, TablesAre DEF MarketInv, OffersTyped
<1>3. offers[id].amount \in Nat /\ n \in Nat /\ n # 0
  BY <1>2, OfferIs, AmountsArePositive
<1>4. CASE offers[id].amount = n
  BY <1>1, <1>4 DEF Accepted, Drop
<1>5. CASE offers[id].amount # n
  <2>1. offers' = [offers EXCEPT ![id].amount = @ - n]
    BY <1>1, <1>5 DEF Accepted
  <2>2. offers'[id].amount = offers[id].amount - n
    BY <1>1, <1>2, <2>1 DEF Offer
  <2> QED BY <1>1, <1>3, <2>2
<1> QED BY <1>4, <1>5

LEMMA AcceptTakes ==
  ASSUME MarketInv, MarketInv', NEW p \in Players, NEW id \in Ids, NEW n \in Amounts,
         AcceptOffer(p, id, n), NEW x \in Players
  PROVE  Takes(x) /\ KeepsUp(x)
<1> DEFINE o == offers[id]
<1>1. Settled(x) \in Int /\ Settled(x)' \in Int /\ GetCoinBalance(x) \in Int
  BY SettledIs, SettledIsNext, BalanceRead
<1>2. o \in Offer
  BY TablesAre DEF AcceptOffer, AmountIsOffered, MarketInv, OffersTyped
<1>3. o.player \in Players /\ o.kind \in Kinds /\ o.sale \in BOOLEAN /\ n \in Nat
  BY <1>2, OfferIs, AmountsArePositive
<1>4. /\ Enqueue(IF o.kind = "item" THEN <<>>
                 ELSE (IF o.sale THEN <<>> ELSE <<AddCoins(p, -n)>>)
                        \o <<AddCoins(IF o.sale THEN p ELSE o.player, n)>>)
      /\ upToDate' = IF o.sale \/ o.kind = "item" THEN upToDate ELSE upToDate \ {p}
      /\ coins' = coins /\ coinBalance' = coinBalance
      /\ ~o.sale => n <= IF o.kind = "coin" THEN GetCoinBalance(p) ELSE items[p]["item"]
  BY DEF AcceptOffer
<1>5. offers' # offers /\ lastId' = lastId
  BY AcceptedOfferChanges
<1> HIDE DEF o
<1>6. CASE o.kind = "item"
  <2>1. Enqueue(<<>>)
    BY <1>4, <1>6
  <2>2. Settled(x)' = Settled(x)
    BY <1>4, <2>1, NothingAdded
  <2> QED BY <1>1, <1>4, <1>6, <2>2, QuietKeepsUp
<1>7. CASE o.kind = "coin" /\ o.sale
  <2>1. AddCoins(p, n) \in Queries /\ <<>> \o <<AddCoins(p, n)>> = <<AddCoins(p, n)>>
    BY <1>3, BroughtByUpdate
  <2>2. Enqueue(<<AddCoins(p, n)>>)
    BY <1>4, <1>7, <2>1
  <2>3. Settled(x)' = Settled(x) + IF x = p THEN n ELSE 0
    BY <1>3, <1>4, <2>2, OneAdded
  <2> QED BY <1>1, <1>3, <1>4, <1>7, <2>3, QuietKeepsUp
<1>8. CASE o.kind = "coin" /\ ~o.sale
  <2>1. AddCoins(p, -n) \in Queries /\ AddCoins(o.player, n) \in Queries
    BY <1>3, BroughtByUpdate
  <2>2. <<AddCoins(p, -n)>> \o <<AddCoins(o.player, n)>> = <<AddCoins(p, -n), AddCoins(o.player, n)>>
    BY <2>1, TwoQueries
  <2>3. Enqueue(<<AddCoins(p, -n), AddCoins(o.player, n)>>)
    BY <1>4, <1>8, <2>2
  <2>4. Settled(x)' = Settled(x) + (IF x = p THEN -n ELSE 0) + (IF x = o.player THEN n ELSE 0)
    BY <1>3, <1>4, <2>3, TwoAdded
  <2>5. n <= GetCoinBalance(p) /\ upToDate' = upToDate \ {p}
    BY <1>4, <1>8
  <2>6. Takes(x)
    BY <1>1, <1>3, <1>5, <2>4, <2>5 DEF Takes
  <2>7. coinBalance[x] \in Int
    BY DEF MarketInv, PursesTyped
  <2>8. KeepsUp(x)
    BY <1>1, <1>3, <1>4, <2>4, <2>5, <2>7 DEF KeepsUp
  <2> QED BY <2>6, <2>8
<1> QED BY <1>3, <1>6, <1>7, <1>8 DEF Kinds

LEMMA TransferTakes ==
  ASSUME MarketInv, MarketInv', NEW p \in Players, NEW q \in Players, NEW n \in Amounts,
         TransferCoins(p, q, n), NEW x \in Players
  PROVE  Takes(x) /\ KeepsUp(x)
<1>1. Settled(x) \in Int /\ Settled(x)' \in Int /\ coinBalance[x] \in Int /\ n \in Nat
  BY SettledIs, SettledIsNext, AmountsArePositive DEF MarketInv, PursesTyped
<1>2. /\ Enqueue(<<AddCoins(p, -n), AddCoins(q, n)>>) /\ coins' = coins /\ upToDate' = upToDate
      /\ n <= coinBalance[p] /\ p # q
      /\ coinBalance' = [coinBalance EXCEPT ![p] = @ - n, ![q] = @ + n]
  BY DEF TransferCoins
<1>3. Settled(x)' = Settled(x) + (IF x = p THEN -n ELSE 0) + (IF x = q THEN n ELSE 0)
  BY <1>1, <1>2, TwoAdded
<1>4. coinBalance'[x] = coinBalance[x] + (IF x = p THEN -n ELSE 0) + (IF x = q THEN n ELSE 0)
  BY <1>1, <1>2 DEF MarketInv, PursesTyped
<1> QED BY <1>1, <1>2, <1>3, <1>4 DEF Takes, KeepsUp

LEMMA CoinsStep ==
  ASSUME MarketInv, MarketInv', [MarketNext]_marketVars, NEW x \in Players
  PROVE  Takes(x) /\ KeepsUp(x)
<1>1. Settled(x) \in Int /\ Settled(x)' \in Int
  BY SettledIs, SettledIsNext
<1>2. ASSUME NEW p \in Players, NEW sort \in Kinds, NEW n \in Amounts, NEW price \in Prices,
             CreatePurchase(p, sort, n, price)
      PROVE  Takes(x) /\ KeepsUp(x)
  BY <1>1, <1>2, NothingAdded, QuietKeepsUp DEF CreatePurchase
<1>3. ASSUME NEW p \in Players, UpdateCoinBalance(p) PROVE Takes(x) /\ KeepsUp(x)
  <2>1. /\ coins' = coins /\ queue' = queue
        /\ x # p => coinBalance'[x] = coinBalance[x]
        /\ upToDate' = IF coinBalance'[p] = Settled(p) THEN upToDate \cup {p} ELSE upToDate \ {p}
    BY <1>3 DEF UpdateCoinBalance, MarketInv, PursesTyped
  <2>2. Settled(x)' = Settled(x) /\ coinBalance[x] \in Int
    BY <2>1, NothingAdded DEF MarketInv, PursesTyped
  <2> QED BY <1>1, <2>1, <2>2 DEF Takes, KeepsUp
<1>4. ASSUME CheckExpiredOffers \/ UNCHANGED marketVars \/ (\E id \in Ids : Expire(id)) \/ ProcessExpiredOffers
      PROVE  Takes(x) /\ KeepsUp(x)
  <2>1. /\ coins' = coins /\ (queue' = queue \/ Enqueue(<<SearchExpired>>))
        /\ coinBalance' = coinBalance /\ upToDate' = upToDate
    BY <1>4 DEF CheckExpiredOffers, ProcessExpiredOffers, Expire, marketVars
  <2>2. Settled(x)' = Settled(x)
    BY <2>1, NothingAdded
  <2> QED BY <1>1, <2>1, <2>2, QuietKeepsUp
<1>5. ASSUME RunTask PROVE Takes(x) /\ KeepsUp(x)
  <2>1. coinBalance' = coinBalance /\ upToDate' = upToDate
    BY <1>5 DEF RunTask
  <2> QED BY <1>1, <1>5, <2>1, RunTaskSettles, QuietKeepsUp
<1>6. CASE MarketNext
  BY <1>2, <1>3, <1>4, <1>5, <1>6, CreateSaleTakes, CancelTakes, AcceptTakes, TransferTakes DEF MarketNext
<1>7. CASE UNCHANGED marketVars
  BY <1>4, <1>7
<1> QED BY <1>6, <1>7

LEMMA HistoryTyped ==
  ASSUME upToDate \subseteq Players, [MarketNext]_marketVars
  PROVE  upToDate' \subseteq Players
<1>1. CASE UNCHANGED marketVars
  BY <1>1 DEF marketVars
<1>2. ASSUME NEW p \in Players, NEW sort \in Kinds, NEW n \in Amounts, NEW price \in Prices,
             CreateSale(p, sort, n, price) \/ CreatePurchase(p, sort, n, price)
      PROVE  upToDate' \subseteq Players
  BY <1>2 DEF CreateSale, CreatePurchase, Kinds
<1>3. ASSUME NEW p \in Players, NEW id \in Ids, NEW n \in Amounts,
             CancelOffer(p, id) \/ AcceptOffer(p, id, n)
      PROVE  upToDate' \subseteq Players
  <2>1. CASE CancelOffer(p, id)
    BY <2>1 DEF CancelOffer
  <2>2. CASE AcceptOffer(p, id, n)
    <3>1. upToDate' = upToDate \/ upToDate' = upToDate \ {p}
      BY <2>2 DEF AcceptOffer
    <3> QED BY <3>1
  <2> QED BY <1>3, <2>1, <2>2
<1>4. ASSUME NEW p \in Players, NEW id \in Ids, CancelOffer(p, id) PROVE upToDate' \subseteq Players
  BY <1>4 DEF CancelOffer
<1>5. ASSUME NEW p \in Players, NEW q \in Players, NEW n \in Amounts, TransferCoins(p, q, n)
      PROVE  upToDate' \subseteq Players
  BY <1>5 DEF TransferCoins
<1>6. ASSUME NEW p \in Players, UpdateCoinBalance(p) PROVE upToDate' \subseteq Players
  BY <1>6 DEF UpdateCoinBalance
<1>7. ASSUME CheckExpiredOffers \/ RunTask \/ ProcessExpiredOffers \/ \E id \in Ids : Expire(id)
      PROVE  upToDate' \subseteq Players
  BY <1>7 DEF CheckExpiredOffers, RunTask, ProcessExpiredOffers, Expire
<1>8. CASE MarketNext
  BY <1>2, <1>3, <1>4, <1>5, <1>6, <1>7, <1>8 DEF MarketNext
<1> QED BY <1>1, <1>8

LEMMA BalancesInitially == MarketInit => BalanceInv
<1> SUFFICES ASSUME MarketInit PROVE BalanceInv
  OBVIOUS
<1>1. MarketInv /\ queue = <<>> /\ coinBalance = coins /\ upToDate = Players
  BY MarketInitially DEF MarketInit
<1>2. ASSUME NEW p \in Players PROVE coinBalance[p] <= Settled(p)
  <2>1. coins[p] \in Int /\ Settled(p) = coins[p] + Owed(queue, p)
    BY <1>1, SettledIs DEF MarketInv, PursesTyped
  <2>2. \A i \in DOMAIN queue : Brings(queue[i], p) = 0
    BY <1>1
  <2>3. Owed(queue, p) = 0
    BY <1>1, SumOfNothing DEF Owed
  <2> QED BY <1>1, <2>1, <2>3
<1> QED BY <1>1, <1>2 DEF BalanceInv

LEMMA BalancesKept ==
  ASSUME MarketInv, MarketInv', BalanceInv, [MarketNext]_marketVars
  PROVE  BalanceInv'
<1>1. upToDate' \subseteq Players
  BY HistoryTyped DEF BalanceInv
<1>2. ASSUME NEW p \in Players, p \in upToDate' PROVE coinBalance'[p] <= Settled(p)'
  <2>1. /\ Settled(p) \in Int /\ Settled(p)' \in Int
        /\ coinBalance[p] \in Int /\ coinBalance'[p] \in Int
    BY SettledIs, SettledIsNext DEF MarketInv, PursesTyped
  <2>2. KeepsUp(p)
    BY CoinsStep
  <2> QED BY <1>2, <2>1, <2>2 DEF KeepsUp, BalanceInv
<1> QED BY <1>1, <1>2 DEF BalanceInv

(* A balance that was right when it was read stays no more than what its player *)
(* has until he spends coins on the market himself, whatever the others do and  *)
(* however late their updates are executed (protocolgame.cpp, account.cpp).     *)
THEOREM BalancesHold == MarketSpec => []BalanceInv
<1>1. MarketInv /\ MarketInv' /\ BalanceInv /\ [MarketNext]_marketVars => BalanceInv'
  BY BalancesKept
<1> QED BY <1>1, BalancesInitially, MarketTypesHold, PTL DEF MarketSpec

-----------------------------------------------------------------------------
(* The wealth of all players and offers *)

(* What there is of each good and of gold: in a player's hands, and in an   *)
(* offer.                                                                   *)
All == Kinds \cup {"gold"}
Has(p, k) == IF k = "gold" THEN gold[p] ELSE items[p][k] + (IF k = "coin" THEN Settled(p) ELSE 0)
Holds(r, k) ==
  IF k = "gold" THEN (IF r.sale THEN 0 ELSE r.price * r.amount)
  ELSE IF r.sale /\ r.kind = k THEN r.amount ELSE 0
HeldIn(table, k) == [id \in Ids |-> IF id \in DOMAIN table THEN Holds(table[id], k) ELSE 0]
Wealth(k) == SumFunction([p \in Players |-> Has(p, k)]) + SumFunction(HeldIn(offers, k))

(* What is held are integers. *)
LEMMA HoldsInt ==
  ASSUME NEW r \in Offer, NEW k \in All
  PROVE  Holds(r, k) \in Int
<1>1. r.amount \in Nat /\ r.price * r.amount \in Nat
  BY OfferIs
<1> QED BY <1>1 DEF Holds

LEMMA HeldInt ==
  ASSUME NEW t \in Tables, NEW k \in All
  PROVE  HeldIn(t, k) \in [Ids -> Int] /\ SumFunction(HeldIn(t, k)) \in Int
<1>1. \A id \in DOMAIN t : t[id] \in Offer
  BY TablesAre
<1>2. HeldIn(t, k) \in [Ids -> Int]
  BY <1>1, HoldsInt DEF HeldIn
<1> QED BY <1>2, MarketConstants, SumIsInt

LEMMA HasInt ==
  ASSUME MarketInv, NEW p \in Players, NEW k \in All
  PROVE  Has(p, k) \in Int
<1>1. Settled(p) \in Int
  BY SettledIs
<1> QED BY <1>1 DEF Has, MarketInv, PursesTyped, All

LEMMA HasIntNext ==
  ASSUME MarketInv', NEW p \in Players, NEW k \in All
  PROVE  Has(p, k)' \in Int
<1>1. Settled(p)' \in Int
  BY SettledIsNext
<1> QED BY <1>1 DEF Has, MarketInv, PursesTyped, All

(* The terms of the sums are those of Total and TotalGold. *)
LEMMA HeldBySales ==
  ASSUME NEW t \in Tables, NEW k \in Kinds
  PROVE  SumFunction([id \in {i \in DOMAIN t : t[i].sale /\ t[i].kind = k} |-> t[id].amount])
           = SumFunction(HeldIn(t, k))
<1> DEFINE T == {i \in DOMAIN t : t[i].sale /\ t[i].kind = k}
           f == [id \in T |-> t[id].amount]
<1>1. T \subseteq Ids /\ k # "gold" /\ k \in All
  BY TablesAre DEF Kinds, All
<1>2. \A id \in T : t[id].amount \in Int
  BY TablesAre, OfferIs
<1>3. \A id \in Ids : HeldIn(t, k)[id] = IF id \in T THEN t[id].amount ELSE 0
  BY <1>1 DEF HeldIn, Holds
<1>4. IsPart(f, T, HeldIn(t, k), Ids)
  <2>1. f \in [T -> Int] /\ \A id \in T : f[id] = t[id].amount
    BY <1>2
  <2>2. HeldIn(t, k) \in [Ids -> Int]
    BY <1>1, HeldInt
  <2> HIDE DEF T, f
  <2> QED BY <1>1, <1>3, <2>1, <2>2, MarketConstants DEF IsPart
<1> HIDE DEF f
<1>5. SumFunction(f) = SumFunction(HeldIn(t, k))
  BY <1>4, SumOverPart
<1> QED BY <1>5 DEF f

LEMMA HeldByBids ==
  ASSUME NEW t \in Tables
  PROVE  SumFunction([id \in {i \in DOMAIN t : ~t[i].sale} |-> t[id].price * t[id].amount])
           = SumFunction(HeldIn(t, "gold"))
<1> DEFINE T == {i \in DOMAIN t : ~t[i].sale}
           f == [id \in T |-> t[id].price * t[id].amount]
<1>1. T \subseteq Ids /\ "gold" \in All
  BY TablesAre DEF All
<1>2. \A id \in T : t[id].price * t[id].amount \in Int
  <2> SUFFICES ASSUME NEW id \in T PROVE t[id].price * t[id].amount \in Int
    OBVIOUS
  <2>1. t[id] \in Offer
    BY TablesAre
  <2>2. t[id].amount \in Nat /\ \A n \in Nat : t[id].price * n \in Nat
    BY <2>1, OfferIs
  <2> QED BY <2>2
<1>3. \A id \in Ids : HeldIn(t, "gold")[id] = IF id \in T THEN t[id].price * t[id].amount ELSE 0
  BY <1>1 DEF HeldIn, Holds
<1>4. IsPart(f, T, HeldIn(t, "gold"), Ids)
  <2>1. f \in [T -> Int] /\ \A id \in T : f[id] = t[id].price * t[id].amount
    BY <1>2
  <2>2. HeldIn(t, "gold") \in [Ids -> Int]
    BY <1>1, HeldInt
  <2> HIDE DEF T, f
  <2> QED BY <1>1, <1>3, <2>1, <2>2, MarketConstants DEF IsPart
<1> HIDE DEF f
<1>5. SumFunction(f) = SumFunction(HeldIn(t, "gold"))
  BY <1>4, SumOverPart
<1> QED BY <1>5 DEF f

(* The totals are the wealth, but for the fees paid so far. *)
LEMMA TotalsAreWealth ==
  ASSUME MarketInv
  PROVE  /\ \A k \in Kinds : Total(k) = Wealth(k)
         /\ TotalGold = Wealth("gold") + Fee * lastId
<1>1. offers \in Tables /\ gold \in [Players -> Nat]
  BY DEF MarketInv, OffersTyped, PursesTyped
<1>2. ASSUME NEW k \in Kinds PROVE Total(k) = Wealth(k)
  <2>1. k # "gold"
    BY DEF Kinds
  <2>2. [p \in Players |-> items[p][k] + (IF k = "coin" THEN Settled(p) ELSE 0)]
          = [p \in Players |-> Has(p, k)]
    BY <2>1 DEF Has
  <2> QED BY <1>1, <2>2, HeldBySales DEF Total, Wealth
<1>3. TotalGold = Wealth("gold") + Fee * lastId
  <2>1. [p \in Players |-> Has(p, "gold")] = gold
    BY <1>1 DEF Has
  <2>2. SumFunction(gold) \in Int /\ SumFunction(HeldIn(offers, "gold")) \in Int
    BY <1>1, HeldInt, SumIsInt, MarketConstants DEF All
  <2>3. Fee * lastId \in Int
    BY MarketConstants DEF MarketInv, OffersTyped
  <2>4. TotalGold = SumFunction(gold) + Fee * lastId + SumFunction(HeldIn(offers, "gold"))
    BY <1>1, HeldByBids DEF TotalGold
  <2> QED BY <2>1, <2>2, <2>3, <2>4 DEF Wealth
<1> QED BY <1>2, <1>3
LEMMA TotalsAreWealthNext ==
  ASSUME MarketInv'
  PROVE  /\ \A k \in Kinds : Total(k)' = Wealth(k)'
         /\ TotalGold' = Wealth("gold")' + Fee * lastId'
<1>1. offers' \in Tables /\ gold' \in [Players -> Nat]
  BY DEF MarketInv, OffersTyped, PursesTyped
<1>2. ASSUME NEW k \in Kinds PROVE Total(k)' = Wealth(k)'
  <2>1. k # "gold"
    BY DEF Kinds
  <2>2. [p \in Players |-> items'[p][k] + (IF k = "coin" THEN Settled(p)' ELSE 0)]
          = [p \in Players |-> Has(p, k)']
    BY <2>1 DEF Has
  <2> QED BY <1>1, <2>2, HeldBySales DEF Total, Wealth
<1>3. TotalGold' = Wealth("gold")' + Fee * lastId'
  <2>1. [p \in Players |-> Has(p, "gold")'] = gold'
    BY <1>1 DEF Has
  <2>2. SumFunction(gold') \in Int /\ SumFunction(HeldIn(offers', "gold")) \in Int
    BY <1>1, HeldInt, SumIsInt, MarketConstants DEF All
  <2>3. Fee * lastId' \in Int
    BY MarketConstants DEF MarketInv, OffersTyped
  <2>4. TotalGold' = SumFunction(gold') + Fee * lastId' + SumFunction(HeldIn(offers', "gold"))
    BY <1>1, HeldByBids DEF TotalGold
  <2> QED BY <2>1, <2>2, <2>3, <2>4 DEF Wealth
<1> QED BY <1>2, <1>3

(* A step in which two players gain m and n of k, and one offer d. *)
InHands(k) == SumFunction([p \in Players |-> Has(p, k)])
Gain(k, a, m, b, n) ==
  \A p \in Players : Has(p, k)' = Has(p, k) + (IF p = a THEN m ELSE 0) + (IF p = b THEN n ELSE 0)
Puts(k, id, d) ==
  \A j \in Ids : HeldIn(offers', k)[j] = HeldIn(offers, k)[j] + IF j = id THEN d ELSE 0

(* The sums of what is in hands and in offers after such a step *)
LEMMA HandsGain ==
  ASSUME MarketInv, MarketInv', NEW k \in All, NEW a \in Players, NEW b \in Players,
         NEW m \in Int, NEW n \in Int, Gain(k, a, m, b, n)
  PROVE  InHands(k)' = InHands(k) + m + n
<1> DEFINE f == [p \in Players |-> Has(p, k)]
           g == [p \in Players |-> Has(p, k)']
           fa == [p \in Players |-> IF p = a THEN m ELSE 0]
           fb == [p \in Players |-> IF p = b THEN n ELSE 0]
           h == [p \in Players |-> f[p] + fa[p]]
<1>1. f \in [Players -> Int] /\ g \in [Players -> Int]
  BY HasInt, HasIntNext
<1>2. /\ fa \in [Players -> Int] /\ fb \in [Players -> Int]
      /\ \A p \in Players : fa[p] = IF p = a THEN m ELSE 0
      /\ \A p \in Players : fb[p] = IF p = b THEN n ELSE 0
  OBVIOUS
<1>3. \A p \in Players : g[p] = f[p] + fa[p] + fb[p]
  BY DEF Gain
<1>4. SumFunction(fa) = m /\ SumFunction(fb) = n
  <2> HIDE DEF fa, fb
  <2>1. IsOnly(fa, Players, a, m) /\ IsOnly(fb, Players, b, n)
    BY <1>2, MarketConstants DEF IsOnly
  <2> QED BY <2>1, SumIsOnly
<1>5. h \in [Players -> Int] /\ \A p \in Players : h[p] = f[p] + fa[p]
  <2> HIDE DEF f, fa
  <2> QED BY <1>1, <1>2
<1> HIDE DEF f, g, fa, fb, h
<1>6. SumFunction(h) = SumFunction(f) + SumFunction(fa)
  <2>1. AddsUp(h, f, fa, Players)
    BY <1>1, <1>2, <1>5, MarketConstants DEF AddsUp
  <2> QED BY <2>1, SumAddsUp
<1>7. \A p \in Players : g[p] = h[p] + fb[p]
  BY <1>3, <1>5
<1>8. SumFunction(g) = SumFunction(h) + SumFunction(fb)
  <2>1. AddsUp(g, h, fb, Players)
    BY <1>1, <1>2, <1>5, <1>7, MarketConstants DEF AddsUp
  <2> QED BY <2>1, SumAddsUp
<1>9. SumFunction(f) \in Int
  BY <1>1, MarketConstants, SumIsInt
<1>10. InHands(k) = SumFunction(f) /\ InHands(k)' = SumFunction(g)
  BY DEF InHands, f, g
<1> QED BY <1>4, <1>6, <1>8, <1>9, <1>10

LEMMA InHandsInt ==
  ASSUME MarketInv, NEW k \in All
  PROVE  InHands(k) \in Int
<1> DEFINE f == [p \in Players |-> Has(p, k)]
<1>1. f \in [Players -> Int]
  BY HasInt
<1>2. SumFunction(f) \in Int
  <2> HIDE DEF f
  <2> QED BY <1>1, MarketConstants, SumIsInt
<1> QED BY <1>2 DEF InHands

LEMMA WealthInt ==
  ASSUME MarketInv, NEW k \in All
  PROVE  Wealth(k) \in Int
<1>1. SumFunction(HeldIn(offers, k)) \in Int
  BY HeldInt DEF MarketInv, OffersTyped
<1> QED BY <1>1, InHandsInt DEF Wealth, InHands

LEMMA WealthMoves ==
  ASSUME MarketInv, MarketInv', NEW k \in All, NEW a \in Players, NEW b \in Players,
         NEW m \in Int, NEW n \in Int, NEW id \in Ids, NEW d \in Int,
         Gain(k, a, m, b, n), Puts(k, id, d)
  PROVE  Wealth(k)' = Wealth(k) + m + n + d
<1> DEFINE F == HeldIn(offers, k)
           G == HeldIn(offers', k)
<1>1. InHands(k)' = InHands(k) + m + n /\ InHands(k) \in Int
  BY HandsGain, InHandsInt
<1>2. F \in [Ids -> Int] /\ G \in [Ids -> Int] /\ SumFunction(F) \in Int
  BY HeldInt DEF MarketInv, OffersTyped
<1>3. G[id] = F[id] + d /\ F[id] \in Int /\ \A j \in Ids \ {id} : F[j] = G[j]
  BY <1>2 DEF Puts
<1>4. Wealth(k) = InHands(k) + SumFunction(F) /\ Wealth(k)' = InHands(k)' + SumFunction(G)
  BY DEF Wealth, InHands
<1> HIDE DEF F, G
<1>5. SumFunction(G) = SumFunction(F) + G[id] - F[id]
  BY <1>2, <1>3, MarketConstants, SumChanged
<1> QED BY <1>1, <1>2, <1>3, <1>4, <1>5

(* A step that changes nothing of this *)
LEMMA WealthStays ==
  ASSUME NEW k \in All, \A p \in Players : Has(p, k)' = Has(p, k),
         \A id \in Ids : HeldIn(offers', k)[id] = HeldIn(offers, k)[id]
  PROVE  Wealth(k)' = Wealth(k)
<1>1. [p \in Players |-> Has(p, k)'] = [p \in Players |-> Has(p, k)]
  OBVIOUS
<1>2. HeldIn(offers', k) = HeldIn(offers, k)
  BY DEF HeldIn
<1> QED BY <1>1, <1>2 DEF Wealth

(* How what is held changes with the table. *)
LEMMA HeldDropped ==
  ASSUME NEW t \in Tables, NEW id \in DOMAIN t, NEW k \in All, NEW j \in Ids
  PROVE  HeldIn(Drop(t, id), k)[j] = HeldIn(t, k)[j] + IF j = id THEN -Holds(t[id], k) ELSE 0
<1>1. /\ DOMAIN Drop(t, id) = DOMAIN t \ {id}
      /\ \A i \in DOMAIN t \ {id} : Drop(t, id)[i] = t[i]
  BY DEF Drop
<1>2. HeldIn(t, k)[j] = (IF j \in DOMAIN t THEN Holds(t[j], k) ELSE 0) /\ HeldIn(t, k)[j] \in Int
  BY HeldInt DEF HeldIn
<1>3. HeldIn(Drop(t, id), k)[j] = IF j \in DOMAIN t \ {id} THEN Holds(t[j], k) ELSE 0
  BY <1>1 DEF HeldIn
<1> QED BY <1>2, <1>3

-----------------------------------------------------------------------------
(* The steps of the market keep it *)

(* What a step does to the wealth: only the fee of a new offer leaves it. *)
Charge(k) == IF k = "gold" THEN Fee * (lastId' - lastId) ELSE 0
Balanced(k) == Wealth(k)' = Wealth(k) - Charge(k)

(* No offer, no fee *)
LEMMA NoCharge ==
  ASSUME NEW k \in All, lastId' = lastId, MarketInv
  PROVE  Charge(k) = 0
<1>1. lastId \in Int /\ Fee \in Int
  BY MarketConstants DEF MarketInv, OffersTyped
<1>2. lastId' - lastId = 0 /\ Fee * 0 = 0
  BY <1>1
<1> QED BY <1>2 DEF Charge

(* What a player has of each, now and after a step *)
LEMMA HasIs ==
  ASSUME MarketInv, NEW p \in Players
  PROVE  /\ Has(p, "gold") = gold[p] /\ Has(p, "item") = items[p]["item"]
         /\ Has(p, "coin") = items[p]["coin"] + Settled(p)
         /\ gold[p] \in Int /\ items[p]["item"] \in Int /\ items[p]["coin"] \in Int /\ Settled(p) \in Int
<1>1. Settled(p) \in Int
  BY SettledIs
<1>2. items[p]["item"] \in Int /\ items[p]["coin"] \in Int /\ gold[p] \in Int
  BY DEF MarketInv, PursesTyped, Kinds
<1> QED BY <1>1, <1>2 DEF Has

LEMMA HasIsNext ==
  ASSUME MarketInv', NEW p \in Players
  PROVE  /\ Has(p, "gold")' = gold'[p] /\ Has(p, "item")' = items'[p]["item"]
         /\ Has(p, "coin")' = items'[p]["coin"] + Settled(p)'
         /\ Settled(p)' \in Int
<1>1. Settled(p)' \in Int
  BY SettledIsNext
<1>2. items'[p]["item"] \in Int /\ items'[p]["coin"] \in Int /\ gold'[p] \in Int
  BY DEF MarketInv, PursesTyped, Kinds
<1> QED BY <1>1, <1>2 DEF Has

(* What an offer holds of each *)
LEMMA HoldsIs ==
  ASSUME NEW r \in Offer
  PROVE  /\ Holds(r, "gold") = IF r.sale THEN 0 ELSE r.price * r.amount
         /\ Holds(r, "item") = IF r.sale /\ r.kind = "item" THEN r.amount ELSE 0
         /\ Holds(r, "coin") = IF r.sale /\ r.kind = "coin" THEN r.amount ELSE 0
BY DEF Holds

NewRow(p, sale, sort, n, price) ==
  [player |-> p, sale |-> sale, kind |-> sort, amount |-> n, price |-> price, expired |-> FALSE]

(* The new offer holds what its row says. *)
LEMMA HeldAdded ==
  ASSUME MarketInv, NEW p \in Players, NEW sale \in BOOLEAN, NEW sort \in Kinds,
         NEW n \in Amounts, NEW price \in Prices, NewOffer(p, sale, sort, n, price), NEW k \in All
  PROVE  /\ lastId' \in Ids /\ lastId' = lastId + 1
         /\ \A j \in Ids :
              HeldIn(offers', k)[j] = HeldIn(offers, k)[j]
                + IF j = lastId' THEN Holds(NewRow(p, sale, sort, n, price), k) ELSE 0
<1> DEFINE row == NewRow(p, sale, sort, n, price)
<1>1. row \in Offer
  BY DEF Offer, NewRow
<1>2. /\ lastId' = lastId + 1 /\ lastId' \in Ids /\ lastId' \notin DOMAIN offers
      /\ offers' = [id \in DOMAIN offers \cup {lastId'} |-> IF id # lastId' THEN offers[id] ELSE row]
  BY MarketConstants DEF NewOffer, NewRow, MarketInv, OffersTyped, Ids
<1> HIDE DEF row
<1>3. ASSUME NEW j \in Ids
      PROVE  HeldIn(offers', k)[j] = HeldIn(offers, k)[j]
                       + IF j = lastId' THEN Holds(row, k) ELSE 0
  <2>1. Holds(row, k) \in Int
    BY <1>1, HoldsInt
  <2>2. /\ HeldIn(offers, k)[j] = (IF j \in DOMAIN offers THEN Holds(offers[j], k) ELSE 0)
        /\ HeldIn(offers, k)[j] \in Int
    BY HeldInt DEF HeldIn, MarketInv, OffersTyped
  <2>3. HeldIn(offers', k)[j] = IF j \in DOMAIN offers' THEN Holds(offers'[j], k) ELSE 0
    BY DEF HeldIn
  <2>4. /\ DOMAIN offers' = DOMAIN offers \cup {lastId'}
        /\ j \in DOMAIN offers' => offers'[j] = IF j # lastId' THEN offers[j] ELSE row
    BY <1>2
  <2> QED BY <1>2, <2>1, <2>2, <2>3, <2>4
<1> QED BY <1>2, <1>3 DEF row

(* An offer is made: what it holds and the fee come from the player. *)
LEMMA CreateSaleBalanced ==
  ASSUME MarketInv, MarketInv', NEW p \in Players, NEW n \in Amounts, NEW sort \in Kinds,
         NEW price \in Prices, CreateSale(p, sort, n, price), NEW k \in All
  PROVE  Balanced(k)
<1> DEFINE row == NewRow(p, TRUE, sort, n, price)
           d == IF k = sort THEN n ELSE 0
           m == IF k = "gold" THEN -Fee ELSE -d
<1>1. n \in Nat /\ price \in Nat /\ Fee \in Nat
  BY MarketConstants, AmountsArePositive
<1>2. /\ lastId' \in Ids /\ lastId' = lastId + 1
      /\ \A j \in Ids : HeldIn(offers', k)[j] = HeldIn(offers, k)[j]
                       + IF j = lastId' THEN Holds(row, k) ELSE 0
  <2>1. NewOffer(p, TRUE, sort, n, price) /\ TRUE \in BOOLEAN
    BY DEF CreateSale
  <2> QED BY <2>1, HeldAdded
<1>3. Holds(row, k) = d
  BY DEF Holds, NewRow, Kinds, All
<1>4. \A q \in Players : gold'[q] = gold[q] - IF q = p THEN Fee ELSE 0
  BY <1>1 DEF CreateSale, MarketInv, PursesTyped
<1>5. \A q \in Players :
        /\ items'[q]["item"] = items[q]["item"] - IF q = p /\ sort = "item" THEN n ELSE 0
        /\ items'[q]["coin"] = items[q]["coin"]
  <2>1. items \in [Players -> [Kinds -> Nat]]
    BY DEF MarketInv, PursesTyped
  <2>2. CASE sort = "coin"
    BY <2>1, <2>2 DEF CreateSale, Kinds
  <2>3. CASE sort = "item"
    <3>1. items' = [items EXCEPT ![p]["item"] = @ - n]
      BY <2>3 DEF CreateSale
    <3> QED BY <1>1, <2>1, <2>3, <3>1 DEF Kinds
  <2> QED BY <2>2, <2>3 DEF Kinds
<1>6. \A q \in Players : Settled(q)' = Settled(q) + IF q = p /\ sort = "coin" THEN -n ELSE 0
  <2> SUFFICES ASSUME NEW q \in Players
               PROVE  Settled(q)' = Settled(q) + IF q = p /\ sort = "coin" THEN -n ELSE 0
    OBVIOUS
  <2>1. CASE sort = "coin"
    <3>1. Enqueue(<<AddCoins(p, -n)>>) /\ coins' = coins /\ -n \in Int
      BY <1>1, <2>1 DEF CreateSale
    <3>2. Settled(q)' = Settled(q) + IF q = p THEN -n ELSE 0
      BY <3>1, OneAdded
    <3> QED BY <2>1, <3>2
  <2>2. CASE sort = "item"
    <3>1. queue' = queue /\ coins'[q] = coins[q]
      BY <2>2 DEF CreateSale
    <3>2. Settled(q)' = Settled(q) /\ Settled(q) \in Int
      BY <3>1, NothingAdded, SettledIs
    <3> QED BY <2>2, <3>2
  <2> QED BY <2>1, <2>2 DEF Kinds
<1>7. \A q \in Players : Has(q, k)' = Has(q, k) + (IF q = p THEN m ELSE 0) + (IF q = p THEN 0 ELSE 0)
  <2> SUFFICES ASSUME NEW q \in Players
               PROVE  Has(q, k)' = Has(q, k) + (IF q = p THEN m ELSE 0) + (IF q = p THEN 0 ELSE 0)
    OBVIOUS
  <2>1. CASE k = "gold"
    BY <1>1, <1>4, <2>1, HasIs, HasIsNext
  <2>2. CASE k = "item"
    BY <1>1, <1>5, <2>2, HasIs, HasIsNext DEF Kinds
  <2>3. CASE k = "coin"
    BY <1>1, <1>5, <1>6, <2>3, HasIs, HasIsNext DEF Kinds
  <2> QED BY <2>1, <2>2, <2>3 DEF All, Kinds
<1>8. m \in Int /\ d \in Int
  BY <1>1
<1>9. Gain(k, p, m, p, 0) /\ Puts(k, lastId', d)
  <2> HIDE DEF m, d, row
  <2> QED BY <1>2, <1>3, <1>7 DEF Gain, Puts
<1>10. Wealth(k)' = Wealth(k) + m + 0 + d
  <2> HIDE DEF m, d
  <2> QED BY <1>2, <1>8, <1>9, WealthMoves
<1>11. Wealth(k) \in Int
  BY WealthInt
<1>12. Charge(k) = IF k = "gold" THEN Fee ELSE 0
  BY <1>1, <1>2 DEF Charge, MarketInv, OffersTyped
<1> QED BY <1>1, <1>10, <1>11, <1>12 DEF Balanced, Kinds

(* A purchase holds gold. *)
LEMMA CreatePurchaseBalanced ==
  ASSUME MarketInv, MarketInv', NEW p \in Players, NEW n \in Amounts, NEW sort \in Kinds,
         NEW price \in Prices, CreatePurchase(p, sort, n, price), NEW k \in All
  PROVE  Balanced(k)
<1> DEFINE row == NewRow(p, FALSE, sort, n, price)
           bid == price * n
           d == IF k = "gold" THEN bid ELSE 0
           m == IF k = "gold" THEN -(bid + Fee) ELSE 0
<1>1. bid \in Nat /\ Fee \in Nat
  BY MarketConstants, AmountsArePositive
<1>2. /\ lastId' \in Ids /\ lastId' = lastId + 1
      /\ \A j \in Ids : HeldIn(offers', k)[j] = HeldIn(offers, k)[j]
                       + IF j = lastId' THEN Holds(row, k) ELSE 0
  <2>1. NewOffer(p, FALSE, sort, n, price) /\ FALSE \in BOOLEAN
    BY DEF CreatePurchase
  <2> QED BY <2>1, HeldAdded
<1>3. Holds(row, k) = d
  BY DEF Holds, NewRow
<1>4. gold' = [gold EXCEPT ![p] = @ - (bid + Fee)]
  BY DEF CreatePurchase
<1> HIDE DEF bid
<1>5. \A q \in Players : gold'[q] = gold[q] - IF q = p THEN bid + Fee ELSE 0
  BY <1>1, <1>4 DEF MarketInv, PursesTyped
<1>6. \A q \in Players : items'[q] = items[q] /\ Settled(q)' = Settled(q)
  BY NothingAdded DEF CreatePurchase
<1>7. \A q \in Players : Has(q, k)' = Has(q, k) + (IF q = p THEN m ELSE 0) + (IF q = p THEN 0 ELSE 0)
  <2> SUFFICES ASSUME NEW q \in Players
               PROVE  Has(q, k)' = Has(q, k) + (IF q = p THEN m ELSE 0) + (IF q = p THEN 0 ELSE 0)
    OBVIOUS
  <2>1. CASE k = "gold"
    BY <1>1, <1>5, <2>1, HasIs, HasIsNext
  <2>2. CASE k # "gold"
    BY <1>6, <2>2, HasIs, HasIsNext DEF All, Kinds
  <2> QED BY <2>1, <2>2
<1>8. m \in Int /\ d \in Int
  BY <1>1
<1>9. Gain(k, p, m, p, 0) /\ Puts(k, lastId', d)
  <2> HIDE DEF m, d, row
  <2> QED BY <1>2, <1>3, <1>7 DEF Gain, Puts
<1>10. Wealth(k)' = Wealth(k) + m + 0 + d
  <2> HIDE DEF m, d
  <2> QED BY <1>2, <1>8, <1>9, WealthMoves
<1>11. Wealth(k) \in Int
  BY WealthInt
<1>12. Charge(k) = IF k = "gold" THEN Fee ELSE 0
  BY <1>1, <1>2 DEF Charge, MarketInv, OffersTyped
<1> QED BY <1>1, <1>10, <1>11, <1>12 DEF Balanced

(* An offer is cancelled: what it holds goes back to its owner. *)
LEMMA CancelBalanced ==
  ASSUME MarketInv, MarketInv', NEW p \in Players, NEW id \in Ids, CancelOffer(p, id), NEW k \in All
  PROVE  Balanced(k)
<1> DEFINE o == offers[id]
           m == Holds(o, k)
<1>1. id \in DOMAIN offers /\ o \in Offer
  BY TablesAre DEF CancelOffer, MarketInv, OffersTyped
<1>2. o.amount \in Nat /\ o.price * o.amount \in Nat /\ o.sale \in BOOLEAN /\ o.kind \in Kinds
  BY <1>1, OfferIs
<1> HIDE DEF o
<1>3. \A q \in Players : gold'[q] = gold[q] + IF q = p THEN Holds(o, "gold") ELSE 0
  <2>1. gold' = [gold EXCEPT ![p] = @ + IF o.sale THEN 0 ELSE o.price * o.amount]
    BY DEF CancelOffer, o
  <2>2. gold' = [gold EXCEPT ![p] = @ + Holds(o, "gold")] /\ Holds(o, "gold") \in Int
    BY <1>1, <2>1, HoldsIs, HoldsInt DEF All
  <2> QED BY <2>2 DEF MarketInv, PursesTyped
<1>4. \A q \in Players :
        /\ items'[q]["item"] = items[q]["item"] + IF q = p THEN Holds(o, "item") ELSE 0
        /\ items'[q]["coin"] = items[q]["coin"]
  <2>1. items' = [items EXCEPT ![p]["item"] = @ + IF o.sale /\ o.kind = "item" THEN o.amount ELSE 0]
    BY DEF CancelOffer, o
  <2>2. items' = [items EXCEPT ![p]["item"] = @ + Holds(o, "item")] /\ Holds(o, "item") \in Int
    BY <1>1, <2>1, HoldsIs, HoldsInt DEF All, Kinds
  <2> QED BY <2>2 DEF MarketInv, PursesTyped, Kinds
<1>5. \A q \in Players : Settled(q)' = Settled(q) + IF q = p THEN Holds(o, "coin") ELSE 0
  <2> SUFFICES ASSUME NEW q \in Players PROVE Settled(q)' = Settled(q) + IF q = p THEN Holds(o, "coin") ELSE 0
    OBVIOUS
  <2>1. Enqueue(IF o.sale /\ o.kind = "coin" THEN <<AddCoins(p, o.amount)>> ELSE <<>>) /\ coins' = coins
    BY DEF CancelOffer, o
  <2>2. CASE o.sale /\ o.kind = "coin"
    <3>1. Enqueue(<<AddCoins(p, o.amount)>>) /\ o.amount \in Int /\ Holds(o, "coin") = o.amount
      BY <1>1, <1>2, <2>1, <2>2, HoldsIs
    <3> QED BY <2>1, <3>1, OneAdded
  <2>3. CASE ~(o.sale /\ o.kind = "coin")
    <3>1. Enqueue(<<>>) /\ Holds(o, "coin") = 0
      BY <1>1, <2>1, <2>3, HoldsIs
    <3>2. Settled(q)' = Settled(q) /\ Settled(q) \in Int
      BY <2>1, <3>1, NothingAdded, SettledIs
    <3> QED BY <3>1, <3>2
  <2> QED BY <2>2, <2>3
<1>6. m \in Int /\ -m \in Int
  BY <1>1, HoldsInt
<1>7. \A q \in Players : Has(q, k)' = Has(q, k) + (IF q = p THEN m ELSE 0) + (IF q = p THEN 0 ELSE 0)
  <2> SUFFICES ASSUME NEW q \in Players
               PROVE  Has(q, k)' = Has(q, k) + (IF q = p THEN m ELSE 0) + (IF q = p THEN 0 ELSE 0)
    OBVIOUS
  <2>1. CASE k = "gold"
    BY <1>3, <1>6, <2>1, HasIs, HasIsNext
  <2>2. CASE k = "item"
    BY <1>4, <1>6, <2>2, HasIs, HasIsNext
  <2>3. CASE k = "coin"
    BY <1>4, <1>5, <1>6, <2>3, HasIs, HasIsNext
  <2> QED BY <2>1, <2>2, <2>3 DEF All, Kinds
<1>8. \A j \in Ids : HeldIn(offers', k)[j] = HeldIn(offers, k)[j] + IF j = id THEN -m ELSE 0
  <2>1. offers' = Drop(offers, id) /\ offers \in Tables
    BY DEF CancelOffer, MarketInv, OffersTyped
  <2> QED BY <1>1, <2>1, HeldDropped DEF o
<1>9. Gain(k, p, m, p, 0) /\ Puts(k, id, -m)
  <2> HIDE DEF m
  <2> QED BY <1>7, <1>8 DEF Gain, Puts
<1>10. Wealth(k)' = Wealth(k) + m + 0 + -m
  <2> HIDE DEF m
  <2> QED BY <1>6, <1>9, WealthMoves
<1>11. Wealth(k) \in Int
  BY WealthInt
<1>12. Charge(k) = 0
  BY NoCharge DEF CancelOffer
<1> HIDE DEF m
<1> QED BY <1>6, <1>10, <1>11, <1>12 DEF Balanced

(* What n of an offer's amount hold. *)
Part(o, n, k) ==
  IF k = "gold" THEN (IF o.sale THEN 0 ELSE o.price * n) ELSE IF o.sale /\ o.kind = k THEN n ELSE 0

(* A part is an integer. *)
LEMMA PartInt ==
  ASSUME NEW o \in Offer, NEW n \in Nat, NEW k \in All
  PROVE  Part(o, n, k) \in Int /\ o.price * n \in Nat
<1>1. o.price * n \in Nat
  BY OfferIs
<1> QED BY <1>1 DEF Part

(* The offer accepted holds its part less. *)
LEMMA HeldAccepted ==
  ASSUME MarketInv, NEW id \in DOMAIN offers, NEW n \in Amounts, n <= offers[id].amount,
         Accepted(id, n), NEW k \in All, NEW j \in Ids
  PROVE  HeldIn(offers', k)[j] = HeldIn(offers, k)[j] + IF j = id THEN -Part(offers[id], n, k) ELSE 0
<1> DEFINE o == offers[id]
<1>1. offers \in Tables /\ o \in Offer
  BY TablesAre DEF MarketInv, OffersTyped
<1>2. n \in Nat /\ o.amount \in Nat
  BY <1>1, AmountsArePositive, OfferIs
<1>3. CASE o.amount = n
  <2>1. offers' = Drop(offers, id)
    BY <1>3 DEF Accepted
  <2>2. Part(o, n, k) = Holds(o, k)
    BY <1>3 DEF Part, Holds
  <2> QED BY <1>1, <2>1, <2>2, HeldDropped
<1>4. CASE o.amount # n
  <2> DEFINE r == [o EXCEPT !.amount = @ - n]
  <2>1. offers' = [offers EXCEPT ![id] = r]
    BY <1>4 DEF Accepted
  <2>2. /\ r.sale = o.sale /\ r.kind = o.kind /\ r.price = o.price /\ r.amount = o.amount - n
        /\ o.price \in Nat /\ o.sale \in BOOLEAN
    BY <1>1, OfferIs DEF Offer
  <2>3. Holds(o, k) \in Int /\ Part(o, n, k) \in Int
    BY <1>1, <1>2, HoldsInt, PartInt
  <2> HIDE DEF r, o
  <2>4. Holds(r, k) = Holds(o, k) - Part(o, n, k)
    <3>1. o.price * (o.amount - n) = o.price * o.amount - o.price * n
      BY <1>2, <2>2
    <3> QED BY <1>2, <2>2, <3>1 DEF Holds, Part
  <2>5. offers = [i \in DOMAIN offers |-> offers[i]]
    BY DEF MarketInv, OffersTyped, Tables
  <2>6. /\ DOMAIN offers' = DOMAIN offers
        /\ \A i \in DOMAIN offers : offers'[i] = IF i = id THEN r ELSE offers[i]
    BY <2>1, <2>5
  <2>7. /\ HeldIn(offers, k)[j] = (IF j \in DOMAIN offers THEN Holds(offers[j], k) ELSE 0)
        /\ HeldIn(offers, k)[j] \in Int
    BY <1>1, HeldInt DEF HeldIn
  <2>8. HeldIn(offers', k)[j] = IF j \in DOMAIN offers' THEN Holds(offers'[j], k) ELSE 0
    BY DEF HeldIn
  <2> QED BY <2>3, <2>4, <2>6, <2>7, <2>8 DEF o
<1> QED BY <1>3, <1>4

(* An offer is accepted: gold and goods change hands, and leave the offer. *)
LEMMA AcceptBalanced ==
  ASSUME MarketInv, MarketInv', NEW p \in Players, NEW id \in Ids, NEW n \in Amounts,
         AcceptOffer(p, id, n), NEW k \in All
  PROVE  Balanced(k)
<1> DEFINE o == offers[id]
           price == o.price * n
           d == Part(o, n, k)
           good == IF k = o.kind THEN n ELSE 0
           mine == IF k = "gold" THEN (IF o.sale THEN -price ELSE price)
                   ELSE IF o.sale THEN good ELSE -good
           his == IF k = "gold" THEN (IF o.sale THEN price ELSE 0) ELSE IF o.sale THEN 0 ELSE good
<1>1. /\ id \in DOMAIN offers /\ n <= o.amount /\ o \in Offer /\ Accepted(id, n)
      /\ coins' = coins /\ lastId' = lastId
  BY TablesAre DEF AcceptOffer, AmountIsOffered, MarketInv, OffersTyped
<1>2. n \in Nat /\ price \in Nat /\ o.player \in Players /\ o.sale \in BOOLEAN /\ o.kind \in Kinds
  <2>1. n \in Nat
    BY AmountsArePositive
  <2> QED BY <1>1, <2>1, OfferIs
<1>3. gold' = [q \in Players |-> gold[q] + (IF q = (IF o.sale THEN o.player ELSE p) THEN price ELSE 0)
                                     - (IF q = p /\ o.sale THEN price ELSE 0)]
  BY DEF AcceptOffer
<1>4. items' = [q \in Players |-> [items[q] EXCEPT !["item"] =
              IF o.kind = "coin" THEN @
              ELSE @ + (IF q = (IF o.sale THEN p ELSE o.player) THEN n ELSE 0)
                     - (IF q = p /\ ~o.sale THEN n ELSE 0)]]
  BY DEF AcceptOffer
<1>5. Enqueue(IF o.kind = "item" THEN <<>>
              ELSE (IF o.sale THEN <<>> ELSE <<AddCoins(p, -n)>>)
                     \o <<AddCoins(IF o.sale THEN p ELSE o.player, n)>>)
  BY DEF AcceptOffer
<1>6. \A j \in Ids : HeldIn(offers', k)[j] = HeldIn(offers, k)[j] + IF j = id THEN -d ELSE 0
  BY <1>1, HeldAccepted
<1>7. d = (IF k = "gold" THEN (IF o.sale THEN 0 ELSE price) ELSE IF o.sale THEN good ELSE 0)
  BY DEF Part
<1> HIDE DEF o, price, d
<1>8. \A q \in Players :
        gold'[q] = gold[q] + (IF q = p THEN (IF o.sale THEN -price ELSE price) ELSE 0)
                     + (IF q = o.player THEN (IF o.sale THEN price ELSE 0) ELSE 0)
  <2> SUFFICES ASSUME NEW q \in Players
               PROVE  gold'[q] = gold[q] + (IF q = p THEN (IF o.sale THEN -price ELSE price) ELSE 0)
                                   + (IF q = o.player THEN (IF o.sale THEN price ELSE 0) ELSE 0)
    OBVIOUS
  <2>1. gold[q] \in Nat
    BY DEF MarketInv, PursesTyped
  <2>2. gold'[q] = gold[q] + (IF q = (IF o.sale THEN o.player ELSE p) THEN price ELSE 0)
                     - (IF q = p /\ o.sale THEN price ELSE 0)
    BY <1>3
  <2>3. CASE o.sale
    BY <1>2, <2>1, <2>2, <2>3
  <2>4. CASE ~o.sale
    BY <1>2, <2>1, <2>2, <2>4
  <2> QED BY <2>3, <2>4
<1>9. \A q \in Players :
        /\ items'[q]["item"] = items[q]["item"]
             + (IF q = p THEN (IF o.kind = "coin" THEN 0 ELSE IF o.sale THEN n ELSE -n) ELSE 0)
             + (IF q = o.player THEN (IF o.kind = "coin" \/ o.sale THEN 0 ELSE n) ELSE 0)
        /\ items'[q]["coin"] = items[q]["coin"]
  <2> SUFFICES ASSUME NEW q \in Players
               PROVE  /\ items'[q]["item"] = items[q]["item"]
                           + (IF q = p THEN (IF o.kind = "coin" THEN 0 ELSE IF o.sale THEN n ELSE -n) ELSE 0)
                           + (IF q = o.player THEN (IF o.kind = "coin" \/ o.sale THEN 0 ELSE n) ELSE 0)
                      /\ items'[q]["coin"] = items[q]["coin"]
    OBVIOUS
  <2>1. items[q] \in [Kinds -> Nat] /\ items[q]["item"] \in Nat
    BY DEF MarketInv, PursesTyped, Kinds
  <2>2. /\ items'[q]["item"] = IF o.kind = "coin" THEN items[q]["item"]
              ELSE items[q]["item"] + (IF q = (IF o.sale THEN p ELSE o.player) THEN n ELSE 0)
                     - (IF q = p /\ ~o.sale THEN n ELSE 0)
        /\ items'[q]["coin"] = items[q]["coin"]
    BY <1>4, <2>1 DEF Kinds
  <2> QED BY <1>2, <2>1, <2>2
<1>10. \A q \in Players :
        Settled(q)' = Settled(q)
                        + (IF q = p THEN (IF o.kind = "item" THEN 0 ELSE IF o.sale THEN n ELSE -n) ELSE 0)
                        + (IF q = o.player THEN (IF o.kind = "item" \/ o.sale THEN 0 ELSE n) ELSE 0)
  <2> SUFFICES ASSUME NEW q \in Players
               PROVE  Settled(q)' = Settled(q)
                        + (IF q = p THEN (IF o.kind = "item" THEN 0 ELSE IF o.sale THEN n ELSE -n) ELSE 0)
                        + (IF q = o.player THEN (IF o.kind = "item" \/ o.sale THEN 0 ELSE n) ELSE 0)
    OBVIOUS
  <2>1. Settled(q) \in Int
    BY SettledIs
  <2>2. CASE o.kind = "item"
    <3>1. Enqueue(<<>>) /\ coins'[q] = coins[q]
      BY <1>1, <1>5, <2>2
    <3>2. Settled(q)' = Settled(q)
      BY <3>1, NothingAdded
    <3> QED BY <2>1, <2>2, <3>2
  <2>3. CASE o.kind = "coin" /\ o.sale
    <3>1. AddCoins(p, n) \in Queries /\ <<>> \o <<AddCoins(p, n)>> = <<AddCoins(p, n)>>
      BY <1>2, BroughtByUpdate
    <3>2. Enqueue(<<AddCoins(p, n)>>)
      BY <1>5, <2>3, <3>1
    <3>3. Settled(q)' = Settled(q) + IF q = p THEN n ELSE 0
      BY <1>1, <1>2, <3>2, OneAdded
    <3> QED BY <1>2, <2>1, <2>3, <3>3
  <2>4. CASE o.kind = "coin" /\ ~o.sale
    <3>1. AddCoins(p, -n) \in Queries /\ AddCoins(o.player, n) \in Queries
      BY <1>2, BroughtByUpdate
    <3>2. <<AddCoins(p, -n)>> \o <<AddCoins(o.player, n)>> = <<AddCoins(p, -n), AddCoins(o.player, n)>>
      BY <3>1, TwoQueries
    <3>3. Enqueue(<<AddCoins(p, -n), AddCoins(o.player, n)>>)
      BY <1>5, <2>4, <3>2
    <3>4. Settled(q)' = Settled(q) + (IF q = p THEN -n ELSE 0) + (IF q = o.player THEN n ELSE 0)
      BY <1>1, <1>2, <3>3, TwoAdded
    <3> QED BY <1>2, <2>1, <2>4, <3>4
  <2> QED BY <1>2, <2>2, <2>3, <2>4 DEF Kinds
<1>11. \A q \in Players :
         Has(q, k)' = Has(q, k) + (IF q = p THEN mine ELSE 0) + (IF q = o.player THEN his ELSE 0)
  <2> SUFFICES ASSUME NEW q \in Players
               PROVE  Has(q, k)' = Has(q, k) + (IF q = p THEN mine ELSE 0) + (IF q = o.player THEN his ELSE 0)
    OBVIOUS
  <2>1. CASE k = "gold"
    BY <1>2, <1>8, <2>1, HasIs, HasIsNext
  <2>2. CASE k = "item"
    <3>1. mine = (IF o.kind = "coin" THEN 0 ELSE IF o.sale THEN n ELSE -n)
      BY <1>2, <2>2 DEF Kinds
    <3>2. his = (IF o.kind = "coin" \/ o.sale THEN 0 ELSE n)
      BY <1>2, <2>2 DEF Kinds
    <3> HIDE DEF mine, his
    <3> QED BY <1>9, <2>2, <3>1, <3>2, HasIs, HasIsNext
  <2>3. CASE k = "coin"
    <3>1. mine = (IF o.kind = "item" THEN 0 ELSE IF o.sale THEN n ELSE -n)
      BY <1>2, <2>3 DEF Kinds
    <3>2. his = (IF o.kind = "item" \/ o.sale THEN 0 ELSE n)
      BY <1>2, <2>3 DEF Kinds
    <3>3. mine \in Int /\ his \in Int
      BY <1>2
    <3>4. /\ Has(q, k) = items[q]["coin"] + Settled(q) /\ Has(q, k)' = items'[q]["coin"] + Settled(q)'
          /\ items[q]["coin"] \in Int /\ Settled(q) \in Int /\ Settled(q)' \in Int
      BY <2>3, HasIs, HasIsNext
    <3> HIDE DEF mine, his
    <3>5. Settled(q)' = Settled(q) + (IF q = p THEN mine ELSE 0) + (IF q = o.player THEN his ELSE 0)
      BY <1>10, <3>1, <3>2
    <3> QED BY <1>9, <3>3, <3>4, <3>5
  <2> QED BY <2>1, <2>2, <2>3 DEF All, Kinds
<1>12. mine \in Int /\ his \in Int /\ -d \in Int /\ mine + his + -d = 0
  BY <1>2, <1>7
<1>13. Gain(k, p, mine, o.player, his) /\ Puts(k, id, -d)
  <2> HIDE DEF mine, his
  <2> QED BY <1>6, <1>11 DEF Gain, Puts
<1> HIDE DEF mine, his
<1>14. Wealth(k)' = Wealth(k) + mine + his + -d
  BY <1>2, <1>12, <1>13, WealthMoves
<1>15. Wealth(k) \in Int /\ Charge(k) = 0
  BY <1>1, WealthInt, NoCharge
<1> QED BY <1>12, <1>14, <1>15 DEF Balanced

(* Coins are transferred. *)
LEMMA TransferBalanced ==
  ASSUME MarketInv, MarketInv', NEW p \in Players, NEW q \in Players, NEW n \in Amounts,
         TransferCoins(p, q, n), NEW k \in All
  PROVE  Balanced(k)
<1> DEFINE m == IF k = "coin" THEN n ELSE 0
<1>1. n \in Nat /\ m \in Int /\ -m \in Int /\ 0 \in Int
  BY AmountsArePositive
<1>2. Enqueue(<<AddCoins(p, -n), AddCoins(q, n)>>) /\ UNCHANGED <<offers, lastId, gold, items, coins>>
  BY DEF TransferCoins, tableVars
<1>3. \A x \in Players : Settled(x)' = Settled(x) + (IF x = p THEN -n ELSE 0) + (IF x = q THEN n ELSE 0)
  BY <1>1, <1>2, TwoAdded
<1>4. \A x \in Players : Has(x, k)' = Has(x, k) + (IF x = p THEN -m ELSE 0) + (IF x = q THEN m ELSE 0)
  <2> SUFFICES ASSUME NEW x \in Players
               PROVE  Has(x, k)' = Has(x, k) + (IF x = p THEN -m ELSE 0) + (IF x = q THEN m ELSE 0)
    OBVIOUS
  <2>1. CASE k = "coin"
    BY <1>1, <1>2, <1>3, <2>1, HasIs, HasIsNext
  <2>2. CASE k # "coin"
    BY <1>1, <1>2, <2>2, HasIs, HasIsNext DEF All, Kinds
  <2> QED BY <2>1, <2>2
<1>5. Gain(k, p, -m, q, m)
  <2> HIDE DEF m
  <2> QED BY <1>4 DEF Gain
<1> HIDE DEF m
<1>6. InHands(k)' = InHands(k) /\ InHands(k) \in Int
  BY <1>1, <1>5, HandsGain, InHandsInt
<1>7. Wealth(k)' = Wealth(k)
  BY <1>2, <1>6 DEF Wealth, InHands
<1>8. Wealth(k) \in Int /\ Charge(k) = 0
  BY <1>2, WealthInt, NoCharge
<1> QED BY <1>7, <1>8 DEF Balanced

(* The steps that change no purse and no offer's amount. *)
LEMMA QuietBalanced ==
  ASSUME MarketInv, MarketInv', NEW k \in All,
         lastId' = lastId, gold' = gold, items' = items, \A p \in Players : Settled(p)' = Settled(p),
         \A id \in Ids : HeldIn(offers', k)[id] = HeldIn(offers, k)[id]
  PROVE  Balanced(k)
<1>1. \A p \in Players : Has(p, k)' = Has(p, k)
  BY HasIs, HasIsNext DEF All, Kinds
<1>2. Wealth(k)' = Wealth(k)
  BY <1>1, WealthStays
<1>3. Wealth(k) \in Int /\ Charge(k) = 0
  BY WealthInt, NoCharge
<1> QED BY <1>2, <1>3 DEF Balanced

(* Age changes nothing of what an offer holds. *)
LEMMA ExpireBalanced ==
  ASSUME MarketInv, MarketInv', NEW id \in Ids, Expire(id), NEW k \in All
  PROVE  Balanced(k)
<1>1. /\ id \in DOMAIN offers /\ offers' = [offers EXCEPT ![id].expired = TRUE]
      /\ UNCHANGED <<lastId, gold, items, coins, queue>>
  BY DEF Expire
<1>2. \A p \in Players : Settled(p)' = Settled(p)
  BY <1>1, NothingAdded
<1>3. ASSUME NEW j \in Ids PROVE HeldIn(offers', k)[j] = HeldIn(offers, k)[j]
  <2>1. offers = [i \in DOMAIN offers |-> offers[i]] /\ \A i \in DOMAIN offers : offers[i] \in Offer
    BY TablesAre DEF MarketInv, OffersTyped, Tables
  <2>2. /\ DOMAIN offers' = DOMAIN offers
        /\ j \in DOMAIN offers =>
             offers'[j] = IF j = id THEN [offers[id] EXCEPT !.expired = TRUE] ELSE offers[j]
    BY <1>1, <2>1
  <2>3. Holds([offers[id] EXCEPT !.expired = TRUE], k) = Holds(offers[id], k)
    BY <1>1, <2>1 DEF Holds, Offer
  <2> QED BY <2>2, <2>3 DEF HeldIn
<1> QED BY <1>1, <1>2, <1>3, QuietBalanced

LEMMA OthersBalanced ==
  ASSUME MarketInv, MarketInv', NEW k \in All,
         \/ CheckExpiredOffers \/ RunTask \/ UNCHANGED marketVars
         \/ \E p \in Players : UpdateCoinBalance(p)
  PROVE  Balanced(k)
<1>1. CASE CheckExpiredOffers
  <2>1. UNCHANGED <<offers, lastId, gold, items, coins>> /\ Enqueue(<<SearchExpired>>)
    BY <1>1 DEF CheckExpiredOffers, tableVars
  <2>2. \A p \in Players : Settled(p)' = Settled(p)
    BY <2>1, NothingAdded
  <2> QED BY <2>1, <2>2, QuietBalanced
<1>2. CASE RunTask
  <2>1. UNCHANGED <<offers, lastId, gold, items>>
    BY <1>2 DEF RunTask, tableVars
  <2>2. \A p \in Players : Settled(p)' = Settled(p)
    BY <1>2, RunTaskSettles
  <2> QED BY <2>1, <2>2, QuietBalanced
<1>3. CASE UNCHANGED marketVars \/ \E p \in Players : UpdateCoinBalance(p)
  <2>1. UNCHANGED <<offers, lastId, gold, items, coins, queue>>
    BY <1>3 DEF UpdateCoinBalance, tableVars, marketVars
  <2>2. \A p \in Players : Settled(p)' = Settled(p)
    BY <2>1, NothingAdded
  <2> QED BY <2>1, <2>2, QuietBalanced
<1> QED BY <1>1, <1>2, <1>3

(* So every step but the handling of a search keeps what there is, *)
LEMMA StepBalanced ==
  ASSUME MarketInv, MarketInv', [MarketNext]_marketVars, ~ProcessExpiredOffers, NEW k \in All
  PROVE  Balanced(k)
<1>1. CASE \/ CheckExpiredOffers \/ RunTask \/ UNCHANGED marketVars
           \/ \E p \in Players : UpdateCoinBalance(p)
  BY <1>1, OthersBalanced
<1>2. ASSUME NEW p \in Players, NEW n \in Amounts, NEW sort \in Kinds, NEW price \in Prices,
             CreateSale(p, sort, n, price) \/ CreatePurchase(p, sort, n, price)
      PROVE  Balanced(k)
  BY <1>2, CreateSaleBalanced, CreatePurchaseBalanced
<1>3. ASSUME NEW p \in Players, NEW id \in Ids, CancelOffer(p, id) PROVE Balanced(k)
  BY <1>3, CancelBalanced
<1>4. ASSUME NEW p \in Players, NEW id \in Ids, NEW n \in Amounts, AcceptOffer(p, id, n) PROVE Balanced(k)
  BY <1>4, AcceptBalanced
<1>5. ASSUME NEW p \in Players, NEW q \in Players, NEW n \in Amounts, TransferCoins(p, q, n) PROVE Balanced(k)
  BY <1>5, TransferBalanced
<1>6. ASSUME NEW id \in Ids, Expire(id) PROVE Balanced(k)
  BY <1>6, ExpireBalanced
<1> QED BY <1>1, <1>2, <1>3, <1>4, <1>5, <1>6 DEF MarketNext

(* and leaves the answers in their queue. *)
LEMMA NoResultLeaves ==
  ASSUME MarketInv, [MarketNext]_marketVars, ~ProcessExpiredOffers
  PROVE  ~(Len(results') < Len(results))
<1>1. results' = results \/ results' = Append(results, ExpiredRows)
  <2>1. RunTask => results' = results \/ results' = Append(results, ExpiredRows)
    BY DEF RunTask
  <2>2. CheckExpiredOffers \/ UNCHANGED marketVars => results' = results
    BY DEF CheckExpiredOffers, marketVars
  <2>3. \A id \in Ids : Expire(id) => results' = results
    BY DEF Expire
  <2>4. \A p \in Players : UpdateCoinBalance(p) => results' = results
    BY DEF UpdateCoinBalance
  <2>5. \A p \in Players, id \in Ids : CancelOffer(p, id) => results' = results
    BY DEF CancelOffer
  <2>6. \A p, q \in Players, n \in Amounts : TransferCoins(p, q, n) => results' = results
    BY DEF TransferCoins
  <2>7. \A p \in Players, id \in Ids, n \in Amounts : AcceptOffer(p, id, n) => results' = results
    BY DEF AcceptOffer
  <2>8. \A p \in Players, sort \in Kinds, n \in Amounts, price \in Prices :
          CreateSale(p, sort, n, price) \/ CreatePurchase(p, sort, n, price) => results' = results
    <3>1. \A p \in Players, sort \in Kinds, n \in Amounts, price \in Prices, sale \in BOOLEAN :
            NewOffer(p, sale, sort, n, price) => results' = results
      BY DEF NewOffer
    <3>2. \A p \in Players, sort \in Kinds, n \in Amounts, price \in Prices :
            CreateSale(p, sort, n, price) => NewOffer(p, TRUE, sort, n, price)
      BY DEF CreateSale
    <3>3. \A p \in Players, sort \in Kinds, n \in Amounts, price \in Prices :
            CreatePurchase(p, sort, n, price) => NewOffer(p, FALSE, sort, n, price)
      BY DEF CreatePurchase
    <3> QED BY <3>1, <3>2, <3>3
  <2> QED BY <2>1, <2>2, <2>3, <2>4, <2>5, <2>6, <2>7, <2>8 DEF MarketNext
<1>2. results \in Seq(Tables)
  BY DEF MarketInv, RowsAgree
<1>3. Len(results) \in Nat /\ Len(Append(results, ExpiredRows)) = Len(results) + 1
  <2> HIDE DEF ExpiredRows
  <2> QED BY <1>2, LenProperties
<1> QED BY <1>1, <1>3

-----------------------------------------------------------------------------
(* The expired offers given back *)
Back == StillOffered(Head(results))
Given(k) == [id \in Back |-> Holds(Head(results)[id], k)]
Kept(k) == [id \in Back |-> Holds(offers[id], k)]
Again(k) == [id \in Back |-> Holds(Head(results)[id], k) - Holds(offers[id], k)]

(* The rows given back are of offers still there. *)
LEMMA RowsGivenBack ==
  ASSUME MarketInv, results # <<>>
  PROVE  /\ Head(results) \in Tables /\ IsFiniteSet(Back)
         /\ Back = DOMAIN Head(results) \cap DOMAIN offers /\ Back \subseteq Ids
         /\ \A id \in Back : /\ Head(results)[id] \in Offer /\ offers[id] \in Offer
                             /\ Alike(Head(results)[id], offers[id])
<1>1. Head(results) \in Tables /\ Head(results) = results[1] /\ 1 \in DOMAIN results
  BY HeadTailProperties DEF MarketInv, RowsAgree
<1>2. Back = DOMAIN Head(results) \cap DOMAIN offers
  BY DEF Back, StillOffered
<1>3. DOMAIN offers \in SUBSET Ids /\ \A id \in DOMAIN offers : offers[id] \in Offer
  BY TablesAre DEF MarketInv, OffersTyped
<1>4. \A id \in DOMAIN Head(results) : Head(results)[id] \in Offer
  BY <1>1, TablesAre
<1>5. IsFiniteSet(Back)
  BY <1>2, <1>3, MarketConstants, FS_Subset
<1>6. \A id \in Back : Alike(Head(results)[id], offers[id])
  BY <1>1, <1>2 DEF MarketInv, RowsAgree
<1> QED BY <1>1, <1>2, <1>3, <1>4, <1>5, <1>6

(* What the rows hold is what the offers hold and the rest given again. *)
LEMMA GivenTyped ==
  ASSUME MarketInv, results # <<>>, NEW k \in All
  PROVE  /\ Given(k) \in [Back -> Int] /\ Kept(k) \in [Back -> Int] /\ Again(k) \in [Back -> Int]
         /\ SumFunction(Given(k)) \in Int /\ SumFunction(Kept(k)) \in Int /\ SumFunction(Again(k)) \in Int
         /\ SumFunction(Given(k)) = SumFunction(Kept(k)) + SumFunction(Again(k))
<1>1. \A id \in Back : Holds(Head(results)[id], k) \in Int /\ Holds(offers[id], k) \in Int
  BY RowsGivenBack, HoldsInt
<1>2. Given(k) \in [Back -> Int] /\ Kept(k) \in [Back -> Int] /\ Again(k) \in [Back -> Int]
  BY <1>1 DEF Given, Kept, Again
<1>3. \A id \in Back : Given(k)[id] = Kept(k)[id] + Again(k)[id]
  BY <1>1 DEF Given, Kept, Again
<1>4. IsFiniteSet(Back)
  BY RowsGivenBack
<1>5. AddsUp(Given(k), Kept(k), Again(k), Back)
  BY <1>2, <1>3, <1>4 DEF AddsUp
<1> QED BY <1>2, <1>4, <1>5, SumAddsUp, SumIsInt

(* What is left on the table *)
LEMMA HeldGivenBack ==
  ASSUME MarketInv, MarketInv', ProcessExpiredOffers, NEW k \in All
  PROVE  SumFunction(HeldIn(offers, k)) = SumFunction(HeldIn(offers', k)) + SumFunction(Kept(k))
<1> DEFINE F == HeldIn(offers, k)
           G == HeldIn(offers', k)
           H == [j \in Ids |-> IF j \in Back THEN Kept(k)[j] ELSE 0]
<1>1. results # <<>> /\ offers' = [id \in DOMAIN offers \ Back |-> offers[id]]
  BY DEF ProcessExpiredOffers, Back
<1>2. Back \subseteq Ids /\ Back \subseteq DOMAIN offers /\ Kept(k) \in [Back -> Int]
  BY <1>1, RowsGivenBack, GivenTyped
<1>3. F \in [Ids -> Int] /\ G \in [Ids -> Int]
  BY HeldInt DEF MarketInv, OffersTyped
<1>4. H \in [Ids -> Int]
  BY <1>2
<1>5. ASSUME NEW j \in Ids PROVE F[j] = G[j] + H[j]
  <2>1. /\ F[j] = IF j \in DOMAIN offers THEN Holds(offers[j], k) ELSE 0
        /\ G[j] = IF j \in DOMAIN offers \ Back THEN Holds(offers[j], k) ELSE 0
        /\ H[j] = IF j \in Back THEN Holds(offers[j], k) ELSE 0
    BY <1>1 DEF HeldIn, Kept
  <2>2. F[j] \in Int
    BY <1>3
  <2> HIDE DEF F, G, H
  <2> QED BY <1>2, <2>1, <2>2
<1>6. IsPart(Kept(k), Back, H, Ids)
  <2>1. \A j \in Ids : H[j] = IF j \in Back THEN Kept(k)[j] ELSE 0
    OBVIOUS
  <2> HIDE DEF H
  <2> QED BY <1>2, <1>4, <2>1, MarketConstants DEF IsPart
<1>7. AddsUp(F, G, H, Ids)
  <2> HIDE DEF F, G, H
  <2> QED BY <1>3, <1>4, <1>5, MarketConstants DEF AddsUp
<1> HIDE DEF H
<1>8. SumFunction(Kept(k)) = SumFunction(H) /\ SumFunction(F) = SumFunction(G) + SumFunction(H)
  BY <1>6, <1>7, SumOverPart, SumAddsUp
<1> QED BY <1>8

(* What comes into the players' hands: to each, what his own offers held. *)
ForOwner(k, p) == [id \in Back |-> IF Head(results)[id].player = p THEN Given(k)[id] ELSE 0]

(* Each owner gets what his rows hold. *)
LEMMA OwnersPaid ==
  ASSUME MarketInv, MarketInv', ProcessExpiredOffers, NEW k \in All, NEW p \in Players
  PROVE  Has(p, k)' = Has(p, k) + SumFunction(ForOwner(k, p)) /\ SumFunction(ForOwner(k, p)) \in Int
<1> DEFINE rows == Head(results)
           Of(sale) == {id \in StillOffered(rows) : rows[id].player = p /\ rows[id].sale = sale}
           paid == [id \in Of(FALSE) |-> rows[id].price * rows[id].amount]
           given(sort) == [id \in {i \in Of(TRUE) : rows[i].kind = sort} |-> rows[id].amount]
<1>1. results # <<>> /\ queue' = queue /\ coins' = coins
  BY DEF ProcessExpiredOffers
<1>2. gold'[p] = gold[p] + SumFunction(paid)
  BY DEF ProcessExpiredOffers
<1>3. \A sort \in Kinds : items'[p][sort] = items[p][sort] + SumFunction(given(sort))
  BY DEF ProcessExpiredOffers
<1>4. IsFiniteSet(Back) /\ ForOwner(k, p) \in [Back -> Int]
  BY <1>1, RowsGivenBack, GivenTyped DEF ForOwner
<1>5. SumFunction(ForOwner(k, p)) \in Int
  BY <1>4, SumIsInt
<1>6. \A id \in Back : /\ rows[id].sale \in BOOLEAN /\ rows[id].amount \in Int
                       /\ rows[id].price * rows[id].amount \in Int
                       /\ Given(k)[id] = Holds(rows[id], k)
  BY <1>1, RowsGivenBack, OfferIs DEF Given
<1>7. Settled(p)' = Settled(p)
  BY <1>1, NothingAdded
<1>8. CASE k = "gold"
  <2> DEFINE S == Of(FALSE)
  <2>1. S \subseteq Back /\ \A id \in Back : id \in S <=> rows[id].player = p /\ rows[id].sale = FALSE
    BY DEF Back
  <2>2. paid \in [S -> Int] /\ \A id \in S : paid[id] = rows[id].price * rows[id].amount
    BY <1>6, <2>1
  <2>3. \A id \in Back : ForOwner(k, p)[id] = IF id \in S THEN paid[id] ELSE 0
    <3> SUFFICES ASSUME NEW id \in Back PROVE ForOwner(k, p)[id] = IF id \in S THEN paid[id] ELSE 0
      OBVIOUS
    <3>1. ForOwner(k, p)[id] = IF rows[id].player = p THEN Holds(rows[id], k) ELSE 0
      BY <1>6 DEF ForOwner
    <3>2. Holds(rows[id], k) = IF rows[id].sale THEN 0 ELSE rows[id].price * rows[id].amount
      BY <1>8 DEF Holds
    <3> HIDE DEF S, paid, rows
    <3> QED BY <1>6, <2>1, <2>2, <3>1, <3>2
  <2>4. IsPart(paid, S, ForOwner(k, p), Back)
    <3> HIDE DEF S, paid
    <3> QED BY <1>4, <2>1, <2>2, <2>3 DEF IsPart
  <2> HIDE DEF S, paid
  <2>5. SumFunction(paid) = SumFunction(ForOwner(k, p))
    BY <2>4, SumOverPart
  <2> QED BY <1>2, <1>5, <1>8, <2>5, HasIs, HasIsNext
<1>9. CASE k \in Kinds
  <2> DEFINE S == {i \in Of(TRUE) : rows[i].kind = k}
             f == given(k)
  <2>1. /\ S \subseteq Back
        /\ \A id \in Back : id \in S <=> rows[id].player = p /\ rows[id].sale = TRUE /\ rows[id].kind = k
    BY DEF Back
  <2>2. f \in [S -> Int] /\ \A id \in S : f[id] = rows[id].amount
    BY <1>6, <2>1
  <2>3. \A id \in Back : ForOwner(k, p)[id] = IF id \in S THEN f[id] ELSE 0
    <3> SUFFICES ASSUME NEW id \in Back PROVE ForOwner(k, p)[id] = IF id \in S THEN f[id] ELSE 0
      OBVIOUS
    <3>1. ForOwner(k, p)[id] = IF rows[id].player = p THEN Holds(rows[id], k) ELSE 0
      BY <1>6 DEF ForOwner
    <3>2. Holds(rows[id], k) = IF rows[id].sale /\ rows[id].kind = k THEN rows[id].amount ELSE 0
      BY <1>9 DEF Holds, Kinds
    <3> HIDE DEF S, f, rows
    <3> QED BY <1>6, <2>1, <2>2, <3>1, <3>2
  <2>4. IsPart(f, S, ForOwner(k, p), Back)
    <3> HIDE DEF S, f
    <3> QED BY <1>4, <2>1, <2>2, <2>3 DEF IsPart
  <2>5. items'[p][k] = items[p][k] + SumFunction(f)
    BY <1>3, <1>9
  <2> HIDE DEF S, f
  <2>6. SumFunction(f) = SumFunction(ForOwner(k, p))
    BY <2>4, SumOverPart
  <2> QED BY <1>5, <1>7, <1>9, <2>5, <2>6, HasIs, HasIsNext DEF Kinds
<1> QED BY <1>5, <1>8, <1>9 DEF All

(* All owners together get what the rows hold. *)
LEMMA HandsGivenBack ==
  ASSUME MarketInv, MarketInv', ProcessExpiredOffers, NEW k \in All
  PROVE  InHands(k)' = InHands(k) + SumFunction(Given(k))
<1> DEFINE whose == [id \in Back |-> Head(results)[id].player]
           all == [p \in Players |-> SumFunction(ForOwner(k, p))]
           f == [p \in Players |-> Has(p, k)]
           g == [p \in Players |-> Has(p, k)']
<1>1. results # <<>>
  BY DEF ProcessExpiredOffers
<1>2. IsFiniteSet(Back) /\ Given(k) \in [Back -> Int]
  BY <1>1, RowsGivenBack, GivenTyped
<1>3. whose \in [Back -> Players]
  BY <1>1, RowsGivenBack, OfferIs
<1>4. all \in [Players -> Int]
  BY OwnersPaid
<1>5. f \in [Players -> Int] /\ g \in [Players -> Int]
  BY HasInt, HasIntNext
<1>6. \A p \in Players : g[p] = f[p] + all[p]
  BY OwnersPaid
<1>7. \A p \in Players : all[p] = SumFunction([x \in Back |-> IF whose[x] = p THEN Given(k)[x] ELSE 0])
  <2> SUFFICES ASSUME NEW p \in Players
               PROVE  SumFunction(ForOwner(k, p))
                        = SumFunction([x \in Back |-> IF whose[x] = p THEN Given(k)[x] ELSE 0])
    OBVIOUS
  <2>1. ForOwner(k, p) = [x \in Back |-> IF whose[x] = p THEN Given(k)[x] ELSE 0]
    BY DEF ForOwner
  <2> QED BY <2>1
<1> HIDE DEF whose, all, f, g
<1>8. ByOwner(all, Players, Given(k), Back, whose)
  BY <1>2, <1>3, <1>4, <1>7, MarketConstants DEF ByOwner
<1>9. AddsUp(g, f, all, Players)
  BY <1>4, <1>5, <1>6, MarketConstants DEF AddsUp
<1>10. SumFunction(all) = SumFunction(Given(k)) /\ SumFunction(g) = SumFunction(f) + SumFunction(all)
  BY <1>8, <1>9, SumsByOwner, SumAddsUp
<1> QED BY <1>10 DEF InHands, f, g

(* So the handling of a search makes what is given again, and nothing else. *)
LEMMA ProcessBalanced ==
  ASSUME MarketInv, MarketInv', ProcessExpiredOffers, NEW k \in All
  PROVE  Wealth(k)' = Wealth(k) + SumFunction(Again(k))
<1>1. results # <<>> /\ InHands(k) \in Int
  BY InHandsInt DEF ProcessExpiredOffers
<1>2. SumFunction(HeldIn(offers', k)) \in Int
  BY HeldInt DEF MarketInv, OffersTyped
<1>3. /\ SumFunction(Kept(k)) \in Int /\ SumFunction(Again(k)) \in Int
      /\ SumFunction(Given(k)) = SumFunction(Kept(k)) + SumFunction(Again(k))
  BY <1>1, GivenTyped
<1>4. SumFunction(HeldIn(offers, k)) = SumFunction(HeldIn(offers', k)) + SumFunction(Kept(k))
  BY HeldGivenBack
<1>5. InHands(k)' = InHands(k) + SumFunction(Given(k))
  BY HandsGivenBack
<1>6. /\ Wealth(k) = InHands(k) + SumFunction(HeldIn(offers, k))
      /\ Wealth(k)' = InHands(k)' + SumFunction(HeldIn(offers', k))
  BY DEF Wealth, InHands
<1> QED BY <1>1, <1>2, <1>3, <1>4, <1>5, <1>6

(* The sums of NothingIsMadeOrLost over the offers given back with a changed *)
(* amount                                                                    *)
TwiceGiven(id) == Head(results)[id].amount - offers[id].amount

(* In the terms of the property: the goods, and the gold *)
LEMMA GoodsTwice ==
  ASSUME MarketInv, results # <<>>, NEW k \in Kinds
  PROVE  SumFunction([id \in {i \in Back : offers[i].sale /\ offers[i].kind = k} |-> TwiceGiven(id)])
           = SumFunction(Again(k))
<1> DEFINE T == {i \in Back : offers[i].sale /\ offers[i].kind = k}
           f == [id \in T |-> TwiceGiven(id)]
<1>1. k \in All /\ k # "gold" /\ IsFiniteSet(Back)
  BY RowsGivenBack DEF All, Kinds
<1>2. Again(k) \in [Back -> Int]
  BY <1>1, GivenTyped
<1>3. ASSUME NEW id \in Back
      PROVE  TwiceGiven(id) \in Int /\ Again(k)[id] = IF id \in T THEN TwiceGiven(id) ELSE 0
  <2> DEFINE r == Head(results)[id]
             o == offers[id]
  <2>1. r \in Offer /\ o \in Offer /\ Alike(r, o)
    BY RowsGivenBack
  <2>2. r.amount \in Nat /\ o.amount \in Nat /\ r.sale = o.sale /\ r.kind = o.kind
    BY <2>1, OfferIs DEF Alike
  <2>3. Again(k)[id] = Holds(r, k) - Holds(o, k) /\ TwiceGiven(id) = r.amount - o.amount
    BY DEF Again, TwiceGiven
  <2>4. id \in T <=> o.sale /\ o.kind = k
    OBVIOUS
  <2> HIDE DEF r, o, T
  <2> QED BY <1>1, <2>2, <2>3, <2>4 DEF Holds
<1>4. f \in [T -> Int] /\ \A id \in T : f[id] = TwiceGiven(id)
  BY <1>3
<1>5. T \subseteq Back
  OBVIOUS
<1> HIDE DEF T, f
<1>6. IsPart(f, T, Again(k), Back)
  BY <1>1, <1>2, <1>3, <1>4, <1>5 DEF IsPart
<1>7. SumFunction(f) = SumFunction(Again(k))
  BY <1>6, SumOverPart
<1> QED BY <1>7 DEF f, T

LEMMA GoldTwice ==
  ASSUME MarketInv, results # <<>>
  PROVE  SumFunction([id \in {i \in Back : ~offers[i].sale} |-> offers[id].price * TwiceGiven(id)])
           = SumFunction(Again("gold"))
<1> DEFINE k == "gold"
           T == {i \in Back : ~offers[i].sale}
           f == [id \in T |-> offers[id].price * TwiceGiven(id)]
<1>1. k \in All /\ IsFiniteSet(Back)
  BY RowsGivenBack DEF All
<1>2. Again(k) \in [Back -> Int]
  BY <1>1, GivenTyped
<1>3. ASSUME NEW id \in Back
      PROVE  /\ offers[id].price * TwiceGiven(id) \in Int
             /\ Again(k)[id] = IF id \in T THEN offers[id].price * TwiceGiven(id) ELSE 0
  <2> DEFINE r == Head(results)[id]
             o == offers[id]
  <2>1. r \in Offer /\ o \in Offer /\ Alike(r, o)
    BY RowsGivenBack
  <2>2. r.amount \in Nat /\ o.amount \in Nat /\ o.price \in Nat /\ r.sale = o.sale /\ r.price = o.price
    BY <2>1, OfferIs DEF Alike
  <2>3. Again(k)[id] = Holds(r, k) - Holds(o, k) /\ TwiceGiven(id) = r.amount - o.amount
    BY DEF Again, TwiceGiven
  <2>4. id \in T <=> ~o.sale
    OBVIOUS
  <2> HIDE DEF r, o, T
  <2>5. /\ o.price * (r.amount - o.amount) = o.price * r.amount - o.price * o.amount
        /\ o.price * TwiceGiven(id) \in Int
    BY <2>2, <2>3
  <2>6. Again(k)[id] = IF id \in T THEN o.price * TwiceGiven(id) ELSE 0
    BY <2>2, <2>3, <2>4, <2>5 DEF Holds
  <2> QED BY <2>5, <2>6 DEF o
<1>4. f \in [T -> Int] /\ \A id \in T : f[id] = offers[id].price * TwiceGiven(id)
  BY <1>3
<1>5. T \subseteq Back
  OBVIOUS
<1> HIDE DEF T, f
<1>6. IsPart(f, T, Again(k), Back)
  BY <1>1, <1>2, <1>3, <1>4, <1>5 DEF IsPart
<1>7. SumFunction(f) = SumFunction(Again(k))
  BY <1>6, SumOverPart
<1> QED BY <1>7 DEF f, T

-----------------------------------------------------------------------------
(* What the market never does *)

(* The invariant implies the types the runs check. *)
LEMMA MarketTyped ==
  ASSUME MarketInv, BalanceInv
  PROVE  MarketTypeOK
<1>1. offers \in Tables /\ lastId \in 0 .. MaxOffers /\ DOMAIN offers \subseteq 1 .. lastId
  BY DEF MarketInv, OffersTyped
<1>2. \A id \in DOMAIN offers : offers[id] \in Offer
  BY <1>1, TablesAre
<1>3. \A i \in DOMAIN queue : queue[i] \in Update \cup {SearchExpired}
  BY DEF MarketInv, QueueTyped
<1>4. \A i \in DOMAIN results : DOMAIN results[i] \subseteq 1 .. lastId
  BY DEF MarketInv, RowsAgree
<1> QED BY <1>1, <1>2, <1>3, <1>4 DEF MarketTypeOK, MarketInv, BalanceInv, PursesTyped, Offer, Update

(* What NothingIsMadeOrLost says of a step *)
MarketBalance ==
  LET Twice(id) == Head(results)[id].amount - offers[id].amount
      back == IF Len(results') < Len(results) THEN DOMAIN Head(results) \cap DOMAIN offers ELSE {}
  IN /\ \A k \in Kinds :
          Total(k)' = Total(k) +
            SumFunction([id \in {i \in back : offers[i].sale /\ offers[i].kind = k} |-> Twice(id)])
     /\ TotalGold' = TotalGold +
          SumFunction([id \in {i \in back : ~offers[i].sale} |-> offers[id].price * Twice(id)])

(* The balance of each step, in the terms of the property *)
LEMMA BalanceOfAStep ==
  ASSUME MarketInv, MarketInv', [MarketNext]_marketVars, ~ProcessExpiredOffers
  PROVE  MarketBalance
<1>1. ~(Len(results') < Len(results))
  BY NoResultLeaves
<1>2. \A k \in All : Balanced(k) /\ Wealth(k) \in Int
  BY StepBalanced, WealthInt
<1>3. /\ \A k \in Kinds : Total(k) = Wealth(k) /\ Total(k)' = Wealth(k)'
      /\ TotalGold = Wealth("gold") + Fee * lastId
      /\ TotalGold' = Wealth("gold")' + Fee * lastId'
  BY TotalsAreWealth, TotalsAreWealthNext
<1>4. \A k \in Kinds : Total(k)' = Total(k) + 0
  BY <1>2, <1>3 DEF Balanced, Charge, Kinds, All
<1>5. TotalGold' = TotalGold + 0
  <2>1. Fee \in Int /\ lastId \in Int /\ lastId' \in Int
    BY MarketConstants DEF MarketInv, OffersTyped
  <2>2. /\ Fee * lastId' = Fee * lastId + Fee * (lastId' - lastId)
        /\ Fee * lastId \in Int /\ Fee * (lastId' - lastId) \in Int
    BY <2>1
  <2>3. Wealth("gold")' = Wealth("gold") - Fee * (lastId' - lastId) /\ Wealth("gold") \in Int
    BY <1>2 DEF Balanced, Charge, All
  <2> QED BY <1>3, <2>2, <2>3
<1> DEFINE back == IF Len(results') < Len(results) THEN DOMAIN Head(results) \cap DOMAIN offers ELSE {}
           goods(k) == [id \in {i \in back : offers[i].sale /\ offers[i].kind = k}
                          |-> Head(results)[id].amount - offers[id].amount]
           bids == [id \in {i \in back : ~offers[i].sale}
                      |-> offers[id].price * (Head(results)[id].amount - offers[id].amount)]
<1>6. back = {}
  BY <1>1
<1>7. \A k \in Kinds : DOMAIN goods(k) = {}
  BY <1>6
<1>8. DOMAIN bids = {}
  BY <1>6
<1> HIDE DEF goods, bids
<1>9. (\A k \in Kinds : SumFunction(goods(k)) = 0) /\ SumFunction(bids) = 0
  BY <1>7, <1>8, SumOfNothing
<1>10. /\ \A k \in Kinds : Total(k)' = Total(k) + SumFunction(goods(k))
       /\ TotalGold' = TotalGold + SumFunction(bids)
  BY <1>4, <1>5, <1>9
<1> QED BY <1>10 DEF MarketBalance, goods, bids

LEMMA BalanceOfAnExpiry ==
  ASSUME MarketInv, MarketInv', ProcessExpiredOffers
  PROVE  MarketBalance
<1>1. results # <<>> /\ results' = Tail(results) /\ lastId' = lastId /\ results \in Seq(Tables)
  BY DEF ProcessExpiredOffers, MarketInv, RowsAgree
<1>2. Len(results') < Len(results)
  BY <1>1, HeadTailProperties
<1>3. Back = DOMAIN Head(results) \cap DOMAIN offers
  BY <1>1, RowsGivenBack
<1>4. \A k \in All : /\ Wealth(k)' = Wealth(k) + SumFunction(Again(k))
                     /\ Wealth(k) \in Int /\ SumFunction(Again(k)) \in Int
  BY <1>1, ProcessBalanced, WealthInt, GivenTyped
<1>5. /\ \A k \in Kinds : Total(k) = Wealth(k) /\ Total(k)' = Wealth(k)'
      /\ TotalGold = Wealth("gold") + Fee * lastId
      /\ TotalGold' = Wealth("gold")' + Fee * lastId'
  BY TotalsAreWealth, TotalsAreWealthNext
<1>6. \A k \in Kinds : Total(k)' = Total(k) + SumFunction(Again(k))
  BY <1>4, <1>5 DEF All
<1>7. TotalGold' = TotalGold + SumFunction(Again("gold"))
  <2>1. Fee * lastId \in Int
    BY MarketConstants DEF MarketInv, OffersTyped
  <2> QED BY <1>1, <1>4, <1>5, <2>1 DEF All
<1> DEFINE back == IF Len(results') < Len(results) THEN DOMAIN Head(results) \cap DOMAIN offers ELSE {}
           goods(B, k) == [id \in {i \in B : offers[i].sale /\ offers[i].kind = k} |-> TwiceGiven(id)]
           bids(B) == [id \in {i \in B : ~offers[i].sale} |-> offers[id].price * TwiceGiven(id)]
<1>8. back = Back
  BY <1>2, <1>3
<1>9. \A k \in Kinds : SumFunction(goods(Back, k)) = SumFunction(Again(k))
  BY <1>1, GoodsTwice
<1>10. SumFunction(bids(Back)) = SumFunction(Again("gold"))
  BY <1>1, GoldTwice
<1> HIDE DEF goods, bids, back
<1>11. /\ \A k \in Kinds : Total(k)' = Total(k) + SumFunction(goods(back, k))
       /\ TotalGold' = TotalGold + SumFunction(bids(back))
  BY <1>6, <1>7, <1>8, <1>9, <1>10
<1> QED BY <1>11 DEF MarketBalance, goods, bids, back, TwiceGiven

(* Goods, coins and gold only pass from hand to hand through the market, for *)
(* any players, prices, fee and number of offers, but for what the expiry    *)
(* gives back again of an offer accepted in part after the search            *)
(* (processExpiredOffers, iomarket.cpp).                                     *)
THEOREM NothingIsMadeOrLostHolds == MarketSpec => NothingIsMadeOrLost
<1>1. MarketInv /\ MarketInv' /\ [MarketNext]_marketVars => MarketBalance
  BY BalanceOfAStep, BalanceOfAnExpiry
<1>2. MarketInv /\ BalanceInv => MarketTypeOK
  BY MarketTyped
<1>3. MarketSpec => []MarketInv /\ []BalanceInv
  BY MarketTypesHold, BalancesHold
<1>4. MarketSpec => [][MarketBalance]_marketVars
  BY <1>1, <1>3, PTL DEF MarketSpec
<1>5. MarketSpec => []MarketTypeOK
  BY <1>2, <1>3, PTL
<1> QED BY <1>4, <1>5, PTL DEF NothingIsMadeOrLost, MarketBalance

LEMMA OverspentStep ==
  ASSUME MarketInv, MarketInv', BalanceInv, [MarketNext]_marketVars, NEW p \in Players,
         Settled(p)' < Settled(p), Settled(p)' < 0, p \in upToDate
  PROVE  offers' # offers /\ lastId' = lastId /\ coins[p] \notin 0 .. Settled(p)
<1>1. /\ Settled(p) \in Int /\ Settled(p)' \in Int
      /\ coinBalance[p] \in Int /\ coins[p] \in Int
  BY SettledIs, SettledIsNext DEF MarketInv, PursesTyped
<1>2. coinBalance[p] <= Settled(p)
  BY DEF BalanceInv
<1>3. /\ offers' # offers /\ lastId' = lastId
      /\ Settled(p)' >= Settled(p) - GetCoinBalance(p)
  BY <1>1, <1>2, CoinsStep DEF Takes
<1>4. ASSUME coins[p] \in 0 .. Settled(p) PROVE FALSE
  <2>1. GetCoinBalance(p) \in Int /\ GetCoinBalance(p) <= coins[p]
    BY <1>1, <1>4, BalanceRead
  <2> QED BY <1>1, <1>3, <1>4, <2>1
<1> QED BY <1>3, <1>4

(* A player comes to owe coins by his own spending only: from a balance that was *)
(* not right, or by selling to a standing offer while a spending of his is       *)
(* queued or his account is below zero already, read without its sign            *)
(* (playerCreateMarketOffer, playerAcceptMarketOffer, playerTransferCoins).      *)
THEOREM OverspendingIsStale == MarketSpec => OnlyAStaleBalanceIsOverspent
<1>1. MarketInv /\ MarketInv' /\ BalanceInv /\ [MarketNext]_marketVars =>
        \A p \in Players :
          Settled(p)' < Settled(p) /\ Settled(p)' < 0 =>
            \/ p \notin upToDate
            \/ /\ offers' # offers /\ lastId' = lastId
               /\ coins[p] \notin 0 .. Settled(p)
  BY OverspentStep
<1> QED BY <1>1, MarketTypesHold, BalancesHold, PTL DEF MarketSpec, OnlyAStaleBalanceIsOverspent
=============================================================================
