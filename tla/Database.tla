------------------------------ MODULE Database ------------------------------
(***************************************************************************)
(* The connection to MySQL that the dispatcher's and the network's thread    *)
(* share (Database::getInstance()), its recursive lock, its transactions and *)
(* its retries: src/engine/src/database.{h,cpp}, with the saves that use a   *)
(* transaction: of a player (iologindata.cpp), which is as that of the items *)
(* in the houses, and of the houses themselves (iomapserialize.cpp).         *)
(*                                                                           *)
(* A save writes MaxStatement rows, each with the number of the save.  The   *)
(* server keeps what is durable and what the session sees; a connection may  *)
(* be lost before a statement is executed or before its answer arrives, and  *)
(* what the server does then (it rolls back) and the client library does     *)
(* (it fails once if it believes in a transaction, then reconnects) is       *)
(* external to the repository.                                               *)
(***************************************************************************)
EXTENDS Naturals

CONSTANTS
  Kind,          \* what is saved: "player", "houses"
  MaxStatement,  \* the statements of a save, after BEGIN
  MaxTries,      \* how often a caller tries a save (3 in the code)
  MaxSaves,      \* bound: the saves that are told apart
  MaxLosses,     \* bound: the times the connection is lost
  MaxRefusals,   \* bound: the statements the server refuses
  NoThread       \* the owner of a lock that is free

ASSUME DatabaseAssumption ==
  /\ Kind \subseteq {"player", "houses"}
  /\ {MaxStatement, MaxTries, MaxSaves} \subseteq Nat \ {0}
  /\ {MaxLosses, MaxRefusals} \subseteq Nat
  /\ NoThread \notin {"dispatcher", "network"}

VARIABLES
  durable,    \* the rows of each kind as the server would keep them
  view,       \* the same as the session sees them
  open,       \* the session has a transaction
  alive,      \* the connection is up
  believes,   \* the client library's flag SERVER_STATUS_IN_TRANS
  owner, depth,  \* Database::databaseLock
  pc,         \* where the dispatcher is
  kind,       \* what it saves
  statement,  \* the statement it is at: 0 is BEGIN
  succeeded,  \* what the call in progress returns
  tries,      \* how often this save was begun
  network,    \* where the network's thread is in its storeQuery
  saves,      \* the number of the latest save
  losses, refusals,  \* how many there have been
  excused     \* history: the kinds a save of which lost its transaction, or a
              \* row to a refusal that nobody looked at, since the last whole one

serverVars == <<durable, view, open, alive, believes>>
lockVars   == <<owner, depth>>
saveVars   == <<kind, statement, succeeded, tries>>
countVars  == <<saves, losses, refusals, excused>>
vars == <<serverVars, lockVars, pc, saveVars, network, countVars>>

Row == 1 .. MaxStatement
Rows == [Kind -> [Row -> 0 .. MaxSaves]]

Init ==
  /\ durable = [k \in Kind |-> [r \in Row |-> 0]]
  /\ view = durable
  /\ open = FALSE /\ alive = TRUE /\ believes = FALSE
  /\ owner = NoThread /\ depth = 0
  /\ pc = "idle"
  /\ kind \in Kind
  /\ statement = 0 /\ succeeded = FALSE /\ tries = 0
  /\ network = "idle"
  /\ saves = 0 /\ losses = 0 /\ refusals = 0
  /\ excused = {}

(***************************************************************************)
(* The lock                                                                 *)
(***************************************************************************)
Free(t) == owner \in {NoThread, t}

Lock(t) == Free(t) /\ owner' = t /\ depth' = depth + 1

(* Unlocking a mutex of somebody else's has no effect in the library used. *)
Unlock(t) ==
  IF owner = t
    THEN depth' = depth - 1 /\ owner' = IF depth = 1 THEN NoThread ELSE t
    ELSE UNCHANGED lockVars

(***************************************************************************)
(* The server and the client library                                        *)
(***************************************************************************)
InCall == pc \in {"query", "commit", "rollback"} \/ network = "query"

(* The statement the dispatcher is at, executed. *)
Executed ==
  LET written == [view EXCEPT ![kind][statement] = saves]
  IN IF statement = 0
       THEN open' = TRUE /\ UNCHANGED <<durable, view, excused>>
       ELSE /\ view' = written
            /\ durable' = IF open THEN durable ELSE written
            /\ excused' = IF open THEN excused ELSE excused \cup {kind}
            /\ UNCHANGED open

(* The connection goes; the server rolls back what it had open. *)
ConnectionLost ==
  /\ losses < MaxLosses
  /\ alive
  /\ losses' = losses + 1
  /\ alive' = FALSE
  /\ view' = durable
  /\ open' = FALSE
  /\ UNCHANGED <<durable, believes, lockVars, pc, saveVars, network, saves, refusals, excused>>

(* The library's automatic reconnection, during a call; not in a transaction. *)
Reconnected ==
  /\ InCall
  /\ ~alive /\ ~believes
  /\ alive' = TRUE
  /\ UNCHANGED <<durable, view, open, believes, lockVars, pc, saveVars, network, countVars>>

(* CR_SERVER_GONE_ERROR: the loop sleeps for a second and tries again. *)
Retried ==
  /\ pc = "query" \/ network = "query"
  /\ ~alive /\ believes
  /\ believes' = FALSE
  /\ UNCHANGED <<durable, view, open, alive, lockVars, pc, saveVars, network, countVars>>

Refusal == refusals < MaxRefusals /\ alive /\ refusals' = refusals + 1

(***************************************************************************)
(* executeQuery and the transactions, called by the dispatcher              *)
(***************************************************************************)
Save(k) ==
  /\ pc = "idle"
  /\ saves' = (saves % MaxSaves) + 1
  /\ kind' = k
  /\ statement' = 0 /\ tries' = 1
  /\ pc' = "lock"
  /\ UNCHANGED <<serverVars, lockVars, succeeded, network, losses, refusals, excused>>

ExecuteQuery ==
  /\ pc = "lock"
  /\ Lock("dispatcher")
  /\ pc' = "query"
  /\ UNCHANGED <<serverVars, saveVars, network, countVars>>

QueryAnswered ==
  /\ pc = "query"
  /\ alive
  /\ Executed
  /\ believes' = open'
  /\ succeeded' = TRUE
  /\ pc' = "unlock"
  /\ UNCHANGED <<alive, lockVars, kind, statement, tries, network, saves, losses, refusals>>

(* CR_SERVER_LOST: executed, and then executed once more. *)
QueryAnswerLost ==
  /\ pc = "query"
  /\ alive
  /\ losses < MaxLosses
  /\ losses' = losses + 1
  /\ IF statement = 0 \/ open
       THEN durable' = durable
       ELSE durable' = [durable EXCEPT ![kind][statement] = saves]
  /\ excused' = IF statement = 0 \/ open THEN excused ELSE excused \cup {kind}
  /\ view' = durable'
  /\ open' = FALSE /\ alive' = FALSE
  /\ UNCHANGED <<believes, lockVars, pc, saveVars, network, saves, refusals>>

QueryRefused ==
  /\ pc = "query"
  /\ Refusal
  /\ succeeded' = FALSE
  /\ pc' = "unlock"
  /\ UNCHANGED <<serverVars, lockVars, kind, statement, tries, network, saves, losses, excused>>

(* saveHouseInfo does not look at what the statement of a house returned. *)
LooksAtAnswer(k, s) == ~(k = "houses" /\ s = MaxStatement)

NextStatement ==
  \/ statement = 0 /\ pc' = "begun" /\ UNCHANGED statement
  \/ statement \in 1 .. MaxStatement - 1 /\ pc' = "lock" /\ statement' = statement + 1
  \/ statement = MaxStatement /\ pc' = "commit" /\ UNCHANGED statement

AfterQuery_FailureCommits(goesOn) == NextStatement

(* BEGIN is followed by the lock of the transaction, the last statement by     *)
(* commit(), and a failure by the destructor of the transaction.               *)
AfterQuery(goesOn) ==
  IF goesOn THEN NextStatement
            ELSE pc' = "rollback" /\ UNCHANGED statement

QueryReturns ==
  LET ignored == ~succeeded /\ statement # 0 /\ ~LooksAtAnswer(kind, statement)
  IN /\ pc = "unlock"
     /\ Unlock("dispatcher")
     /\ AfterQuery(succeeded \/ ignored)
     /\ excused' = IF ignored THEN excused \cup {kind} ELSE excused
     /\ UNCHANGED <<serverVars, kind, succeeded, tries, network, saves, losses, refusals>>

BeginTransaction_NoLock ==
  /\ pc = "begun"
  /\ pc' = "lock"
  /\ statement' = 1
  /\ UNCHANGED <<serverVars, lockVars, kind, succeeded, tries, network, countVars>>

(* beginTransaction() takes the lock when BEGIN has been executed. *)
BeginTransaction ==
  /\ pc = "begun"
  /\ Lock("dispatcher")
  /\ pc' = "lock"
  /\ statement' = 1
  /\ UNCHANGED <<serverVars, kind, succeeded, tries, network, countVars>>

CommitOutcome ==
  \/ /\ alive
     /\ durable' = view
     /\ succeeded' = TRUE
     /\ excused' = IF open /\ \A r \in Row : view[kind][r] = saves
                     THEN excused \ {kind} ELSE excused
     /\ open' = FALSE /\ believes' = FALSE
     /\ UNCHANGED <<view, alive, losses>>
  \/ /\ alive /\ losses < MaxLosses    \* the answer is lost
     /\ durable' = view
     /\ succeeded' = FALSE
     /\ losses' = losses + 1
     /\ open' = FALSE /\ alive' = FALSE
     /\ UNCHANGED <<view, believes, excused>>
  \/ /\ ~alive /\ believes
     /\ succeeded' = FALSE
     /\ believes' = FALSE
     /\ UNCHANGED <<durable, view, open, alive, losses, excused>>

Commit_FailsLocked ==
  /\ pc = "commit"
  /\ CommitOutcome
  /\ IF succeeded' THEN Unlock("dispatcher") ELSE UNCHANGED lockVars
  /\ pc' = "done"
  /\ UNCHANGED <<kind, statement, tries, network, saves, refusals>>

(* mysql_commit is not tried again; the lock is given back in either case. *)
Commit ==
  /\ pc = "commit"
  /\ CommitOutcome
  /\ Unlock("dispatcher")
  /\ pc' = "done"
  /\ UNCHANGED <<kind, statement, tries, network, saves, refusals>>

(* ~DBTransaction(): begin() has set STATE_START though BEGIN was refused, and *)
(* the lock that is given back was then never taken.                           *)
Rollback ==
  /\ pc = "rollback"
  /\ Unlock("dispatcher")
  /\ pc' = "done"
  /\ alive \/ believes
  /\ IF alive THEN view' = durable /\ open' = FALSE ELSE UNCHANGED <<view, open>>
  /\ believes' = FALSE
  /\ UNCHANGED <<durable, alive, saveVars, network, countVars>>

Return ==
  /\ pc = "done"
  /\ pc' = "idle"
  /\ statement' = 0 /\ succeeded' = FALSE /\ tries' = 0
  /\ UNCHANGED <<serverVars, lockVars, kind, network, countVars>>

(* Most of the callers try a save that returned false again. *)
TryAgain ==
  /\ pc = "done"
  /\ ~succeeded
  /\ tries < MaxTries
  /\ tries' = tries + 1
  /\ statement' = 0
  /\ pc' = "lock"
  /\ UNCHANGED <<serverVars, lockVars, kind, succeeded, network, countVars>>

(***************************************************************************)
(* storeQuery, called by the network's thread                               *)
(***************************************************************************)
NetworkGoes(from, to) == network = from /\ network' = to

StoreQuery ==
  /\ NetworkGoes("idle", "lock")
  /\ UNCHANGED <<serverVars, lockVars, pc, saveVars, countVars>>

StoreLocks ==
  /\ NetworkGoes("lock", "query")
  /\ Lock("network")
  /\ UNCHANGED <<serverVars, pc, saveVars, countVars>>

StoreAnswered ==
  /\ NetworkGoes("query", "read")
  /\ alive
  /\ believes' = open
  /\ UNCHANGED <<durable, view, open, alive, lockVars, pc, saveVars, countVars>>

StoreRefused ==
  /\ NetworkGoes("query", "failed")
  /\ Refusal
  /\ UNCHANGED <<serverVars, lockVars, pc, saveVars, saves, losses, excused>>

StoreReturns ==
  /\ network \in {"read", "failed"}
  /\ network' = "idle"
  /\ Unlock("network")
  /\ UNCHANGED <<serverVars, pc, saveVars, countVars>>

-----------------------------------------------------------------------------
DispatcherCall ==
  \/ ExecuteQuery \/ QueryAnswered \/ QueryReturns \/ BeginTransaction
  \/ Commit \/ Rollback \/ Return

NetworkCall == StoreLocks \/ StoreAnswered \/ StoreReturns

Library == Reconnected \/ Retried

Next ==
  \/ \E k \in Kind : Save(k)
  \/ DispatcherCall \/ TryAgain \/ QueryAnswerLost \/ QueryRefused
  \/ NetworkCall \/ StoreQuery \/ StoreRefused
  \/ Library \/ ConnectionLost

Spec == Init /\ [][Next]_vars

(* Both threads run, a thread that waits for the lock gets it in the end, and *)
(* a server that is gone comes back.                                          *)
Fairness ==
  /\ SF_vars(DispatcherCall)
  /\ SF_vars(NetworkCall)
  /\ WF_vars(Library)

FairSpec == Spec /\ Fairness

-----------------------------------------------------------------------------
(* The variables have their types. *)
TypeOK ==
  /\ {durable, view} \subseteq Rows
  /\ {open, alive, believes, succeeded} \subseteq BOOLEAN
  /\ owner \in {NoThread, "dispatcher", "network"} /\ depth \in 0 .. 2
  /\ pc \in {"idle", "lock", "query", "unlock", "begun", "commit", "rollback", "done"}
  /\ kind \in Kind /\ statement \in 0 .. MaxStatement /\ tries \in 0 .. MaxTries
  /\ network \in {"idle", "lock", "query", "read", "failed"}
  /\ saves \in 0 .. MaxSaves /\ losses \in 0 .. MaxLosses /\ refusals \in 0 .. MaxRefusals
  /\ excused \subseteq Kind

(* What is durable is always one save as a whole, whatever fails and is tried *)
(* again, and a save that returns true has stored its own; but for a save     *)
(* that lost its connection, whose remaining statements the retry executes    *)
(* without a transaction, and for the houses, whose refused statements nobody *)
(* looks at.                                                                  *)
SavesAreAtomic ==
  /\ TypeOK
  /\ \A k \in Kind \ excused :
       /\ \A r, s \in Row : durable[k][r] = durable[k][s]
       /\ pc = "done" /\ succeeded /\ kind = k => durable[k][1] = saves

(* The network's thread shares the session of the transaction and never reads *)
(* a row that is not committed: the lock keeps it out from the first          *)
(* statement to the last.                                                     *)
NoDirtyRead ==
  [][network = "query" /\ network' = "read" => view = durable]_vars

(* No call blocks for ever: not on the lock, which a thread that saves takes  *)
(* twice, not on a connection that is lost and comes back, nor on a lock that *)
(* a failing path has kept.                                                   *)
CallsReturn ==
  /\ (pc # "idle") ~> (pc = "idle")
  /\ (network # "idle") ~> (network = "idle")
=============================================================================
