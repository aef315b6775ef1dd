---------------------------- MODULE TimerService ----------------------------
(***************************************************************************)
(* What the game expects of the scheduler: an event that was armed is fired *)
(* once, not before it is due, unless it is stopped or the server shuts     *)
(* down; stopping and firing exclude each other.                            *)
(***************************************************************************)
EXTENDS Naturals

CONSTANTS Event, Delay

VARIABLES
  status,  \* of each event
  due,     \* the instant each armed event is due
  now,     \* the clock
  open     \* events are accepted

vars == <<status, due, now, open>>

Init ==
  /\ status = [e \in Event |-> "idle"]
  /\ due = [e \in Event |-> 0]
  /\ now = 0
  /\ open = TRUE

Become(e, from, to) ==
  /\ status[e] = from
  /\ status' = [status EXCEPT ![e] = to]

Arm(e) ==
  /\ open
  /\ Become(e, "idle", "armed")
  /\ \E d \in Delay : due' = [due EXCEPT ![e] = now + d]
  /\ UNCHANGED <<now, open>>

Reject(e) ==
  /\ ~open
  /\ Become(e, "idle", "discarded")
  /\ UNCHANGED <<due, now, open>>

Cancel(e) ==
  /\ Become(e, "armed", "stopped")
  /\ UNCHANGED <<due, now, open>>

Fire(e) ==
  /\ due[e] <= now
  /\ Become(e, "armed", "fired")
  /\ UNCHANGED <<due, now, open>>

Pass ==
  /\ now' = now + 1
  /\ UNCHANGED <<status, due, open>>

Close ==
  /\ open' = FALSE
  /\ UNCHANGED <<status, due, now>>

Discard ==
  /\ ~open
  /\ status' = [e \in Event |-> IF status[e] = "armed" THEN "discarded" ELSE status[e]]
  /\ UNCHANGED <<due, now, open>>

Next ==
  \/ \E e \in Event : Arm(e) \/ Reject(e) \/ Cancel(e) \/ Fire(e)
  \/ Pass
  \/ Close
  \/ Discard

Spec == Init /\ [][Next]_vars
=============================================================================
