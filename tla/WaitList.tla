------------------------------ MODULE WaitList ------------------------------
(***************************************************************************)
(* The waiting list of a full server (waitlist.cpp).  Every call is made by *)
(* ProtocolGame::login, in the dispatcher, which places an admitted player  *)
(* in the same task unless a later check fails.                             *)
(*                                                                          *)
(* An entry keeps what the code computes from its timeout, timeout - time,  *)
(* in units of five seconds; below zero the amount does not matter and      *)
(* stays at -1.  The two lists' size() only chooses the timeout of a new    *)
(* entry; erasing a node of priorityWaitList through waitList.erase()       *)
(* (waitlist.cpp:128) moves one from a size to the other in libstdc++:      *)
(* misplaced counts those.  A MaxPlayers of 0 turns the list off.           *)
(*                                                                          *)
(* The specification's names differ from those of Session, so that          *)
(* SessionProofs can extend both: the two are parts of one login.           *)
(***************************************************************************)
EXTENDS Integers, Sequences, SequencesExt, FiniteSets

CONSTANTS
  Guid,          \* the players, by playerGUID
  MaxPlayers,    \* ConfigManager::MAX_PLAYERS
  MaxMisplaced   \* bound: misplaced counts no further

ASSUME WaitListAssumption == MaxPlayers \in Nat \ {0} /\ MaxMisplaced \in Nat

VARIABLES
  priorityWaitList,
  waitList,
  misplaced,
  playersOnline  \* the players in the game

waitListVars == <<priorityWaitList, waitList, misplaced, playersOnline>>

Entry(p, left) == [playerGUID |-> p, left |-> left]

WaitListInit ==
  /\ priorityWaitList = <<>>
  /\ waitList = <<>>
  /\ misplaced = 0
  /\ playersOnline = {}

-----------------------------------------------------------------------------
(* getTime(slot) and getTimeout(slot), in units of five seconds. *)
GetTime(slot) ==
  LET steps == {<<5, 1>>, <<10, 2>>, <<20, 4>>, <<50, 12>>}
      above == {s \in steps : slot < s[1]}
  IN IF above = {} THEN 24
     ELSE (CHOOSE s \in above : \A t \in above : s[1] <= t[1])[2]

GetTimeout(slot) == GetTime(slot) + 3

(* cleanupList: timeout is unsigned, so that timeout - time <= 0 is equality. *)
(* The k-th of the entries that stay is the one of rank k among them.         *)
Live(list) == {i \in DOMAIN list : list[i].left # 0}

Rank(list, i) == Cardinality({j \in Live(list) : j <= i})

CleanupList(list) ==
  [k \in 1 .. Cardinality(Live(list)) |-> list[CHOOSE i \in Live(list) : Rank(list, i) = k]]

(* findClient: the slots of p in the two lists, one after the other. *)
FindClient_OneList(priority, waiting, p) ==
  {i \in (Len(priority) + 1) .. Len(priority \o waiting) : (priority \o waiting)[i].playerGUID = p}

FindClient(priority, waiting, p) ==
  {i \in 1 .. Len(priority \o waiting) : (priority \o waiting)[i].playerGUID = p}

(* erase(it) and it->timeout = ... on the list that slot i is in. *)
Erased(list, i) == IF i \in DOMAIN list THEN RemoveAt(list, i) ELSE list

Renewed(list, i, left) ==
  [j \in DOMAIN list |-> IF j = i THEN Entry(list[j].playerGUID, left) ELSE list[j]]

-----------------------------------------------------------------------------
(* What login() does with an admitted player. *)
Place(p) == playersOnline' \in {playersOnline, playersOnline \cup {p}}

(* clientLogin with both lists empty. *)
GoesStraightIn(p) ==
  /\ priorityWaitList = <<>> /\ waitList = <<>>
  /\ Cardinality(playersOnline) < MaxPlayers
  /\ Place(p)
  /\ UNCHANGED <<priorityWaitList, waitList, misplaced>>

(* ... with p at a slot of the cleaned lists that there is room for. *)
LetIn_IgnoresPlacesAhead(p, slot, priority, waiting) ==
  /\ Cardinality(playersOnline) < MaxPlayers
  /\ priorityWaitList' = Erased(priority, slot)
  /\ waitList' = Erased(waiting, slot - Len(priority))
  /\ misplaced' = misplaced
  /\ Place(p)

LetIn(p, slot, priority, waiting) ==
  /\ Cardinality(playersOnline) + slot <= MaxPlayers
  /\ priorityWaitList' = Erased(priority, slot)
  /\ waitList' = Erased(waiting, slot - Len(priority))
  /\ misplaced' = IF slot <= Len(priority) /\ misplaced < MaxMisplaced
                  THEN misplaced + 1 ELSE misplaced
  /\ Place(p)

(* ... and no room yet. *)
WaitsLonger_AtTheBack(p, slot, priority, waiting) ==
  /\ Cardinality(playersOnline) + slot > MaxPlayers
  /\ priorityWaitList' = Erased(priority, slot)
  /\ waitList' = Append(Erased(waiting, slot - Len(priority)), Entry(p, GetTimeout(slot)))
  /\ UNCHANGED <<misplaced, playersOnline>>

WaitsLonger(p, slot, priority, waiting) ==
  /\ Cardinality(playersOnline) + slot > MaxPlayers
  /\ priorityWaitList' = Renewed(priority, slot, GetTimeout(slot))
  /\ waitList' = Renewed(waiting, slot - Len(priority), GetTimeout(slot))
  /\ UNCHANGED <<misplaced, playersOnline>>

(* ... with p in neither list. *)
Joins(p, premium, priority, waiting) ==
  /\ IF premium
     THEN /\ priorityWaitList' =
               Append(priority, Entry(p, GetTimeout(Len(priority) + misplaced + 1)))
          /\ waitList' = waiting
     ELSE /\ priorityWaitList' = priority
          /\ waitList' = Append(waiting, Entry(p, GetTimeout(Len(priority) + Len(waiting) + 1)))
  /\ UNCHANGED <<misplaced, playersOnline>>

ClientLogin(p, premium) ==
  LET priority == CleanupList(priorityWaitList)
      waiting  == CleanupList(waitList)
      slots    == FindClient(priority, waiting, p)
      first    == CHOOSE i \in slots : \A j \in slots : i <= j
      straight == priorityWaitList \o waitList = <<>> /\ Cardinality(playersOnline) < MaxPlayers
  IN /\ p \notin playersOnline
     /\ \/ GoesStraightIn(p)
        \/ /\ ~straight
           /\ slots # {}
           /\ LetIn(p, first, priority, waiting) \/ WaitsLonger(p, first, priority, waiting)
        \/ /\ ~straight
           /\ slots = {}
           /\ Joins(p, premium, priority, waiting)

(* A game master, or a player who CanAlwaysLogin. *)
StaffLogin(p) ==
  /\ p \notin playersOnline
  /\ Place(p)
  /\ UNCHANGED <<priorityWaitList, waitList, misplaced>>

RemovePlayer(p) ==
  /\ p \in playersOnline
  /\ playersOnline' = playersOnline \ {p}
  /\ UNCHANGED <<priorityWaitList, waitList, misplaced>>

(* Five seconds pass. *)
Pass(list) == [i \in DOMAIN list |-> [list[i] EXCEPT !.left = IF @ < 0 THEN -1 ELSE @ - 1]]

Tick ==
  /\ priorityWaitList \o waitList # <<>>
  /\ priorityWaitList' = Pass(priorityWaitList)
  /\ waitList' = Pass(waitList)
  /\ UNCHANGED <<misplaced, playersOnline>>

Call(p) == (\E premium \in BOOLEAN : ClientLogin(p, premium)) \/ StaffLogin(p)

WaitListNext ==
  \/ \E p \in Guid : Call(p) \/ RemovePlayer(p)
  \/ Tick

WaitListSpec == WaitListInit /\ [][WaitListNext]_waitListVars

-----------------------------------------------------------------------------
Line == priorityWaitList \o waitList
InLine == {Line[i].playerGUID : i \in DOMAIN Line}
Slot(p) == CHOOSE i \in DOMAIN Line : Line[i].playerGUID = p

Before(p, q) == {p, q} \subseteq InLine /\ Slot(p) < Slot(q)

(* The variables have their types; no timeout is more than 135 seconds away. *)
WaitListTypeOK ==
  /\ \A list \in {priorityWaitList, waitList} :
       list \in Seq([playerGUID : Guid, left : -1 .. 27])
  /\ misplaced \in 0 .. MaxMisplaced
  /\ playersOnline \subseteq Guid

(* Nobody holds two places: a player who becomes premium while it waits keeps *)
(* the one it has.                                                            *)
EachOnce ==
  /\ WaitListTypeOK
  /\ \A i, j \in DOMAIN Line : Line[i].playerGUID = Line[j].playerGUID => i = j

(* Those whose entry has not just run out. *)
Kept == {p \in InLine : Line[Slot(p)].left # 0}

(* The last player that came in, if any did. *)
Admitted == playersOnline' \ playersOnline

(* A place in the game is kept for everyone ahead: whoever leaves the list for *)
(* the game leaves as many free places as there are clients before it, those   *)
(* whose entries clientLogin has just dropped apart; and a player that comes   *)
(* in without a place in the list finds it empty, game masters and the like    *)
(* apart.                                                                      *)
PlacesAheadAreKept ==
  [][ \A p \in Admitted :
        /\ p \in InLine /\ p \notin InLine' =>
             Cardinality(playersOnline') + Cardinality({i \in 1 .. Slot(p) - 1 : Line[i].left # 0})
               <= MaxPlayers
        /\ (\E premium \in BOOLEAN : ClientLogin(p, premium)) => p \in InLine \/ Line = <<>> ]_waitListVars

(* Two clients that stay in the list stay in their order, whatever the others   *)
(* do; one whose entry runs out loses its place and may join again.             *)
OrderIsKept ==
  [][ \A p, q \in Guid :
        Before(p, q) /\ {p, q} \subseteq Kept /\ {p, q} \subseteq InLine' => Before(p, q)' ]_waitListVars
=============================================================================
