------------------------------- MODULE Trade -------------------------------
(***************************************************************************)
(* Trade between players (game.cpp, player.cpp): the offers, the two-sided  *)
(* acceptance, the exchange, and everything that closes a trade.            *)
(*                                                                          *)
(* All of it runs in the dispatcher, so each handler is one step;           *)
(* TRADE_TRANSFER lasts only within playerAcceptTrade, where it keeps the   *)
(* exchange from closing its own trade, and is no state between steps.      *)
(* Items lie in a player's slots, in a bag or on a tile.  Tiles are numbers *)
(* whose difference is the distance.  Weight is abstracted: the test of the *)
(* exchange may refuse at any time (ExchangeRefused).                       *)
(***************************************************************************)
EXTENDS Integers, FiniteSets

CONSTANTS
  Players,
  Items,
  Bags,       \* the items that are containers
  Stacks,     \* stackable items of one kind, small enough to merge
  Tiles,      \* positions, as numbers
  Slots,      \* places in a player's inventory
  BagSize,    \* Container::capacity(), of each bag
  NoPlayer, NoItem,  \* nullptr
  Gone        \* where an item merged into another is

ASSUME TradeAssumption ==
  /\ IsFiniteSet(Items) /\ Bags \subseteq Items /\ Stacks \subseteq Items \ Bags
  /\ Tiles \subseteq Int /\ Slots \in Nat /\ BagSize \in [Bags -> Nat]
  /\ NoPlayer \notin Players /\ NoItem \notin Items
  /\ Items \cap (Players \cup Tiles) = {} /\ Players \cap Tiles = {}
  /\ Gone \notin Players \cup Items \cup Tiles

VARIABLES
  loc,         \* Item::getParent
  pieces,      \* Item::count, as the stacks that have gone into this one
  place,       \* the player's tile
  online,      \* the players in the game
  tradeState, tradePartner, tradeItem,  \* of each player
  tradeItems,  \* Game::tradeItems; the player stored with an item is never read
  shown        \* history: what was in the offered item when it was offered

vars == <<loc, pieces, place, online, tradeState, tradePartner, tradeItem, tradeItems, shown>>
tradeVars == <<tradeState, tradePartner, tradeItem, tradeItems, shown>>

-----------------------------------------------------------------------------
(* Where things are. *)

(* S has with each bag, and with i, the bag that it lies in. *)
Upward(where, i, S) == \A j \in S \cup ({i} \cap Items) : where[j] \in Bags => where[j] \in S

(* The bags that i lies in, one in the other: the fewest that are upward. *)
Holders(where, i) ==
  {bag \in Bags : \A S \in SUBSET Bags : Upward(where, i, S) => bag \in S}

(* i and all that it lies in: bags, and at the end a player or a tile. *)
Around(where, i) ==
  {i} \cup {where[j] : j \in Holders(where, i) \cup ({i} \cap Items)}

(* Container::isHoldingItem *)
IsHolding(bag, i) == bag # i /\ bag \in Around(loc, i)

Contents(bag) == {i \in Items : IsHolding(bag, i)}

(* Thing::getPosition *)
TileOf(x) ==
  IF x \in Players THEN place[x]
  ELSE LET top == CHOOSE y \in Around(loc, x) : y \notin Items
       IN IF top \in Players THEN place[top] ELSE top

Apart(a, b) == IF a < b THEN b - a ELSE a - b

(* What p can take hold of: his own belongings and what lies beside him. *)
InReach(p, i) ==
  \/ p \in Around(loc, i)
  \/ /\ Around(loc, i) \cap (Players \cup {Gone}) = {}
     /\ Apart(TileOf(i), place[p]) <= 1

HasRoom(where, c) ==
  \/ c \in Tiles
  \/ c \in Players /\ Cardinality({i \in Items : where[i] = c}) < Slots
  \/ c \in Bags /\ Cardinality({i \in Items : where[i] = c}) < BagSize[c]

(* Player::queryDestination, INDEX_WHEREEVER: a slot, else a bag of q's.  The  *)
(* item q offers is passed over, but when it lies in a bag only in the search  *)
(* that stacks, which does not count it as filling its bag either.             *)
PassedOver(where, q, i, bag, autoStack) ==
  /\ tradeItem[q] \in Around(where, bag)
  /\ where[tradeItem[q]] = q \/ (autoStack /\ i \in Stacks)

FreePlace(where, q, i, bag, autoStack) ==
  IF autoStack /\ i \in Stacks
  THEN Cardinality({j \in Items \ {tradeItem[q]} : where[j] = bag}) < BagSize[bag]
  ELSE HasRoom(where, bag)

PlacesFor(where, q, i, autoStack) ==
  IF HasRoom(where, q) THEN {q}
  ELSE {bag \in Bags :
          /\ q \in Around(where, bag) /\ i \notin Around(where, bag)
          /\ FreePlace(where, q, i, bag, autoStack)
          /\ ~PassedOver(where, q, i, bag, autoStack)}

StacksFor(where, q, i) ==
  {j \in Stacks \ {i, tradeItem[q]} :
     i \in Stacks /\ q \in Around(where, j) /\ ~PassedOver(where, q, i, where[j], TRUE)}

(* Player::queryMaxCount, over all belongings, offered or not *)
RoomInAll(q, i) ==
  \/ HasRoom(loc, q)
  \/ \E bag \in Bags : q \in Around(loc, bag) /\ HasRoom(loc, bag)
  \/ \E j \in Stacks \ {i} : i \in Stacks /\ q \in Around(loc, j)

(* Container::queryDestination: what is put into a bag joins a like stack that  *)
(* lies there, whichever; NoItem when it joins none.                            *)
Alike(where, i, c) == {j \in Stacks \ {i} : i \in Stacks /\ c \in Bags /\ where[j] = c}

Onto(where, i, c) == IF Alike(where, i, c) = {} THEN {NoItem} ELSE Alike(where, i, c)

Join(of, i, j) ==
  IF j = NoItem THEN of ELSE [of EXCEPT ![j] = @ \cup of[i], ![i] = {}]

EndOf(c, j) == IF j = NoItem THEN c ELSE Gone

-----------------------------------------------------------------------------
Cancelled(P) == P \cup ({tradePartner[p] : p \in P} \ {NoPlayer})

InternalCloseTrade(P) ==
  LET closed == Cancelled(P)
  IN /\ tradeState' = [p \in Players |-> IF p \in closed THEN "NONE" ELSE tradeState[p]]
     /\ tradePartner' = [p \in Players |-> IF p \in closed THEN NoPlayer ELSE tradePartner[p]]
     /\ tradeItem' = [p \in Players |-> IF p \in closed THEN NoItem ELSE tradeItem[p]]
     /\ shown' = [p \in Players |-> IF p \in closed THEN {} ELSE shown[p]]
     /\ tradeItems' = tradeItems \ {tradeItem[p] : p \in closed}

(* The players whose trade the notification of a change closes.  A change on   *)
(* a tile or in a bag is told to the players around, one in the slots to their *)
(* owner only.                                                                 *)
Offering == {p \in online : tradeItem[p] # NoItem}

Beside(bag, p) == Apart(TileOf(bag), place[p]) <= 2

OnRemoved(i) ==
  LET c == loc[i]
  IN {p \in Offering :
        \/ /\ c \in Tiles \cup {p}
           /\ tradeItem[p] = i \/ IsHolding(i, tradeItem[p])
        \/ /\ c \in Bags /\ Beside(c, p)
           /\ \/ tradeItem[p] \in Around(loc, i)
              \/ loc[tradeItem[p]] # c /\ IsHolding(c, tradeItem[p])}

OnAdded_OfferOnly(i, c) ==
  {p \in Offering : c \in Bags /\ Beside(c, p) /\ tradeItem[p] = i}

OnAdded(i, c) ==
  {p \in Offering : c \in Bags /\ Beside(c, p) /\ tradeItem[p] \in {i} \cup Around(loc, c)}

OnUpdated(i) ==
  LET c == loc[i]
  IN {p \in Offering :
        \/ c \in Tiles \cup {p} /\ tradeItem[p] = i
        \/ c \in Bags /\ Beside(c, p) /\ tradeItem[p] \in Around(loc, i)}

-----------------------------------------------------------------------------
Init ==
  /\ loc \in [Items -> Tiles]
  /\ pieces = [i \in Items |-> {i}]
  /\ place \in [Players -> Tiles]
  /\ online = {}
  /\ tradeState = [p \in Players |-> "NONE"]
  /\ tradePartner = [p \in Players |-> NoPlayer]
  /\ tradeItem = [p \in Players |-> NoItem]
  /\ tradeItems = {}
  /\ shown = [p \in Players |-> {}]

Login(p, t) ==
  /\ p \notin online
  /\ online' = online \cup {p}
  /\ place' = [place EXCEPT ![p] = t]
  /\ UNCHANGED <<loc, pieces, tradeVars>>

(* Player::onRemoveCreature *)
Logout(p) ==
  /\ p \in online
  /\ online' = online \ {p}
  /\ InternalCloseTrade(IF tradePartner[p] # NoPlayer THEN {p} ELSE {})
  /\ UNCHANGED <<loc, pieces, place>>

(* Player::onCreatureMove, for his own steps only. *)
StaysInTrade(p, t) ==
  /\ tradeItem[p] # NoItem /\ p \notin Around(loc, tradeItem[p]) => Apart(TileOf(tradeItem[p]), t) <= 1
  /\ tradePartner[p] # NoPlayer => Apart(place[tradePartner[p]], t) <= 2

Walk(p, t) ==
  /\ p \in online /\ t # place[p]
  /\ place' = [place EXCEPT ![p] = t]
  /\ InternalCloseTrade(IF StaysInTrade(p, t) THEN {} ELSE {p})
  /\ UNCHANGED <<loc, pieces, online>>

(* internalMoveItem by a player's hand, the item not merging with another. *)
MoveItem(p, i, c) ==
  /\ p \in online /\ InReach(p, i)
  /\ c \in Tiles \cup {p} \cup {bag \in Bags : InReach(p, bag)}
  /\ c # loc[i] /\ i \notin Around(loc, c) /\ HasRoom(loc, c)
  /\ Alike(loc, i, c) = {}
  /\ loc' = [loc EXCEPT ![i] = c]
  /\ InternalCloseTrade(OnRemoved(i) \cup OnAdded(i, c))
  /\ UNCHANGED <<pieces, place, online>>

MergeItem(p, i, j) ==
  /\ p \in online /\ i # j /\ {i, j} \subseteq Stacks
  /\ InReach(p, i) /\ InReach(p, j)
  /\ loc' = [loc EXCEPT ![i] = Gone]
  /\ pieces' = Join(pieces, i, j)
  /\ InternalCloseTrade(OnRemoved(i) \cup OnUpdated(j))
  /\ UNCHANGED <<place, online>>

-----------------------------------------------------------------------------
(* playerRequestTrade: no item of a trade may be in another one's. *)
FreeToOffer_SameItemOnly(i) == i \notin tradeItems

FreeToOffer(i) ==
  \A j \in tradeItems : i # j /\ ~IsHolding(i, j) /\ ~IsHolding(j, i)

(* internalStartTrade *)
InternalStartTrade_AnyPartner(p, q, i) ==
  /\ tradeState[p] = "NONE" \/ (tradeState[p] = "ACKNOWLEDGE" /\ tradePartner[p] = q)
  /\ tradePartner' = [tradePartner EXCEPT ![p] = q, ![q] = IF tradeState[q] = "NONE" THEN p ELSE @]
  /\ tradeItem' = [tradeItem EXCEPT ![p] = i]
  /\ tradeState' = [tradeState EXCEPT ![p] = "INITIATED", ![q] = IF @ = "NONE" THEN "ACKNOWLEDGE" ELSE @]
  /\ tradeItems' = tradeItems \cup {i}
  /\ shown' = [shown EXCEPT ![p] = Contents(i)]

InternalStartTrade(p, q, i) ==
  /\ tradeState[p] = "NONE" \/ (tradeState[p] = "ACKNOWLEDGE" /\ tradePartner[p] = q)
  /\ tradeState[q] = "NONE" \/ tradePartner[q] = p
  /\ tradePartner' = [tradePartner EXCEPT ![p] = q, ![q] = IF tradeState[q] = "NONE" THEN p ELSE @]
  /\ tradeItem' = [tradeItem EXCEPT ![p] = i]
  /\ tradeState' = [tradeState EXCEPT ![p] = "INITIATED", ![q] = IF @ = "NONE" THEN "ACKNOWLEDGE" ELSE @]
  /\ tradeItems' = tradeItems \cup {i}
  /\ shown' = [shown EXCEPT ![p] = Contents(i)]

PlayerRequestTrade(p, q, i) ==
  /\ {p, q} \subseteq online /\ p # q
  /\ Apart(place[p], place[q]) <= 2
  /\ InReach(p, i) /\ FreeToOffer(i)
  /\ InternalStartTrade(p, q, i)
  /\ UNCHANGED <<loc, pieces, place, online>>

(* playerAcceptTrade: the first of the two to accept. *)
MayAccept(p) ==
  p \in online /\ tradeState[p] \in {"ACKNOWLEDGE", "INITIATED"} /\ tradePartner[p] # NoPlayer

AcceptFirst(p) ==
  /\ MayAccept(p) /\ tradeState[tradePartner[p]] # "ACCEPT"
  /\ tradeState' = [tradeState EXCEPT ![p] = "ACCEPT"]
  /\ UNCHANGED <<loc, pieces, place, online, tradePartner, tradeItem, tradeItems, shown>>

(* ... and the second one: both items are tried in their new owners' hands      *)
(* first, where a stack may join another; then they are moved, not to join in a *)
(* slot, but in a bag they do.  A missing offer fails the test, as does the     *)
(* weight.  The first move fails when it would go into the other offer; the     *)
(* second one's result is not looked at.                                        *)
Fits(q, i) ==
  i # NoItem /\ PlacesFor(loc, q, i, TRUE) \cup StacksFor(loc, q, i) # {} /\ RoomInAll(q, i)

BothFit_FirstOnly(p, q) == Fits(q, tradeItem[p]) /\ tradeItem[q] # NoItem
BothFit(p, q) == Fits(q, tradeItem[p]) /\ Fits(p, tradeItem[q])

AcceptsLast(p) == MayAccept(p) /\ tradeState[tradePartner[p]] = "ACCEPT"

(* The second move fails when there is no place, or when the first item has     *)
(* joined the second, which is weighed with it, and was not p's own load before.*)
(* Otherwise the second one leaves its part of such a stack and takes its own.  *)
Exchange(p) ==
  /\ AcceptsLast(p) /\ BothFit(p, tradePartner[p])
  /\ LET q == tradePartner[p]
         first == tradeItem[p]
         second == tradeItem[q]
         Close(P) == InternalCloseTrade({p} \cup (P \ {p, q}))
         Notified(i, c, j) == OnRemoved(i) \cup IF j = NoItem THEN OnAdded(i, c) ELSE OnUpdated(j)
     IN \E c \in PlacesFor(loc, q, first, FALSE), a \in Items \cup {NoItem} :
          LET between == [loc EXCEPT ![first] = c]
              left == PlacesFor(between, p, second, FALSE)
              other == IF a = second THEN NoItem ELSE a
          IN /\ second \notin Around(loc, c) /\ a \in Onto(loc, first, c)
             /\ \/ \E d \in left : \E b \in Onto(between, second, d) :
                     /\ loc' = [loc EXCEPT ![first] = EndOf(c, other), ![second] = EndOf(d, b)]
                     /\ pieces' = Join(Join(pieces, first, other), second, b)
                     /\ Close(Notified(first, c, a) \cup Notified(second, d, b))
                \/ /\ left = {} \/ (a = second /\ p \notin Around(loc, first))
                   /\ loc' = [loc EXCEPT ![first] = EndOf(c, a)]
                   /\ pieces' = Join(pieces, first, a)
                   /\ Close(Notified(first, c, a))
  /\ UNCHANGED <<place, online>>

(* ... or nothing is moved: a script's veto, an item that does not fit. *)
ExchangeRefused(p) ==
  /\ AcceptsLast(p)
  /\ InternalCloseTrade({p})
  /\ UNCHANGED <<loc, pieces, place, online>>

PlayerCloseTrade(p) ==
  /\ p \in online
  /\ InternalCloseTrade({p})
  /\ UNCHANGED <<loc, pieces, place, online>>

Next ==
  \E p \in Players :
    \/ Logout(p) \/ AcceptFirst(p) \/ Exchange(p) \/ ExchangeRefused(p) \/ PlayerCloseTrade(p)
    \/ \E t \in Tiles : Login(p, t) \/ Walk(p, t)
    \/ \E i \in Items :
         \/ \E q \in Players : PlayerRequestTrade(p, q, i)
         \/ \E c \in Tiles \cup {p} \cup Bags : MoveItem(p, i, c)
         \/ \E j \in Items : MergeItem(p, i, j)

Spec == Init /\ [][Next]_vars

-----------------------------------------------------------------------------
(* The variables have their types; only a stack is ever merged away. *)
TypeOK ==
  /\ loc \in [Items -> Players \cup Bags \cup Tiles \cup {Gone}]
  /\ \A i \in Items \ Stacks : loc[i] # Gone
  /\ pieces \in [Items -> SUBSET Items]
  /\ place \in [Players -> Tiles]
  /\ online \subseteq Players
  /\ tradeState \in [Players -> {"NONE", "INITIATED", "ACCEPT", "ACKNOWLEDGE"}]
  /\ tradePartner \in [Players -> Players \cup {NoPlayer}]
  /\ tradeItem \in [Players -> Items \cup {NoItem}]
  /\ tradeItems \subseteq Items
  /\ shown \in [Players -> SUBSET Items]

(* A trade has two sides: the partner of a player in a trade is in the game    *)
(* and has that player for his own partner, whatever requests, acceptances and *)
(* log-outs of others came in between (Player::tradePartner is a raw pointer). *)
(* The two stay within two tiles (Player::onCreatureMove).                     *)
PartnersAgree ==
  /\ TypeOK
  /\ \A p \in Players :
       /\ (tradeState[p] = "NONE") = (tradePartner[p] = NoPlayer)
       /\ tradePartner[p] # NoPlayer =>
            /\ p \in online /\ tradePartner[p] \in online \ {p}
            /\ tradePartner[tradePartner[p]] = p
            /\ Apart(place[p], place[tradePartner[p]]) <= 2

(* Game::tradeItems holds exactly the offered items, each of one offer.        *)
OffersAreRegistered ==
  /\ tradeItems = {tradeItem[p] : p \in Players} \ {NoItem}
  /\ \A p, q \in Players : p # q /\ tradeItem[p] = tradeItem[q] => tradeItem[p] = NoItem

(* No thing is promised twice: an item is offered by one player and lies in    *)
(* nobody else's offer (playerRequestTrade looks into both, game.cpp:4018).    *)
NothingIsOfferedTwice ==
  /\ OffersAreRegistered
  /\ \A p, q \in Offering : p # q => ~IsHolding(tradeItem[p], tradeItem[q])

(* What the partner gets is what he was shown: as long as the offer stands,    *)
(* nothing is put into the offered bag or taken out of it, by anybody, and it  *)
(* stays beside its owner (checkTradeState, player.cpp:1637, is told only of   *)
(* changes near the player).                                                   *)
OfferIsWhatWasShown ==
  \A p \in Offering : Contents(tradeItem[p]) = shown[p] /\ InReach(p, tradeItem[p])

(* What is with x: his own belongings, or what lies in the item. *)
Goods(x) == UNION {pieces[i] : i \in {j \in Items : x \in Around(loc, j)}}

(* In an exchange each gets all that the other gave, piece by piece, whatever   *)
(* stacks it joins on the way, and nobody else gains or loses anything.  But    *)
(* game.cpp:4182 ignores a second move that fails, and what was to be given     *)
(* then stays: a stack that fitted in the test by joining another and has no    *)
(* place, or one that the first item, not p's own load, has joined.             *)
SecondMayStay(p) ==
  LET first == tradeItem[p]
      second == tradeItem[tradePartner[p]]
  IN /\ second \in Stacks
     /\ \/ StacksFor(loc, p, second) # {} /\ ~HasRoom(loc', p)
        \/ p \notin Around(loc, first) /\ Goods(first) \subseteq pieces'[second]

ExchangeIsFair ==
  [][ \A p \in Players : Exchange(p) =>
        LET q == tradePartner[p]
            given == Goods(tradeItem[p])
            wanted == Goods(tradeItem[q])
        IN \E taken \in {wanted, {}} :
             /\ taken # wanted => SecondMayStay(p)
             /\ \A x \in Players :
                  Goods(x)' = CASE x = p -> (Goods(p) \ given) \cup taken
                                [] x = q -> (Goods(q) \ taken) \cup given
                                [] OTHER -> Goods(x) ]_vars
=============================================================================
