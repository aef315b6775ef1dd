---------------------------- MODULE TradeProofs -----------------------------
(***************************************************************************)
(* Proofs about trades, for any number of players, items, bags and tiles.   *)
(***************************************************************************)
EXTENDS Trade, FiniteSetTheorems, TLAPS

(* The symmetry that the invariant lives on. *)
LEMMA ApartSymmetric ==
  ASSUME NEW a \in Int, NEW b \in Int
  PROVE  Apart(a, b) = Apart(b, a)
BY DEF Apart

LEMMA ContentsAreItems ==
  ASSUME NEW bag
  PROVE  Contents(bag) \subseteq Items
BY DEF Contents

(* A place found for an item is its new owner or a bag. *)
LEMMA PlacesAreOwnerOrBags ==
  ASSUME NEW where, NEW q, NEW i, NEW autoStack
  PROVE  PlacesFor(where, q, i, autoStack) \subseteq {q} \cup Bags
BY DEF PlacesFor

(* Where the items are: the part of TypeOK that moving them touches. *)
Placed(where) ==
  /\ where \in [Items -> Players \cup Bags \cup Tiles \cup {Gone}]
  /\ \A i \in Items \ Stacks : where[i] # Gone

LEMMA MovePlaces ==
  ASSUME NEW where, Placed(where), NEW i \in Items,
         NEW c \in Players \cup Bags \cup Tiles \cup {Gone}, c = Gone => i \in Stacks
  PROVE  Placed([where EXCEPT ![i] = c])
BY TradeAssumption DEF Placed

(* What has joined a stack is the stack's. *)
LEMMA JoinedPieces ==
  ASSUME NEW of \in [Items -> SUBSET Items], NEW i \in Items, NEW j \in Items \cup {NoItem}
  PROVE  Join(of, i, j) \in [Items -> SUBSET Items]
BY DEF Join

(* Who notices a change is offering something, and in the game. *)
LEMMA ClosedArePlayers ==
  ASSUME PartnersAgree, NEW i, NEW c
  PROVE  /\ OnRemoved(i) \subseteq Players
         /\ OnAdded(i, c) \subseteq Players
         /\ OnUpdated(i) \subseteq Players
BY DEF PartnersAgree, TypeOK, OnRemoved, OnAdded, OnUpdated, Offering

(* Closing trades leaves the other ones as they were: whoever's partner is     *)
(* closed is closed too.                                                       *)
LEMMA ClosingKeepsPairs ==
  ASSUME PartnersAgree, NEW P \in SUBSET Players, InternalCloseTrade(P)
  PROVE  /\ tradeState' \in [Players -> {"NONE", "INITIATED", "ACCEPT", "ACKNOWLEDGE"}]
         /\ tradePartner' \in [Players -> Players \cup {NoPlayer}]
         /\ tradeItem' \in [Players -> Items \cup {NoItem}]
         /\ tradeItems' \subseteq Items
         /\ shown' \in [Players -> SUBSET Items]
         /\ \A p \in Players :
              /\ (tradeState'[p] = "NONE") = (tradePartner'[p] = NoPlayer)
              /\ p \in P => tradePartner'[p] = NoPlayer
              /\ tradePartner'[p] # NoPlayer =>
                   /\ tradePartner'[p] = tradePartner[p]
                   /\ tradePartner'[tradePartner[p]] = p
<1> USE TradeAssumption
<1> DEFINE closed == Cancelled(P)
<1>1. closed \subseteq Players
  BY DEF Cancelled, PartnersAgree, TypeOK
<1>2. \A p \in Players : tradePartner[p] # NoPlayer => (p \in closed <=> tradePartner[p] \in closed)
  BY DEF Cancelled, PartnersAgree, TypeOK
<1>3. /\ tradeState' = [p \in Players |-> IF p \in closed THEN "NONE" ELSE tradeState[p]]
      /\ tradePartner' = [p \in Players |-> IF p \in closed THEN NoPlayer ELSE tradePartner[p]]
      /\ tradeItem' = [p \in Players |-> IF p \in closed THEN NoItem ELSE tradeItem[p]]
      /\ shown' = [p \in Players |-> IF p \in closed THEN {} ELSE shown[p]]
      /\ tradeItems' \subseteq tradeItems
  BY DEF InternalCloseTrade
<1>4. P \subseteq closed
  BY DEF Cancelled
<1> HIDE DEF closed
<1>5. /\ tradeState' \in [Players -> {"NONE", "INITIATED", "ACCEPT", "ACKNOWLEDGE"}]
      /\ tradePartner' \in [Players -> Players \cup {NoPlayer}]
      /\ tradeItem' \in [Players -> Items \cup {NoItem}]
      /\ tradeItems' \subseteq Items
      /\ shown' \in [Players -> SUBSET Items]
  BY <1>3 DEF PartnersAgree, TypeOK
<1>6. ASSUME NEW p \in Players
      PROVE  /\ (tradeState'[p] = "NONE") = (tradePartner'[p] = NoPlayer)
             /\ p \in P => tradePartner'[p] = NoPlayer
             /\ tradePartner'[p] # NoPlayer =>
                  /\ tradePartner'[p] = tradePartner[p]
                  /\ tradePartner'[tradePartner[p]] = p
  <2>1. (tradeState'[p] = "NONE") = (tradePartner'[p] = NoPlayer)
    BY <1>3 DEF PartnersAgree
  <2>2. p \in P => tradePartner'[p] = NoPlayer
    BY <1>3, <1>4
  <2>3. ASSUME tradePartner'[p] # NoPlayer
        PROVE  /\ tradePartner'[p] = tradePartner[p]
               /\ tradePartner'[tradePartner[p]] = p
    <3>1. p \notin closed /\ tradePartner'[p] = tradePartner[p]
      BY <1>3, <2>3
    <3>2. tradePartner[p] \in Players \ closed
      BY <1>2, <2>3, <3>1 DEF PartnersAgree, TypeOK
    <3>3. tradePartner[tradePartner[p]] = p
      BY <2>3, <3>1 DEF PartnersAgree
    <3> QED
      BY <1>3, <3>1, <3>2, <3>3
  <2> QED
    BY <2>1, <2>2, <2>3
<1> QED
  BY <1>5, <1>6

(* The common end of the steps that move items: nobody goes anywhere. *)
LEMMA ClosingKeepsAgreement ==
  ASSUME PartnersAgree, NEW P \in SUBSET Players, InternalCloseTrade(P),
         Placed(loc'), pieces' \in [Items -> SUBSET Items], UNCHANGED <<place, online>>
  PROVE  PartnersAgree'
<1>1. TypeOK'
  BY ClosingKeepsPairs DEF PartnersAgree, TypeOK, Placed
<1>2. ASSUME NEW p \in Players, tradePartner'[p] # NoPlayer
      PROVE  /\ p \in online /\ tradePartner'[p] \in online \ {p}
             /\ tradePartner'[tradePartner'[p]] = p
             /\ Apart(place[p], place[tradePartner'[p]]) <= 2
  BY <1>2, ClosingKeepsPairs DEF PartnersAgree
<1> QED
  BY <1>1, <1>2, ClosingKeepsPairs DEF PartnersAgree, Apart

(***************************************************************************)
(* The steps that close trades without opening one.                        *)
(***************************************************************************)
LEMMA LoginKeepsAgreement ==
  ASSUME PartnersAgree, NEW p \in Players, NEW t \in Tiles, Login(p, t)
  PROVE  PartnersAgree'
<1>1. TypeOK'
  BY DEF PartnersAgree, TypeOK, Login, tradeVars
<1>2. ASSUME NEW r \in Players, tradePartner[r] # NoPlayer
      PROVE  r # p /\ tradePartner[r] # p
  BY <1>2 DEF PartnersAgree, Login
<1>3. \A r \in Players : r # p => place'[r] = place[r]
  BY DEF Login, PartnersAgree, TypeOK
<1>4. online \subseteq online' /\ UNCHANGED <<tradeState, tradePartner>>
  BY DEF Login, tradeVars
<1>5. ASSUME NEW r \in Players, tradePartner'[r] # NoPlayer
      PROVE  /\ r \in online' /\ tradePartner'[r] \in online' \ {r}
             /\ tradePartner'[tradePartner'[r]] = r
             /\ Apart(place'[r], place'[tradePartner'[r]]) <= 2
  <2>1. tradePartner[r] # NoPlayer /\ tradePartner[r] \in Players
    BY <1>4, <1>5 DEF PartnersAgree, TypeOK
  <2>2. place'[r] = place[r] /\ place'[tradePartner[r]] = place[tradePartner[r]]
    BY <1>2, <1>3, <2>1
  <2> QED
    BY <1>4, <2>1, <2>2 DEF PartnersAgree
<1>6. \A r \in Players : (tradeState'[r] = "NONE") = (tradePartner'[r] = NoPlayer)
  BY <1>4 DEF PartnersAgree
<1> QED
  BY <1>1, <1>5, <1>6 DEF PartnersAgree, Apart

LEMMA LogoutKeepsAgreement ==
  ASSUME PartnersAgree, NEW p \in Players, Logout(p)
  PROVE  PartnersAgree'
<1> DEFINE P == IF tradePartner[p] # NoPlayer THEN {p} ELSE {}
<1>1. P \in SUBSET Players /\ InternalCloseTrade(P)
  BY DEF Logout
<1>2. UNCHANGED <<loc, pieces, place>> /\ online' = online \ {p}
  BY DEF Logout
<1>3. TypeOK'
  BY <1>1, <1>2, ClosingKeepsPairs DEF PartnersAgree, TypeOK
<1>4. tradePartner'[p] = NoPlayer
  <2>1. CASE tradePartner[p] # NoPlayer
    BY <1>1, <2>1, ClosingKeepsPairs
  <2>2. CASE tradePartner[p] = NoPlayer
    BY <1>1, <2>2, ClosingKeepsPairs
  <2> QED
    BY <2>1, <2>2
<1> HIDE DEF P
<1>5. ASSUME NEW r \in Players, tradePartner'[r] # NoPlayer
      PROVE  /\ r \in online' /\ tradePartner'[r] \in online' \ {r}
             /\ tradePartner'[tradePartner'[r]] = r
             /\ Apart(place'[r], place'[tradePartner'[r]]) <= 2
  <2>1. /\ tradePartner'[r] = tradePartner[r]
        /\ tradePartner'[tradePartner[r]] = r
        /\ r # p
    BY <1>1, <1>4, <1>5, ClosingKeepsPairs
  <2>2. tradePartner[r] # p
    BY <1>4, <2>1, TradeAssumption
  <2> QED
    BY <1>2, <1>5, <2>1, <2>2 DEF PartnersAgree
<1>6. \A r \in Players : (tradeState'[r] = "NONE") = (tradePartner'[r] = NoPlayer)
  BY <1>1, ClosingKeepsPairs
<1> QED
  BY <1>3, <1>5, <1>6 DEF PartnersAgree, Apart

(* Either both stay within two tiles, or the trade is closed. *)
LEMMA WalkKeepsAgreement ==
  ASSUME PartnersAgree, NEW p \in Players, NEW t \in Tiles, Walk(p, t)
  PROVE  PartnersAgree'
<1> DEFINE P == IF StaysInTrade(p, t) THEN {} ELSE {p}
<1>1. P \in SUBSET Players /\ InternalCloseTrade(P)
  BY DEF Walk
<1>2. UNCHANGED <<loc, pieces, online>> /\ place' = [place EXCEPT ![p] = t]
  BY DEF Walk
<1>3. TypeOK'
  BY <1>1, <1>2, ClosingKeepsPairs DEF PartnersAgree, TypeOK
<1>4. tradePartner'[p] # NoPlayer => Apart(place[tradePartner[p]], t) <= 2
  <2>1. CASE StaysInTrade(p, t)
    BY <1>1, <2>1, ClosingKeepsPairs DEF StaysInTrade
  <2>2. CASE ~StaysInTrade(p, t)
    BY <1>1, <2>2, ClosingKeepsPairs
  <2> QED
    BY <2>1, <2>2
<1> HIDE DEF P
<1>5. ASSUME NEW r \in Players, tradePartner'[r] # NoPlayer
      PROVE  /\ r \in online' /\ tradePartner'[r] \in online' \ {r}
             /\ tradePartner'[tradePartner'[r]] = r
             /\ Apart(place'[r], place'[tradePartner'[r]]) <= 2
  <2> DEFINE q == tradePartner[r]
  <2>1. /\ tradePartner'[r] = q
        /\ tradePartner'[q] = r
    BY <1>1, <1>5, ClosingKeepsPairs
  <2>2. /\ r \in online /\ q \in online \ {r} /\ tradePartner[q] = r
        /\ Apart(place[r], place[q]) <= 2
        /\ q \in Players
    BY <1>5, <2>1 DEF PartnersAgree, TypeOK
  <2>3. \A x \in Players : place'[x] = IF x = p THEN t ELSE place[x]
    BY <1>2 DEF PartnersAgree, TypeOK
  <2>4. place \in [Players -> Int] /\ t \in Int
    BY TradeAssumption DEF PartnersAgree, TypeOK
  <2> HIDE DEF q
  <2>5. CASE r = p
    <3>1. Apart(place[q], t) <= 2
      BY <1>4, <1>5, <2>5 DEF q
    <3>2. place'[r] = t /\ place'[q] = place[q]
      BY <2>2, <2>3, <2>5
    <3>3. Apart(t, place[q]) <= 2
      BY <2>2, <2>4, <3>1, ApartSymmetric
    <3> QED
      BY <1>2, <2>1, <2>2, <3>2, <3>3
  <2>6. CASE q = p
    <3>1. tradePartner'[p] # NoPlayer /\ tradePartner[p] = r
      BY <2>1, <2>2, <2>6, TradeAssumption
    <3>2. Apart(place[r], t) <= 2
      BY <1>4, <3>1
    <3>3. place'[r] = place[r] /\ place'[q] = t
      BY <2>2, <2>3, <2>6
    <3> QED
      BY <1>2, <2>1, <2>2, <3>2, <3>3
  <2>7. CASE r # p /\ q # p
    BY <1>2, <2>1, <2>2, <2>3, <2>7
  <2> QED
    BY <2>5, <2>6, <2>7
<1>6. \A r \in Players : (tradeState'[r] = "NONE") = (tradePartner'[r] = NoPlayer)
  BY <1>1, ClosingKeepsPairs
<1> QED
  BY <1>3, <1>5, <1>6 DEF PartnersAgree, Apart

LEMMA MovesKeepAgreement ==
  ASSUME PartnersAgree, NEW p \in Players, NEW i \in Items
  PROVE  /\ \A c \in Tiles \cup {p} \cup Bags : MoveItem(p, i, c) => PartnersAgree'
         /\ \A j \in Items : MergeItem(p, i, j) => PartnersAgree'
<1> USE TradeAssumption
<1>1. Placed(loc) /\ pieces \in [Items -> SUBSET Items]
  BY DEF PartnersAgree, TypeOK, Placed
<1>2. ASSUME NEW c \in Tiles \cup {p} \cup Bags, MoveItem(p, i, c)
      PROVE  PartnersAgree'
  <2>1. Placed(loc')
    BY <1>1, <1>2, MovePlaces DEF MoveItem
  <2>2. OnRemoved(i) \cup OnAdded(i, c) \in SUBSET Players
    BY ClosedArePlayers
  <2> QED
    BY <1>1, <1>2, <2>1, <2>2, ClosingKeepsAgreement DEF MoveItem
<1>3. ASSUME NEW j \in Items, MergeItem(p, i, j)
      PROVE  PartnersAgree'
  <2>1. Placed(loc')
    BY <1>1, <1>3 DEF MergeItem, Placed
  <2>2. OnRemoved(i) \cup OnUpdated(j) \in SUBSET Players
    BY ClosedArePlayers
  <2>3. pieces' \in [Items -> SUBSET Items]
    BY <1>1, <1>3, JoinedPieces DEF MergeItem
  <2> QED
    BY <1>3, <2>1, <2>2, <2>3, ClosingKeepsAgreement DEF MergeItem
<1> QED
  BY <1>2, <1>3

LEMMA ClosesKeepAgreement ==
  ASSUME PartnersAgree, NEW p \in Players, ExchangeRefused(p) \/ PlayerCloseTrade(p)
  PROVE  PartnersAgree'
<1>1. InternalCloseTrade({p}) /\ UNCHANGED <<loc, pieces, place, online>>
  BY DEF ExchangeRefused, PlayerCloseTrade
<1>2. Placed(loc') /\ pieces' \in [Items -> SUBSET Items]
  BY <1>1 DEF PartnersAgree, TypeOK, Placed
<1> QED
  BY <1>1, <1>2, ClosingKeepsAgreement

(***************************************************************************)
(* The exchange in its two moves: where each item goes, and what it joins.  *)
(***************************************************************************)
Moved(where, k, d) == [where EXCEPT ![k] = d]

Told(i, c, j) == OnRemoved(i) \cup IF j = NoItem THEN OnAdded(i, c) ELSE OnUpdated(j)

FirstMoves(q, first, second, c, a) ==
  /\ c \in PlacesFor(loc, q, first, FALSE) /\ second \notin Around(loc, c)
  /\ a \in Onto(loc, first, c)

SecondMoves(p, first, second, c, a, d, b) ==
  LET other == IF a = second THEN NoItem ELSE a
  IN /\ d \in PlacesFor(Moved(loc, first, c), p, second, FALSE)
     /\ b \in Onto(Moved(loc, first, c), second, d)
     /\ loc' = Moved(Moved(loc, first, EndOf(c, other)), second, EndOf(d, b))
     /\ pieces' = Join(Join(pieces, first, other), second, b)

SecondStays(p, first, second, c, a) ==
  /\ \/ PlacesFor(Moved(loc, first, c), p, second, FALSE) = {}
     \/ a = second /\ p \notin Around(loc, first)
  /\ loc' = Moved(loc, first, EndOf(c, a))
  /\ pieces' = Join(pieces, first, a)

ExchangeMoves(p, q, first, second, c, a) ==
  /\ FirstMoves(q, first, second, c, a)
  /\ \/ \E d, b :
          /\ SecondMoves(p, first, second, c, a, d, b)
          /\ InternalCloseTrade({p} \cup ((Told(first, c, a) \cup Told(second, d, b)) \ {p, q}))
     \/ /\ SecondStays(p, first, second, c, a)
        /\ InternalCloseTrade({p} \cup (Told(first, c, a) \ {p, q}))

LEMMA ExchangeInMoves ==
  ASSUME PartnersAgree, NEW p \in Players, Exchange(p)
  PROVE  \E q \in Players \ {p}, first \in Items, second \in Items,
            c \in Players \cup Bags, a \in Items \cup {NoItem} :
           /\ q = tradePartner[p] /\ first = tradeItem[p] /\ second = tradeItem[q]
           /\ {p, q} \subseteq Offering /\ Fits(p, second)
           /\ ExchangeMoves(p, q, first, second, c, a)
<1> DEFINE q == tradePartner[p]
           first == tradeItem[p]
           second == tradeItem[q]
<1>1. /\ tradePartner[p] # NoPlayer /\ first # NoItem /\ second # NoItem /\ p \in online
      /\ Fits(p, second)
  BY DEF Exchange, AcceptsLast, MayAccept, BothFit, Fits
<1>2. q \in Players \ {p} /\ q \in online /\ first \in Items /\ second \in Items
  BY <1>1 DEF PartnersAgree, TypeOK
<1>3. {p, q} \subseteq Offering
  BY <1>1, <1>2 DEF Offering
<1> DEFINE between(c) == [loc EXCEPT ![first] = c]
           other(a) == IF a = second THEN NoItem ELSE a
           left(c) == PlacesFor(between(c), p, second, FALSE)
           Close(Q) == InternalCloseTrade({p} \cup (Q \ {p, q}))
<1>4. PICK c \in PlacesFor(loc, q, first, FALSE), a \in Items \cup {NoItem} :
        /\ second \notin Around(loc, c) /\ a \in Onto(loc, first, c)
        /\ \/ \E d \in left(c) : \E b \in Onto(between(c), second, d) :
                /\ loc' = [loc EXCEPT ![first] = EndOf(c, other(a)), ![second] = EndOf(d, b)]
                /\ pieces' = Join(Join(pieces, first, other(a)), second, b)
                /\ Close(Told(first, c, a) \cup Told(second, d, b))
           \/ /\ left(c) = {} \/ (a = second /\ p \notin Around(loc, first))
              /\ loc' = [loc EXCEPT ![first] = EndOf(c, a)]
              /\ pieces' = Join(pieces, first, a)
              /\ Close(Told(first, c, a))
  BY DEF Exchange, Told
<1>5. FirstMoves(q, first, second, c, a)
  BY <1>4 DEF FirstMoves
<1>6. \A d, e : [loc EXCEPT ![first] = d, ![second] = e] = Moved(Moved(loc, first, d), second, e)
  BY DEF Moved
<1>7. ASSUME NEW d \in left(c), NEW b \in Onto(between(c), second, d),
             loc' = [loc EXCEPT ![first] = EndOf(c, other(a)), ![second] = EndOf(d, b)],
             pieces' = Join(Join(pieces, first, other(a)), second, b)
      PROVE  SecondMoves(p, first, second, c, a, d, b)
  BY <1>6, <1>7 DEF SecondMoves, Moved
<1>8. ASSUME left(c) = {} \/ (a = second /\ p \notin Around(loc, first)),
             loc' = [loc EXCEPT ![first] = EndOf(c, a)], pieces' = Join(pieces, first, a)
      PROVE  SecondStays(p, first, second, c, a)
  BY <1>8 DEF SecondStays, Moved
<1>9. c \in Players \cup Bags
  BY <1>2, <1>4, PlacesAreOwnerOrBags
<1> HIDE DEF q, first, second, between, left, other
<1>10. ExchangeMoves(p, q, first, second, c, a)
  BY <1>4, <1>5, <1>7, <1>8 DEF ExchangeMoves
<1> QED
  BY <1>1, <1>2, <1>3, <1>4, <1>9, <1>10 DEF q, first, second

(* An item joins a stack only as a stack itself, and only in a bag. *)
LEMMA JoinsAStack ==
  ASSUME NEW where, NEW i, NEW c, NEW j \in Onto(where, i, c)
  PROVE  \/ j = NoItem
         \/ i \in Stacks /\ j \in Stacks \ {i} /\ c \in Bags /\ where[j] = c
BY DEF Onto, Alike

LEMMA ToldArePlayers ==
  ASSUME PartnersAgree, NEW i, NEW c, NEW j
  PROVE  Told(i, c, j) \subseteq Players
BY ClosedArePlayers DEF Told

LEMMA ExchangeCloses ==
  ASSUME PartnersAgree, NEW p \in Players, Exchange(p)
  PROVE  \E P \in SUBSET Players : InternalCloseTrade(P)
<1>1. PICK q, first, second, c, a : ExchangeMoves(p, q, first, second, c, a)
  BY ExchangeInMoves
<1>2. PICK Q : Q \subseteq Players /\ InternalCloseTrade({p} \cup (Q \ {p, q}))
  <2>1. CASE \E d, b : InternalCloseTrade({p} \cup ((Told(first, c, a) \cup Told(second, d, b)) \ {p, q}))
    BY <2>1, ToldArePlayers
  <2>2. CASE InternalCloseTrade({p} \cup (Told(first, c, a) \ {p, q}))
    BY <2>2, ToldArePlayers
  <2> QED
    BY <1>1, <2>1, <2>2 DEF ExchangeMoves
<1>3. {p} \cup (Q \ {p, q}) \in SUBSET Players
  BY <1>2
<1> QED
  BY <1>2, <1>3

LEMMA ExchangeKeepsAgreement ==
  ASSUME PartnersAgree, NEW p \in Players, Exchange(p)
  PROVE  PartnersAgree'
<1> USE TradeAssumption
<1>1. Placed(loc) /\ pieces \in [Items -> SUBSET Items]
  BY DEF PartnersAgree, TypeOK, Placed
<1>2. PICK q \in Players, first \in Items, second \in Items,
           c \in Players \cup Bags, a \in Items \cup {NoItem} :
        /\ FirstMoves(q, first, second, c, a)
        /\ \/ \E d, b : SecondMoves(p, first, second, c, a, d, b)
           \/ SecondStays(p, first, second, c, a)
  <2>1. PICK q \in Players, first \in Items, second \in Items,
             c \in Players \cup Bags, a \in Items \cup {NoItem} :
          ExchangeMoves(p, q, first, second, c, a)
    BY ExchangeInMoves
  <2> QED
    BY <2>1 DEF ExchangeMoves
<1>3. c \in {q} \cup Bags /\ a \in Onto(loc, first, c)
  BY <1>2, PlacesAreOwnerOrBags DEF FirstMoves
<1>4. a \in Items \cup {NoItem} /\ (a # NoItem => first \in Stacks)
  BY <1>3, JoinsAStack
<1>5. \A e \in {c, Gone} : (e = Gone => first \in Stacks) => Placed(Moved(loc, first, e))
  BY <1>1, <1>3, MovePlaces DEF Moved
<1>6. Placed(loc') /\ pieces' \in [Items -> SUBSET Items]
  <2>1. CASE SecondStays(p, first, second, c, a)
    BY <1>1, <1>3, <1>4, <1>5, <2>1, JoinedPieces DEF SecondStays, EndOf
  <2>2. ASSUME NEW d, NEW b, SecondMoves(p, first, second, c, a, d, b)
        PROVE  Placed(loc') /\ pieces' \in [Items -> SUBSET Items]
    <3> DEFINE other == IF a = second THEN NoItem ELSE a
               middle == Moved(loc, first, EndOf(c, other))
    <3>1. d \in {p} \cup Bags /\ b \in Onto(Moved(loc, first, c), second, d)
      BY <2>2, PlacesAreOwnerOrBags DEF SecondMoves
    <3>2. b \in Items \cup {NoItem} /\ (b # NoItem => second \in Stacks)
      BY <3>1, JoinsAStack
    <3>3. Placed(middle) /\ Join(pieces, first, other) \in [Items -> SUBSET Items]
      BY <1>1, <1>3, <1>4, <1>5, JoinedPieces DEF EndOf
    <3>4. /\ loc' = Moved(middle, second, EndOf(d, b))
          /\ pieces' = Join(Join(pieces, first, other), second, b)
      BY <2>2 DEF SecondMoves
    <3> HIDE DEF middle, other
    <3>5. EndOf(d, b) \in Players \cup Bags \cup {Gone} /\ (EndOf(d, b) = Gone => second \in Stacks)
      BY <3>1, <3>2 DEF EndOf
    <3> QED
      BY <3>2, <3>3, <3>4, <3>5, MovePlaces, JoinedPieces DEF Moved
  <2> QED
    BY <1>2, <2>1, <2>2
<1>7. UNCHANGED <<place, online>>
  BY DEF Exchange
<1> QED
  BY <1>6, <1>7, ExchangeCloses, ClosingKeepsAgreement

(***************************************************************************)
(* The steps of a trade that goes on.                                      *)
(***************************************************************************)
LEMMA AcceptKeepsAgreement ==
  ASSUME PartnersAgree, NEW p \in Players, AcceptFirst(p)
  PROVE  PartnersAgree'
<1>1. /\ tradeState' = [tradeState EXCEPT ![p] = "ACCEPT"]
      /\ tradePartner[p] # NoPlayer
      /\ UNCHANGED <<loc, pieces, place, online, tradePartner, tradeItem, tradeItems, shown>>
  BY DEF AcceptFirst, MayAccept
<1>2. TypeOK'
  BY <1>1 DEF PartnersAgree, TypeOK
<1>3. \A r \in Players : (tradeState'[r] = "NONE") = (tradePartner'[r] = NoPlayer)
  BY <1>1 DEF PartnersAgree, TypeOK
<1>4. ASSUME NEW r \in Players, tradePartner'[r] # NoPlayer
      PROVE  /\ r \in online' /\ tradePartner'[r] \in online' \ {r}
             /\ tradePartner'[tradePartner'[r]] = r
             /\ Apart(place'[r], place'[tradePartner'[r]]) <= 2
  BY <1>1, <1>4 DEF PartnersAgree
<1> QED
  BY <1>2, <1>3, <1>4 DEF PartnersAgree, Apart

(* Who asks is free or was asked by q; q is free or was asked by p: the two    *)
(* had no third partner.                                                       *)
LEMMA RequestKeepsAgreement ==
  ASSUME PartnersAgree, NEW p \in Players, NEW q \in Players, NEW i \in Items,
         PlayerRequestTrade(p, q, i)
  PROVE  PartnersAgree'
<1> USE TradeAssumption
<1>1. /\ {p, q} \subseteq online /\ p # q /\ Apart(place[p], place[q]) <= 2
      /\ UNCHANGED <<loc, pieces, place, online>>
  BY DEF PlayerRequestTrade
<1>2. /\ tradeState[p] = "NONE" \/ (tradeState[p] = "ACKNOWLEDGE" /\ tradePartner[p] = q)
      /\ tradeState[q] = "NONE" \/ tradePartner[q] = p
      /\ tradePartner' = [tradePartner EXCEPT ![p] = q, ![q] = IF tradeState[q] = "NONE" THEN p ELSE @]
      /\ tradeItem' = [tradeItem EXCEPT ![p] = i]
      /\ tradeState' = [tradeState EXCEPT ![p] = "INITIATED", ![q] = IF @ = "NONE" THEN "ACKNOWLEDGE" ELSE @]
      /\ tradeItems' = tradeItems \cup {i}
      /\ shown' = [shown EXCEPT ![p] = Contents(i)]
  BY DEF PlayerRequestTrade, InternalStartTrade
<1>3. /\ tradePartner'[p] = q /\ tradePartner'[q] = p
      /\ \A r \in Players \ {p, q} : tradePartner'[r] = tradePartner[r]
      /\ tradePartner' \in [Players -> Players \cup {NoPlayer}]
  BY <1>1, <1>2 DEF PartnersAgree, TypeOK
<1>4. /\ tradeState'[p] = "INITIATED" /\ tradeState'[q] # "NONE"
      /\ \A r \in Players \ {p, q} : tradeState'[r] = tradeState[r]
      /\ tradeState' \in [Players -> {"NONE", "INITIATED", "ACCEPT", "ACKNOWLEDGE"}]
  BY <1>1, <1>2 DEF PartnersAgree, TypeOK
<1>5. TypeOK'
  BY <1>1, <1>2, <1>3, <1>4, ContentsAreItems DEF PartnersAgree, TypeOK
<1>6. \A r \in Players : (tradeState'[r] = "NONE") = (tradePartner'[r] = NoPlayer)
  BY <1>3, <1>4 DEF PartnersAgree
<1>7. ASSUME NEW r \in Players, tradePartner'[r] # NoPlayer
      PROVE  /\ r \in online' /\ tradePartner'[r] \in online' \ {r}
             /\ tradePartner'[tradePartner'[r]] = r
             /\ Apart(place'[r], place'[tradePartner'[r]]) <= 2
  <2>1. CASE r = p
    BY <1>1, <1>3, <2>1
  <2>2. CASE r = q
    <3>1. place[p] \in Int /\ place[q] \in Int
      BY DEF PartnersAgree, TypeOK
    <3>2. Apart(place[q], place[p]) <= 2
      BY <1>1, <3>1, ApartSymmetric
    <3> QED
      BY <1>1, <1>3, <2>2, <3>2
  <2>3. CASE r \notin {p, q}
    <3>1. tradePartner'[r] = tradePartner[r] /\ tradePartner[r] # NoPlayer
      BY <1>3, <1>7, <2>3
    <3>2. /\ r \in online /\ tradePartner[r] \in online \ {r}
          /\ tradePartner[tradePartner[r]] = r
          /\ Apart(place[r], place[tradePartner[r]]) <= 2
      BY <3>1 DEF PartnersAgree
    <3>3. tradePartner[r] # p
      BY <1>2, <2>3, <3>2 DEF PartnersAgree
    <3>4. tradePartner[r] # q
      BY <1>2, <2>3, <3>2 DEF PartnersAgree
    <3>5. tradePartner[r] \in Players \ {p, q}
      BY <3>1, <3>3, <3>4 DEF PartnersAgree, TypeOK
    <3>6. tradePartner'[tradePartner[r]] = r
      BY <1>3, <3>2, <3>5
    <3> QED
      BY <1>1, <3>1, <3>2, <3>6
  <2> QED
    BY <2>1, <2>2, <2>3
<1> QED
  BY <1>5, <1>6, <1>7 DEF PartnersAgree, Apart

(* A trade has two sides that agree, whatever the other players do: the        *)
(* pointer tradePartner never leads to a player who has left the game or is in *)
(* a trade with somebody else (game.cpp:3938-4366, player.cpp:1405-1516).      *)
THEOREM TradesHaveTwoSides == Spec => []PartnersAgree
<1>1. Init => PartnersAgree
  BY TradeAssumption DEF Init, PartnersAgree, TypeOK
<1>2. PartnersAgree /\ [Next]_vars => PartnersAgree'
  <2> SUFFICES ASSUME PartnersAgree, [Next]_vars
               PROVE  PartnersAgree'
    OBVIOUS
  <2>1. CASE UNCHANGED vars
    BY <2>1 DEF vars, PartnersAgree, TypeOK, Apart
  <2>2. CASE Next
    <3>1. PICK p \in Players :
            \/ Logout(p) \/ AcceptFirst(p) \/ Exchange(p) \/ ExchangeRefused(p) \/ PlayerCloseTrade(p)
            \/ \E t \in Tiles : Login(p, t) \/ Walk(p, t)
            \/ \E i \in Items :
                 \/ \E q \in Players : PlayerRequestTrade(p, q, i)
                 \/ \E c \in Tiles \cup {p} \cup Bags : MoveItem(p, i, c)
                 \/ \E j \in Items : MergeItem(p, i, j)
      BY <2>2 DEF Next
    <3>2. CASE Logout(p)
      BY <3>2, LogoutKeepsAgreement
    <3>3. CASE AcceptFirst(p)
      BY <3>3, AcceptKeepsAgreement
    <3>4. CASE Exchange(p)
      BY <3>4, ExchangeKeepsAgreement
    <3>5. CASE ExchangeRefused(p) \/ PlayerCloseTrade(p)
      BY <3>5, ClosesKeepAgreement
    <3>6. CASE \E t \in Tiles : Login(p, t) \/ Walk(p, t)
      BY <3>6, LoginKeepsAgreement, WalkKeepsAgreement
    <3>7. CASE \E i \in Items, q \in Players : PlayerRequestTrade(p, q, i)
      BY <3>7, RequestKeepsAgreement
    <3>8. CASE \E i \in Items, c \in Tiles \cup {p} \cup Bags : MoveItem(p, i, c)
      BY <3>8, MovesKeepAgreement
    <3>9. CASE \E i \in Items, j \in Items : MergeItem(p, i, j)
      BY <3>9, MovesKeepAgreement
    <3> QED
      BY <3>1, <3>2, <3>3, <3>4, <3>5, <3>6, <3>7, <3>8, <3>9
  <2> QED
    BY <2>1, <2>2
<1> QED
  BY <1>1, <1>2, PTL DEF Spec

(***************************************************************************)
(* The register of offered items.  A player who has not asked has offered   *)
(* nothing, so that a request replaces no offer of his.                     *)
(***************************************************************************)
Registered ==
  /\ OffersAreRegistered
  /\ \A p \in Players : tradeState[p] \in {"NONE", "ACKNOWLEDGE"} => tradeItem[p] = NoItem

LEMMA ClosingKeepsRegister ==
  ASSUME PartnersAgree, Registered, NEW P \in SUBSET Players, InternalCloseTrade(P)
  PROVE  Registered'
<1> DEFINE closed == Cancelled(P)
<1>1. /\ tradeState' = [p \in Players |-> IF p \in closed THEN "NONE" ELSE tradeState[p]]
      /\ tradeItem' = [p \in Players |-> IF p \in closed THEN NoItem ELSE tradeItem[p]]
      /\ tradeItems' = tradeItems \ {tradeItem[p] : p \in closed}
  BY DEF InternalCloseTrade
<1>2. closed \subseteq Players
  BY DEF Cancelled, PartnersAgree, TypeOK
<1> HIDE DEF closed
<1>3. tradeItems = {tradeItem[p] : p \in Players} \ {NoItem}
  BY DEF Registered, OffersAreRegistered
<1>4. \A p, q \in Players : p # q /\ tradeItem[p] = tradeItem[q] => tradeItem[p] = NoItem
  BY DEF Registered, OffersAreRegistered
<1>5. tradeItems' = {tradeItem'[p] : p \in Players} \ {NoItem}
  <2>1. ASSUME NEW i \in tradeItems'
        PROVE  i \in {tradeItem'[p] : p \in Players} \ {NoItem}
    <3>1. PICK p \in Players : i = tradeItem[p] /\ i # NoItem
      BY <1>1, <1>3, <2>1
    <3>2. p \notin closed
      BY <1>1, <2>1, <3>1
    <3> QED
      BY <1>1, <3>1, <3>2
  <2>2. ASSUME NEW p \in Players, tradeItem'[p] # NoItem
        PROVE  tradeItem'[p] \in tradeItems'
    <3>1. p \notin closed /\ tradeItem'[p] = tradeItem[p]
      BY <1>1, <2>2
    <3>2. \A r \in closed : tradeItem[r] # tradeItem[p]
      BY <1>2, <1>4, <2>2, <3>1
    <3> QED
      BY <1>1, <1>3, <2>2, <3>1, <3>2
  <2> QED
    BY <2>1, <2>2
<1>6. \A p, q \in Players : p # q /\ tradeItem'[p] = tradeItem'[q] => tradeItem'[p] = NoItem
  BY <1>1, <1>4
<1>7. \A p \in Players : tradeState'[p] \in {"NONE", "ACKNOWLEDGE"} => tradeItem'[p] = NoItem
  BY <1>1 DEF Registered
<1> QED
  BY <1>5, <1>6, <1>7 DEF Registered, OffersAreRegistered

LEMMA RequestKeepsRegister ==
  ASSUME PartnersAgree, Registered, NEW p \in Players, NEW q \in Players, NEW i \in Items,
         PlayerRequestTrade(p, q, i)
  PROVE  Registered'
<1>1. i \notin tradeItems
  BY DEF PlayerRequestTrade, FreeToOffer
<1>2. /\ p # q
      /\ tradeState[p] \in {"NONE", "ACKNOWLEDGE"}
      /\ tradeItem' = [tradeItem EXCEPT ![p] = i]
      /\ tradeState' = [tradeState EXCEPT ![p] = "INITIATED", ![q] = IF @ = "NONE" THEN "ACKNOWLEDGE" ELSE @]
      /\ tradeItems' = tradeItems \cup {i}
  BY DEF PlayerRequestTrade, InternalStartTrade
<1>3. /\ tradeItem'[p] = i /\ tradeItem[p] = NoItem
      /\ \A r \in Players \ {p} : tradeItem'[r] = tradeItem[r]
      /\ i # NoItem
  BY <1>2, TradeAssumption DEF PartnersAgree, TypeOK, Registered
<1>4. tradeItems = {tradeItem[r] : r \in Players} \ {NoItem}
  BY DEF Registered, OffersAreRegistered
<1>5. \A r \in Players : tradeItem[r] # i
  BY <1>1, <1>3, <1>4
<1>6. tradeItems' = {tradeItem'[r] : r \in Players} \ {NoItem}
  <2>1. {tradeItem'[r] : r \in Players} = {i} \cup {tradeItem[r] : r \in Players \ {p}}
    BY <1>3
  <2>2. {tradeItem[r] : r \in Players} = {NoItem} \cup {tradeItem[r] : r \in Players \ {p}}
    BY <1>3
  <2> QED
    BY <1>2, <1>3, <1>4, <2>1, <2>2
<1>7. ASSUME NEW r \in Players, NEW s \in Players, r # s, tradeItem'[r] = tradeItem'[s]
      PROVE  tradeItem'[r] = NoItem
  <2>1. r # p /\ s # p
    BY <1>3, <1>5, <1>7
  <2> QED
    BY <1>3, <1>7, <2>1 DEF Registered, OffersAreRegistered
<1>8. ASSUME NEW r \in Players, tradeState'[r] \in {"NONE", "ACKNOWLEDGE"}
      PROVE  tradeItem'[r] = NoItem
  <2>1. r # p
    BY <1>2, <1>8 DEF PartnersAgree, TypeOK
  <2>2. tradeState[r] \in {"NONE", "ACKNOWLEDGE"}
    BY <1>2, <1>8, <2>1 DEF PartnersAgree, TypeOK
  <2> QED
    BY <1>3, <2>1, <2>2 DEF Registered
<1> QED
  BY <1>6, <1>7, <1>8 DEF Registered, OffersAreRegistered

LEMMA ClosersKeepRegister ==
  ASSUME PartnersAgree, Registered, NEW p \in Players,
         \/ Logout(p) \/ Exchange(p) \/ ExchangeRefused(p) \/ PlayerCloseTrade(p)
         \/ \E t \in Tiles : Walk(p, t)
         \/ \E i \in Items : \/ \E c \in Tiles \cup {p} \cup Bags : MoveItem(p, i, c)
                             \/ \E j \in Items : MergeItem(p, i, j)
  PROVE  Registered'
<1> SUFFICES \E P \in SUBSET Players : InternalCloseTrade(P)
  BY ClosingKeepsRegister
<1>1. CASE Logout(p)
  BY <1>1 DEF Logout
<1>2. CASE ExchangeRefused(p) \/ PlayerCloseTrade(p)
  BY <1>2 DEF ExchangeRefused, PlayerCloseTrade
<1>3. CASE \E t \in Tiles : Walk(p, t)
  BY <1>3 DEF Walk
<1>4. CASE \E i \in Items, c \in Tiles \cup {p} \cup Bags : MoveItem(p, i, c)
  <2>1. PICK i \in Items, c \in Tiles \cup {p} \cup Bags : MoveItem(p, i, c)
    BY <1>4
  <2>2. OnRemoved(i) \cup OnAdded(i, c) \in SUBSET Players
    BY ClosedArePlayers
  <2> QED
    BY <2>1, <2>2 DEF MoveItem
<1>5. CASE \E i \in Items, j \in Items : MergeItem(p, i, j)
  <2>1. PICK i \in Items, j \in Items : MergeItem(p, i, j)
    BY <1>5
  <2>2. OnRemoved(i) \cup OnUpdated(j) \in SUBSET Players
    BY ClosedArePlayers
  <2> QED
    BY <2>1, <2>2 DEF MergeItem
<1>6. CASE Exchange(p)
  BY <1>6, ExchangeCloses
<1> QED
  BY <1>1, <1>2, <1>3, <1>4, <1>5, <1>6

LEMMA TradesStayRegistered == Spec => []Registered
<1>1. Init => Registered
  <2> SUFFICES ASSUME Init
               PROVE  Registered
    OBVIOUS
  <2>1. \A p \in Players : tradeItem[p] = NoItem
    BY DEF Init
  <2>2. tradeItems = {}
    BY DEF Init
  <2> QED
    BY <2>1, <2>2 DEF Registered, OffersAreRegistered
<1>2. PartnersAgree /\ Registered /\ [Next]_vars => Registered'
  <2> SUFFICES ASSUME PartnersAgree, Registered, [Next]_vars
               PROVE  Registered'
    OBVIOUS
  <2>1. CASE UNCHANGED <<tradeState, tradeItem, tradeItems>>
    BY <2>1 DEF Registered, OffersAreRegistered
  <2>2. CASE Next
    <3>1. PICK p \in Players :
            \/ Logout(p) \/ AcceptFirst(p) \/ Exchange(p) \/ ExchangeRefused(p) \/ PlayerCloseTrade(p)
            \/ \E t \in Tiles : Login(p, t) \/ Walk(p, t)
            \/ \E i \in Items :
                 \/ \E q \in Players : PlayerRequestTrade(p, q, i)
                 \/ \E c \in Tiles \cup {p} \cup Bags : MoveItem(p, i, c)
                 \/ \E j \in Items : MergeItem(p, i, j)
      BY <2>2 DEF Next
    <3>2. CASE \E t \in Tiles : Login(p, t)
      BY <2>1, <3>2 DEF Login, tradeVars
    <3>3. CASE AcceptFirst(p)
      <4>1. /\ tradeState' = [tradeState EXCEPT ![p] = "ACCEPT"]
            /\ UNCHANGED <<tradeItem, tradeItems>>
        BY <3>3 DEF AcceptFirst
      <4>2. \A r \in Players : tradeState'[r] \in {"NONE", "ACKNOWLEDGE"} => tradeState'[r] = tradeState[r]
        BY <4>1 DEF PartnersAgree, TypeOK
      <4> QED
        BY <4>1, <4>2 DEF Registered, OffersAreRegistered
    <3>4. CASE \E i \in Items, q \in Players : PlayerRequestTrade(p, q, i)
      BY <3>4, RequestKeepsRegister
    <3>5. CASE \/ Logout(p) \/ Exchange(p) \/ ExchangeRefused(p) \/ PlayerCloseTrade(p)
               \/ \E t \in Tiles : Walk(p, t)
               \/ \E i \in Items : \/ \E c \in Tiles \cup {p} \cup Bags : MoveItem(p, i, c)
                                   \/ \E j \in Items : MergeItem(p, i, j)
      BY <3>5, ClosersKeepRegister
    <3> QED
      BY <3>1, <3>2, <3>3, <3>4, <3>5
  <2> QED
    BY <2>1, <2>2 DEF vars
<1> QED
  BY <1>1, <1>2, TradesHaveTwoSides, PTL DEF Spec

(* Game::tradeItems always holds exactly the offered items, each of one offer: *)
(* no request, exchange, closed trade or log-out leaves one behind or takes    *)
(* another trade's away (game.cpp:4080, 4174-4175, 4324-4366).                 *)
THEOREM OffersStayRegistered == Spec => []OffersAreRegistered
<1>1. Registered => OffersAreRegistered
  BY DEF Registered
<1> QED
  BY <1>1, TradesStayRegistered, PTL

(***************************************************************************)
(* What lies in what.                                                      *)
(***************************************************************************)
LEMMA HoldersAreUpward ==
  ASSUME NEW where, NEW x
  PROVE  Holders(where, x) \subseteq Bags /\ Upward(where, x, Holders(where, x))
BY DEF Holders, Upward

LEMMA HoldersAreLeast ==
  ASSUME NEW where, NEW x, NEW S \in SUBSET Bags, Upward(where, x, S)
  PROVE  Holders(where, x) \subseteq S
BY DEF Holders

(* Whatever is around and lies somewhere has that around, too. *)
LEMMA AroundGoesUp ==
  ASSUME NEW where, Placed(where), NEW x, NEW j \in Items, j \in Around(where, x)
  PROVE  /\ j \in Holders(where, x) \cup {x}
         /\ where[j] \in Around(where, x)
<1> USE TradeAssumption, HoldersAreUpward
<1>1. j \in Holders(where, x) \cup {x}
  <2>1. CASE j # x
    <3>1. PICK k \in Holders(where, x) \cup ({x} \cap Items) : j = where[k]
      BY <2>1 DEF Around
    <3>2. k \in Items
      BY <3>1
    <3>3. j \in Bags
      BY <3>1, <3>2 DEF Placed
    <3> QED
      BY <3>1, <3>3 DEF Upward
  <2> QED
    BY <2>1
<1> QED
  BY <1>1 DEF Around

LEMMA AroundIsTyped ==
  ASSUME NEW where, Placed(where), NEW x
  PROVE  /\ x \in Around(where, x)
         /\ Around(where, x) \subseteq {x} \cup Players \cup Bags \cup Tiles \cup {Gone}
BY TradeAssumption, HoldersAreUpward DEF Around, Placed

LEMMA AroundOfPlace ==
  ASSUME NEW where, NEW x, x \notin Items
  PROVE  Around(where, x) = {x}
<1>1. Upward(where, x, {})
  BY DEF Upward
<1>2. Holders(where, x) = {}
  BY <1>1, HoldersAreLeast
<1> QED
  BY <1>2 DEF Around

LEMMA AroundIsTransitive ==
  ASSUME NEW where, Placed(where), NEW x, NEW y \in Around(where, x)
  PROVE  Around(where, y) \subseteq Around(where, x)
<1>1. CASE y \notin Items
  BY <1>1, AroundOfPlace
<1>2. CASE y \in Items
  <2>1. y \in Holders(where, x) \cup {x}
    BY <1>2, AroundGoesUp
  <2>2. Upward(where, y, Holders(where, x))
    BY <2>1, HoldersAreUpward DEF Upward
  <2>3. Holders(where, y) \subseteq Holders(where, x)
    BY <2>2, HoldersAreUpward, HoldersAreLeast
  <2> QED
    BY <1>2, <2>1, <2>3 DEF Around
<1> QED
  BY <1>1, <1>2

LEMMA AroundByOne ==
  ASSUME NEW where, Placed(where), NEW x \in Items
  PROVE  Around(where, x) = {x} \cup Around(where, where[x])
<1> USE TradeAssumption
<1>1. where[x] \in Around(where, x) /\ x \in Around(where, x)
  BY AroundGoesUp, AroundIsTyped
<1>2. Around(where, where[x]) \subseteq Around(where, x)
  BY <1>1, AroundIsTransitive
<1> DEFINE S == Around(where, where[x]) \cap Bags
<1>3. where[x] \in Around(where, where[x])
  BY AroundIsTyped
<1>4. Upward(where, x, S)
  <2>1. ASSUME NEW j \in S, where[j] \in Bags
        PROVE  where[j] \in S
    BY <2>1, AroundGoesUp
  <2> QED
    BY <1>3, <2>1 DEF Upward
<1>5. Holders(where, x) \subseteq S
  BY <1>4, HoldersAreLeast
<1>6. Around(where, x) \subseteq {x} \cup Around(where, where[x])
  <2>1. ASSUME NEW j \in Holders(where, x)
        PROVE  where[j] \in Around(where, where[x])
    BY <1>5, AroundGoesUp
  <2> QED
    BY <1>3, <2>1 DEF Around
<1> QED
  BY <1>1, <1>2, <1>6

(* At most one player or tile is at the end. *)
LEMMA EndIsReached ==
  ASSUME NEW where, Placed(where), NEW x, NEW e \in Around(where, x) \ Items,
         NEW y \in Around(where, x)
  PROVE  e \in Around(where, y)
<1> USE TradeAssumption
<1> DEFINE S == {bag \in Bags : e \in Around(where, bag)}
<1>1. ASSUME NEW j \in Items, e \in Around(where, j)
      PROVE  e \in Around(where, where[j])
  BY <1>1, AroundByOne
<1>2. Upward(where, x, S)
  BY <1>1 DEF Upward
<1>3. Holders(where, x) \subseteq S
  BY <1>2, HoldersAreLeast
<1>4. CASE y \in Items
  BY <1>3, <1>4, AroundGoesUp
<1>5. CASE y \notin Items
  <2>1. CASE y = x
    BY <2>1
  <2>2. CASE y # x
    <3>1. PICK j \in Holders(where, x) \cup ({x} \cap Items) : y = where[j]
      BY <2>2 DEF Around
    <3>2. j \in Items /\ e \in Around(where, j)
      BY <1>3, <3>1, HoldersAreUpward
    <3> QED
      BY <1>1, <3>1, <3>2
  <2> QED
    BY <2>1, <2>2
<1> QED
  BY <1>4, <1>5

LEMMA OneEnd ==
  ASSUME NEW where, Placed(where), NEW x,
         NEW d \in Around(where, x) \ Items, NEW e \in Around(where, x) \ Items
  PROVE  d = e
BY EndIsReached, AroundOfPlace

(* Everything lies somewhere in the end, and so no bag lies in itself. *)
Grounded(where) == \A i \in Items : Around(where, i) \ Items # {}

LEMMA EndsAgree ==
  ASSUME NEW where, Placed(where), Grounded(where), NEW x \in Items, NEW y \in Around(where, x)
  PROVE  /\ Around(where, y) \ Items = Around(where, x) \ Items
         /\ \E e : Around(where, x) \ Items = {e}
<1>1. PICK e \in Around(where, x) : e \notin Items
  BY DEF Grounded
<1>2. Around(where, x) \ Items = {e}
  BY <1>1, OneEnd
<1>3. e \in Around(where, y)
  BY <1>1, EndIsReached
<1>4. Around(where, y) \subseteq Around(where, x)
  BY AroundIsTransitive
<1> QED
  BY <1>1, <1>2, <1>3, <1>4

LEMMA NoCycle ==
  ASSUME NEW where, Placed(where), Grounded(where), NEW i \in Items
  PROVE  i \notin Around(where, where[i])
<1> USE TradeAssumption
<1> SUFFICES ASSUME i \in Around(where, where[i])
             PROVE  FALSE
  OBVIOUS
<1> DEFINE S == {bag \in Bags : i \in Around(where, bag)}
<1>1. where[i] \in Bags
  BY AroundOfPlace DEF Placed
<1>2. ASSUME NEW j \in Items, i \in Around(where, j)
      PROVE  where[j] \in S
  <2>1. i \in Around(where, where[j])
    BY <1>2, AroundByOne
  <2>2. where[j] \in Bags
    BY <2>1, AroundOfPlace DEF Placed
  <2> QED
    BY <2>1, <2>2
<1>3. i \in Around(where, i)
  BY AroundIsTyped
<1>4. Upward(where, i, S)
  BY <1>2, <1>3 DEF Upward
<1>5. Holders(where, i) \subseteq S
  BY <1>4, HoldersAreLeast
<1>6. ASSUME NEW y \in Around(where, i)
      PROVE  y \in Items
  <2>1. CASE y = i
    BY <2>1
  <2>2. CASE y # i
    <3>1. PICK j \in Holders(where, i) \cup ({i} \cap Items) : y = where[j]
      BY <2>2 DEF Around
    <3> QED
      BY <1>2, <1>3, <1>5, <3>1
  <2> QED
    BY <2>1, <2>2
<1> QED
  BY <1>6 DEF Grounded

(***************************************************************************)
(* An item k is moved to d.                                                *)
(***************************************************************************)

(* What does not lie in it, or is not it, stays where it is. *)
LEMMA AroundStays ==
  ASSUME NEW where, Placed(where), NEW k \in Items, NEW d, NEW x, k \notin Around(where, x)
  PROVE  Around(Moved(where, k, d), x) = Around(where, x)
<1> USE TradeAssumption
<1> DEFINE after == Moved(where, k, d)
<1>1. \A j \in Items \ {k} : after[j] = where[j]
  BY DEF Placed, Moved
<1>2. k \notin Holders(where, x) /\ k # x
  <2>1. k # x
    BY AroundIsTyped
  <2>2. ASSUME k \in Holders(where, x)
        PROVE  FALSE
    <3> DEFINE S == Holders(where, x) \ {k}
    <3>1. \A j \in Holders(where, x) \cup ({x} \cap Items) : where[j] # k
      BY DEF Around
    <3>2. Upward(where, x, S)
      BY <3>1, HoldersAreUpward DEF Upward
    <3>3. Holders(where, x) \subseteq S
      BY <3>2, HoldersAreUpward, HoldersAreLeast
    <3> QED
      BY <2>2, <3>3
  <2> QED
    BY <2>1, <2>2
<1> HIDE DEF after
<1>3. Upward(after, x, Holders(where, x))
  BY <1>1, <1>2, HoldersAreUpward DEF Upward
<1>4. Holders(after, x) \subseteq Holders(where, x)
  BY <1>3, HoldersAreUpward, HoldersAreLeast
<1>5. Upward(where, x, Holders(after, x))
  BY <1>1, <1>2, <1>4, HoldersAreUpward DEF Upward
<1>6. Holders(where, x) \subseteq Holders(after, x)
  BY <1>5, HoldersAreUpward, HoldersAreLeast
<1>7. Holders(after, x) = Holders(where, x)
  BY <1>4, <1>6
<1>8. \A j \in Holders(where, x) \cup ({x} \cap Items) : after[j] = where[j]
  BY <1>1, <1>2, HoldersAreUpward
<1>9. Around(after, x) = Around(where, x)
  BY <1>7, <1>8 DEF Around
<1> QED
  BY <1>9 DEF after

(* What something lay in, it lies in still, but for what the moved item lay in. *)
LEMMA AroundLosesOld ==
  ASSUME NEW where, Placed(where), NEW k \in Items, NEW d, NEW x, Placed(Moved(where, k, d))
  PROVE  Around(where, x) \subseteq Around(Moved(where, k, d), x) \cup Around(where, where[k])
<1> USE TradeAssumption
<1> DEFINE after == Moved(where, k, d)
           old == Around(where, where[k])
           S == Holders(after, x) \cup (old \cap Bags)
<1>1. \A j \in Items \ {k} : after[j] = where[j]
  BY DEF Placed, Moved
<1>2. where[k] \in old
  BY AroundIsTyped
<1>3. \A j \in Items : j \in old => where[j] \in old
  BY AroundGoesUp
<1>4. Placed(after)
  OBVIOUS
<1> HIDE DEF after, old
<1>5. Upward(where, x, S)
  BY <1>1, <1>2, <1>3, HoldersAreUpward DEF Upward
<1>6. Holders(where, x) \subseteq S
  BY <1>5, HoldersAreUpward, HoldersAreLeast
<1>7. ASSUME NEW j \in Holders(where, x) \cup ({x} \cap Items)
      PROVE  where[j] \in Around(after, x) \cup old
  <2>1. CASE j = k
    BY <1>2, <2>1
  <2>2. CASE j \in old
    BY <1>3, <1>7, <2>2, HoldersAreUpward
  <2>3. CASE j # k /\ j \notin old
    <3>1. j \in Holders(after, x) \cup ({x} \cap Items)
      BY <1>6, <1>7, <2>3
    <3>2. after[j] = where[j]
      BY <1>1, <1>7, <2>3, HoldersAreUpward
    <3> QED
      BY <3>1, <3>2 DEF Around
  <2> QED
    BY <2>1, <2>2, <2>3
<1>8. Around(where, x) \subseteq Around(after, x) \cup old
  BY <1>7 DEF Around
<1> QED
  BY <1>8 DEF after, old

(* A move into something that does not lie in the item keeps everything        *)
(* grounded; what gains something around it gains what the new place is in.    *)
LEMMA MoveKeepsGround ==
  ASSUME NEW where, Placed(where), Grounded(where), NEW k \in Items, NEW d,
         Placed(Moved(where, k, d)), k \notin Around(where, d)
  PROVE  /\ Grounded(Moved(where, k, d))
         /\ Around(Moved(where, k, d), k) = {k} \cup Around(where, d)
         /\ \A x : Around(Moved(where, k, d), x) \subseteq Around(where, x) \cup Around(where, d)
<1> USE TradeAssumption
<1> DEFINE after == Moved(where, k, d)
<1>1. after[k] = d /\ where = Moved(after, k, where[k])
  BY DEF Placed, Moved
<1>2. Placed(after)
  OBVIOUS
<1>3. \A x : k \notin Around(where, x) => Around(after, x) = Around(where, x)
  BY AroundStays
<1> HIDE DEF after
<1>4. Around(after, k) = {k} \cup Around(where, d)
  BY <1>1, <1>2, <1>3, AroundByOne
<1>5. d \in Items \/ d \notin Items
  OBVIOUS
<1>6. Around(where, d) \ Items # {}
  BY <1>5, AroundOfPlace DEF Grounded
<1>7. ASSUME NEW i \in Items
      PROVE  Around(after, i) \ Items # {}
  <2>1. CASE k \notin Around(where, i)
    BY <1>3, <2>1 DEF Grounded
  <2>2. CASE k \in Around(after, i)
    BY <1>2, <1>4, <1>6, <2>2, AroundIsTransitive
  <2>3. CASE k \notin Around(after, i)
    <3>1. Around(where, i) = Around(after, i)
      BY <1>1, <1>2, <2>3, AroundStays
    <3> QED
      BY <3>1 DEF Grounded
  <2> QED
    BY <2>1, <2>2, <2>3
<1>8. ASSUME NEW x
      PROVE  Around(after, x) \subseteq Around(where, x) \cup Around(where, d)
  BY <1>1, <1>2, <1>3, AroundLosesOld
<1> QED
  BY <1>4, <1>7, <1>8 DEF Grounded, after
(* What lies in an item that the move does not touch. *)
LEMMA MoveKeepsContents ==
  ASSUME NEW where, Placed(where), Grounded(where), NEW k \in Items, NEW d,
         Placed(Moved(where, k, d)), k \notin Around(where, d),
         NEW t, k \notin Around(where, t),
         t \notin Around(where, where[k]), t \notin Around(where, d)
  PROVE  /\ Around(Moved(where, k, d), t) = Around(where, t)
         /\ \A x : t \in Around(Moved(where, k, d), x) <=> t \in Around(where, x)
BY AroundStays, AroundLosesOld, MoveKeepsGround

(***************************************************************************)
(* The offers.                                                             *)
(***************************************************************************)
LEMMA TileOfEnd ==
  ASSUME Placed(loc), NEW x \in Items, NEW e \in Around(loc, x) \ Items
  PROVE  TileOf(x) = IF e \in Players THEN place[e] ELSE e
<1>1. (CHOOSE y \in Around(loc, x) : y \notin Items) = e
  BY OneEnd
<1>2. x \notin Players
  BY TradeAssumption
<1> QED
  BY <1>1, <1>2 DEF TileOf

(* What a player can take hold of ends with himself, or with a tile beside. *)
LEMMA ReachedEnd ==
  ASSUME TypeOK, Grounded(loc), NEW r \in Players, NEW t \in Items, InReach(r, t),
         NEW e \in Around(loc, t) \ Items
  PROVE  /\ e = r \/ (e \in Tiles /\ Apart(e, place[r]) <= 1)
         /\ TileOf(t) = IF e = r THEN place[r] ELSE e
<1> USE TradeAssumption
<1>1. Placed(loc)
  BY DEF TypeOK, Placed
<1>2. TileOf(t) = IF e \in Players THEN place[e] ELSE e
  BY <1>1, TileOfEnd
<1>3. CASE r \in Around(loc, t)
  BY <1>1, <1>2, <1>3, OneEnd
<1>4. CASE /\ Around(loc, t) \cap (Players \cup {Gone}) = {}
           /\ Apart(TileOf(t), place[r]) <= 1
  BY <1>1, <1>2, <1>4, AroundIsTyped
<1> QED
  BY <1>3, <1>4 DEF InReach

LEMMA OfferIsBeside ==
  ASSUME TypeOK, Grounded(loc), NEW r \in Players, NEW t \in Items, InReach(r, t),
         NEW c \in Bags, c \in Around(loc, t) \/ t \in Around(loc, c)
  PROVE  Beside(c, r)
<1> USE TradeAssumption
<1>1. Placed(loc)
  BY DEF TypeOK, Placed
<1>2. Around(loc, c) \ Items = Around(loc, t) \ Items
  BY <1>1, EndsAgree
<1>3. PICK e \in Around(loc, t) \ Items : TRUE
  BY DEF Grounded
<1>4. TileOf(c) = TileOf(t) /\ TileOf(t) = IF e = r THEN place[r] ELSE e
  BY <1>1, <1>2, <1>3, TileOfEnd, ReachedEnd
<1>5. place[r] \in Int
  BY DEF TypeOK
<1>6. e = r \/ (e \in Tiles /\ Apart(e, place[r]) <= 1)
  BY <1>3, ReachedEnd
<1>7. CASE e = r
  BY <1>4, <1>5, <1>7 DEF Beside, Apart
<1>8. CASE e # r /\ e \in Tiles /\ Apart(e, place[r]) <= 1
  <2>1. TileOf(c) = e /\ e \in Int
    BY <1>4, <1>8
  <2>2. Apart(e, place[r]) <= 2
    BY <1>5, <1>8, <2>1 DEF Apart
  <2> QED
    BY <2>1, <2>2 DEF Beside
<1> QED
  BY <1>6, <1>7, <1>8

(* A removal that touches an offer is told to the one who offers it. *)
LEMMA RemovalIsNoticed ==
  ASSUME TypeOK, Grounded(loc), NEW r \in Offering, InReach(r, tradeItem[r]),
         NEW i \in Items, r \notin OnRemoved(i)
  PROVE  /\ i \notin Around(loc, tradeItem[r])
         /\ tradeItem[r] \notin Around(loc, loc[i])
<1> USE TradeAssumption
<1> DEFINE t == tradeItem[r]
           c == loc[i]
<1>1. Placed(loc) /\ t \in Items /\ r \in Players
  BY DEF TypeOK, Placed, Offering
<1>2. c \in Players \cup Bags \cup Tiles \cup {Gone}
  BY DEF TypeOK
<1>3. t # i => (IsHolding(i, t) <=> i \in Around(loc, t))
  BY DEF IsHolding
<1>4. /\ ~(c \in Tiles \cup {r} /\ (t = i \/ IsHolding(i, t)))
      /\ ~(c \in Bags /\ Beside(c, r) /\ t \in Around(loc, i))
      /\ ~(c \in Bags /\ Beside(c, r) /\ loc[t] # c /\ IsHolding(c, t))
  BY DEF OnRemoved
<1>5. i \notin Around(loc, c)
  BY <1>1, NoCycle
<1> HIDE DEF t, c
<1>6. ASSUME i \in Around(loc, t)
      PROVE  FALSE
  <2>1. c \in Around(loc, t)
    BY <1>1, <1>6, AroundGoesUp DEF c
  <2>2. c \in Bags
    <3>1. ASSUME c \notin Items
          PROVE  c \in Tiles \cup {r}
      BY <1>1, <2>1, <3>1, ReachedEnd DEF t
    <3> QED
      BY <1>2, <1>3, <1>4, <1>6, <3>1
  <2>3. Beside(c, r)
    BY <1>1, <2>1, <2>2, OfferIsBeside DEF t
  <2>4. t # i
    BY <1>1, <1>4, <2>2, <2>3, AroundIsTyped
  <2>5. c # t /\ loc[t] # c
    <3>1. c # t
      BY <1>5, <1>6
    <3>2. Around(loc, t) = {t} \cup Around(loc, loc[t])
      BY <1>1, AroundByOne
    <3> QED
      BY <1>5, <1>6, <2>4, <3>1, <3>2
  <2> QED
    BY <1>4, <2>1, <2>2, <2>3, <2>5 DEF IsHolding
<1>7. ASSUME t \in Around(loc, c)
      PROVE  FALSE
  <2>1. c \in Bags
    BY <1>1, <1>2, <1>7, AroundOfPlace
  <2>2. Beside(c, r)
    BY <1>1, <1>7, <2>1, OfferIsBeside DEF t
  <2>3. t \in Around(loc, i)
    BY <1>1, <1>7, AroundByOne DEF c
  <2> QED
    BY <1>4, <2>1, <2>2, <2>3
<1> QED
  BY <1>6, <1>7 DEF t, c

LEMMA AdditionIsNoticed ==
  ASSUME TypeOK, Grounded(loc), NEW r \in Offering, InReach(r, tradeItem[r]),
         NEW i \in Items, NEW d \in Players \cup Bags \cup Tiles, r \notin OnAdded(i, d)
  PROVE  tradeItem[r] \notin Around(loc, d)
<1> USE TradeAssumption
<1>1. Placed(loc) /\ tradeItem[r] \in Items /\ r \in Players
  BY DEF TypeOK, Placed, Offering
<1>2. CASE d \in Bags
  <2>1. ASSUME tradeItem[r] \in Around(loc, d)
        PROVE  FALSE
    BY <1>1, <1>2, <2>1, OfferIsBeside DEF OnAdded
  <2> QED
    BY <2>1
<1>3. CASE d \notin Items
  BY <1>1, <1>3, AroundOfPlace
<1> QED
  BY <1>2, <1>3
(***************************************************************************)
(* The invariant: everything lies somewhere in the end, no bag is overfull, *)
(* an offer is as it was shown, and nobody was shown another one's offer.   *)
(***************************************************************************)
In(where, c) == {i \in Items : where[i] = c}

NoBagIsOverfull(where) == \A bag \in Bags : Cardinality(In(where, bag)) <= BagSize[bag]

NobodyElsesOffer == \A p, q \in Offering : p # q => tradeItem[q] \notin shown[p]

Offers ==
  /\ Grounded(loc)
  /\ NoBagIsOverfull(loc)
  /\ OfferIsWhatWasShown
  /\ NobodyElsesOffer

LEMMA ClosedAreCancelled ==
  ASSUME NEW P
  PROVE  P \subseteq Cancelled(P)
BY DEF Cancelled

(* An offer that is not closed stays if what lies in it and where it lies does. *)
LEMMA ClosingKeepsOffers ==
  ASSUME PartnersAgree, OfferIsWhatWasShown, NobodyElsesOffer,
         NEW P \in SUBSET Players, InternalCloseTrade(P), online' \subseteq online,
         \A r \in Offering \ Cancelled(P) : \A t \in Items :
           t = tradeItem[r] => Contents(t)' = Contents(t) /\ InReach(r, t)'
  PROVE  OfferIsWhatWasShown' /\ NobodyElsesOffer'
<1> DEFINE closed == Cancelled(P)
<1>1. /\ tradeItem' = [p \in Players |-> IF p \in closed THEN NoItem ELSE tradeItem[p]]
      /\ shown' = [p \in Players |-> IF p \in closed THEN {} ELSE shown[p]]
  BY DEF InternalCloseTrade
<1> HIDE DEF closed
<1>3. online \subseteq Players /\ tradeItem \in [Players -> Items \cup {NoItem}]
  BY DEF PartnersAgree, TypeOK
<1>4. ASSUME NEW r \in Offering'
      PROVE  /\ r \in Offering \ closed
             /\ tradeItem[r] \in Items
             /\ tradeItem'[r] = tradeItem[r]
             /\ shown'[r] = shown[r]
  <2>1. r \in online /\ tradeItem'[r] # NoItem /\ r \in Players
    BY <1>3 DEF Offering
  <2>2. r \notin closed
    BY <1>1, <2>1
  <2>3. tradeItem'[r] = tradeItem[r] /\ shown'[r] = shown[r]
    BY <1>1, <2>1, <2>2
  <2> QED
    BY <1>3, <2>1, <2>2, <2>3 DEF Offering
<1>5. ASSUME NEW r \in Offering'
      PROVE  Contents(tradeItem[r])' = shown'[r] /\ InReach(r, tradeItem[r])'
  <2>1. PICK t \in Items : t = tradeItem[r] /\ t = tradeItem'[r]
    BY <1>4
  <2>2. Contents(t) = shown[r]
    BY <1>4, <2>1 DEF OfferIsWhatWasShown
  <2>3. Contents(t)' = Contents(t) /\ InReach(r, t)'
    BY <1>4, <2>1 DEF closed
  <2>4. Contents(tradeItem[r])' = Contents(t)'
    BY <2>1 DEF Contents, IsHolding
  <2>5. InReach(r, tradeItem[r])' = InReach(r, t)'
    BY <2>1 DEF InReach, TileOf
  <2> QED
    BY <1>4, <2>2, <2>3, <2>4, <2>5
<1>6. OfferIsWhatWasShown'
  BY <1>5 DEF OfferIsWhatWasShown
<1>7. NobodyElsesOffer'
  BY <1>4 DEF NobodyElsesOffer
<1> QED
  BY <1>6, <1>7

(* Nothing moves, and nobody who stays in the game. *)
LEMMA StillOffers ==
  ASSUME PartnersAgree, Offers, NEW P \in SUBSET Players, InternalCloseTrade(P),
         online' \subseteq online, UNCHANGED <<loc, place>>
  PROVE  Offers'
<1>1. \A t : Contents(t)' = Contents(t)
  BY DEF Contents, IsHolding
<1>2. \A r, t : InReach(r, t)' = InReach(r, t)
  BY DEF InReach, TileOf
<1>3. \A r \in Offering : InReach(r, tradeItem[r])
  BY DEF Offers, OfferIsWhatWasShown
<1>4. OfferIsWhatWasShown' /\ NobodyElsesOffer'
  BY <1>1, <1>2, <1>3, ClosingKeepsOffers DEF Offers
<1>5. Grounded(loc') /\ NoBagIsOverfull(loc')
  BY DEF Offers
<1> QED
  BY <1>4, <1>5 DEF Offers

(* Somebody is at another tile. *)
LEMMA ReachAfterStep ==
  ASSUME TypeOK, Grounded(loc), UNCHANGED loc, NEW p \in Players, NEW u \in Tiles,
         place' = [place EXCEPT ![p] = u],
         NEW r \in Players, NEW t \in Items, InReach(r, t),
         r = p => (p \notin Around(loc, t) => Apart(TileOf(t), u) <= 1)
  PROVE  InReach(r, t)'
<1> USE TradeAssumption
<1>1. Placed(loc)
  BY DEF TypeOK, Placed
<1>2. CASE r \in Around(loc, t)
  BY <1>2 DEF InReach
<1>3. CASE r \notin Around(loc, t)
  <2>1. Around(loc, t) \cap (Players \cup {Gone}) = {} /\ Apart(TileOf(t), place[r]) <= 1
    BY <1>3 DEF InReach
  <2>2. PICK e \in Around(loc, t) \ Items : TRUE
    BY DEF Grounded
  <2>3. e \notin Players /\ TileOf(t) = e
    BY <1>1, <2>1, <2>2, TileOfEnd
  <2>4. (CHOOSE y \in Around(loc', t) : y \notin Items) = e /\ t \notin Players
    BY <1>1, <2>2, OneEnd
  <2>5. TileOf(t)' = e
    BY <2>3, <2>4 DEF TileOf
  <2>6. Apart(e, place'[r]) <= 1
    <3>1. place'[r] = IF r = p THEN u ELSE place[r]
      BY DEF TypeOK
    <3> QED
      BY <1>3, <2>1, <2>3, <3>1
  <2>7. Apart(TileOf(t), place[r])' <= 1
    BY <2>5, <2>6 DEF Apart
  <2> QED
    BY <2>1, <2>7 DEF InReach
<1> QED
  BY <1>2, <1>3

LEMMA WalkKeepsOffers ==
  ASSUME PartnersAgree, Offers, NEW p \in Players, NEW u \in Tiles, Walk(p, u)
  PROVE  Offers'
<1> DEFINE P == IF StaysInTrade(p, u) THEN {} ELSE {p}
<1>1. P \in SUBSET Players /\ InternalCloseTrade(P)
  BY DEF Walk
<1>2. UNCHANGED <<loc, online>> /\ place' = [place EXCEPT ![p] = u]
  BY DEF Walk
<1>3. \A t : Contents(t)' = Contents(t)
  BY <1>2 DEF Contents, IsHolding
<1>4. ASSUME NEW r \in Offering \ P
      PROVE  \A t \in Items : t = tradeItem[r] => InReach(r, t)'
  <2>1. r \in Players /\ tradeItem[r] # NoItem
    BY DEF Offering, PartnersAgree, TypeOK
  <2>2. InReach(r, tradeItem[r])
    BY DEF Offers, OfferIsWhatWasShown
  <2>3. r = p => (p \notin Around(loc, tradeItem[p]) => Apart(TileOf(tradeItem[p]), u) <= 1)
    BY <1>4, <2>1 DEF StaysInTrade
  <2>4. TypeOK /\ Grounded(loc)
    BY DEF Offers, PartnersAgree
  <2>5. ASSUME NEW t \in Items, t = tradeItem[r]
        PROVE  InReach(r, t)'
    <3>1. InReach(r, t)
      BY <2>2, <2>5
    <3>2. r = p => (p \notin Around(loc, t) => Apart(TileOf(t), u) <= 1)
      BY <2>3, <2>5
    <3> QED
      BY <1>2, <2>1, <2>4, <3>1, <3>2, ReachAfterStep
  <2> QED
    BY <2>5
<1> HIDE DEF P
<1>5. OfferIsWhatWasShown' /\ NobodyElsesOffer'
  BY <1>1, <1>2, <1>3, <1>4, ClosedAreCancelled, ClosingKeepsOffers DEF Offers
<1>6. Grounded(loc') /\ NoBagIsOverfull(loc')
  BY <1>2 DEF Offers
<1> QED
  BY <1>5, <1>6 DEF Offers

(* Who comes in has nothing on offer. *)
LEMMA LoginKeepsOffers ==
  ASSUME PartnersAgree, Registered, Offers, NEW p \in Players, NEW u \in Tiles, Login(p, u)
  PROVE  Offers'
<1>1. /\ p \notin online /\ online' = online \cup {p}
      /\ place' = [place EXCEPT ![p] = u]
      /\ UNCHANGED <<loc, tradeItem, shown>>
  BY DEF Login, tradeVars
<1>2. tradeItem[p] = NoItem
  BY <1>1 DEF PartnersAgree, Registered
<1>3. Offering' = Offering
  BY <1>1, <1>2 DEF Offering
<1>4. \A t : Contents(t)' = Contents(t)
  BY <1>1 DEF Contents, IsHolding
<1>5. ASSUME NEW r \in Offering
      PROVE  Contents(tradeItem[r])' = shown'[r] /\ InReach(r, tradeItem[r])'
  <2>1. PICK t \in Items : t = tradeItem[r] /\ t = tradeItem'[r]
    BY <1>1 DEF Offering, PartnersAgree, TypeOK
  <2>2. r \in Players /\ r # p
    BY <1>1 DEF Offering, PartnersAgree, TypeOK
  <2>3. InReach(r, t)'
    <3>1. TypeOK /\ Grounded(loc)
      BY DEF Offers, PartnersAgree
    <3>2. InReach(r, t)
      BY <2>1 DEF Offers, OfferIsWhatWasShown
    <3> QED
      BY <1>1, <2>2, <3>1, <3>2, ReachAfterStep
  <2>4. Contents(t)' = shown'[r]
    BY <1>1, <1>4, <2>1 DEF Offers, OfferIsWhatWasShown
  <2>5. Contents(tradeItem[r])' = Contents(t)'
    BY <2>1 DEF Contents, IsHolding
  <2>6. InReach(r, tradeItem[r])' = InReach(r, t)'
    BY <2>1 DEF InReach, TileOf
  <2> QED
    BY <2>3, <2>4, <2>5, <2>6
<1>6. OfferIsWhatWasShown'
  BY <1>3, <1>5 DEF OfferIsWhatWasShown
<1>7. NobodyElsesOffer'
  BY <1>1, <1>3 DEF Offers, NobodyElsesOffer
<1>8. Grounded(loc') /\ NoBagIsOverfull(loc')
  BY <1>1 DEF Offers
<1> QED
  BY <1>6, <1>7, <1>8 DEF Offers

LEMMA UntouchedOffer ==
  ASSUME Placed(loc), Grounded(loc), Placed(loc'), place' = place,
         NEW r \in Players, NEW t \in Items, InReach(r, t),
         Around(loc', t) = Around(loc, t),
         \A x : t \in Around(loc', x) <=> t \in Around(loc, x)
  PROVE  Contents(t)' = Contents(t) /\ InReach(r, t)'
<1>1. Contents(t)' = Contents(t)
  BY DEF Contents, IsHolding
<1>2. PICK e \in Around(loc, t) \ Items : TRUE
  BY DEF Grounded
<1>3. (CHOOSE y \in Around(loc', t) : y \notin Items) = e /\ t \notin Players
  BY <1>2, OneEnd, TradeAssumption
<1>4. TileOf(t)' = IF e \in Players THEN place[e] ELSE e
  BY <1>3 DEF TileOf
<1>5. TileOf(t) = IF e \in Players THEN place[e] ELSE e
  BY <1>2, TileOfEnd
<1>6. Apart(TileOf(t), place[r])' = Apart(TileOf(t), place[r])
  BY <1>4, <1>5 DEF Apart
<1>7. InReach(r, t)'
  BY <1>6 DEF InReach
<1> QED
  BY <1>1, <1>7

LEMMA RoomIsKept ==
  ASSUME NEW where, Placed(where), NoBagIsOverfull(where), NEW k \in Items, NEW d,
         d \in Bags => HasRoom(where, d)
  PROVE  NoBagIsOverfull(Moved(where, k, d))
<1> USE TradeAssumption
<1> DEFINE after == Moved(where, k, d)
<1>1. \A i \in Items : after[i] = IF i = k THEN d ELSE where[i]
  BY DEF Moved, Placed
<1> HIDE DEF after
<1>2. ASSUME NEW bag \in Bags
      PROVE  Cardinality(In(after, bag)) <= BagSize[bag]
  <2>1. IsFiniteSet(In(where, bag)) /\ Cardinality(In(where, bag)) \in Nat
    BY FS_Subset, FS_CardinalityType DEF In
  <2>2. Cardinality(In(where, bag)) <= BagSize[bag]
    BY DEF NoBagIsOverfull
  <2>3. CASE bag = d
    <3>1. Cardinality(In(where, bag)) < BagSize[bag]
      BY <2>3 DEF HasRoom, In
    <3>2. In(after, bag) \subseteq In(where, bag) \cup {k}
      BY <1>1 DEF In
    <3>3. /\ IsFiniteSet(In(where, bag) \cup {k})
          /\ \/ Cardinality(In(where, bag) \cup {k}) = Cardinality(In(where, bag))
             \/ Cardinality(In(where, bag) \cup {k}) = Cardinality(In(where, bag)) + 1
      BY <2>1, FS_AddElement
    <3>4. Cardinality(In(after, bag)) <= Cardinality(In(where, bag) \cup {k})
      BY <3>2, <3>3, FS_Subset
    <3>5. Cardinality(In(where, bag) \cup {k}) \in Nat /\ Cardinality(In(after, bag)) \in Nat
      BY <3>2, <3>3, FS_Subset, FS_CardinalityType
    <3> QED
      BY <2>1, <3>1, <3>3, <3>4, <3>5
  <2>4. CASE bag # d
    <3>1. In(after, bag) \subseteq In(where, bag)
      BY <1>1, <2>4 DEF In
    <3>2. Cardinality(In(after, bag)) <= Cardinality(In(where, bag)) /\ Cardinality(In(after, bag)) \in Nat
      BY <2>1, <3>1, FS_Subset, FS_CardinalityType
    <3> QED
      BY <2>1, <2>2, <3>2
  <2> QED
    BY <2>3, <2>4
<1> QED
  BY <1>2 DEF NoBagIsOverfull, after

(* A single move, by hand, noticed by everyone it concerns. *)
LEMMA NoticedMoveKeepsOffers ==
  ASSUME PartnersAgree, Offers, NEW i \in Items, NEW d,
         loc' = Moved(loc, i, d), Placed(loc'), i \notin Around(loc, d),
         d \in Bags => HasRoom(loc, d),
         NEW P \in SUBSET Players, InternalCloseTrade(P), UNCHANGED <<place, online>>,
         OnRemoved(i) \subseteq Cancelled(P),
         \A r \in Offering \ Cancelled(P) : tradeItem[r] \notin Around(loc, d)
  PROVE  Offers'
<1>1. Placed(loc) /\ TypeOK /\ Grounded(loc) /\ NoBagIsOverfull(loc)
  BY DEF PartnersAgree, TypeOK, Placed, Offers
<1>2. Grounded(loc')
  BY <1>1, MoveKeepsGround
<1>3. NoBagIsOverfull(loc')
  BY <1>1, RoomIsKept
<1>4. ASSUME NEW r \in Offering \ Cancelled(P), NEW t \in Items, t = tradeItem[r]
      PROVE  Contents(t)' = Contents(t) /\ InReach(r, t)'
  <2>1. InReach(r, t) /\ r \in Players /\ r \notin OnRemoved(i)
    BY <1>1, <1>4 DEF Offers, OfferIsWhatWasShown, Offering, TypeOK
  <2>2. i \notin Around(loc, t) /\ t \notin Around(loc, loc[i])
    BY <1>1, <1>4, <2>1, RemovalIsNoticed
  <2>3. t \notin Around(loc, d)
    BY <1>4
  <2>4. /\ Around(loc', t) = Around(loc, t)
        /\ \A x : t \in Around(loc', x) <=> t \in Around(loc, x)
    BY <1>1, <2>2, <2>3, MoveKeepsContents
  <2> QED
    BY <1>1, <2>1, <2>4, UntouchedOffer
<1>5. OfferIsWhatWasShown' /\ NobodyElsesOffer'
  BY <1>4, ClosingKeepsOffers DEF Offers
<1> QED
  BY <1>2, <1>3, <1>5 DEF Offers

LEMMA MoveItemKeepsOffers ==
  ASSUME PartnersAgree, Offers, NEW p \in Players, NEW i \in Items,
         NEW c \in Tiles \cup {p} \cup Bags, MoveItem(p, i, c)
  PROVE  Offers'
<1> USE TradeAssumption
<1> DEFINE P == OnRemoved(i) \cup OnAdded(i, c)
<1>1. /\ loc' = Moved(loc, i, c) /\ i \notin Around(loc, c) /\ HasRoom(loc, c)
      /\ InternalCloseTrade(P) /\ UNCHANGED <<place, online>>
  BY DEF MoveItem, Moved
<1>2. Placed(loc')
  BY <1>1, MovePlaces DEF PartnersAgree, TypeOK, Placed, Moved
<1>3. P \in SUBSET Players
  BY ClosedArePlayers
<1>4. ASSUME NEW r \in Offering \ P
      PROVE  tradeItem[r] \notin Around(loc, c)
  <2>1. InReach(r, tradeItem[r]) /\ TypeOK /\ Grounded(loc)
    BY DEF Offers, OfferIsWhatWasShown, PartnersAgree
  <2> QED
    BY <2>1, AdditionIsNoticed
<1> HIDE DEF P
<1>5. OnRemoved(i) \subseteq P
  BY DEF P
<1> QED
  BY <1>1, <1>2, <1>3, <1>4, <1>5, NoticedMoveKeepsOffers, ClosedAreCancelled

LEMMA MergeItemKeepsOffers ==
  ASSUME PartnersAgree, Offers, NEW p \in Players, NEW i \in Items, NEW j \in Items,
         MergeItem(p, i, j)
  PROVE  Offers'
<1> DEFINE P == OnRemoved(i) \cup OnUpdated(j)
<1> USE TradeAssumption
<1>1. /\ loc' = Moved(loc, i, Gone) /\ i \in Stacks
      /\ InternalCloseTrade(P) /\ UNCHANGED <<place, online>>
  BY DEF MergeItem, Moved
<1>2. Placed(loc')
  BY <1>1 DEF PartnersAgree, TypeOK, Placed, Moved
<1>3. P \in SUBSET Players
  BY ClosedArePlayers
<1>4. Around(loc, Gone) = {Gone} /\ Gone \notin Bags
  BY AroundOfPlace
<1>5. \A r \in Offering : tradeItem[r] # Gone
  BY DEF Offering, PartnersAgree, TypeOK
<1>6. OnRemoved(i) \subseteq P
  OBVIOUS
<1> HIDE DEF P
<1> QED
  BY <1>1, <1>2, <1>3, <1>4, <1>5, <1>6, NoticedMoveKeepsOffers, ClosedAreCancelled

(* A new offer is none of the others, holds none of them and lies in none. *)
LEMMA RequestKeepsOffers ==
  ASSUME PartnersAgree, Registered, Offers,
         NEW p \in Players, NEW q \in Players, NEW i \in Items, PlayerRequestTrade(p, q, i)
  PROVE  Offers'
<1> USE TradeAssumption
<1>1. /\ p \in online /\ InReach(p, i) /\ FreeToOffer(i)
      /\ UNCHANGED <<loc, place, online>>
      /\ tradeItem' = [tradeItem EXCEPT ![p] = i]
      /\ shown' = [shown EXCEPT ![p] = Contents(i)]
  BY DEF PlayerRequestTrade, InternalStartTrade
<1>2. /\ tradeItem'[p] = i /\ shown'[p] = Contents(i)
      /\ \A r \in Players \ {p} : tradeItem'[r] = tradeItem[r] /\ shown'[r] = shown[r]
  BY <1>1 DEF PartnersAgree, TypeOK
<1>3. Offering' = Offering \cup {p} /\ Offering \subseteq Players
  BY <1>1, <1>2 DEF Offering, PartnersAgree, TypeOK
<1>4. ASSUME NEW r \in Offering, r # p
      PROVE  tradeItem[r] \in tradeItems /\ tradeItem[r] \in Items
  BY <1>3 DEF Registered, OffersAreRegistered, Offering, PartnersAgree, TypeOK
<1>5. \A t : Contents(t)' = Contents(t)
  BY <1>1 DEF Contents, IsHolding
<1>6. \A r, t : InReach(r, t)' = InReach(r, t)
  BY <1>1 DEF InReach, TileOf
<1>7. ASSUME NEW r \in Offering'
      PROVE  Contents(tradeItem[r])' = shown'[r] /\ InReach(r, tradeItem[r])'
  <2>1. PICK t \in Items : t = tradeItem'[r]
    BY <1>2, <1>3, <1>4
  <2>2. Contents(t) = shown'[r] /\ InReach(r, t)
    BY <1>1, <1>2, <1>3, <2>1 DEF Offers, OfferIsWhatWasShown
  <2>3. Contents(tradeItem[r])' = Contents(t)'
    BY <2>1 DEF Contents, IsHolding
  <2>4. InReach(r, tradeItem[r])' = InReach(r, t)'
    BY <2>1 DEF InReach, TileOf
  <2> QED
    BY <1>5, <1>6, <2>2, <2>3, <2>4
<1>8. ASSUME NEW r \in Offering', NEW s \in Offering', r # s
      PROVE  tradeItem'[s] \notin shown'[r]
  <2>1. CASE r = p
    <3>1. tradeItem'[s] \in tradeItems
      BY <1>2, <1>3, <1>4, <1>8, <2>1
    <3> QED
      BY <1>1, <1>2, <2>1, <3>1 DEF FreeToOffer, Contents
  <2>2. CASE s = p
    <3>1. tradeItem[r] \in tradeItems /\ shown'[r] = shown[r]
      BY <1>2, <1>3, <1>4, <1>8, <2>2
    <3>2. shown[r] = Contents(tradeItem[r])
      BY <1>3, <1>8, <2>2 DEF Offers, OfferIsWhatWasShown
    <3> QED
      BY <1>1, <1>2, <2>2, <3>1, <3>2 DEF FreeToOffer, Contents
  <2>3. CASE r # p /\ s # p
    BY <1>2, <1>3, <1>8, <2>3 DEF Offers, NobodyElsesOffer
  <2> QED
    BY <2>1, <2>2, <2>3
<1>9. OfferIsWhatWasShown' /\ NobodyElsesOffer'
  BY <1>7, <1>8 DEF OfferIsWhatWasShown, NobodyElsesOffer
<1> QED
  BY <1>1, <1>9 DEF Offers

LEMMA RoomByOthersMove ==
  ASSUME NEW where, Placed(where), NEW k \in Items, NEW c, NEW x \in Players \cup Bags,
         x # c, HasRoom(where, x)
  PROVE  HasRoom(Moved(where, k, c), x)
<1> USE TradeAssumption
<1> DEFINE after == Moved(where, k, c)
<1>1. In(after, x) \subseteq In(where, x)
  BY DEF Moved, Placed, In
<1>2. IsFiniteSet(In(where, x)) /\ Cardinality(In(where, x)) \in Nat
  BY FS_Subset, FS_CardinalityType DEF In
<1>3. Cardinality(In(after, x)) <= Cardinality(In(where, x)) /\ Cardinality(In(after, x)) \in Nat
  BY <1>1, <1>2, FS_Subset, FS_CardinalityType
<1>4. x \notin Tiles
  OBVIOUS
<1> HIDE DEF after
<1>5. CASE x \in Players
  <2>1. Cardinality(In(where, x)) < Slots
    BY <1>4, <1>5 DEF HasRoom, In
  <2>2. Cardinality(In(after, x)) < Slots
    BY <1>2, <1>3, <2>1
  <2> QED
    BY <1>5, <2>2 DEF HasRoom, In, after
<1>6. CASE x \in Bags
  <2>1. Cardinality(In(where, x)) < BagSize[x] /\ BagSize[x] \in Nat
    BY <1>4, <1>6 DEF HasRoom, In
  <2>2. Cardinality(In(after, x)) < BagSize[x]
    BY <1>2, <1>3, <2>1
  <2> QED
    BY <1>6, <2>2 DEF HasRoom, In, after
<1> QED
  BY <1>5, <1>6

LEMMA RoomOfTheMoved ==
  ASSUME NEW where, Placed(where), NoBagIsOverfull(where), NEW k \in Items, NEW c,
         where[k] \in Bags, where[k] # c
  PROVE  HasRoom(Moved(where, k, c), where[k])
<1> USE TradeAssumption
<1> DEFINE after == Moved(where, k, c)
           bag == where[k]
<1>1. In(after, bag) = In(where, bag) \ {k} /\ k \in In(where, bag)
  BY DEF Moved, Placed, In
<1>2. IsFiniteSet(In(where, bag)) /\ Cardinality(In(where, bag)) \in Nat
  BY FS_Subset, FS_CardinalityType DEF In
<1>3. Cardinality(In(where, bag)) <= BagSize[bag] /\ bag \in Bags
  BY DEF NoBagIsOverfull
<1> HIDE DEF after, bag
<1>4. Cardinality(In(where, bag) \ {k}) = Cardinality(In(where, bag)) - 1
  BY <1>1, <1>2, FS_RemoveElement
<1>5. Cardinality(In(after, bag)) < BagSize[bag]
  BY <1>1, <1>2, <1>4, <1>3
<1>6. HasRoom(after, bag)
  BY <1>3, <1>5 DEF HasRoom, In
<1> QED
  BY <1>6 DEF after, bag

(***************************************************************************)
(* The exchange: two moves, of which the second may fail.                   *)
(***************************************************************************)
LEMMA PlacesAreOwned ==
  ASSUME NEW where, Placed(where), NEW q \in Players, NEW i \in Items,
         NEW c \in PlacesFor(where, q, i, FALSE)
  PROVE  /\ c \in {q} \cup Bags
         /\ q \in Around(where, c) /\ i \notin Around(where, c)
         /\ c \in Bags => HasRoom(where, c)
<1>1. Around(where, q) = {q} /\ i # q /\ q \notin Bags
  BY AroundOfPlace, TradeAssumption
<1>2. CASE HasRoom(where, q)
  BY <1>1, <1>2 DEF PlacesFor
<1>3. CASE ~HasRoom(where, q)
  BY <1>3 DEF PlacesFor, FreePlace
<1> QED
  BY <1>2, <1>3

(* The first item is put into c or, a stack, joins another and is gone. *)
LEMMA FirstMove ==
  ASSUME TypeOK, Grounded(loc), NEW q \in Players, NEW first \in Items, NEW second, NEW c, NEW a,
         FirstMoves(q, first, second, c, a), NEW e \in {c, Gone}, e = Gone => first \in Stacks
  PROVE  /\ e \in Players \cup Bags \cup {Gone} /\ first \notin Around(loc, e)
         /\ e \in Bags => HasRoom(loc, e)
         /\ Placed(Moved(loc, first, e)) /\ Grounded(Moved(loc, first, e))
<1> USE TradeAssumption
<1>1. Placed(loc)
  BY DEF TypeOK, Placed
<1>2. /\ c \in {q} \cup Bags /\ first \notin Around(loc, c)
      /\ c \in Bags => HasRoom(loc, c)
  BY <1>1, PlacesAreOwned DEF FirstMoves
<1>3. Around(loc, Gone) = {Gone}
  BY AroundOfPlace
<1>4. /\ e \in Players \cup Bags \cup {Gone} /\ first \notin Around(loc, e)
      /\ e \in Bags => HasRoom(loc, e)
  BY <1>2, <1>3
<1>5. Placed(Moved(loc, first, e))
  BY <1>1, <1>4, MovePlaces DEF Moved
<1>6. Grounded(Moved(loc, first, e))
  BY <1>1, <1>4, <1>5, MoveKeepsGround
<1> QED
  BY <1>4, <1>5, <1>6

(* The first item is in e when the second one has found the place d. *)
FindsPlace(p, q, first, second, c, a, e, d) ==
  /\ FirstMoves(q, first, second, c, a)
  /\ e \in {c, Gone} /\ (e = Gone => first \in Stacks)
  /\ d \in PlacesFor(Moved(loc, first, c), p, second, FALSE)

(* The place found for the second item, after the first one was put into c, is *)
(* p's, and as good when the first one has joined another instead.             *)
LEMMA SecondMove ==
  ASSUME TypeOK, Grounded(loc), NEW p \in Players, NEW q \in Players \ {p},
         NEW first \in Items, NEW second \in Items, first # second, NEW c, NEW a, NEW e, NEW d,
         FindsPlace(p, q, first, second, c, a, e, d)
  PROVE  /\ d \in {p} \cup Bags
         /\ \A j \in Items : Moved(loc, first, c)[j] = d => Moved(loc, first, e)[j] = d
         /\ p \in Around(Moved(loc, first, e), d) /\ second \notin Around(Moved(loc, first, e), d)
         /\ d \in Bags => HasRoom(Moved(loc, first, e), d)
<1> USE TradeAssumption
<1> USE DEF FindsPlace
<1> DEFINE between == Moved(loc, first, c)
           middle == Moved(loc, first, e)
<1>1. Placed(loc)
  BY DEF TypeOK, Placed
<1>2. Placed(between) /\ Placed(middle)
  <2>1. c \in {q} \cup Bags
    BY <1>1, PlacesAreOwned DEF FirstMoves
  <2>2. c # Gone
    BY <2>1
  <2>3. Placed(between)
    BY <2>2, FirstMove
  <2> QED
    BY <2>3, FirstMove
<1>3. /\ c \in {q} \cup Bags /\ q \in Around(loc, c) /\ first \notin Around(loc, c)
  BY <1>1, PlacesAreOwned DEF FirstMoves
<1>4. /\ d \in {p} \cup Bags
      /\ p \in Around(between, d) /\ second \notin Around(between, d)
      /\ d \in Bags => HasRoom(between, d)
  BY <1>2, PlacesAreOwned
<1>5. Around(between, c) = Around(loc, c)
  BY <1>1, <1>3, AroundStays
<1> HIDE DEF between
<1>6. d # c
  BY <1>2, <1>3, <1>4, <1>5, OneEnd
<1>7. CASE e = c
  BY <1>4, <1>7 DEF between
<1>8. CASE e = Gone /\ e # c
  <2>1. middle = Moved(between, first, Gone)
    BY <1>1, <1>8 DEF between, Moved, Placed
  <2>2. first \notin Around(between, d)
    <3>1. first \in Stacks /\ first \notin Players \cup Bags \cup Tiles \cup {Gone}
      BY <1>8
    <3> QED
      BY <1>2, <1>4, <3>1, AroundIsTyped
  <2>3. Around(middle, d) = Around(between, d)
    BY <1>2, <2>1, <2>2, AroundStays
  <2>4. d \in Bags => HasRoom(middle, d)
    BY <1>2, <1>4, <2>1, RoomByOthersMove
  <2>5. \A j \in Items : between[j] = d => middle[j] = d
    BY <1>1, <1>6 DEF between, Moved, Placed
  <2> QED
    BY <1>4, <2>3, <2>4, <2>5 DEF between
<1> QED
  BY <1>7, <1>8

(* Whoever is told of neither move offers nothing that one of them touches. *)
LEMMA MoveIsTold ==
  ASSUME TypeOK, Grounded(loc), NEW r \in Offering, InReach(r, tradeItem[r]),
         NEW i \in Items, NEW c \in Players \cup Bags, NEW j, r \notin Told(i, c, j),
         NEW e \in {c, Gone}, e = c => j = NoItem \/ (j \in Items /\ c \in Bags /\ loc[j] = c)
  PROVE  /\ i \notin Around(loc, tradeItem[r])
         /\ tradeItem[r] \notin Around(loc, loc[i])
         /\ tradeItem[r] \notin Around(loc, e)
<1> USE TradeAssumption
<1>1. Placed(loc) /\ tradeItem[r] \in Items /\ r \in Players
  BY DEF TypeOK, Placed, Offering
<1>2. r \notin OnRemoved(i)
  BY DEF Told
<1>3. i \notin Around(loc, tradeItem[r]) /\ tradeItem[r] \notin Around(loc, loc[i])
  BY <1>2, RemovalIsNoticed
<1>4. CASE e = Gone
  BY <1>1, <1>3, <1>4, AroundOfPlace
<1>5. CASE e = c /\ j = NoItem
  <2>1. r \notin OnAdded(i, c)
    BY <1>5 DEF Told
  <2> QED
    BY <1>3, <1>5, <2>1, AdditionIsNoticed
<1>6. CASE e = c /\ j \in Items /\ c \in Bags /\ loc[j] = c
  <2>1. r \notin OnUpdated(j)
    BY <1>6 DEF Told
  <2>2. ASSUME tradeItem[r] \in Around(loc, c)
        PROVE  FALSE
    <3>1. Beside(c, r)
      BY <1>1, <1>6, <2>2, OfferIsBeside
    <3>2. tradeItem[r] \in Around(loc, j)
      BY <1>1, <1>6, <2>2, AroundByOne
    <3> QED
      BY <1>6, <2>1, <3>1, <3>2 DEF OnUpdated
  <2> QED
    BY <1>3, <1>6, <2>2
<1> QED
  BY <1>4, <1>5, <1>6

LEMMA ExchangeKeepsOffers ==
  ASSUME PartnersAgree, Registered, Offers, NEW p \in Players, Exchange(p)
  PROVE  Offers'
<1> USE TradeAssumption
<1>1. TypeOK /\ Placed(loc) /\ Grounded(loc) /\ NoBagIsOverfull(loc)
  BY DEF PartnersAgree, TypeOK, Placed, Offers
<1>2. PICK q \in Players \ {p}, first \in Items, second \in Items,
           c \in Players \cup Bags, a \in Items \cup {NoItem} :
        /\ q = tradePartner[p] /\ first = tradeItem[p] /\ second = tradeItem[q]
        /\ ExchangeMoves(p, q, first, second, c, a)
  BY ExchangeInMoves
<1>3. first # second
  BY <1>2 DEF Registered, OffersAreRegistered
<1>4. UNCHANGED <<place, online>>
  BY DEF Exchange
<1>5. /\ FirstMoves(q, first, second, c, a) /\ c \in {q} \cup Bags
      /\ \/ a = NoItem
         \/ first \in Stacks /\ a \in Stacks \ {first} /\ c \in Bags /\ loc[a] = c
  <2>1. FirstMoves(q, first, second, c, a)
    BY <1>2 DEF ExchangeMoves
  <2> QED
    BY <1>1, <2>1, PlacesAreOwned, JoinsAStack DEF FirstMoves
<1>6. ASSUME NEW r \in Offering, NEW t \in Items, t = tradeItem[r]
      PROVE  InReach(r, t) /\ InReach(r, tradeItem[r]) /\ r \in Players
  BY <1>1, <1>6 DEF Offers, OfferIsWhatWasShown, Offering, TypeOK
<1>7. CASE /\ SecondStays(p, first, second, c, a)
           /\ InternalCloseTrade({p} \cup (Told(first, c, a) \ {p, q}))
  <2> DEFINE P == {p} \cup (Told(first, c, a) \ {p, q})
             e == EndOf(c, a)
  <2>1. P \in SUBSET Players
    BY ToldArePlayers
  <2>2. Told(first, c, a) \subseteq Cancelled(P)
    BY <1>2 DEF Cancelled
  <2>3. e \in {c, Gone} /\ (e = Gone => first \in Stacks) /\ (e = c => a = NoItem)
    BY <1>5 DEF EndOf
  <2>4. loc' = Moved(loc, first, e) /\ InternalCloseTrade(P)
    BY <1>7 DEF SecondStays
  <2> HIDE DEF P, e
  <2>5. /\ first \notin Around(loc, e)
        /\ e \in Bags => HasRoom(loc, e)
        /\ Placed(loc')
    BY <1>1, <1>5, <2>3, <2>4, FirstMove
  <2>6. OnRemoved(first) \subseteq Cancelled(P)
    BY <2>2 DEF Told
  <2>7. ASSUME NEW r \in Offering \ Cancelled(P)
        PROVE  tradeItem[r] \notin Around(loc, e)
    <3>1. r \in Offering /\ r \notin Told(first, c, a) /\ InReach(r, tradeItem[r])
      BY <2>2, <2>7 DEF Offers, OfferIsWhatWasShown
    <3>2. c \in Players \cup Bags /\ (e = c => a = NoItem \/ (a \in Items /\ c \in Bags /\ loc[a] = c))
      BY <1>5, <2>3
    <3> QED
      BY <1>1, <2>3, <3>1, <3>2, MoveIsTold
  <2> QED
    BY <1>4, <2>1, <2>4, <2>5, <2>6, <2>7, NoticedMoveKeepsOffers
<1>8. ASSUME NEW d, NEW b, SecondMoves(p, first, second, c, a, d, b),
             InternalCloseTrade({p} \cup ((Told(first, c, a) \cup Told(second, d, b)) \ {p, q}))
      PROVE  Offers'
  <2> DEFINE P == {p} \cup ((Told(first, c, a) \cup Told(second, d, b)) \ {p, q})
             other == IF a = second THEN NoItem ELSE a
             e == EndOf(c, other)
             f == EndOf(d, b)
             middle == Moved(loc, first, e)
  <2>1. P \in SUBSET Players
    BY ToldArePlayers
  <2>2. Told(first, c, a) \cup Told(second, d, b) \subseteq Cancelled(P)
    BY <1>2 DEF Cancelled
  <2>3. /\ e \in {c, Gone} /\ (e = Gone => first \in Stacks)
        /\ e = c => a = NoItem \/ (a \in Items /\ c \in Bags /\ loc[a] = c)
    BY <1>5 DEF EndOf
  <2>4. /\ d \in PlacesFor(Moved(loc, first, c), p, second, FALSE)
        /\ b \in Onto(Moved(loc, first, c), second, d)
        /\ loc' = Moved(middle, second, f)
    BY <1>8 DEF SecondMoves
  <2>5. /\ f \in {d, Gone} /\ (f = Gone => second \in Stacks)
        /\ f = d => b = NoItem
    <3>1. b = NoItem \/ second \in Stacks
      BY <2>4, JoinsAStack
    <3>2. d \in {p} \cup Bags
      BY <2>4, PlacesAreOwnerOrBags
    <3> QED
      BY <3>1, <3>2 DEF EndOf
  <2> HIDE DEF P, e, f, other
  <2>6. /\ first \notin Around(loc, e)
        /\ e \in Bags => HasRoom(loc, e)
        /\ e \in Players \cup Bags \cup {Gone}
        /\ Placed(middle) /\ Grounded(middle)
    BY <1>1, <1>5, <2>3, FirstMove
  <2>7. /\ d \in {p} \cup Bags /\ second \notin Around(middle, d)
        /\ d \in Bags => HasRoom(middle, d)
    <3>1. FindsPlace(p, q, first, second, c, a, e, d)
      BY <1>5, <2>3, <2>4 DEF FindsPlace
    <3> QED
      BY <1>1, <1>3, <3>1, SecondMove
  <2>8. middle[second] = loc[second]
    BY <1>1, <1>3 DEF Moved, Placed
  <2> HIDE DEF middle
  <2>9. second \notin Around(middle, f) /\ (f \in Bags => HasRoom(middle, f))
    BY <2>5, <2>7, AroundOfPlace
  <2>10. Placed(loc')
    BY <2>4, <2>5, <2>6, <2>7, MovePlaces DEF Moved
  <2>11. Grounded(loc')
    BY <2>4, <2>6, <2>9, <2>10, MoveKeepsGround
  <2>12. NoBagIsOverfull(loc')
    <3>1. NoBagIsOverfull(middle)
      BY <1>1, <2>6, RoomIsKept DEF middle
    <3> QED
      BY <2>4, <2>6, <2>9, <3>1, RoomIsKept
  <2>13. ASSUME NEW r \in Offering \ Cancelled(P), NEW t \in Items, t = tradeItem[r]
         PROVE  Contents(t)' = Contents(t) /\ InReach(r, t)'
    <3>1. r \notin Told(first, c, a) /\ r \notin Told(second, d, b) /\ r \in Offering
      BY <2>2, <2>13
    <3>2. InReach(r, t) /\ InReach(r, tradeItem[r]) /\ r \in Players
      BY <1>6, <2>13
    <3>3. first \notin Around(loc, t) /\ t \notin Around(loc, loc[first]) /\ t \notin Around(loc, e)
      BY <1>1, <1>5, <2>3, <2>13, <3>1, <3>2, MoveIsTold
    <3>4. second \notin Around(loc, t) /\ t \notin Around(loc, loc[second]) /\ t \notin Around(loc, f)
      BY <1>1, <2>5, <2>7, <2>13, <3>1, <3>2, MoveIsTold
    <3>5. /\ Around(middle, t) = Around(loc, t)
          /\ \A x : t \in Around(middle, x) <=> t \in Around(loc, x)
      BY <1>1, <2>6, <3>3, MoveKeepsContents DEF middle
    <3>6. /\ second \notin Around(middle, t)
          /\ t \notin Around(middle, middle[second]) /\ t \notin Around(middle, f)
      BY <2>8, <3>4, <3>5
    <3>7. /\ Around(loc', t) = Around(middle, t)
          /\ \A x : t \in Around(loc', x) <=> t \in Around(middle, x)
      BY <2>4, <2>6, <2>9, <2>10, <3>6, MoveKeepsContents
    <3>8. /\ Around(loc', t) = Around(loc, t)
          /\ \A x : t \in Around(loc', x) <=> t \in Around(loc, x)
      BY <3>5, <3>7
    <3> QED
      BY <1>1, <1>4, <2>10, <3>2, <3>8, UntouchedOffer
  <2>14. InternalCloseTrade(P)
    BY <1>8 DEF P
  <2>15. OfferIsWhatWasShown' /\ NobodyElsesOffer'
    BY <1>4, <2>1, <2>13, <2>14, ClosingKeepsOffers DEF Offers
  <2> QED
    BY <2>11, <2>12, <2>15 DEF Offers
<1> QED
  BY <1>2, <1>7, <1>8 DEF ExchangeMoves

(***************************************************************************)
(* The theorems about what is offered.                                     *)
(***************************************************************************)
LEMMA OffersAtFirst ==
  ASSUME Init
  PROVE  Offers
<1> USE TradeAssumption
<1>1. loc \in [Items -> Tiles] /\ online = {}
  BY DEF Init
<1>2. Placed(loc)
  BY <1>1 DEF Placed
<1>3. Grounded(loc)
  <2> SUFFICES ASSUME NEW i \in Items
               PROVE  Around(loc, i) \ Items # {}
    BY DEF Grounded
  <2>1. loc[i] \in Around(loc, i)
    BY <1>2, AroundByOne, AroundIsTyped
  <2> QED
    BY <1>1, <2>1
<1>4. NoBagIsOverfull(loc)
  <2> SUFFICES ASSUME NEW bag \in Bags
               PROVE  Cardinality(In(loc, bag)) <= BagSize[bag]
    BY DEF NoBagIsOverfull
  <2>1. In(loc, bag) = {}
    BY <1>1 DEF In
  <2> QED
    BY <2>1, FS_EmptySet
<1>5. Offering = {}
  BY <1>1 DEF Offering
<1> QED
  BY <1>3, <1>4, <1>5 DEF Offers, OfferIsWhatWasShown, NobodyElsesOffer

LEMMA AcceptKeepsOffers ==
  ASSUME Offers, NEW p \in Players, AcceptFirst(p)
  PROVE  Offers'
BY DEF AcceptFirst, Offers, OfferIsWhatWasShown, NobodyElsesOffer, Offering, Contents,
       IsHolding, InReach, TileOf

LEMMA ClosersKeepOffers ==
  ASSUME PartnersAgree, Offers, NEW p \in Players,
         Logout(p) \/ ExchangeRefused(p) \/ PlayerCloseTrade(p)
  PROVE  Offers'
<1>1. PICK P \in SUBSET Players : InternalCloseTrade(P)
  BY DEF Logout, ExchangeRefused, PlayerCloseTrade
<1>2. online' \subseteq online /\ UNCHANGED <<loc, place>>
  BY DEF Logout, ExchangeRefused, PlayerCloseTrade
<1> QED
  BY <1>1, <1>2, StillOffers

LEMMA OffersStay == Spec => []Offers
<1>1. Init => Offers
  BY OffersAtFirst
<1>2. PartnersAgree /\ Registered /\ Offers /\ [Next]_vars => Offers'
  <2> SUFFICES ASSUME PartnersAgree, Registered, Offers, [Next]_vars
               PROVE  Offers'
    OBVIOUS
  <2>1. CASE UNCHANGED vars
    BY <2>1 DEF vars, Offers, OfferIsWhatWasShown, NobodyElsesOffer, Offering, Contents,
                IsHolding, InReach, TileOf
  <2>2. CASE Next
    <3>1. PICK p \in Players :
            \/ Logout(p) \/ AcceptFirst(p) \/ Exchange(p) \/ ExchangeRefused(p) \/ PlayerCloseTrade(p)
            \/ \E t \in Tiles : Login(p, t) \/ Walk(p, t)
            \/ \E i \in Items :
                 \/ \E q \in Players : PlayerRequestTrade(p, q, i)
                 \/ \E c \in Tiles \cup {p} \cup Bags : MoveItem(p, i, c)
                 \/ \E j \in Items : MergeItem(p, i, j)
      BY <2>2 DEF Next
    <3>2. CASE Logout(p) \/ ExchangeRefused(p) \/ PlayerCloseTrade(p)
      BY <3>2, ClosersKeepOffers
    <3>3. CASE AcceptFirst(p)
      BY <3>3, AcceptKeepsOffers
    <3>4. CASE Exchange(p)
      BY <3>4, ExchangeKeepsOffers
    <3>5. CASE \E t \in Tiles : Login(p, t) \/ Walk(p, t)
      BY <3>5, LoginKeepsOffers, WalkKeepsOffers
    <3>6. CASE \E i \in Items, q \in Players : PlayerRequestTrade(p, q, i)
      BY <3>6, RequestKeepsOffers
    <3>7. CASE \E i \in Items, c \in Tiles \cup {p} \cup Bags : MoveItem(p, i, c)
      BY <3>7, MoveItemKeepsOffers
    <3>8. CASE \E i \in Items, j \in Items : MergeItem(p, i, j)
      BY <3>8, MergeItemKeepsOffers
    <3> QED
      BY <3>1, <3>2, <3>3, <3>4, <3>5, <3>6, <3>7, <3>8
  <2> QED
    BY <2>1, <2>2
<1> QED
  BY <1>1, <1>2, TradesHaveTwoSides, TradesStayRegistered, PTL DEF Spec

(* As long as an offer stands, what lies in the offered bag is what lay in it  *)
(* when it was offered, and its owner can take hold of it: whoever puts things *)
(* in or takes them out, or walks off with the bag, closes the trade           *)
(* (Player::checkTradeState and the onUpdate/onRemove/onAdd notifications).    *)
THEOREM OffersStayAsShown == Spec => []OfferIsWhatWasShown
<1>1. Offers => OfferIsWhatWasShown
  BY DEF Offers
<1> QED
  BY <1>1, OffersStay, PTL

(* Nothing is promised twice: no offered item is another one's, nor in it.     *)
LEMMA OffersAreApart ==
  ASSUME PartnersAgree, Registered, Offers
  PROVE  NothingIsOfferedTwice
<1>1. ASSUME NEW p \in Offering, NEW q \in Offering, p # q
      PROVE  ~IsHolding(tradeItem[p], tradeItem[q])
  <2>1. tradeItem[q] \in Items
    BY DEF Offering, PartnersAgree, TypeOK
  <2>2. Contents(tradeItem[p]) = shown[p] /\ tradeItem[q] \notin shown[p]
    BY <1>1 DEF Offers, OfferIsWhatWasShown, NobodyElsesOffer
  <2> QED
    BY <2>1, <2>2 DEF Contents
<1> QED
  BY <1>1 DEF Registered, NothingIsOfferedTwice

(* Nothing is promised twice: an item is in one offer at most, as the offered  *)
(* item or in the offered bag, whatever is put into bags or taken out of them  *)
(* after the offer (playerRequestTrade, game.cpp:4018-4034).                   *)
THEOREM NothingIsEverOfferedTwice == Spec => []NothingIsOfferedTwice
<1> QED
  BY OffersAreApart, OffersStay, TradesHaveTwoSides, TradesStayRegistered, PTL

(***************************************************************************)
(* The exchange is fair.                                                   *)
(***************************************************************************)
(* When there is no place for the second item after the first one has left,    *)
(* there was none before, in which it would not have joined another.           *)
LEMMA NoPlaceBefore ==
  ASSUME TypeOK, Grounded(loc), NoBagIsOverfull(loc),
         NEW p \in Players, NEW q \in Players \ {p},
         NEW first \in Items, NEW second \in Items, first = tradeItem[p],
         NEW c, q \in Around(loc, c),
         PlacesFor(Moved(loc, first, c), p, second, FALSE) = {}
  PROVE  ~HasRoom(Moved(loc, first, c), p) /\ PlacesFor(loc, p, second, TRUE) = {}
<1> USE TradeAssumption
<1> DEFINE between == Moved(loc, first, c)
<1>1. Placed(loc)
  BY DEF TypeOK, Placed
<1>2. ~HasRoom(between, p)
  BY DEF PlacesFor
<1>3. \A x : p \in Around(loc, x) => x # c
  BY <1>1, OneEnd
<1>4. Around(loc, p) = {p}
  BY AroundOfPlace
<1>5. ~HasRoom(loc, p)
  BY <1>1, <1>2, <1>3, <1>4, RoomByOthersMove
<1>6. \A x : first \notin Around(loc, x) => Around(between, x) = Around(loc, x)
  BY <1>1, AroundStays
<1>7. ASSUME NEW bag \in Bags, p \in Around(loc, bag), second \notin Around(loc, bag),
             first \notin Around(loc, bag), HasRoom(between, bag)
      PROVE  FALSE
  <2>1. ~PassedOver(between, p, second, bag, FALSE)
    BY <1>6, <1>7 DEF PassedOver
  <2>2. bag \in PlacesFor(between, p, second, FALSE)
    BY <1>2, <1>6, <1>7, <2>1 DEF PlacesFor, FreePlace
  <2> QED
    BY <2>2
<1>8. ASSUME NEW bag \in PlacesFor(loc, p, second, TRUE)
      PROVE  FALSE
  <2>1. /\ bag \in Bags /\ p \in Around(loc, bag) /\ second \notin Around(loc, bag)
        /\ FreePlace(loc, p, second, bag, TRUE) /\ ~PassedOver(loc, p, second, bag, TRUE)
    BY <1>5, <1>8 DEF PlacesFor
  <2>2. CASE first \notin Around(loc, bag)
    <3>1. bag # c /\ In(between, bag) = {j \in Items \ {tradeItem[p]} : loc[j] = bag}
      <4>1. bag # c
        BY <1>3, <2>1
      <4> QED
        BY <1>1, <4>1 DEF In, Moved, Placed
    <3> HIDE DEF between
    <3>2. HasRoom(between, bag)
      <4>1. CASE second \in Stacks
        <5>1. Cardinality(In(between, bag)) < BagSize[bag]
          BY <2>1, <3>1, <4>1 DEF FreePlace
        <5> QED
          BY <2>1, <5>1 DEF HasRoom, In
      <4>2. CASE second \notin Stacks
        <5>1. HasRoom(loc, bag)
          BY <2>1, <4>2 DEF FreePlace
        <5> QED
          BY <1>1, <2>1, <3>1, <5>1, RoomByOthersMove DEF between
      <4> QED
        BY <4>1, <4>2
    <3> QED
      BY <1>7, <2>1, <2>2, <3>2
  <2>3. CASE first \in Around(loc, bag)
    <3>1. loc[first] # p
      BY <2>1, <2>3 DEF PassedOver
    <3>2. loc[first] \in Around(loc, bag)
      BY <1>1, <2>3, AroundGoesUp
    <3>3. p \in Around(loc, loc[first])
      BY <1>1, <2>1, <3>2, EndIsReached
    <3>4. loc[first] \in Bags
      BY <1>1, <3>1, <3>3, AroundOfPlace DEF Placed
    <3>5. HasRoom(between, loc[first])
      BY <1>1, <1>3, <3>3, <3>4, RoomOfTheMoved
    <3>6. first \notin Around(loc, loc[first])
      BY <1>1, NoCycle
    <3>7. second \notin Around(loc, loc[first])
      BY <1>1, <2>1, <3>2, AroundIsTransitive
    <3> QED
      BY <1>7, <3>3, <3>4, <3>5, <3>6, <3>7
  <2> QED
    BY <2>2, <2>3
<1> QED
  BY <1>2, <1>8

(***************************************************************************)
(* What a stack is made of: no piece of it is in two stacks.                *)
(***************************************************************************)
PiecesApart(of) == \A i, j \in Items : i # j => of[i] \cap of[j] = {}

LEMMA JoinKeepsApart ==
  ASSUME NEW of \in [Items -> SUBSET Items], PiecesApart(of),
         NEW i \in Items, NEW j \in (Items \ {i}) \cup {NoItem}
  PROVE  PiecesApart(Join(of, i, j))
<1> DEFINE after == Join(of, i, j)
<1>1. CASE j = NoItem
  BY <1>1 DEF Join
<1>2. CASE j # NoItem
  <2>1. /\ after[j] = of[j] \cup of[i] /\ after[i] = {}
        /\ \A k \in Items \ {i, j} : after[k] = of[k]
    BY <1>2 DEF Join
  <2> HIDE DEF after
  <2>2. \A k, m \in Items : k # m => after[k] \cap after[m] = {}
    <3> SUFFICES ASSUME NEW k \in Items, NEW m \in Items, k # m
                 PROVE  after[k] \cap after[m] = {}
      OBVIOUS
    <3>1. of[k] \cap of[m] = {} /\ of[i] \cap of[j] = {}
      BY <1>2 DEF PiecesApart
    <3>2. k # i => of[k] \cap of[i] = {}
      BY DEF PiecesApart
    <3>3. m # i => of[m] \cap of[i] = {}
      BY DEF PiecesApart
    <3> QED
      BY <2>1, <3>1, <3>2, <3>3
  <2> QED
    BY <2>2 DEF PiecesApart, after
<1> QED
  BY <1>1, <1>2

LEMMA ExchangeKeepsPieces ==
  ASSUME PartnersAgree, PiecesApart(pieces), NEW p \in Players, Exchange(p)
  PROVE  PiecesApart(pieces')
<1> USE TradeAssumption
<1>1. PICK q \in Players, first \in Items, second \in Items,
           c \in Players \cup Bags, a \in Items \cup {NoItem} :
        ExchangeMoves(p, q, first, second, c, a)
  BY ExchangeInMoves
<1>2. a \in (Items \ {first}) \cup {NoItem}
  BY <1>1, JoinsAStack DEF ExchangeMoves, FirstMoves
<1>3. pieces \in [Items -> SUBSET Items]
  BY DEF PartnersAgree, TypeOK
<1>4. CASE SecondStays(p, first, second, c, a)
  BY <1>2, <1>3, <1>4, JoinKeepsApart DEF SecondStays
<1>5. ASSUME NEW d, NEW b, SecondMoves(p, first, second, c, a, d, b)
      PROVE  PiecesApart(pieces')
  <2> DEFINE other == IF a = second THEN NoItem ELSE a
             given == Join(pieces, first, other)
  <2>1. b \in (Items \ {second}) \cup {NoItem} /\ other \in (Items \ {first}) \cup {NoItem}
    BY <1>2, <1>5, JoinsAStack DEF SecondMoves
  <2>2. given \in [Items -> SUBSET Items] /\ PiecesApart(given)
    BY <1>3, <2>1, JoinedPieces, JoinKeepsApart
  <2>3. pieces' = Join(given, second, b)
    BY <1>5 DEF SecondMoves
  <2> HIDE DEF given, other
  <2> QED
    BY <2>1, <2>2, <2>3, JoinKeepsApart
<1> QED
  BY <1>1, <1>4, <1>5 DEF ExchangeMoves

LEMMA PiecesStayApart == Spec => []PiecesApart(pieces)
<1>1. Init => PiecesApart(pieces)
  BY DEF Init, PiecesApart
<1>2. PartnersAgree /\ PiecesApart(pieces) /\ [Next]_vars => PiecesApart(pieces)'
  <2> SUFFICES ASSUME PartnersAgree, PiecesApart(pieces), [Next]_vars
               PROVE  PiecesApart(pieces')
    BY DEF PiecesApart
  <2>1. CASE UNCHANGED pieces
    BY <2>1
  <2>2. ASSUME NEW p \in Players, NEW i \in Items, NEW j \in Items, MergeItem(p, i, j)
        PROVE  PiecesApart(pieces')
    <3>1. pieces' = Join(pieces, i, j) /\ i # j
      BY <2>2 DEF MergeItem
    <3> QED
      BY <3>1, JoinKeepsApart DEF PartnersAgree, TypeOK
  <2>3. ASSUME NEW p \in Players, Exchange(p)
        PROVE  PiecesApart(pieces')
    BY <2>3, ExchangeKeepsPieces
  <2>4. CASE Next
    <3>1. \/ UNCHANGED pieces
          \/ \E p \in Players : Exchange(p) \/ \E i, j \in Items : MergeItem(p, i, j)
      BY <2>4 DEF Next, Logout, AcceptFirst, ExchangeRefused, PlayerCloseTrade, Login, Walk,
                  PlayerRequestTrade, MoveItem
    <3> QED
      BY <2>1, <2>2, <2>3, <3>1
  <2> QED
    BY <2>1, <2>4 DEF vars
<1> QED
  BY <1>1, <1>2, TradesHaveTwoSides, PTL DEF Spec

(***************************************************************************)
(* What is with somebody, or in something, after a move.                    *)
(***************************************************************************)
Load(where, of, x) == UNION {of[i] : i \in {j \in Items : x \in Around(where, j)}}

LEMMA LoadsApart ==
  ASSUME NEW where, NEW of, PiecesApart(of), NEW x, NEW y,
         ~\E j \in Items : x \in Around(where, j) /\ y \in Around(where, j)
  PROVE  Load(where, of, x) \cap Load(where, of, y) = {}
<1> SUFFICES ASSUME NEW u \in Load(where, of, x), u \in Load(where, of, y)
             PROVE  FALSE
  OBVIOUS
<1>1. PICK i \in Items : x \in Around(where, i) /\ u \in of[i]
  BY DEF Load
<1>2. PICK j \in Items : y \in Around(where, j) /\ u \in of[j]
  BY DEF Load
<1> QED
  BY <1>1, <1>2 DEF PiecesApart

(* Of two things that an item lies in, one lies in the other. *)
LEMMA AroundIsAChain ==
  ASSUME NEW where, Placed(where), NEW j \in Items, NEW x \in Items, NEW y \in Items,
         x \in Around(where, j), y \in Around(where, j)
  PROVE  x \in Around(where, y) \/ y \in Around(where, x)
<1> USE TradeAssumption
<1> DEFINE S == {bag \in Bags : x \in Around(where, bag) \/ bag \in Around(where, x)}
<1>1. ASSUME NEW k \in Items, x \in Around(where, k) \/ k \in Around(where, x)
      PROVE  x \in Around(where, where[k]) \/ where[k] \in Around(where, x)
  <2>1. CASE k \in Around(where, x)
    BY <2>1, AroundGoesUp
  <2>2. CASE x \in Around(where, k) /\ k # x
    BY <2>2, AroundByOne
  <2>3. x \in Around(where, x)
    BY AroundIsTyped
  <2> QED
    BY <1>1, <2>1, <2>2, <2>3
<1>2. Upward(where, j, S)
  BY <1>1 DEF Upward
<1>3. Holders(where, j) \subseteq S
  BY <1>2, HoldersAreLeast
<1>4. y \in Holders(where, j) \cup {j}
  BY AroundGoesUp
<1> QED
  BY <1>3, <1>4

LEMMA EndAfterMove ==
  ASSUME NEW where, Placed(where), Grounded(where), NEW k \in Items, NEW d,
         Placed(Moved(where, k, d)), k \notin Around(where, d), NEW j \in Items, NEW x, x \notin Items
  PROVE  x \in Around(Moved(where, k, d), j) <=>
           IF k \in Around(where, j) THEN x \in Around(where, d) ELSE x \in Around(where, j)
<1> USE TradeAssumption
<1> DEFINE after == Moved(where, k, d)
<1>1. Grounded(after) /\ Around(after, k) = {k} \cup Around(where, d) /\ Placed(after)
  BY MoveKeepsGround
<1>2. k \notin Around(where, j) => Around(after, j) = Around(where, j)
  BY AroundStays
<1>3. where = Moved(after, k, where[k])
  BY DEF Placed, Moved
<1> HIDE DEF after
<1>4. ASSUME k \in Around(where, j)
      PROVE  k \in Around(after, j)
  <2>1. k \notin Around(after, j) => Around(where, j) = Around(after, j)
    BY <1>1, <1>3, AroundStays
  <2> QED
    BY <1>4, <2>1
<1>5. ASSUME k \in Around(where, j)
      PROVE  x \in Around(after, j) <=> x \in Around(where, d)
  <2>1. Around(after, k) \ Items = Around(after, j) \ Items
    BY <1>1, <1>4, <1>5, EndsAgree
  <2> QED
    BY <1>1, <2>1
<1>6. x \in Around(after, j) <=>
        IF k \in Around(where, j) THEN x \in Around(where, d) ELSE x \in Around(where, j)
  BY <1>2, <1>5
<1> QED
  BY <1>6 DEF after

LEMMA LoadAfterMove ==
  ASSUME NEW where, Placed(where), Grounded(where), NEW k \in Items, NEW d,
         Placed(Moved(where, k, d)), k \notin Around(where, d),
         NEW of, PiecesApart(of), NEW x, x \notin Items
  PROVE  Load(Moved(where, k, d), of, x) =
           IF x \in Around(where, d) THEN Load(where, of, x) \cup Load(where, of, k)
           ELSE Load(where, of, x) \ Load(where, of, k)
<1> DEFINE after == Moved(where, k, d)
<1>1. \A j \in Items : x \in Around(after, j) <=>
        IF k \in Around(where, j) THEN x \in Around(where, d) ELSE x \in Around(where, j)
  BY EndAfterMove
<1> HIDE DEF after
<1>2. CASE x \in Around(where, d)
  <2>1. ASSUME NEW u \in Load(after, of, x)
        PROVE  u \in Load(where, of, x) \cup Load(where, of, k)
    BY <1>1, <2>1 DEF Load
  <2>2. ASSUME NEW u \in Load(where, of, x) \cup Load(where, of, k)
        PROVE  u \in Load(after, of, x)
    <3>1. PICK j \in Items : u \in of[j] /\ (x \in Around(where, j) \/ k \in Around(where, j))
      BY <2>2 DEF Load
    <3>2. x \in Around(after, j)
      BY <1>1, <1>2, <3>1
    <3> QED
      BY <3>1, <3>2 DEF Load
  <2> QED
    BY <1>2, <2>1, <2>2 DEF after
<1>3. CASE x \notin Around(where, d)
  <2>1. ASSUME NEW u \in Load(after, of, x)
        PROVE  u \in Load(where, of, x) /\ u \notin Load(where, of, k)
    <3>1. PICK j \in Items : u \in of[j] /\ x \in Around(after, j)
      BY <2>1 DEF Load
    <3>2. x \in Around(where, j) /\ k \notin Around(where, j)
      BY <1>1, <1>3, <3>1
    <3>3. ASSUME NEW i \in Items, k \in Around(where, i)
          PROVE  u \notin of[i]
      BY <3>1, <3>2, <3>3 DEF PiecesApart
    <3> QED
      BY <3>1, <3>2, <3>3 DEF Load
  <2>2. ASSUME NEW u \in Load(where, of, x), u \notin Load(where, of, k)
        PROVE  u \in Load(after, of, x)
    <3>1. PICK j \in Items : u \in of[j] /\ x \in Around(where, j)
      BY <2>2 DEF Load
    <3>2. k \notin Around(where, j)
      BY <2>2, <3>1 DEF Load
    <3> QED
      BY <1>1, <3>1, <3>2 DEF Load
  <2> QED
    BY <1>3, <2>1, <2>2 DEF after
<1> QED
  BY <1>2, <1>3

(* Nothing lies in a stack. *)
LEMMA LoadOfStack ==
  ASSUME NEW where, Placed(where), NEW of, NEW k \in Stacks
  PROVE  /\ \A j \in Items : k \in Around(where, j) <=> j = k
         /\ Load(where, of, k) = of[k]
<1> USE TradeAssumption
<1>1. ASSUME NEW j \in Items
      PROVE  k \in Around(where, j) <=> j = k
  BY AroundIsTyped
<1>2. k \in Items
  OBVIOUS
<1> QED
  BY <1>1, <1>2 DEF Load

LEMMA LoadAfterJoin ==
  ASSUME NEW where, Placed(where), Grounded(where), NEW k \in Stacks, NEW j \in Stacks \ {k},
         NEW of \in [Items -> SUBSET Items], PiecesApart(of), NEW x \in Players
  PROVE  Load(Moved(where, k, Gone), Join(of, k, j), x) =
           IF x \in Around(where, where[j]) THEN Load(where, of, x) \cup Load(where, of, k)
           ELSE Load(where, of, x) \ Load(where, of, k)
<1> USE TradeAssumption
<1> DEFINE after == Moved(where, k, Gone)
           joined == Join(of, k, j)
<1>1. Load(where, of, k) = of[k]
  BY LoadOfStack
<1>2. x \notin Items /\ k \in Items /\ j \in Items
  OBVIOUS
<1>3. Placed(after) /\ Around(where, Gone) = {Gone}
  BY MovePlaces, AroundOfPlace DEF Moved
<1>4. \A i \in Items : x \in Around(after, i) <=> i # k /\ x \in Around(where, i)
  <2> SUFFICES ASSUME NEW i \in Items
               PROVE  x \in Around(after, i) <=> i # k /\ x \in Around(where, i)
    OBVIOUS
  <2>1. k \in Around(where, i) <=> i = k
    BY LoadOfStack
  <2>2. x \in Around(after, i) <=>
          IF k \in Around(where, i) THEN x \in Around(where, Gone) ELSE x \in Around(where, i)
    BY <1>2, <1>3, EndAfterMove
  <2>3. x # Gone
    OBVIOUS
  <2> QED
    BY <1>3, <2>1, <2>2, <2>3
<1>5. /\ joined[j] = of[j] \cup of[k]
      /\ \A i \in Items \ {j, k} : joined[i] = of[i]
  BY DEF Join
<1>6. x \in Around(where, j) <=> x \in Around(where, where[j])
  BY <1>2, AroundByOne
<1>7. \A i \in Items : i # k => of[i] \cap of[k] = {}
  BY <1>2 DEF PiecesApart
<1> HIDE DEF after, joined
<1>8. CASE x \in Around(where, where[j])
  <2>1. ASSUME NEW u \in Load(after, joined, x)
        PROVE  u \in Load(where, of, x) \cup of[k]
    <3>1. PICK i \in Items \ {k} : u \in joined[i] /\ x \in Around(where, i)
      BY <1>4, <2>1 DEF Load
    <3>2. u \in of[i] \cup of[k]
      BY <1>5, <3>1
    <3> QED
      BY <3>1, <3>2 DEF Load
  <2>2. ASSUME NEW u \in of[k]
        PROVE  u \in Load(after, joined, x)
    BY <1>2, <1>4, <1>5, <1>6, <1>8, <2>2 DEF Load
  <2>3. ASSUME NEW u \in Load(where, of, x), u \notin of[k]
        PROVE  u \in Load(after, joined, x)
    <3>1. PICK i \in Items : u \in of[i] /\ x \in Around(where, i)
      BY <2>3 DEF Load
    <3>2. i # k /\ u \in joined[i]
      BY <1>5, <2>3, <3>1
    <3> QED
      BY <1>4, <3>1, <3>2 DEF Load
  <2> QED
    BY <1>1, <1>8, <2>1, <2>2, <2>3 DEF after, joined
<1>9. CASE x \notin Around(where, where[j])
  <2>1. ASSUME NEW u \in Load(after, joined, x)
        PROVE  u \in Load(where, of, x) /\ u \notin of[k]
    <3>1. PICK i \in Items \ {k} : u \in joined[i] /\ x \in Around(where, i)
      BY <1>4, <2>1 DEF Load
    <3>2. i # j /\ u \in of[i]
      BY <1>5, <1>6, <1>9, <3>1
    <3> QED
      BY <1>7, <3>1, <3>2 DEF Load
  <2>2. ASSUME NEW u \in Load(where, of, x), u \notin of[k]
        PROVE  u \in Load(after, joined, x)
    <3>1. PICK i \in Items : u \in of[i] /\ x \in Around(where, i)
      BY <2>2 DEF Load
    <3>2. i # k /\ i # j /\ u \in joined[i]
      BY <1>5, <1>6, <1>9, <2>2, <3>1
    <3> QED
      BY <1>4, <3>1, <3>2 DEF Load
  <2> QED
    BY <1>1, <1>9, <2>1, <2>2 DEF after, joined
<1> QED
  BY <1>8, <1>9

(* Put into c or joined with what lies there, what is moved is with whom c is. *)
LEMMA LoadAfter ==
  ASSUME NEW where, Placed(where), Grounded(where), NEW k \in Items, NEW c, NEW j,
         k \notin Around(where, c), Placed(Moved(where, k, EndOf(c, j))),
         j = NoItem \/ (k \in Stacks /\ j \in Stacks \ {k} /\ where[j] = c),
         NEW of \in [Items -> SUBSET Items], PiecesApart(of), NEW x \in Players
  PROVE  Load(Moved(where, k, EndOf(c, j)), Join(of, k, j), x) =
           IF x \in Around(where, c) THEN Load(where, of, x) \cup Load(where, of, k)
           ELSE Load(where, of, x) \ Load(where, of, k)
<1>1. CASE j = NoItem
  <2>1. EndOf(c, j) = c /\ Join(of, k, j) = of /\ x \notin Items
    BY <1>1, TradeAssumption DEF EndOf, Join
  <2> QED
    BY <2>1, LoadAfterMove
<1>2. CASE j # NoItem
  <2>1. EndOf(c, j) = Gone /\ c = where[j]
    BY <1>2 DEF EndOf
  <2> QED
    BY <1>2, <2>1, LoadAfterJoin
<1> QED
  BY <1>1, <1>2

(***************************************************************************)
(* The exchange is fair: what each one has before the second move and after. *)
(***************************************************************************)
(* Whether put into c or joined with what lies there, the first item is with q. *)
LEMMA FirstIsGiven ==
  ASSUME PartnersAgree, Offers, PiecesApart(pieces), NEW q \in Players, NEW first \in Items, NEW second,
         NEW c, NEW a, FirstMoves(q, first, second, c, a), NEW j \in {a, NoItem}, NEW x \in Players
  PROVE  /\ Placed(Moved(loc, first, EndOf(c, j))) /\ Grounded(Moved(loc, first, EndOf(c, j)))
         /\ Load(Moved(loc, first, EndOf(c, j)), Join(pieces, first, j), x) =
              IF x = q THEN Goods(x) \cup Goods(first) ELSE Goods(x) \ Goods(first)
<1> USE TradeAssumption
<1>1. Placed(loc) /\ Grounded(loc) /\ TypeOK
  BY DEF PartnersAgree, TypeOK, Placed, Offers
<1>2. /\ c \in {q} \cup Bags /\ first \notin Around(loc, c) /\ q \in Around(loc, c)
      /\ \/ j = NoItem
         \/ first \in Stacks /\ j \in Stacks \ {first} /\ loc[j] = c
  <2>1. c \in PlacesFor(loc, q, first, FALSE) /\ second \notin Around(loc, c) /\ a \in Onto(loc, first, c)
    BY DEF FirstMoves
  <2>2. c \in {q} \cup Bags /\ q \in Around(loc, c) /\ first \notin Around(loc, c)
    BY <1>1, <2>1, PlacesAreOwned
  <2>3. \/ a = NoItem
        \/ first \in Stacks /\ a \in Stacks \ {first} /\ loc[a] = c
    BY <2>1, JoinsAStack
  <2> QED
    BY <2>1, <2>2, <2>3
<1>3. EndOf(c, j) \in {c, Gone} /\ (EndOf(c, j) = Gone => first \in Stacks)
  BY <1>2 DEF EndOf
<1>4. Placed(Moved(loc, first, EndOf(c, j))) /\ Grounded(Moved(loc, first, EndOf(c, j)))
  BY <1>1, <1>3, FirstMove
<1>5. x \in Around(loc, c) <=> x = q
  BY <1>1, <1>2, OneEnd
<1>6. Goods(x) = Load(loc, pieces, x) /\ Goods(first) = Load(loc, pieces, first)
  BY DEF Goods, Load
<1>7. pieces \in [Items -> SUBSET Items]
  BY <1>1 DEF TypeOK
<1> QED
  BY <1>1, <1>2, <1>4, <1>5, <1>6, <1>7, LoadAfter

(* Then what lies in the second item is what was in it. *)
LEMMA SecondIsWhole ==
  ASSUME PartnersAgree, Offers, NEW q \in Players, NEW first \in Items, NEW second \in Items,
         first # second, ~IsHolding(first, second), ~IsHolding(second, first),
         NEW c, NEW a, FirstMoves(q, first, second, c, a), NEW j \in {a, NoItem}, j # second
  PROVE  Load(Moved(loc, first, EndOf(c, j)), Join(pieces, first, j), second) = Goods(second)
<1> USE TradeAssumption
<1> DEFINE middle == Moved(loc, first, EndOf(c, j))
           joined == Join(pieces, first, j)
<1>1. Placed(loc) /\ Grounded(loc) /\ TypeOK
  BY DEF PartnersAgree, TypeOK, Placed, Offers
<1>2. /\ c \in {q} \cup Bags /\ first \notin Around(loc, c) /\ second \notin Around(loc, c)
      /\ \/ j = NoItem
         \/ first \in Stacks /\ j \in Stacks \ {first} /\ loc[j] = c
  <2>1. c \in PlacesFor(loc, q, first, FALSE) /\ second \notin Around(loc, c) /\ a \in Onto(loc, first, c)
    BY DEF FirstMoves
  <2>2. c \in {q} \cup Bags /\ q \in Around(loc, c) /\ first \notin Around(loc, c)
    BY <1>1, <2>1, PlacesAreOwned
  <2>3. \/ a = NoItem
        \/ first \in Stacks /\ a \in Stacks \ {first} /\ loc[a] = c
    BY <2>1, JoinsAStack
  <2> QED
    BY <2>1, <2>2, <2>3
<1>3. EndOf(c, j) \in {c, Gone} /\ (EndOf(c, j) = Gone => first \in Stacks)
  BY <1>2 DEF EndOf
<1>4. /\ Placed(middle) /\ first \notin Around(loc, EndOf(c, j))
      /\ second \notin Around(loc, EndOf(c, j))
  <2>1. Around(loc, Gone) = {Gone} /\ second # Gone
    BY AroundOfPlace
  <2> QED
    BY <1>1, <1>2, <1>3, <2>1, FirstMove
<1>5. first \notin Around(loc, second) /\ second \notin Around(loc, first)
  BY DEF IsHolding
<1>6. second \notin Around(loc, loc[first])
  BY <1>1, <1>5, AroundByOne
<1>7. \A i \in Items : second \in Around(middle, i) <=> second \in Around(loc, i)
  BY <1>1, <1>4, <1>5, <1>6, MoveKeepsContents
<1>8. ASSUME NEW i \in Items, second \in Around(loc, i)
      PROVE  joined[i] = pieces[i]
  <2>1. i # first
    BY <1>5, <1>8
  <2>2. j = NoItem \/ i # j
    <3>1. CASE j # NoItem
      BY <1>1, <1>2, <1>8, <3>1, AroundByOne
    <3> QED
      BY <3>1
  <2> QED
    BY <1>1, <2>1, <2>2 DEF Join, TypeOK
<1> HIDE DEF middle, joined
<1>9. Load(middle, joined, second) = Load(loc, pieces, second)
  BY <1>7, <1>8 DEF Load
<1> QED
  BY <1>9 DEF middle, joined, Goods, Load

(* The second one is p's then, in the same way. *)
LEMMA SecondIsTaken ==
  ASSUME PartnersAgree, Offers, PiecesApart(pieces), NEW p \in Players, NEW q \in Players \ {p},
         NEW first \in Items, NEW second \in Items, first # second,
         NEW c, NEW a, FirstMoves(q, first, second, c, a),
         NEW d, NEW b, SecondMoves(p, first, second, c, a, d, b), NEW x \in Players
  PROVE  LET other == IF a = second THEN NoItem ELSE a
             middle == Moved(loc, first, EndOf(c, other))
             joined == Join(pieces, first, other)
         IN Goods(x)' = IF x = p THEN Load(middle, joined, x) \cup Load(middle, joined, second)
                        ELSE Load(middle, joined, x) \ Load(middle, joined, second)
<1> USE TradeAssumption
<1> DEFINE other == IF a = second THEN NoItem ELSE a
           e == EndOf(c, other)
           middle == Moved(loc, first, e)
           joined == Join(pieces, first, other)
<1>1. Placed(loc) /\ Grounded(loc) /\ TypeOK
  BY DEF PartnersAgree, TypeOK, Placed, Offers
<1>2. /\ c \in {q} \cup Bags
      /\ \/ a = NoItem
         \/ first \in Stacks /\ a \in Stacks \ {first} /\ loc[a] = c
  BY <1>1, PlacesAreOwned, JoinsAStack DEF FirstMoves
<1>3. e \in {c, Gone} /\ (e = Gone => first \in Stacks)
  BY <1>2 DEF EndOf
<1>4. /\ d \in PlacesFor(Moved(loc, first, c), p, second, FALSE)
      /\ b \in Onto(Moved(loc, first, c), second, d)
      /\ loc' = Moved(middle, second, EndOf(d, b))
      /\ pieces' = Join(joined, second, b)
  BY DEF SecondMoves
<1>5. other \in {a, NoItem} /\ other \in (Items \ {first}) \cup {NoItem}
  BY <1>2
<1> HIDE DEF other
<1>6. Placed(middle) /\ Grounded(middle)
  BY <1>1, <1>3, FirstMove
<1>7. joined \in [Items -> SUBSET Items] /\ PiecesApart(joined)
  <2>1. pieces \in [Items -> SUBSET Items]
    BY <1>1 DEF TypeOK
  <2> QED
    BY <1>5, <2>1, JoinedPieces, JoinKeepsApart
<1> HIDE DEF e
<1>8. /\ d \in {p} \cup Bags
      /\ \A k \in Items : Moved(loc, first, c)[k] = d => middle[k] = d
      /\ p \in Around(middle, d) /\ second \notin Around(middle, d)
  <2>1. FindsPlace(p, q, first, second, c, a, e, d)
    BY <1>3, <1>4 DEF FindsPlace
  <2> QED
    BY <1>1, <2>1, SecondMove
<1>9. b = NoItem \/ (second \in Stacks /\ b \in Stacks \ {second} /\ middle[b] = d)
  BY <1>4, <1>8, JoinsAStack
<1>10. Placed(loc')
  <2>1. EndOf(d, b) \in Players \cup Bags \cup {Gone} /\ (EndOf(d, b) = Gone => second \in Stacks)
    BY <1>8, <1>9 DEF EndOf
  <2> QED
    BY <1>4, <1>6, <2>1, MovePlaces DEF Moved
<1> HIDE DEF middle, joined
<1>11. x \in Around(middle, d) <=> x = p
  BY <1>6, <1>8, OneEnd
<1>12. Load(loc', pieces', x) = IF x = p THEN Load(middle, joined, x) \cup Load(middle, joined, second)
                                ELSE Load(middle, joined, x) \ Load(middle, joined, second)
  BY <1>4, <1>6, <1>7, <1>8, <1>9, <1>10, <1>11, LoadAfter
<1>13. Goods(x)' = Load(loc', pieces', x)
  BY DEF Goods, Load
<1> QED
  BY <1>12, <1>13 DEF middle, joined, e, other

(* What is offered is with nobody but the one who offers it, and in no other   *)
(* offer.                                                                      *)
LEMMA OffersAreOwn ==
  ASSUME PartnersAgree, Registered, Offers, PiecesApart(pieces), NEW p \in Offering
  PROVE  /\ \A x \in Players \ {p} : Goods(x) \cap Goods(tradeItem[p]) = {}
         /\ \A q \in Offering \ {p} : Goods(tradeItem[q]) \cap Goods(tradeItem[p]) = {}
<1> USE TradeAssumption
<1>1. Placed(loc) /\ Grounded(loc) /\ TypeOK
  BY DEF PartnersAgree, TypeOK, Placed, Offers
<1>2. PICK t \in Items : t = tradeItem[p]
  BY <1>1 DEF TypeOK, Offering
<1>3. InReach(p, t) /\ p \in Players
  BY <1>1, <1>2 DEF Offers, OfferIsWhatWasShown, Offering, TypeOK
<1>4. \A x : Goods(x) = Load(loc, pieces, x)
  BY DEF Goods, Load
<1>5. ASSUME NEW x \in Players \ {p}
      PROVE  Goods(x) \cap Goods(t) = {}
  <2>1. ASSUME NEW j \in Items, x \in Around(loc, j), t \in Around(loc, j)
        PROVE  FALSE
    <3>1. x \in Around(loc, t) \ Items
      BY <1>1, <2>1, EndsAgree
    <3> QED
      BY <1>1, <1>3, <3>1, ReachedEnd
  <2> QED
    BY <1>4, <2>1, LoadsApart
<1>6. ASSUME NEW q \in Offering \ {p}
      PROVE  Goods(tradeItem[q]) \cap Goods(t) = {}
  <2>1. PICK u \in Items : u = tradeItem[q]
    BY <1>1 DEF TypeOK, Offering
  <2>2. /\ NothingIsOfferedTwice
        /\ t # u
    <3>1. t # u
      <4>1. p \in Players /\ q \in Players \ {p} /\ tradeItem[p] # NoItem
        BY <1>1 DEF TypeOK, Offering
      <4> QED
        BY <1>2, <2>1, <4>1 DEF Registered, OffersAreRegistered
    <3> QED
      BY <3>1, OffersAreApart
  <2>3. t \notin Around(loc, u) /\ u \notin Around(loc, t)
    BY <1>2, <2>1, <2>2 DEF NothingIsOfferedTwice, IsHolding
  <2>4. ASSUME NEW j \in Items, u \in Around(loc, j), t \in Around(loc, j)
        PROVE  FALSE
    BY <1>1, <2>3, <2>4, AroundIsAChain
  <2> QED
    BY <1>4, <2>1, <2>4, LoadsApart
<1> QED
  BY <1>2, <1>5, <1>6

LEMMA FairExchange ==
  ASSUME PartnersAgree, Registered, Offers, PiecesApart(pieces), NEW p \in Players, Exchange(p)
  PROVE  LET q == tradePartner[p]
             given == Goods(tradeItem[p])
             wanted == Goods(tradeItem[q])
         IN \E taken \in {wanted, {}} :
              /\ taken # wanted => SecondMayStay(p)
              /\ \A x \in Players :
                   Goods(x)' = CASE x = p -> (Goods(p) \ given) \cup taken
                                 [] x = q -> (Goods(q) \ taken) \cup given
                                 [] OTHER -> Goods(x)
<1> USE TradeAssumption
<1>1. TypeOK /\ Placed(loc) /\ Grounded(loc) /\ NoBagIsOverfull(loc)
  BY DEF PartnersAgree, TypeOK, Placed, Offers
<1>2. PICK q \in Players \ {p}, first \in Items, second \in Items,
           c \in Players \cup Bags, a \in Items \cup {NoItem} :
        /\ q = tradePartner[p] /\ first = tradeItem[p] /\ second = tradeItem[q]
        /\ {p, q} \subseteq Offering /\ Fits(p, second)
        /\ ExchangeMoves(p, q, first, second, c, a)
  BY ExchangeInMoves
<1> DEFINE given == Goods(first)
           wanted == Goods(second)
<1>3. first # second /\ ~IsHolding(first, second) /\ ~IsHolding(second, first)
  <2>1. NothingIsOfferedTwice
    BY OffersAreApart
  <2>2. first # second
    BY <1>2 DEF Registered, OffersAreRegistered
  <2> QED
    BY <1>2, <2>1, <2>2 DEF NothingIsOfferedTwice
<1>4. FirstMoves(q, first, second, c, a)
  BY <1>2 DEF ExchangeMoves
<1>5. /\ \A x \in Players \ {p} : Goods(x) \cap given = {}
      /\ \A x \in Players \ {q} : Goods(x) \cap wanted = {}
      /\ given \cap wanted = {}
  <2>1. p \in Offering /\ q \in Offering \ {p}
    BY <1>2
  <2>2. /\ \A x \in Players \ {p} : Goods(x) \cap given = {}
        /\ Goods(tradeItem[q]) \cap Goods(tradeItem[p]) = {}
    BY <1>2, <2>1, OffersAreOwn
  <2>3. \A x \in Players \ {q} : Goods(x) \cap wanted = {}
    BY <1>2, <2>1, OffersAreOwn
  <2> QED
    BY <1>2, <2>2, <2>3
<1> HIDE DEF given, wanted
<1>6. ASSUME NEW d, NEW b, SecondMoves(p, first, second, c, a, d, b), NEW x \in Players
      PROVE  Goods(x)' = CASE x = p -> (Goods(p) \ given) \cup wanted
                           [] x = q -> (Goods(q) \ wanted) \cup given
                           [] OTHER -> Goods(x)
  <2> DEFINE other == IF a = second THEN NoItem ELSE a
             middle == Moved(loc, first, EndOf(c, other))
             joined == Join(pieces, first, other)
  <2>1. other \in {a, NoItem} /\ other # second
    OBVIOUS
  <2>2. Goods(x)' = IF x = p THEN Load(middle, joined, x) \cup Load(middle, joined, second)
                    ELSE Load(middle, joined, x) \ Load(middle, joined, second)
    BY <1>3, <1>4, <1>6, SecondIsTaken
  <2> HIDE DEF other
  <2>3. Load(middle, joined, x) = IF x = q THEN Goods(x) \cup given ELSE Goods(x) \ given
    BY <1>4, <2>1, FirstIsGiven DEF given
  <2>4. Load(middle, joined, second) = wanted
    BY <1>3, <1>4, <2>1, SecondIsWhole DEF wanted
  <2> HIDE DEF middle, joined
  <2>5. CASE x = p
    BY <2>2, <2>3, <2>4, <2>5
  <2>6. CASE x = q
    BY <1>5, <2>2, <2>3, <2>4, <2>6
  <2>7. CASE x \notin {p, q}
    BY <1>5, <2>2, <2>3, <2>4, <2>7
  <2> QED
    BY <2>5, <2>6, <2>7
<1>7. ASSUME SecondStays(p, first, second, c, a), NEW x \in Players
      PROVE  Goods(x)' = CASE x = p -> (Goods(p) \ given) \cup {}
                           [] x = q -> (Goods(q) \ {}) \cup given
                           [] OTHER -> Goods(x)
  <2>1. Goods(x)' = Load(loc', pieces', x)
    BY DEF Goods, Load
  <2>2. Goods(x)' = IF x = q THEN Goods(x) \cup given ELSE Goods(x) \ given
    BY <1>4, <1>7, <2>1, FirstIsGiven DEF given, SecondStays
  <2>3. CASE x = p
    BY <2>2, <2>3
  <2>4. CASE x = q
    BY <2>2, <2>4
  <2>5. CASE x \notin {p, q}
    BY <1>5, <2>2, <2>5
  <2> QED
    BY <2>3, <2>4, <2>5
<1>8. ASSUME SecondStays(p, first, second, c, a)
      PROVE  SecondMayStay(p)
  <2>1. /\ c \in {q} \cup Bags /\ q \in Around(loc, c) /\ a \in Onto(loc, first, c)
        /\ loc' = Moved(loc, first, EndOf(c, a)) /\ pieces' = Join(pieces, first, a)
    BY <1>1, <1>4, <1>8, PlacesAreOwned DEF FirstMoves, SecondStays
  <2>2. CASE PlacesFor(Moved(loc, first, c), p, second, FALSE) = {}
    <3>1. ~HasRoom(Moved(loc, first, c), p) /\ PlacesFor(loc, p, second, TRUE) = {}
      BY <1>1, <1>2, <2>1, <2>2, NoPlaceBefore
    <3>2. StacksFor(loc, p, second) # {}
      BY <1>2, <3>1 DEF Fits
    <3>3. second \in Stacks
      BY <3>2 DEF StacksFor
    <3>4. ~HasRoom(loc', p)
      <4>1. c # p
        BY <2>1, AroundOfPlace
      <4>2. {i \in Items : loc'[i] = p} = {i \in Items : Moved(loc, first, c)[i] = p}
        BY <1>1, <2>1, <4>1 DEF EndOf, Moved, Placed
      <4> QED
        BY <3>1, <4>2 DEF HasRoom
    <3> QED
      BY <1>2, <3>2, <3>3, <3>4 DEF SecondMayStay
  <2>3. CASE a = second /\ p \notin Around(loc, first)
    <3>1. first \in Stacks /\ second \in Stacks
      BY <2>1, <2>3, JoinsAStack
    <3>2. Goods(first) = pieces[first]
      BY <1>1, <3>1, LoadOfStack DEF Goods, Load
    <3>3. pieces[first] \subseteq pieces'[second]
      BY <1>1, <1>3, <2>1, <2>3 DEF Join, TypeOK
    <3> QED
      BY <1>2, <2>3, <3>1, <3>2, <3>3 DEF SecondMayStay
  <2> QED
    BY <1>8, <2>2, <2>3 DEF SecondStays
<1>9. \E taken \in {wanted, {}} :
        /\ taken # wanted => SecondMayStay(p)
        /\ \A x \in Players :
             Goods(x)' = CASE x = p -> (Goods(p) \ given) \cup taken
                           [] x = q -> (Goods(q) \ taken) \cup given
                           [] OTHER -> Goods(x)
  <2>1. CASE SecondStays(p, first, second, c, a)
    BY <1>7, <1>8, <2>1
  <2>2. CASE \E d, b : SecondMoves(p, first, second, c, a, d, b)
    BY <1>6, <2>2
  <2> QED
    BY <1>2, <2>1, <2>2 DEF ExchangeMoves
<1> QED
  BY <1>2, <1>9 DEF given, wanted

(* In an exchange each gets all that the other one gave, piece by piece,       *)
(* whatever stacks and bags it goes into and whatever it joins on the way, and *)
(* nobody else gains or loses anything (Game::playerAcceptTrade,               *)
(* game.cpp:4129-4207).  The one exception is a second move that fails, whose  *)
(* result game.cpp:4182 ignores: of a stack that fitted in the test only by    *)
(* joining another one, or of one that the first item, not p's own load, has   *)
(* joined.  Bags, and bags in bags, are no exception: a bag that the first     *)
(* item leaves has room for the second.                                        *)
THEOREM ExchangesAreFair == Spec => ExchangeIsFair
<1>1. PartnersAgree /\ Registered /\ Offers /\ PiecesApart(pieces) =>
        \A p \in Players : Exchange(p) =>
          LET q == tradePartner[p]
              given == Goods(tradeItem[p])
              wanted == Goods(tradeItem[q])
          IN \E taken \in {wanted, {}} :
               /\ taken # wanted => SecondMayStay(p)
               /\ \A x \in Players :
                    Goods(x)' = CASE x = p -> (Goods(p) \ given) \cup taken
                                  [] x = q -> (Goods(q) \ taken) \cup given
                                  [] OTHER -> Goods(x)
  BY FairExchange
<1> QED
  BY <1>1, OffersStay, TradesHaveTwoSides, TradesStayRegistered, PiecesStayApart, PTL DEF ExchangeIsFair

=============================================================================
