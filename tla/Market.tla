------------------------------- MODULE Market -------------------------------
(***************************************************************************)
(* The market (game.cpp, iomarket.cpp) and the store coins it trades in     *)
(* (account.cpp).  Requests and the callback of the expiry run in the       *)
(* dispatcher, each a step, and change the table market_offers at once;     *)
(* the changes of an account's coins, and the search for expired offers,    *)
(* are queries of the DatabaseTasks queue, which the worker executes later. *)
(*                                                                          *)
(* Gold in hand counts as gold in the bank.  A player's bank and belongings *)
(* are the same whether he is in the game or changed in the database, as    *)
(* both happen in the dispatcher; each player has an account of his own.    *)
(* The market's exhaustion only spaces requests out and is left out.        *)
(***************************************************************************)
EXTENDS Integers, Sequences, FiniteSets, Functions

CONSTANTS
  Players,
  InitialGold, InitialItems, InitialCoins,  \* of each player
  Prices,        \* prices offered
  Fee,           \* of creating an offer
  Words,         \* 2^32: the values of a uint32_t, and of an int32_t
  MaxOffers,     \* bound: offers ever created
  MaxQueue,      \* bound: queries in the queue for a request to be made, see InBounds
  MaxDrift,      \* bound: coins overspent or miscounted for a request to be made, see InBounds
  MaxSearches    \* bound: searches for expired offers not yet answered and worked on

ASSUME MarketAssumption ==
  /\ IsFiniteSet(Players)
  /\ InitialGold \in [Players -> Nat]
  /\ InitialItems \in [Players -> Nat] /\ InitialCoins \in [Players -> Nat]
  /\ Prices \subseteq Nat \ {0} /\ Fee \in Nat
  /\ Words \in Nat \ {0} /\ MaxDrift \in Nat
  /\ MaxOffers \in Nat /\ MaxQueue \in Nat \ {0} /\ MaxSearches \in Nat \ {0}

VARIABLES
  offers,       \* market_offers, by id; expired for the age of created
  lastId,       \* AUTO_INCREMENT
  gold,         \* bankBalance
  items,        \* in the depot and the inbox, by kind
  coins,        \* accounts.coins, in the database
  coinBalance,  \* Player::coinBalance, as last read
  queue,        \* DatabaseTasks::tasks
  results,      \* the callbacks posted to the dispatcher, each with its rows
  upToDate      \* history: those whose balance was right when it was last read
                \* and who have since spent coins by transfer only

marketVars == <<offers, lastId, gold, items, coins, coinBalance, queue, results, upToDate>>
tableVars == <<offers, lastId>>

Kinds == {"item", "coin"}
Ids == 1 .. MaxOffers

AddCoins(p, n) == [query |-> "coins", player |-> p, amount |-> n]
SearchExpired == [query |-> "expired"]

MarketInit ==
  /\ offers = [id \in {} |-> id]
  /\ lastId = 0
  /\ gold = InitialGold
  /\ items = [p \in Players |-> [k \in Kinds |-> IF k = "item" THEN InitialItems[p] ELSE 0]]
  /\ coins = InitialCoins
  /\ coinBalance = InitialCoins
  /\ queue = <<>>
  /\ results = <<>>
  /\ upToDate = Players

Enqueue(qs) == queue' = queue \o qs

(* The coins of an account once every query of the queue is executed. *)
Settled(p) ==
  LET updates == {i \in DOMAIN queue : queue[i].query = "coins" /\ queue[i].player = p}
  IN coins[p] + SumFunction([i \in updates |-> queue[i].amount])

Positive(n) == IF n > 0 THEN n ELSE 0

(* The bounds of a request, a negative account being none of them by itself: a *)
(* short queue, and few coins overspent or wrongly counted in coinBalance.     *)
Drift(p) ==
  Positive(-Settled(p)) + Positive(Settled(p) - coinBalance[p]) + Positive(coinBalance[p] - Settled(p))

InBounds == Len(queue) < MaxQueue /\ SumFunction([p \in Players |-> Drift(p)]) <= MaxDrift

(* IOAccount::getCoinBalance reads the signed column as a uint32_t;            *)
(* Player::coinBalance is an int32_t and gets the sign back.                   *)
GetCoinBalance(p) == coins[p] % Words

AsInt32(n) == IF 2 * n < Words THEN n ELSE n - Words

-----------------------------------------------------------------------------
(* playerCreateMarketOffer *)
NewOffer(p, sale, kind, n, price) ==
  /\ lastId < MaxOffers /\ InBounds
  /\ lastId' = lastId + 1
  /\ offers' = [id \in DOMAIN offers \cup {lastId'} |->
                  IF id # lastId' THEN offers[id]
                  ELSE [player |-> p, sale |-> sale, kind |-> kind, amount |-> n, price |-> price,
                        expired |-> FALSE]]
  /\ UNCHANGED results

CreateSale(p, kind, n, price) ==
  /\ Fee <= gold[p]
  /\ CASE kind = "coin" ->
            /\ n <= coinBalance[p]
            /\ Enqueue(<<AddCoins(p, -n)>>)
            /\ upToDate' = upToDate \ {p}
            /\ UNCHANGED items
       [] kind = "item" ->
            /\ n <= items[p]["item"]
            /\ items' = [items EXCEPT ![p]["item"] = @ - n]
            /\ UNCHANGED <<queue, upToDate>>
  /\ gold' = [gold EXCEPT ![p] = @ - Fee]
  /\ NewOffer(p, TRUE, kind, n, price)
  /\ UNCHANGED <<coins, coinBalance>>

CreatePurchase(p, kind, n, price) ==
  /\ price * n + Fee <= gold[p]
  /\ gold' = [gold EXCEPT ![p] = @ - (price * n + Fee)]
  /\ NewOffer(p, FALSE, kind, n, price)
  /\ UNCHANGED <<items, coins, coinBalance, queue, upToDate>>

(* moveOfferToHistory and deleteOffer *)
Drop(table, id) == [i \in DOMAIN table \ {id} |-> table[i]]

(* playerCancelMarketOffer: the row is read anew. *)
CancelOffer(p, id) ==
  /\ id \in DOMAIN offers /\ offers[id].player = p /\ InBounds
  /\ LET o == offers[id]
     IN /\ gold' = [gold EXCEPT ![p] = @ + IF o.sale THEN 0 ELSE o.price * o.amount]
        /\ items' = [items EXCEPT ![p]["item"] = @ + IF o.sale /\ o.kind = "item" THEN o.amount ELSE 0]
        /\ Enqueue(IF o.sale /\ o.kind = "coin" THEN <<AddCoins(p, o.amount)>> ELSE <<>>)
  /\ offers' = Drop(offers, id)
  /\ UNCHANGED <<lastId, coins, coinBalance, results, upToDate>>

AmountIsOffered(id, n) == id \in DOMAIN offers /\ n <= offers[id].amount

Accepted(id, n) ==
  offers' = IF offers[id].amount = n THEN Drop(offers, id)
            ELSE [offers EXCEPT ![id].amount = @ - n]

AcceptOffer(p, id, n) ==
  /\ AmountIsOffered(id, n) /\ InBounds
  /\ LET o == offers[id]
         seller == IF o.sale THEN o.player ELSE p
         buyer == IF o.sale THEN p ELSE o.player
         price == o.price * n
     IN /\ o.sale => price <= gold[p]
        /\ ~o.sale => n <= IF o.kind = "coin" THEN GetCoinBalance(p) ELSE items[p]["item"]
        /\ gold' = [q \in Players |->
              gold[q] + (IF q = seller THEN price ELSE 0) - (IF q = p /\ o.sale THEN price ELSE 0)]
        /\ items' = [q \in Players |-> [items[q] EXCEPT !["item"] =
              IF o.kind = "coin" THEN @
              ELSE @ + (IF q = buyer THEN n ELSE 0) - (IF q = p /\ ~o.sale THEN n ELSE 0)]]
        /\ Enqueue(IF o.kind = "item" THEN <<>>
                   ELSE (IF o.sale THEN <<>> ELSE <<AddCoins(p, -n)>>) \o <<AddCoins(buyer, n)>>)
        /\ upToDate' = IF o.sale \/ o.kind = "item" THEN upToDate ELSE upToDate \ {p}
  /\ Accepted(id, n)
  /\ UNCHANGED <<lastId, coins, coinBalance, results>>

-----------------------------------------------------------------------------
(* playerTransferCoins between two players in the game *)
TransferCoins_OneSided(p, q, n) ==
  /\ p # q /\ n <= coinBalance[p] /\ InBounds
  /\ coinBalance' = [coinBalance EXCEPT ![q] = @ + n]
  /\ Enqueue(<<AddCoins(p, -n), AddCoins(q, n)>>)
  /\ UNCHANGED <<tableVars, gold, items, coins, results, upToDate>>

TransferCoins(p, q, n) ==
  /\ p # q /\ n <= coinBalance[p] /\ InBounds
  /\ coinBalance' = [coinBalance EXCEPT ![p] = @ - n, ![q] = @ + n]
  /\ Enqueue(<<AddCoins(p, -n), AddCoins(q, n)>>)
  /\ UNCHANGED <<tableVars, gold, items, coins, results, upToDate>>

(* updateCoinBalance: asked for by every market request and page, it reads the *)
(* database in a task of its own.                                              *)
UpdateCoinBalance(p) ==
  /\ coinBalance' = [coinBalance EXCEPT ![p] = AsInt32(GetCoinBalance(p))]
  /\ upToDate' = IF coinBalance'[p] = Settled(p) THEN upToDate \cup {p} ELSE upToDate \ {p}
  /\ UNCHANGED <<tableVars, gold, items, coins, queue, results>>

(* Thirty days go by for an offer; the ids are in the order of creation. *)
Expire(id) ==
  /\ id \in DOMAIN offers
  /\ \A i \in DOMAIN offers : i < id => offers[i].expired
  /\ offers' = [offers EXCEPT ![id].expired = TRUE]
  /\ UNCHANGED <<lastId, gold, items, coins, coinBalance, queue, results, upToDate>>

(* checkExpiredOffers, which schedules itself again. *)
CheckExpiredOffers ==
  /\ Len(SelectSeq(queue, LAMBDA q : q = SearchExpired)) + Len(results) < MaxSearches
  /\ Enqueue(<<SearchExpired>>)
  /\ UNCHANGED <<tableVars, gold, items, coins, coinBalance, results, upToDate>>

(* The worker executes the next query: the rows are those of this moment. *)
ExpiredRows_SalesOnly == [id \in {i \in DOMAIN offers : offers[i].expired /\ offers[i].sale} |-> offers[id]]
ExpiredRows == [id \in {i \in DOMAIN offers : offers[i].expired} |-> offers[id]]

RunTask ==
  /\ queue # <<>>
  /\ queue' = Tail(queue)
  /\ IF Head(queue).query = "coins"
     THEN /\ coins' = [coins EXCEPT ![Head(queue).player] = @ + Head(queue).amount]
          /\ UNCHANGED results
     ELSE /\ results' = IF DOMAIN ExpiredRows = {} THEN results ELSE Append(results, ExpiredRows)
          /\ UNCHANGED coins
  /\ UNCHANGED <<tableVars, gold, items, coinBalance, upToDate>>

(* processExpiredOffers: whether the offer is still there is looked up now, its *)
(* amount is the row's.  Coins come back as an item.                            *)
StillOffered_Any(rows) == DOMAIN rows
StillOffered(rows) == DOMAIN rows \cap DOMAIN offers

ProcessExpiredOffers ==
  /\ results # <<>>
  /\ results' = Tail(results)
  /\ LET rows == Head(results)
         back == StillOffered(rows)
         Of(p, sale) == {id \in back : rows[id].player = p /\ rows[id].sale = sale}
     IN /\ offers' = [id \in DOMAIN offers \ back |-> offers[id]]
        /\ gold' = [p \in Players |->
             gold[p] + SumFunction([id \in Of(p, FALSE) |-> rows[id].price * rows[id].amount])]
        /\ items' = [p \in Players |-> [k \in Kinds |->
             items[p][k] + SumFunction([id \in {i \in Of(p, TRUE) : rows[i].kind = k} |-> rows[id].amount])]]
  /\ UNCHANGED <<lastId, coins, coinBalance, queue, upToDate>>

Amounts ==
  1 .. SumFunction([p \in Players |-> InitialGold[p] + InitialItems[p] + InitialCoins[p]])

MarketNext ==
  \/ CheckExpiredOffers \/ RunTask \/ ProcessExpiredOffers
  \/ \E id \in Ids : Expire(id)
  \/ \E p \in Players :
       \/ UpdateCoinBalance(p)
       \/ \E id \in Ids : CancelOffer(p, id)
       \/ \E n \in Amounts :
            \/ \E q \in Players : TransferCoins(p, q, n)
            \/ \E id \in Ids : AcceptOffer(p, id, n)
            \/ \E kind \in Kinds, price \in Prices :
                 CreateSale(p, kind, n, price) \/ CreatePurchase(p, kind, n, price)

MarketFairness ==
  /\ WF_marketVars(CheckExpiredOffers)
  /\ WF_marketVars(RunTask) /\ WF_marketVars(ProcessExpiredOffers)

MarketSpec == MarketInit /\ [][MarketNext]_marketVars /\ MarketFairness

-----------------------------------------------------------------------------
(* The variables have their types; no gold and no goods below zero. *)
MarketTypeOK ==
  /\ DOMAIN offers \subseteq 1 .. lastId /\ lastId \in 0 .. MaxOffers
  /\ \A id \in DOMAIN offers :
       offers[id] \in [player : Players, sale : BOOLEAN, kind : Kinds, amount : Amounts, price : Prices,
                        expired : BOOLEAN]
  /\ gold \in [Players -> Nat]
  /\ items \in [Players -> [Kinds -> Nat]]
  /\ coins \in [Players -> Int] /\ coinBalance \in [Players -> Int]
  /\ upToDate \subseteq Players
  /\ \A i \in DOMAIN queue :
       queue[i] \in [query : {"coins"}, player : Players, amount : Int] \cup {SearchExpired}
  /\ \A i \in DOMAIN results : DOMAIN results[i] \subseteq 1 .. lastId

Total(kind) ==
  LET ForSale == {id \in DOMAIN offers : offers[id].sale /\ offers[id].kind = kind}
  IN SumFunction([p \in Players |-> items[p][kind] + (IF kind = "coin" THEN Settled(p) ELSE 0)])
       + SumFunction([id \in ForSale |-> offers[id].amount])

TotalGold ==
  LET Bids == {id \in DOMAIN offers : ~offers[id].sale}
  IN SumFunction(gold) + Fee * lastId
       + SumFunction([id \in Bids |-> offers[id].price * offers[id].amount])

(* Goods, coins and gold pass from hand to hand through the market and never   *)
(* come from nowhere or vanish, over every request, refund and expiry and with *)
(* the coins' updates under way, but for one case: an expired offer accepted   *)
(* in part between the search (iomarket.cpp:200) and its callback is given     *)
(* back with the amount of the search, its buyer's part for the second time.   *)
NothingIsMadeOrLost ==
  []MarketTypeOK /\
  [][ LET Twice(id) == Head(results)[id].amount - offers[id].amount
          back == IF Len(results') < Len(results) THEN DOMAIN Head(results) \cap DOMAIN offers ELSE {}
      IN /\ \A k \in Kinds :
              Total(k)' = Total(k) +
                SumFunction([id \in {i \in back : offers[i].sale /\ offers[i].kind = k} |-> Twice(id)])
         /\ TotalGold' = TotalGold +
              SumFunction([id \in {i \in back : ~offers[i].sale} |-> offers[id].price * Twice(id)]) ]_marketVars

(* Coins that a player has not got are spent only by himself and only so:      *)
(* from a balance that was too old when it was read, or after a sale of coins, *)
(* which leaves coinBalance as it is; or to the buyer of a standing offer,     *)
(* whose balance is the database's, before a queued query of his, or below     *)
(* zero and read without its sign (account.cpp:46, game.cpp:7829).  A balance  *)
(* that is right stays no more than what he has, whatever others buy from him, *)
(* sell to him or send to him and whatever is refunded, with all of it queued. *)
OnlyAStaleBalanceIsOverspent ==
  [][ \A p \in Players :
        Settled(p)' < Settled(p) /\ Settled(p)' < 0 =>
          \/ p \notin upToDate
          \/ /\ offers' # offers /\ lastId' = lastId
             /\ coins[p] \notin 0 .. Settled(p) ]_marketVars

(* The thirty days of an offer end: it leaves the table, by the periodic check *)
(* unless it is accepted or cancelled first.                                   *)
ExpiredOffersLeave ==
  \A id \in Ids : (id \in DOMAIN offers /\ offers[id].expired) ~> id \notin DOMAIN offers
=============================================================================
