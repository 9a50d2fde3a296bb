--------------------------- MODULE EconomyProofs ----------------------------
(***************************************************************************)
(* What is proved about Economy for any characters, items and slots: a     *)
(* trade always has two sides that agree, and what is exchanged is what    *)
(* both accepted; every operation saves what it changes, and an item is in *)
(* one place, unless it was taken out of a mail by the name of another.    *)
(*                                                                         *)
(* TradeInv is the inductive invariant of trades.  AcceptedAsShown is not  *)
(* inductive: it needs that the offer is as it was shown (ShownIsOffered), *)
(* that only the two of a trade can change it (TradersPaired), and that    *)
(* nothing of an earlier trade is left when the next begins (NothingLeft). *)
(*                                                                         *)
(* EconomyInv, that of the rest, adds types and what makes a load from the *)
(* database sound: what a character has in it is final once no transaction *)
(* that saves him is delayed, and so are the mails he has received until   *)
(* he loads them.  First come the lemmas on CharacterDB: what transactions *)
(* do to the rows of the database, what adding some to the queue does to   *)
(* the state it will be drained to, which ids the mails get, and which     *)
(* rows the transactions of the handlers write.  After those on one and on *)
(* two delayed transactions comes one lemma for each operation; a step of  *)
(* the auction house goes by HouseKeeps.                                   *)
(*                                                                         *)
(* The last part is about gold: Economy neither makes nor loses any, and a *)
(* crash loses nothing but what is on its way back or in a mail of a       *)
(* player.  The sums come first: what FoldFunction gives does not depend   *)
(* on the order of the elements, so that a step changes it by what it      *)
(* changes in the rows it writes.  CrashInv is GoldConserved with the same *)
(* for every state that the database passes through until the queue is     *)
(* empty; it is inductive together with EconomyInv.                        *)
(***************************************************************************)
EXTENDS Economy, FiniteSetTheorems, SequenceTheorems, WellFoundedInduction, TLAPS

----------------------------------------------------------------------------
(* Trades.                                                                 *)

Offer == [items : [TradeSlot -> Item \cup {NULL}], gold : Nat]

\* The types of what a trade consists of.
TradeTypeOK ==
    /\ pTrader \in [Character -> Character \cup {NULL}]
    /\ acceptTrade \in [Character -> BOOLEAN]
    /\ tradeItems \in [Character -> [TradeSlot -> Item \cup {NULL}]]
    /\ tradeGold \in [Character -> Nat]
    /\ shown \in [Character -> Offer]
    /\ agreed \in [Character -> Offer]

\* What d shows to c is d's offer, without the items that d has no longer.
ShownIsOffered ==
    \A c \in Character : pTrader[c] # NULL =>
        /\ shown[c].gold = tradeGold[pTrader[c]]
        /\ \A s \in TradeSlot :
              shown[c].items[s] \in {tradeItems[pTrader[c]][s], NULL}

\* Nothing is left of a trade that is over.
NothingLeft ==
    \A c \in Character : pTrader[c] = NULL =>
        tradeGold[c] = 0 /\ shown[c] = Nothing

TradeInv == /\ TradeTypeOK /\ TradersPaired /\ ShownIsOffered /\ NothingLeft
            /\ AcceptedAsShown

----------------------------------------------------------------------------
(* What the other handlers leave alone.                                    *)

\* No mail or auction handler logs anybody in or out.
LEMMA MailKeepsOnline == MailNext => UNCHANGED online
<1> SUFFICES ASSUME MailNext PROVE UNCHANGED online
    OBVIOUS
<1> USE DEF ownVars
<1>1. ASSUME NEW c \in Character, LoadMail(c) PROVE UNCHANGED online
    BY <1>1 DEF LoadMail
<1>2. ASSUME NEW c \in Character, NEW to, NEW items, NEW gold, NEW cod,
             HandleSendMail(c, to, items, gold, cod)
      PROVE  UNCHANGED online
    BY <1>2 DEF HandleSendMail
<1>3. ASSUME NEW c \in Character, NEW m, NEW i,
             \/ HandleTakeMoney(c, m) \/ HandleMailDelete(c, m)
             \/ HandleReturnToSender(c, m) \/ HandleTakeItem(c, m, i)
             \/ HandleMarkAsRead(c, m)
      PROVE  UNCHANGED online
    BY <1>3 DEF HandleTakeMoney, HandleMailDelete, HandleReturnToSender,
                HandleTakeItem, HandleMarkAsRead
<1> QED
    BY <1>1, <1>2, <1>3, Zenon DEF MailNext

\* Nor does the auction house.
LEMMA AuctionKeepsOnline == AuctionNext => UNCHANGED online
<1> SUFFICES ASSUME AuctionNext PROVE UNCHANGED online
    OBVIOUS
<1> USE DEF ownVars
<1>1. ASSUME NEW c, NEW i, NEW startbid, NEW buyout,
             HandleAuctionSellItem(c, i, startbid, buyout)
      PROVE  UNCHANGED online
    BY <1>1 DEF HandleAuctionSellItem
<1>2. ASSUME NEW a, NEW c, NEW price,
             \/ Update(a) \/ HandleAuctionRemoveItem(c, a)
             \/ PlaceBid(c, a, price) \/ Buyout(c, a, price)
      PROVE  UNCHANGED online
    BY <1>2 DEF Update, HandleAuctionRemoveItem, PlaceBid, Buyout
<1> QED
    BY <1>1, <1>2, Zenon DEF AuctionNext

----------------------------------------------------------------------------
(* The steps.                                                              *)

\* The new types of what the trade handlers set.
LEMMA NothingType == Nothing \in Offer /\ NoItems \in [TradeSlot -> Item \cup {NULL}]
    BY DEF Nothing, NoItems, Offer

\* What is shown of an offer is an offer.
LEMMA VisibleType ==
    ASSUME NEW c, NEW offered \in [TradeSlot -> Item \cup {NULL}], NEW gold \in Nat
    PROVE  /\ Visible(c, offered, gold) \in Offer
           /\ Visible(c, offered, gold).gold = gold
           /\ \A s \in TradeSlot :
                Visible(c, offered, gold).items[s] \in {offered[s], NULL}
    BY DEF Visible, Offer

\* A step that leaves the offers and the flags alone keeps what was accepted.
LEMMA AgreeUnchanged ==
    ASSUME TradeInv, Agree, UNCHANGED tradeVars
    PROVE  TradeTypeOK' /\ ShownIsOffered' /\ NothingLeft' /\ AcceptedAsShown'
<1> USE DEF tradeVars
<1>1. agreed' \in [Character -> Offer]
    BY NothingType DEF Agree, TradeInv, TradeTypeOK
<1>2. \A c \in Character : acceptTrade[c] => agreed'[c] = agreed[c]
    BY DEF Agree, TradeInv, TradeTypeOK
<1> QED
    BY <1>1, <1>2 DEF TradeInv, TradeTypeOK, ShownIsOffered, NothingLeft,
                      AcceptedAsShown

\* The two of a trade are different, and nobody else trades with one of them.
LEMMA TwoOfATrade ==
    ASSUME TradeInv, NEW c \in Character, pTrader[c] # NULL
    PROVE  /\ pTrader[c] \in online \ {c} /\ c \in online
           /\ pTrader[c] \in Character /\ pTrader[pTrader[c]] = c
           /\ \A x \in Character \ {c, pTrader[c]} :
                 pTrader[x] \notin {c, pTrader[c]}
<1> USE CharacterDBAssumption DEF TradeInv, TradeTypeOK
<1>1. pTrader[c] \in Character
    OBVIOUS
<1>2. \A x \in Character : pTrader[x] # NULL => pTrader[pTrader[x]] = x
    BY DEF TradersPaired
<1>3. pTrader[c] \in online \ {c} /\ c \in online
    BY DEF TradersPaired
<1> QED
    BY <1>1, <1>2, <1>3

\* A trade that ends, also by the logout of one of its two.
LEMMA EndKeeps ==
    ASSUME TradeInv, Agree, NEW c \in Character, pTrader[c] # NULL,
           EndTrade(c, pTrader[c]), online' \in {online, online \ {c}}
    PROVE  TradeInv'
<1> DEFINE d == pTrader[c]
<1>1. d \in Character /\ d # c /\ d # NULL /\ pTrader[d] = c
    BY TwoOfATrade, CharacterDBAssumption
<1>2. \A x \in Character \ {c, d} : pTrader[x] \notin {c, d}
    BY TwoOfATrade
<1>3. /\ pTrader' = [pTrader EXCEPT ![c] = NULL, ![d] = NULL]
      /\ acceptTrade' = [acceptTrade EXCEPT ![c] = FALSE, ![d] = FALSE]
      /\ tradeItems' = [tradeItems EXCEPT ![c] = NoItems, ![d] = NoItems]
      /\ tradeGold' = [tradeGold EXCEPT ![c] = 0, ![d] = 0]
      /\ shown' = [shown EXCEPT ![c] = Nothing, ![d] = Nothing]
    BY DEF EndTrade, ClearTrade, ForBoth
<1> USE <1>1
<1>4. TradeTypeOK'
    BY <1>3, NothingType DEF TradeInv, TradeTypeOK, Agree
<1>5. TradersPaired'
    BY <1>2, <1>3 DEF TradeInv, TradeTypeOK, TradersPaired
<1>6. ShownIsOffered' /\ NothingLeft'
    BY <1>2, <1>3 DEF TradeInv, TradeTypeOK, ShownIsOffered, NothingLeft
<1>7. AcceptedAsShown'
  <2> SUFFICES ASSUME NEW x \in Character, acceptTrade'[x]
               PROVE  /\ agreed'[x].gold = tradeGold'[pTrader'[x]]
                      /\ \A s \in TradeSlot :
                            agreed'[x].items[s] \in {tradeItems'[pTrader'[x]][s], NULL}
      BY DEF AcceptedAsShown
  <2>1. x \notin {c, d} /\ acceptTrade[x] /\ pTrader'[x] = pTrader[x]
      BY <1>3 DEF TradeInv, TradeTypeOK
  <2>2. agreed'[x] = agreed[x]
      BY <2>1 DEF Agree
  <2>3. pTrader[x] \in Character \ {c, d}
      BY <1>2, <2>1 DEF TradeInv, TradeTypeOK, TradersPaired
  <2> QED
      BY <1>3, <2>1, <2>2, <2>3 DEF TradeInv, TradeTypeOK, AcceptedAsShown
<1> QED
    BY <1>4, <1>5, <1>6, <1>7 DEF TradeInv

\* A new offer: it is shown to the other, and neither has accepted it.
LEMMA OfferKeeps ==
    ASSUME TradeInv, Agree, NEW c \in Character, pTrader[c] # NULL,
           NEW offered \in [TradeSlot -> Item \cup {NULL}], NEW gold \in Nat,
           tradeItems' = [tradeItems EXCEPT ![c] = offered],
           tradeGold' = [tradeGold EXCEPT ![c] = gold],
           SendUpdateTrade(c, offered, gold), UNCHANGED <<pTrader, online>>
    PROVE  TradeInv'
<1> DEFINE d == pTrader[c]
<1>1. d \in Character /\ d # c /\ d # NULL /\ pTrader[d] = c
    BY TwoOfATrade, CharacterDBAssumption
<1>2. \A x \in Character \ {c, d} : pTrader[x] \notin {c, d}
    BY TwoOfATrade
<1> DEFINE v == Visible(c, offered, gold)
<1>3. /\ v \in Offer /\ v.gold = gold
      /\ \A s \in TradeSlot : v.items[s] \in {offered[s], NULL}
    BY VisibleType
<1>4. /\ acceptTrade' = [acceptTrade EXCEPT ![c] = FALSE, ![d] = FALSE]
      /\ shown' = [shown EXCEPT ![d] = v]
    BY DEF SendUpdateTrade, ForBoth
<1> HIDE DEF v
<1> USE <1>1
<1>5. TradeTypeOK'
    BY <1>3, <1>4, NothingType DEF TradeInv, TradeTypeOK, Agree
<1>6. TradersPaired'
    BY <1>2, <1>4 DEF TradeInv, TradeTypeOK, TradersPaired
<1>7. ShownIsOffered'
  <2> SUFFICES ASSUME NEW x \in Character, pTrader[x] # NULL
               PROVE  /\ shown'[x].gold = tradeGold'[pTrader[x]]
                      /\ \A s \in TradeSlot :
                            shown'[x].items[s] \in {tradeItems'[pTrader[x]][s], NULL}
      BY DEF ShownIsOffered
  <2>1. CASE x = d
    <3>1. shown'[d] = v /\ tradeGold'[c] = gold /\ tradeItems'[c] = offered
        BY <1>4 DEF TradeInv, TradeTypeOK
    <3> QED
        BY <1>3, <2>1, <3>1
  <2>2. CASE x # d
    <3>1. pTrader[x] \in Character \ {c}
        BY <1>2, <2>2 DEF TradeInv, TradeTypeOK
    <3> QED
        BY <1>4, <2>2, <3>1 DEF TradeInv, TradeTypeOK, ShownIsOffered
  <2> QED
      BY <2>1, <2>2
<1>8. NothingLeft'
    BY <1>4, CharacterDBAssumption DEF TradeInv, TradeTypeOK, NothingLeft
<1>9. AcceptedAsShown'
  <2> SUFFICES ASSUME NEW x \in Character, acceptTrade'[x]
               PROVE  /\ agreed'[x].gold = tradeGold'[pTrader'[x]]
                      /\ \A s \in TradeSlot :
                            agreed'[x].items[s] \in {tradeItems'[pTrader'[x]][s], NULL}
      BY DEF AcceptedAsShown
  <2>1. x \notin {c, d} /\ acceptTrade[x]
      BY <1>4 DEF TradeInv, TradeTypeOK
  <2>2. agreed'[x] = agreed[x]
      BY <2>1 DEF Agree
  <2>3. pTrader[x] \in Character \ {c, d}
      BY <1>2, <2>1 DEF TradeInv, TradeTypeOK, TradersPaired
  <2> QED
      BY <2>1, <2>2, <2>3 DEF TradeInv, TradeTypeOK, AcceptedAsShown
<1> QED
    BY <1>5, <1>6, <1>7, <1>8, <1>9 DEF TradeInv

\* A trade that begins, of two who have nothing left of another.
LEMMA InitiateKeeps ==
    ASSUME TradeInv, Agree, NEW c \in Character, NEW d \in Character,
           HandleInitiateTrade(c, d)
    PROVE  TradeInv'
<1> USE CharacterDBAssumption
<1>1. /\ c \in online /\ d \in online /\ c # d
      /\ pTrader[c] = NULL /\ pTrader[d] = NULL
      /\ pTrader' = [pTrader EXCEPT ![c] = d, ![d] = c]
      /\ UNCHANGED <<acceptTrade, tradeItems, tradeGold, shown, online>>
    BY DEF HandleInitiateTrade, otherVars, ownVars
<1>2. /\ ~acceptTrade[c] /\ ~acceptTrade[d]
      /\ \A x \in {c, d} : /\ tradeItems[x] = NoItems /\ tradeGold[x] = 0
                           /\ shown[x] = Nothing
    BY <1>1 DEF TradeInv, TradersPaired, NothingLeft
<1>3. \A x \in Character : acceptTrade[x] => agreed'[x] = agreed[x]
    BY <1>1 DEF Agree
<1>4. TradeTypeOK'
    BY <1>1, NothingType DEF TradeInv, TradeTypeOK, Agree
<1>5. TradersPaired'
    BY <1>1, <1>2 DEF TradeInv, TradeTypeOK, TradersPaired
<1>6. ShownIsOffered' /\ NothingLeft'
    BY <1>1, <1>2 DEF TradeInv, TradeTypeOK, ShownIsOffered, NothingLeft,
                      Nothing, NoItems
<1>7. AcceptedAsShown'
    BY <1>1, <1>2, <1>3 DEF TradeInv, TradeTypeOK, AcceptedAsShown
<1> QED
    BY <1>4, <1>5, <1>6, <1>7 DEF TradeInv

\* A flag that is set, by who sees the offer as it is, or reset.
LEMMA FlagKeeps ==
    ASSUME TradeInv, Agree, NEW c \in Character, pTrader[c] # NULL,
           NEW f \in BOOLEAN, acceptTrade' = [acceptTrade EXCEPT ![c] = f],
           UNCHANGED <<pTrader, tradeItems, tradeGold, shown, online>>
    PROVE  TradeInv'
<1>1. TradeTypeOK'
    BY NothingType DEF TradeInv, TradeTypeOK, Agree
<1>2. TradersPaired'
    BY DEF TradeInv, TradeTypeOK, TradersPaired
<1>3. ShownIsOffered' /\ NothingLeft'
    BY DEF TradeInv, ShownIsOffered, NothingLeft
<1>4. AcceptedAsShown'
  <2> SUFFICES ASSUME NEW x \in Character, acceptTrade'[x]
               PROVE  /\ agreed'[x].gold = tradeGold[pTrader[x]]
                      /\ \A s \in TradeSlot :
                            agreed'[x].items[s] \in {tradeItems[pTrader[x]][s], NULL}
      BY DEF AcceptedAsShown
  <2>1. CASE acceptTrade[x]
      BY <2>1 DEF TradeInv, Agree, AcceptedAsShown
  <2>2. CASE ~acceptTrade[x]
    <3>1. x = c /\ agreed'[x] = shown[x]
        BY <2>2 DEF TradeInv, TradeTypeOK, Agree
    <3> QED
        BY <3>1 DEF TradeInv, ShownIsOffered
  <2> QED
      BY <2>1, <2>2
<1> QED
    BY <1>1, <1>2, <1>3, <1>4 DEF TradeInv

\* Both forget their offers and go on.
LEMMA BeginKeeps ==
    ASSUME TradeInv, Agree, NEW c \in Character, HandleBeginTrade(c)
    PROVE  TradeInv'
<1> DEFINE d == pTrader[c]
<1>1. pTrader[c] # NULL
    BY DEF HandleBeginTrade, Trading
<1>2. d \in Character /\ d # c /\ d # NULL /\ pTrader[d] = c
    BY <1>1, TwoOfATrade, CharacterDBAssumption
<1>3. \A x \in Character \ {c, d} : pTrader[x] \notin {c, d}
    BY <1>1, TwoOfATrade
<1>4. /\ acceptTrade' = [acceptTrade EXCEPT ![c] = FALSE, ![d] = FALSE]
      /\ tradeItems' = [tradeItems EXCEPT ![c] = NoItems, ![d] = NoItems]
      /\ tradeGold' = [tradeGold EXCEPT ![c] = 0, ![d] = 0]
      /\ shown' = [shown EXCEPT ![c] = Nothing, ![d] = Nothing]
      /\ UNCHANGED <<pTrader, online>>
    BY DEF HandleBeginTrade, ClearTrade, ForBoth, otherVars, ownVars
<1> USE <1>2
<1>5. TradeTypeOK'
    BY <1>4, NothingType DEF TradeInv, TradeTypeOK, Agree
<1>6. TradersPaired'
    BY <1>1, <1>4 DEF TradeInv, TradeTypeOK, TradersPaired
<1>7. ShownIsOffered' /\ NothingLeft'
    BY <1>1, <1>3, <1>4 DEF TradeInv, TradeTypeOK, ShownIsOffered, NothingLeft,
                            Nothing, NoItems
<1>8. AcceptedAsShown'
  <2> SUFFICES ASSUME NEW x \in Character, acceptTrade'[x]
               PROVE  /\ agreed'[x].gold = tradeGold'[pTrader[x]]
                      /\ \A s \in TradeSlot :
                            agreed'[x].items[s] \in {tradeItems'[pTrader[x]][s], NULL}
      BY <1>4 DEF AcceptedAsShown
  <2>1. x \notin {c, d} /\ acceptTrade[x]
      BY <1>4 DEF TradeInv, TradeTypeOK
  <2>2. agreed'[x] = agreed[x]
      BY <2>1 DEF Agree
  <2>3. pTrader[x] \in Character \ {c, d}
      BY <1>3, <2>1 DEF TradeInv, TradeTypeOK, TradersPaired
  <2> QED
      BY <1>4, <2>1, <2>2, <2>3 DEF TradeInv, TradeTypeOK, AcceptedAsShown
<1> QED
    BY <1>5, <1>6, <1>7, <1>8 DEF TradeInv

\* Every handler of the trade opcodes.
LEMMA TradeKeeps == TradeInv /\ Agree /\ TradeNext => TradeInv'
<1> SUFFICES ASSUME TradeInv, Agree, TradeNext PROVE TradeInv'
    OBVIOUS
<1> USE DEF otherVars, ownVars
<1>1. ASSUME NEW c \in Character, NEW d \in Character, HandleInitiateTrade(c, d)
      PROVE  TradeInv'
    BY <1>1, InitiateKeeps
<1>2. ASSUME NEW c \in Character, HandleBeginTrade(c) PROVE TradeInv'
    BY <1>2, BeginKeeps
<1>3. ASSUME NEW c \in Character, NEW gold \in TradeGold,
             HandleSetTradeGold(c, gold)
      PROVE  TradeInv'
  <2>1. /\ gold \in Nat /\ tradeItems[c] \in [TradeSlot -> Item \cup {NULL}]
        /\ tradeItems' = [tradeItems EXCEPT ![c] = tradeItems[c]]
      BY <1>3, TradeAssumption DEF HandleSetTradeGold, TradeInv, TradeTypeOK
  <2> QED
      BY <1>3, <2>1, OfferKeeps DEF HandleSetTradeGold, Trading
<1>4. ASSUME NEW c \in Character, NEW s \in TradeSlot, NEW i \in Item \cup {NULL},
             Trading(c),
             tradeItems' = [tradeItems EXCEPT ![c] = [tradeItems[c] EXCEPT ![s] = i]],
             SendUpdateTrade(c, [tradeItems[c] EXCEPT ![s] = i], tradeGold[c]),
             UNCHANGED <<pTrader, tradeGold, online>>
      PROVE  TradeInv'
  <2> DEFINE offered == [tradeItems[c] EXCEPT ![s] = i]
  <2>1. /\ offered \in [TradeSlot -> Item \cup {NULL}] /\ tradeGold[c] \in Nat
        /\ tradeGold' = [tradeGold EXCEPT ![c] = tradeGold[c]]
      BY <1>4 DEF TradeInv, TradeTypeOK
  <2> QED
      BY <1>4, <2>1, OfferKeeps DEF Trading
<1>5. ASSUME NEW c \in Character, NEW s \in TradeSlot,
             \/ HandleClearTradeItem(c, s)
             \/ \E i \in Item : HandleSetTradeItem(c, s, i)
      PROVE  TradeInv'
    BY <1>4, <1>5 DEF HandleClearTradeItem, HandleSetTradeItem
<1>6. ASSUME NEW c \in Character, HandleUnacceptTrade(c) PROVE TradeInv'
    BY <1>6, FlagKeeps DEF HandleUnacceptTrade, Trading
<1>7. ASSUME NEW c \in Character, HandleAcceptTrade(c) PROVE TradeInv'
  <2> DEFINE d == pTrader[c]
  <2>1. /\ pTrader[c] # NULL /\ d \in Character /\ pTrader[d] = c
        /\ pTrader[d] # NULL
      BY <1>7, TwoOfATrade, CharacterDBAssumption DEF HandleAcceptTrade, Trading
  <2>2. CASE Refuse(c) /\ UNCHANGED acceptFrame
      BY <2>1, <2>2, FlagKeeps DEF Refuse, acceptFrame
  <2>3. CASE Refuse(d) /\ UNCHANGED acceptFrame
      BY <2>1, <2>3, FlagKeeps DEF Refuse, acceptFrame
  <2>4. CASE Accept(c) /\ UNCHANGED acceptFrame
      BY <2>1, <2>4, FlagKeeps DEF Accept, acceptFrame
  <2>5. CASE Exchange(c, d) /\ UNCHANGED online
      BY <2>1, <2>5, EndKeeps DEF Exchange
  <2> QED
      BY <1>7, <2>2, <2>3, <2>4, <2>5 DEF HandleAcceptTrade
<1>8. ASSUME NEW c \in Character, HandleCancelTrade(c) PROVE TradeInv'
  <2>1. CASE pTrader[c] = NULL
    <3>1. UNCHANGED tradeVars /\ UNCHANGED online
        BY <1>8, <2>1 DEF HandleCancelTrade, TradeCancel
    <3> QED
        BY <3>1, AgreeUnchanged DEF TradeInv, TradersPaired, tradeVars
  <2>2. CASE pTrader[c] # NULL
      BY <1>8, <2>2, EndKeeps DEF HandleCancelTrade, TradeCancel
  <2> QED
      BY <2>1, <2>2
<1> QED
    BY <1>1, <1>2, <1>3, <1>5, <1>6, <1>7, <1>8, Zenon DEF TradeNext

\* A step that neither trades nor logs out anybody.
LEMMA OthersKeep ==
    TradeInv /\ Agree /\ UNCHANGED tradeVars /\ online \subseteq online' => TradeInv'
<1> SUFFICES ASSUME TradeInv, Agree, UNCHANGED tradeVars, online \subseteq online'
             PROVE  TradeInv'
    OBVIOUS
<1>1. TradersPaired'
    BY DEF TradeInv, TradeTypeOK, TradersPaired, tradeVars
<1> QED
    BY <1>1, AgreeUnchanged DEF TradeInv

\* Who logs out cancels his trade first.
LEMMA LogoutKeeps ==
    ASSUME TradeInv, Agree, NEW c \in Character, LogoutPlayer(c)
    PROVE  TradeInv'
<1>1. TradeCancel(c) /\ online' = online \ {c}
    BY DEF LogoutPlayer
<1>2. CASE pTrader[c] = NULL
  <2>1. UNCHANGED tradeVars
      BY <1>1, <1>2 DEF TradeCancel
  <2>2. TradersPaired'
      BY <1>1, <1>2, <2>1, CharacterDBAssumption
         DEF TradeInv, TradeTypeOK, TradersPaired, tradeVars
  <2> QED
      BY <2>1, <2>2, AgreeUnchanged DEF TradeInv
<1>3. CASE pTrader[c] # NULL
    BY <1>1, <1>3, EndKeeps DEF TradeCancel
<1> QED
    BY <1>2, <1>3

----------------------------------------------------------------------------
\* TradeInv is an invariant of trade, mail, auction house, logins and logouts
\* together.
THEOREM TradeInvariant == Spec => []TradeInv
<1>1. EconomyInit => TradeInv
    BY NothingType, CharacterDBAssumption
       DEF EconomyInit, TradeInit, TradeInv, TradeTypeOK, TradersPaired,
           ShownIsOffered, NothingLeft, AcceptedAsShown
<1>2. TradeInv /\ [Next]_vars => TradeInv'
  <2> SUFFICES ASSUME TradeInv, [Next]_vars PROVE TradeInv'
      OBVIOUS
  <2>1. CASE UNCHANGED vars
      BY <2>1 DEF vars, ownVars, tradeVars, TradeInv, TradeTypeOK,
                  TradersPaired, ShownIsOffered, NothingLeft, AcceptedAsShown
  <2>2. CASE Next
    <3>1. Agree
        BY <2>2 DEF Next
    <3>2. CASE TradeNext
        BY <3>1, <3>2, TradeKeeps
    <3>3. CASE MailNext /\ UNCHANGED tradeVars
        BY <3>1, <3>3, MailKeepsOnline, OthersKeep
    <3>4. CASE AuctionNext /\ UNCHANGED tradeVars
        BY <3>1, <3>4, AuctionKeepsOnline, OthersKeep
    <3>5. ASSUME NEW c \in Character, LoadFromDB(c) PROVE TradeInv'
        BY <3>1, <3>5, OthersKeep DEF LoadFromDB
    <3>6. ASSUME NEW c \in Character, LogoutPlayer(c) PROVE TradeInv'
        BY <3>1, <3>6, LogoutKeeps
    <3>7. CASE Commit /\ UNCHANGED tradeVars
        BY <3>1, <3>7, OthersKeep DEF Commit, ownVars
    <3> QED
        BY <2>2, <3>2, <3>3, <3>4, <3>5, <3>6, <3>7 DEF Next, Handler
  <2> QED
      BY <2>1, <2>2
<1> QED
    BY <1>1, <1>2, PTL DEF Spec

\* Each who trades points to one who is in the world and points back, and a
\* trade that is over has left nothing behind, whoever logs out when.
THEOREM TradersArePaired == Spec => []TradersPaired
    BY TradeInvariant, PTL DEF TradeInv

\* The gold and the items that are exchanged are those that both were shown
\* when they accepted, in whatever order the two change and accept.
THEOREM AcceptedIsShown == Spec => []AcceptedAsShown
    BY TradeInvariant, PTL DEF TradeInv

----------------------------------------------------------------------------
(* Sequences and numbers.                                                  *)

\* A set of numbers has a least one.
LEMMA Least ==
    ASSUME NEW T, T \subseteq Nat, T # {}
    PROVE  \E m \in T : \A k \in T : m <= k
<1> DEFINE R == OpToRel(<, Nat)
<1>1. IsWellFoundedOn(R, Nat)
    BY NatLessThanWellFounded
<1>2. \A x, y \in Nat : <<x, y>> \in R <=> x < y
    BY DEF OpToRel
<1> HIDE DEF R
<1>3. \E x \in T : \A y \in T : ~(<<y, x>> \in R)
    BY <1>1, WFMin
<1>4. PICK x \in T : \A y \in T : ~(<<y, x>> \in R)
    BY <1>3
<1>5. ASSUME NEW k \in T PROVE x <= k
    <2>1. ~(k < x)
        BY <1>2, <1>4
    <2> QED
        BY <2>1
<1> QED
    BY <1>4, <1>5

\* Of the numbers 0..n that have a property the first.
LEMMA FirstOf ==
    ASSUME NEW n \in Nat, NEW T, T \subseteq 0..n, T # {}
    PROVE  \E m \in T : m \in 0..n /\ \A k \in 0..n : k < m => k \notin T
<1>1. T \subseteq Nat
    OBVIOUS
<1>2. PICK m \in T : \A k \in T : m <= k
    BY <1>1, Least
<1>3. m \in 0..n /\ \A k \in 0..n : k < m => k \notin T
    BY <1>2
<1> QED
    BY <1>3

\* A sequence, of whatever.
IsSequence(s) == s \in Seq({s[k] : k \in 1..Len(s)})

\* A sequence over a set is a sequence.
LEMMA SequenceOver ==
    ASSUME NEW S, NEW s \in Seq(S)
    PROVE  IsSequence(s) /\ Len(s) \in Nat
<1>1. Len(s) \in Nat /\ s = [k \in 1..Len(s) |-> s[k]]
    OBVIOUS
<1>2. s \in [1..Len(s) -> {s[k] : k \in 1..Len(s)}]
    BY <1>1
<1> QED
    BY <1>1, <1>2 DEF IsSequence

\* Its length is a number.
LEMMA SequenceLength == ASSUME NEW s, IsSequence(s) PROVE Len(s) \in Nat
    BY DEF IsSequence

\* A function on 1..n is a sequence of that length.
LEMMA SequenceOf ==
    ASSUME NEW n \in Nat, NEW s, s = [k \in 1..n |-> s[k]]
    PROVE  IsSequence(s) /\ Len(s) = n
<1>1. s \in Seq({s[k] : k \in 1..n}) /\ Len(s) = n
    OBVIOUS
<1> QED
    BY <1>1, SequenceOver

\* What \o does, element by element.
LEMMA Concatenated ==
    ASSUME NEW s, NEW t, IsSequence(s), IsSequence(t)
    PROVE  /\ IsSequence(s \o t) /\ Len(s \o t) = Len(s) + Len(t)
           /\ \A k \in 1..Len(s) : (s \o t)[k] = s[k]
           /\ \A k \in 1..Len(t) : (s \o t)[Len(s) + k] = t[k]
<1> DEFINE S == {s[k] : k \in 1..Len(s)}
           T == {t[k] : k \in 1..Len(t)}
<1>1. s \in Seq(S) /\ t \in Seq(T) /\ Len(s) \in Nat /\ Len(t) \in Nat
    BY DEF IsSequence
<1> HIDE DEF S, T
<1>2. s \in Seq(S \cup T) /\ t \in Seq(S \cup T)
  <2>1. /\ s = [k \in 1..Len(s) |-> s[k]] /\ \A k \in 1..Len(s) : s[k] \in S
        /\ t = [k \in 1..Len(t) |-> t[k]] /\ \A k \in 1..Len(t) : t[k] \in T
      BY <1>1
  <2> QED
      BY <1>1, <2>1
<1>3. /\ s \o t \in Seq(S \cup T) /\ Len(s \o t) = Len(s) + Len(t)
      /\ \A i \in 1..Len(s) + Len(t) :
            (s \o t)[i] = IF i <= Len(s) THEN s[i] ELSE t[i - Len(s)]
    BY <1>2, ConcatProperties
<1>4. IsSequence(s \o t)
    BY <1>3, SequenceOver
<1> QED
    BY <1>1, <1>3, <1>4

\* What Head and Tail do.
LEMMA Shortened ==
    ASSUME NEW s, IsSequence(s), s # <<>>
    PROVE  /\ IsSequence(Tail(s)) /\ Len(Tail(s)) = Len(s) - 1 /\ Len(s) > 0
           /\ Head(s) = s[1]
           /\ \A k \in 1..Len(s) - 1 : Tail(s)[k] = s[k + 1]
<1>1. /\ Tail(s) \in Seq({s[k] : k \in 1..Len(s)})
      /\ Len(Tail(s)) = Len(s) - 1 /\ Len(s) > 0 /\ Head(s) = s[1]
      /\ \A k \in 1..Len(s) - 1 : Tail(s)[k] = s[k + 1]
    BY DEF IsSequence
<1> QED
    BY <1>1, SequenceOver

\* Sequences of at most two elements.
LEMMA OneOrTwo ==
    /\ \A x : IsSequence(<<x>>) /\ Len(<<x>>) = 1 /\ <<x>>[1] = x
    /\ \A x, y : /\ IsSequence(<<x, y>>) /\ Len(<<x, y>>) = 2
                 /\ <<x, y>>[1] = x /\ <<x, y>>[2] = y
    /\ IsSequence(<<>>) /\ Len(<<>>) = 0
<1>1. ASSUME NEW x PROVE IsSequence(<<x>>) /\ Len(<<x>>) = 1 /\ <<x>>[1] = x
  <2>1. <<x>> \in Seq({x}) /\ Len(<<x>>) = 1 /\ <<x>>[1] = x
      OBVIOUS
  <2> QED
      BY <2>1, SequenceOver
<1>2. ASSUME NEW x, NEW y
      PROVE  /\ IsSequence(<<x, y>>) /\ Len(<<x, y>>) = 2
             /\ <<x, y>>[1] = x /\ <<x, y>>[2] = y
  <2>1. /\ <<x, y>> \in Seq({x, y}) /\ Len(<<x, y>>) = 2
        /\ <<x, y>>[1] = x /\ <<x, y>>[2] = y
      OBVIOUS
  <2> QED
      BY <2>1, SequenceOver
<1>3. IsSequence(<<>>) /\ Len(<<>>) = 0
  <2>1. <<>> \in Seq({}) /\ Len(<<>>) = 0
      OBVIOUS
  <2> QED
      BY <2>1, SequenceOver
<1> QED
    BY <1>1, <1>2, <1>3

----------------------------------------------------------------------------
(* What transactions do.                                                   *)

Tables == {"gold", "inv", "mail", "auction"}
Written(tx, t, id) == t \in DOMAIN tx /\ id \in DOMAIN tx[t]

IsDatabase(d) ==
    /\ DOMAIN d = Tables
    /\ d.gold \in [Character -> Int]
    /\ d.inv \in [Item -> Character \cup {NULL}]
    /\ d.mail \in [MailId -> MailRow \cup {NULL}]
    /\ d.auction \in [AuctionId -> AuctionRow \cup {NULL}]

IsTransaction(tx) ==
    /\ DOMAIN tx \subseteq Tables
    /\ \A c : Written(tx, "gold", c) => c \in Character /\ tx.gold[c] \in Int
    /\ \A i : Written(tx, "inv", i) =>
          i \in Item /\ tx.inv[i] \in Character \cup {NULL}
    /\ \A m : Written(tx, "mail", m) =>
          m \in MailId /\ tx.mail[m] \in MailRow \cup {NULL}
    /\ \A a : Written(tx, "auction", a) =>
          a \in AuctionId /\ tx.auction[a] \in AuctionRow \cup {NULL}

\* Apply by rows.
LEMMA Applied ==
    ASSUME NEW d, NEW tx
    PROVE  /\ DOMAIN Apply(d, tx) = DOMAIN d
           /\ \A t \in DOMAIN d : \A id \in DOMAIN d[t] :
                 Apply(d, tx)[t][id]
                   = IF Written(tx, t, id) THEN tx[t][id] ELSE d[t][id]
<1>1. ASSUME NEW t \in DOMAIN d, NEW id \in DOMAIN d[t]
      PROVE  Apply(d, tx)[t][id]
               = IF Written(tx, t, id) THEN tx[t][id] ELSE d[t][id]
  <2>1. CASE t \in DOMAIN tx
    <3>1. Apply(d, tx)[t] = Over(tx[t], d[t])
        BY <2>1 DEF Apply
    <3> QED
        BY <2>1, <3>1 DEF Over, Written
  <2>2. CASE t \notin DOMAIN tx
      BY <2>2 DEF Apply, Written
  <2> QED
      BY <2>1, <2>2
<1> QED
    BY <1>1 DEF Apply

\* A transaction leaves a database a database.
LEMMA AppliedTyped ==
    ASSUME NEW d, NEW tx, IsDatabase(d), IsTransaction(tx)
    PROVE  IsDatabase(Apply(d, tx))
<1>1. DOMAIN Apply(d, tx) = Tables
    BY DEF Apply, IsDatabase
<1>2. ASSUME NEW t \in Tables, NEW Ids, NEW Rows, d[t] \in [Ids -> Rows],
             \A id : Written(tx, t, id) => id \in Ids /\ tx[t][id] \in Rows
      PROVE  Apply(d, tx)[t] \in [Ids -> Rows]
  <2>1. t \in DOMAIN d
      BY DEF IsDatabase
  <2>2. CASE t \in DOMAIN tx
    <3>1. Apply(d, tx)[t] = Over(tx[t], d[t])
        BY <2>1, <2>2 DEF Apply
    <3>2. DOMAIN tx[t] \cup DOMAIN d[t] = Ids
        BY <1>2, <2>2 DEF Written
    <3>3. \A id \in Ids :
            (IF id \in DOMAIN tx[t] THEN tx[t][id] ELSE d[t][id]) \in Rows
        BY <1>2, <2>2 DEF Written
    <3> QED
        BY <3>1, <3>2, <3>3 DEF Over
  <2>3. CASE t \notin DOMAIN tx
      BY <1>2, <2>1, <2>3 DEF Apply
  <2> QED
      BY <2>2, <2>3
<1>3. Apply(d, tx)["gold"] \in [Character -> Int]
    BY <1>2 DEF IsDatabase, IsTransaction, Tables
<1>4. Apply(d, tx)["inv"] \in [Item -> Character \cup {NULL}]
    BY <1>2 DEF IsDatabase, IsTransaction, Tables
<1>5. Apply(d, tx)["mail"] \in [MailId -> MailRow \cup {NULL}]
    BY <1>2 DEF IsDatabase, IsTransaction, Tables
<1>6. Apply(d, tx)["auction"] \in [AuctionId -> AuctionRow \cup {NULL}]
    BY <1>2 DEF IsDatabase, IsTransaction, Tables
<1> QED
    BY <1>1, <1>3, <1>4, <1>5, <1>6 DEF IsDatabase

----------------------------------------------------------------------------
(* The database after some of the transactions.                            *)

IsRun(d, q, n, f) ==
    f = [k \in 0..n |-> IF k = 0 THEN d ELSE Apply(f[k - 1], q[k])]

\* Committed is well defined: by the least length that has no such function.
LEMMA RunExists ==
    ASSUME NEW d, NEW q, NEW n \in Nat
    PROVE  \E f : IsRun(d, q, n, f)
<1> DEFINE T == {k \in Nat : ~\E f : IsRun(d, q, k, f)}
<1> SUFFICES ASSUME T # {} PROVE FALSE
    OBVIOUS
<1>1. T \subseteq Nat
    OBVIOUS
<1>2. PICK m \in T : \A k \in T : m <= k
    <2> HIDE DEF T
    <2> QED BY <1>1, Least
<1>3. m \in Nat /\ ~\E f : IsRun(d, q, m, f)
    OBVIOUS
<1>4. m # 0
  <2> SUFFICES ASSUME m = 0 PROVE FALSE
      OBVIOUS
  <2> DEFINE f == [k \in 0..0 |-> d]
  <2>1. f = [k \in 0..0 |-> IF k = 0 THEN d ELSE Apply(f[k - 1], q[k])]
    <3>1. \A k \in 0..0 : d = IF k = 0 THEN d ELSE Apply(f[k - 1], q[k])
        OBVIOUS
    <3> QED
        BY <3>1
  <2> QED
      BY <1>3, <2>1 DEF IsRun
<1>5. m - 1 \in Nat /\ m - 1 \notin T
    BY <1>2, <1>3, <1>4
<1>6. PICK g : IsRun(d, q, m - 1, g)
    BY <1>5
<1> DEFINE f == [k \in 0..m |-> IF k = m THEN Apply(g[m - 1], q[m]) ELSE g[k]]
<1>7. \A k \in 0..(m - 1) :
          g[k] = IF k = 0 THEN d ELSE Apply(g[k - 1], q[k])
    BY <1>6 DEF IsRun
<1>8. ASSUME NEW k \in 0..m
      PROVE  f[k] = IF k = 0 THEN d ELSE Apply(f[k - 1], q[k])
  <2>1. CASE k = m
    <3>1. f[k] = Apply(g[m - 1], q[m]) /\ f[m - 1] = g[m - 1]
        BY <1>3, <1>4, <2>1
    <3> QED
        BY <1>4, <2>1, <3>1
  <2>2. CASE k # m
    <3>1. k \in 0..(m - 1) /\ f[k] = g[k]
        BY <1>3, <2>2
    <3>2. CASE k = 0
        BY <1>7, <3>1, <3>2
    <3>3. CASE k # 0
      <4>1. k - 1 \in 0..m /\ k - 1 # m
          BY <1>3, <3>1, <3>3
      <4>2. f[k - 1] = g[k - 1]
          BY <4>1
      <4> QED
          BY <1>7, <3>1, <3>3, <4>2
    <3> QED
        BY <3>2, <3>3
  <2> QED
      BY <2>1, <2>2
<1>9. f = [k \in 0..m |-> f[k]]
    OBVIOUS
<1> HIDE DEF f
<1>10. IsRun(d, q, m, f)
    BY <1>8, <1>9 DEF IsRun
<1> QED
    BY <1>3, <1>10

\* Committed is what its definition says.
LEMMA CommittedIs ==
    IsSequence(queue) =>
        /\ Committed[0] = db
        /\ \A n \in 1..Len(queue) :
             Committed[n] = Apply(Committed[n - 1], queue[n])
<1> SUFFICES ASSUME IsSequence(queue)
             PROVE  /\ Committed[0] = db
                    /\ \A n \in 1..Len(queue) :
                          Committed[n] = Apply(Committed[n - 1], queue[n])
    OBVIOUS
<1>1. Len(queue) \in Nat
    BY SequenceLength
<1>2. PICK f : IsRun(db, queue, Len(queue), f)
    BY <1>1, RunExists
<1>3. f = [k \in 0..Len(queue) |->
              IF k = 0 THEN db ELSE Apply(f[k - 1], queue[k])]
    BY <1>2 DEF IsRun
<1>4. Committed = [k \in 0..Len(queue) |->
              IF k = 0 THEN db ELSE Apply(Committed[k - 1], queue[k])]
    BY <1>3 DEF Committed
<1> QED
    BY <1>1, <1>4

\* A queue of transactions on a database.
Typed == /\ IsDatabase(db) /\ IsSequence(queue)
         /\ \A k \in 1..Len(queue) : IsTransaction(queue[k])

\* Whatever has been committed, the database is a database.
LEMMA CommittedTyped == Typed =>
  \A n \in 0..Len(queue) : IsDatabase(Committed[n])
<1> SUFFICES ASSUME Typed, NEW bad \in 0..Len(queue),
                    ~IsDatabase(Committed[bad])
             PROVE  FALSE
    OBVIOUS
<1> DEFINE T == {n \in 0..Len(queue) : ~IsDatabase(Committed[n])}
<1>1. Len(queue) \in Nat
    BY SequenceLength DEF Typed
<1>2. T \subseteq 0..Len(queue) /\ bad \in T
    OBVIOUS
<1>3. PICK m \in T : m \in 0..Len(queue) /\ \A k \in 0..Len(queue) : k < m =>
                       k \notin T
    <2> HIDE DEF T
    <2> QED BY <1>1, <1>2, FirstOf
<1>4. m # 0
    BY <1>2, <1>3, CommittedIs DEF Typed
<1>5. m \in 1..Len(queue) /\ m - 1 \in 0..Len(queue) /\ m - 1 < m
    BY <1>1, <1>3, <1>4
<1>6. IsDatabase(Committed[m - 1])
    BY <1>3, <1>5
<1>7. IsDatabase(Committed[m])
    BY <1>5, <1>6, AppliedTyped, CommittedIs DEF Typed
<1> QED
    BY <1>2, <1>3, <1>7

\* No two of the transactions write the same row.
Once(txs) ==
    \A i, j \in 1..Len(txs), t \in Tables : \A id :
        Written(txs[i], t, id) /\ Written(txs[j], t, id) => i = j

\* What it means that these transactions were added to the queue: the states
\* of before are as they were, a row that is written has its new value in the
\* end and one of the two until then, and the other rows keep theirs.
Queued(txs) ==
    /\ Typed' /\ Len(queue') = Len(queue) + Len(txs)
    /\ \A k \in 1..Len(queue) : queue'[k] = queue[k]
    /\ \A k \in 1..Len(txs) : queue'[Len(queue) + k] = txs[k]
    /\ \A k \in 0..Len(queue) : Committed'[k] = Committed[k]
    /\ \A k \in Len(queue)..(Len(queue) + Len(txs)), t \in Tables :
          \A id \in DOMAIN Drained[t] :
             Committed'[k][t][id] \in {Drained[t][id], Drained'[t][id]}
    /\ \A t \in Tables : \A id \in DOMAIN Drained[t] :
          /\ \A k \in 1..Len(txs) :
                Written(txs[k], t, id) => Drained'[t][id] = txs[k][t][id]
          /\ (\A k \in 1..Len(txs) : ~Written(txs[k], t, id))
                => Drained'[t][id] = Drained[t][id]

\* Delay adds transactions that write a row once to the queue, in this sense.
LEMMA Delayed ==
    ASSUME Typed, NEW txs, IsSequence(txs), Once(txs),
           \A k \in 1..Len(txs) : IsTransaction(txs[k]),
           Delay(txs)
    PROVE  Queued(txs)
<1> DEFINE L == Len(queue)
           N == Len(txs)
<1>1. L \in Nat /\ N \in Nat /\ IsSequence(queue)
    BY SequenceLength DEF Typed
<1>2. /\ IsSequence(queue') /\ Len(queue') = L + N
      /\ \A k \in 1..L : queue'[k] = queue[k]
      /\ \A k \in 1..N : queue'[L + k] = txs[k]
    BY <1>1, Concatenated DEF Delay
<1>3. \A k \in 1..Len(queue') : IsTransaction(queue'[k])
  <2> SUFFICES ASSUME NEW k \in 1..Len(queue') PROVE IsTransaction(queue'[k])
      OBVIOUS
  <2>1. CASE k <= L
      BY <1>1, <1>2, <2>1 DEF Typed
  <2>2. CASE ~(k <= L)
    <3>1. k - L \in 1..N /\ L + (k - L) = k
        BY <1>1, <1>2, <2>2
    <3> QED
        BY <1>2, <3>1
  <2> QED
      BY <2>1, <2>2
<1>4. Typed'
    BY <1>2, <1>3 DEF Typed, Delay
<1>5. /\ Committed'[0] = db
      /\ \A n \in 1..(L + N) :
           Committed'[n] = Apply(Committed'[n - 1], queue'[n])
  <2>1. /\ Committed'[0] = db'
        /\ \A n \in 1..Len(queue') :
              Committed'[n] = Apply(Committed'[n - 1], queue'[n])
    <3>1. (IsSequence(queue) =>
             /\ Committed[0] = db
             /\ \A n \in 1..Len(queue) :
                  Committed[n] = Apply(Committed[n - 1], queue[n]))'
        BY CommittedIs, PTL
    <3> QED
        BY <1>2, <3>1
  <2> QED
      BY <1>2, <2>1 DEF Delay
<1> HIDE DEF L, N
<1>6. \A k \in 0..L : Committed'[k] = Committed[k]
  <2> SUFFICES ASSUME NEW bad \in 0..L, Committed'[bad] # Committed[bad]
               PROVE  FALSE
      OBVIOUS
  <2> DEFINE T == {n \in 0..L : Committed'[n] # Committed[n]}
  <2>1. T \subseteq 0..L /\ T # {}
      OBVIOUS
  <2>2. PICK m \in T : m \in 0..L /\ \A k \in 0..L : k < m => k \notin T
      <3> HIDE DEF T
      <3> QED BY <1>1, <2>1, FirstOf
  <2>3. m # 0
      BY <1>1, <1>5, CommittedIs
  <2>4. m \in 1..L /\ m - 1 \in 0..L /\ m - 1 < m /\ m \in 1..(L + N)
      BY <1>1, <2>2, <2>3
  <2>5. Committed'[m - 1] = Committed[m - 1]
      BY <2>2, <2>4
  <2>6. Committed'[m] = Committed[m]
      BY <1>1, <1>2, <1>5, <2>4, <2>5, CommittedIs DEF L
  <2> QED
      BY <2>1, <2>2, <2>6
<1>7. IsDatabase(Drained) /\ Drained = Committed'[L]
    BY <1>1, <1>6, CommittedTyped DEF Drained, L
<1>8. \A k \in 0..(L + N) : IsDatabase(Committed'[k])
  <2>1. (Typed => \A n \in 0..Len(queue) : IsDatabase(Committed[n]))'
      BY CommittedTyped, PTL
  <2> QED
      BY <1>2, <1>4, <2>1
<1> DEFINE Sofar(j) ==
      \A t \in Tables : \A id \in DOMAIN Drained[t] :
          /\ \A k \in 1..j :
                Written(txs[k], t, id) =>
                Committed'[L + j][t][id] = txs[k][t][id]
          /\ (\A k \in 1..j : ~Written(txs[k], t, id))
                => Committed'[L + j][t][id] = Drained[t][id]
<1>9. \A j \in 0..N : Sofar(j)
  <2> SUFFICES ASSUME NEW bad \in 0..N, ~Sofar(bad) PROVE FALSE
      OBVIOUS
  <2> DEFINE T == {n \in 0..N : ~Sofar(n)}
  <2>1. T \subseteq 0..N /\ T # {}
      OBVIOUS
  <2>2. PICK m \in T : m \in 0..N /\ \A k \in 0..N : k < m => k \notin T
      <3> HIDE DEF T, Sofar
      <3> QED BY <1>1, <2>1, FirstOf
  <2>3. Sofar(0)
      BY <1>1, <1>7
  <2>4. m # 0
      BY <2>2, <2>3
  <2>5. m \in 1..N /\ m - 1 \in 0..N /\ m - 1 < m
      BY <1>1, <2>2, <2>4
  <2>6. Sofar(m - 1)
      BY <2>2, <2>5
  <2>7. Committed'[L + m] = Apply(Committed'[L + (m - 1)], txs[m])
    <3>1. L + m \in 1..(L + N) /\ (L + m) - 1 = L + (m - 1)
        BY <1>1, <2>5
    <3> QED
        BY <1>2, <1>5, <2>5, <3>1
  <2>8. /\ IsDatabase(Committed'[L + (m - 1)])
    <3>1. L + (m - 1) \in 0..(L + N)
        BY <1>1, <2>5
    <3> QED
        BY <1>8, <3>1
  <2>9. ASSUME NEW t \in Tables, NEW id \in DOMAIN Drained[t]
        PROVE  Committed'[L + m][t][id]
                 = IF Written(txs[m], t, id) THEN txs[m][t][id]
                   ELSE Committed'[L + (m - 1)][t][id]
    <3>1. /\ t \in DOMAIN Committed'[L + (m - 1)]
          /\ DOMAIN Committed'[L + (m - 1)][t] = DOMAIN Drained[t]
        BY <1>7, <2>8 DEF IsDatabase, Tables
    <3> QED
        BY <2>7, <3>1, Applied
  <2>10. ASSUME NEW t \in Tables, NEW id \in DOMAIN Drained[t],
                NEW k \in 1..m, Written(txs[k], t, id)
         PROVE  Committed'[L + m][t][id] = txs[k][t][id]
    <3>1. CASE k = m
        BY <2>9, <2>10, <3>1
    <3>2. CASE k # m
      <4>1. k \in 1..(m - 1) /\ k \in 1..N
          BY <1>1, <2>5, <3>2
      <4>2. ~Written(txs[m], t, id)
          BY <2>5, <2>10, <3>2, <4>1 DEF Once, N
      <4>3. Committed'[L + (m - 1)][t][id] = txs[k][t][id]
          BY <2>6, <2>10, <4>1
      <4> QED
          BY <2>9, <4>2, <4>3
    <3> QED
        BY <3>1, <3>2
  <2>11. ASSUME NEW t \in Tables, NEW id \in DOMAIN Drained[t],
                \A k \in 1..m : ~Written(txs[k], t, id)
         PROVE  Committed'[L + m][t][id] = Drained[t][id]
    <3>1. ~Written(txs[m], t, id) /\ \A k \in 1..(m - 1) :
            ~Written(txs[k], t, id)
        BY <1>1, <2>5, <2>11
    <3>2. Committed'[L + (m - 1)][t][id] = Drained[t][id]
        BY <2>6, <3>1
    <3> QED
        BY <2>9, <3>1, <3>2
  <2>12. Sofar(m)
      BY <2>10, <2>11
  <2> QED
      BY <2>2, <2>12
<1>10. Drained' = Committed'[L + N]
    BY <1>2 DEF Drained
<1>11. ASSUME NEW k \in L..(L + N), NEW t \in Tables,
              NEW id \in DOMAIN Drained[t]
       PROVE  Committed'[k][t][id] \in {Drained[t][id], Drained'[t][id]}
  <2>1. k - L \in 0..N /\ L + (k - L) = k /\ N \in 0..N
      BY <1>1
  <2>2. Sofar(k - L) /\ Sofar(N)
      BY <1>9, <2>1
  <2>3. CASE \A x \in 1..(k - L) : ~Written(txs[x], t, id)
      BY <2>1, <2>2, <2>3
  <2>4. CASE \E x \in 1..(k - L) : Written(txs[x], t, id)
    <3>1. PICK x \in 1..(k - L) : Written(txs[x], t, id)
        BY <2>4
    <3>2. x \in 1..N
        BY <1>1, <2>1
    <3>3. Committed'[L + (k - L)][t][id] = txs[x][t][id]
        BY <2>2, <3>1
    <3>4. Committed'[L + N][t][id] = txs[x][t][id]
        BY <2>2, <3>1, <3>2
    <3> QED
        BY <1>10, <2>1, <3>3, <3>4
  <2> QED
      BY <2>3, <2>4
<1>12. Sofar(N)
    BY <1>1, <1>9
<1> QED
    BY <1>2, <1>4, <1>6, <1>10, <1>11, <1>12 DEF Queued, L, N

\* And the database has its types in the end.
LEMMA AddedTyped ==
    ASSUME NEW txs, Queued(txs) PROVE IsDatabase(Drained')
<1>1. (Typed => \A n \in 0..Len(queue) : IsDatabase(Committed[n]))'
    BY CommittedTyped, PTL
<1>2. Typed' /\ Len(queue') \in Nat
    BY SequenceLength DEF Queued, Typed
<1> QED
    BY <1>1, <1>2 DEF Drained

\* A commit takes the first of the states of Committed away.
LEMMA CommitShifts ==
    ASSUME Typed, Commit
    PROVE  /\ Typed' /\ Len(queue) \in Nat \ {0}
           /\ Len(queue') = Len(queue) - 1
           /\ \A k \in 1..Len(queue') : queue'[k] = queue[k + 1]
           /\ \A k \in 0..Len(queue') : Committed'[k] = Committed[k + 1]
           /\ Drained' = Drained
<1> DEFINE L == Len(queue)
<1>1. /\ IsSequence(queue') /\ Len(queue') = L - 1 /\ L > 0
      /\ \A k \in 1..(L - 1) : queue'[k] = queue[k + 1]
      /\ db' = Apply(db, queue[1])
    BY Shortened DEF Typed, Commit
<1>2. L \in Nat
    BY SequenceLength DEF Typed
<1>3. db' = Committed[1] /\ IsDatabase(db')
    BY <1>2, <1>1, CommittedIs, CommittedTyped DEF Typed
<1>4. \A k \in 1..(L - 1) : IsTransaction(queue'[k])
    BY <1>2, <1>1 DEF Typed
<1>5. Typed'
    BY <1>1, <1>3, <1>4 DEF Typed
<1>6. /\ Committed'[0] = db'
      /\ \A n \in 1..(L - 1) :
           Committed'[n] = Apply(Committed'[n - 1], queue'[n])
  <2>1. (IsSequence(queue) =>
             /\ Committed[0] = db
             /\ \A n \in 1..Len(queue) :
                  Committed[n] = Apply(Committed[n - 1], queue[n]))'
        BY CommittedIs, PTL
  <2> QED
      BY <1>1, <2>1
<1> HIDE DEF L
<1>7. \A k \in 0..(L - 1) : Committed'[k] = Committed[k + 1]
  <2> SUFFICES ASSUME NEW bad \in 0..(L - 1),
                      Committed'[bad] # Committed[bad + 1]
               PROVE  FALSE
      OBVIOUS
  <2> DEFINE T == {n \in 0..(L - 1) : Committed'[n] # Committed[n + 1]}
  <2>1. T \subseteq 0..(L - 1) /\ T # {} /\ L - 1 \in Nat
      BY <1>2, <1>1
  <2>2. PICK m \in T : m \in 0..(L - 1) /\ \A k \in 0..(L - 1) : k < m =>
                         k \notin T
      <3> HIDE DEF T
      <3> QED BY <2>1, FirstOf
  <2>3. m # 0
      BY <1>3, <1>6, <2>2
  <2>4. /\ m \in 1..(L - 1) /\ m - 1 \in 0..(L - 1) /\ m - 1 < m
        /\ m + 1 \in 1..L /\ (m - 1) + 1 = m /\ (m + 1) - 1 = m
      BY <1>2, <2>2, <2>3
  <2>5. Committed'[m - 1] = Committed[m]
      BY <2>2, <2>4
  <2>6. Committed[m + 1] = Apply(Committed[m], queue[m + 1])
      BY <2>4, CommittedIs DEF Typed, L
  <2>7. Committed'[m] = Committed[m + 1]
      BY <1>1, <1>6, <2>4, <2>5, <2>6
  <2> QED
      BY <2>2, <2>7
<1>8. Drained' = Drained
  <2>1. L - 1 \in 0..(L - 1) /\ (L - 1) + 1 = L
      BY <1>2, <1>1
  <2> QED
      BY <1>1, <1>7, <2>1 DEF Drained, L
<1> QED
    BY <1>2, <1>1, <1>5, <1>7, <1>8 DEF L

\* A row that nobody has written is the same in all states.
LEMMA NotWritten ==
    ASSUME Typed, NEW t \in Tables, NEW id \in DOMAIN db[t],
           NEW n \in 0..Len(queue),
           \A k \in (n + 1)..Len(queue) : ~Written(queue[k], t, id)
    PROVE  Drained[t][id] = Committed[n][t][id]
<1> DEFINE L == Len(queue)
<1>1. L \in Nat /\ IsSequence(queue) /\ n \in Nat
    BY SequenceLength DEF Typed
<1>2. \A k \in 0..L : IsDatabase(Committed[k])
    BY CommittedTyped
<1>3. \A k \in 0..L :
        t \in DOMAIN Committed[k] /\ DOMAIN Committed[k][t] = DOMAIN db[t]
    BY <1>2 DEF IsDatabase, Tables, Typed
<1> SUFFICES ASSUME Drained[t][id] # Committed[n][t][id] PROVE FALSE
    OBVIOUS
<1> DEFINE T == {k \in 0..L :
      k >= n /\ Committed[k][t][id] # Committed[n][t][id]}
<1>4. T \subseteq 0..L /\ L \in T
    BY <1>1 DEF Drained
<1>5. PICK m \in T : m \in 0..L /\ \A k \in 0..L : k < m => k \notin T
    <2> HIDE DEF T
    <2> QED BY <1>1, <1>4, FirstOf
<1>6. m # n /\ m >= n
    BY <1>5
<1>7. m \in 1..L /\ m - 1 \in 0..L /\ m - 1 < m /\ m \in (n + 1)..L
        /\ m - 1 >= n
    BY <1>1, <1>5, <1>6
<1>8. Committed[m - 1][t][id] = Committed[n][t][id]
    BY <1>5, <1>7
<1>9. Committed[m] = Apply(Committed[m - 1], queue[m])
    BY <1>1, <1>7, CommittedIs
<1>10. Committed[m][t][id] = Committed[m - 1][t][id]
    BY <1>3, <1>7, <1>9, Applied
<1> QED
    BY <1>5, <1>8, <1>10

\* So is one that Writes does not find.
LEMMA NoWrites ==
    ASSUME Typed, NEW t \in Tables, NEW id \in DOMAIN db[t], ~Writes(t, id)
    PROVE  \A n \in 0..Len(queue) : Committed[n][t][id] = db[t][id]
<1>1. Len(queue) \in Nat /\ DOMAIN queue = 1..Len(queue)
    BY SequenceLength DEF Typed, IsSequence
<1>2. \A k \in 1..Len(queue) : ~Written(queue[k], t, id)
    BY <1>1 DEF Writes, Written
<1>3. \A n \in 0..Len(queue) : Drained[t][id] = Committed[n][t][id]
    BY <1>1, <1>2, NotWritten
<1>4. Committed[0] = db
    BY CommittedIs DEF Typed
<1> QED
    BY <1>1, <1>3, <1>4

----------------------------------------------------------------------------
(* The ids that nobody has, and the transactions of the handlers.          *)

\* Min takes an element of the set.
LEMMA LeastOf == ASSUME NEW T, T \subseteq Nat, T # {} PROVE Min(T) \in T
<1>1. \E m \in T : \A k \in T : m <= k
    BY Least
<1> QED
    BY <1>1 DEF Min

\* GenerateMailID finds an id that nobody has, where there is one.
LEMMA NextMailFresh == FreshMails # {} => NextMail \in FreshMails
    BY LeastOf, CharacterDBAssumption
       DEF FreshMails, NextMail, CharacterDBAssumption

\* A finite set of numbers in ascending order.
Ascending(n, S, f) ==
    f \in [1..n -> S] /\ \A j, k \in 1..n : j < k => f[j] < f[k]

\* A set of numbers with n elements has n of them in ascending order.
LEMMA AscendingExists ==
    ASSUME NEW n \in Nat, NEW S, S \subseteq Nat, IsFiniteSet(S),
           n <= Cardinality(S)
    PROVE  \E f : Ascending(n, S, f)
<1> DEFINE T == {k \in Nat : \E R \in SUBSET S :
                    k <= Cardinality(R) /\ ~\E f : Ascending(k, R, f)}
<1> SUFFICES ASSUME n \in T PROVE FALSE
    OBVIOUS
<1>1. T \subseteq Nat /\ T # {}
    OBVIOUS
<1>2. PICK m \in T : \A k \in T : m <= k
    <2> HIDE DEF T
    <2> QED BY <1>1, Least
<1>3. PICK R \in SUBSET S : m <= Cardinality(R) /\ ~\E f : Ascending(m, R, f)
    BY <1>2
<1>4. m \in Nat /\ R \subseteq Nat /\ IsFiniteSet(R) /\ Cardinality(R) \in Nat
    BY <1>2, <1>3, FS_Subset, FS_CardinalityType
<1>5. m # 0
  <2> SUFFICES ASSUME m = 0 PROVE FALSE
      OBVIOUS
  <2>1. Ascending(0, R, [k \in 1..0 |-> 0])
      BY DEF Ascending
  <2> QED
      BY <1>3, <2>1
<1>6. R # {}
    BY <1>3, <1>4, <1>5, FS_EmptySet
<1>7. PICK x \in R : \A y \in R : x <= y
    BY <1>4, <1>6, Least
<1>8. m - 1 \in Nat /\ m - 1 <= Cardinality(R \ {x}) /\ R \ {x} \in SUBSET S
  <2>1. Cardinality(R \ {x}) = Cardinality(R) - 1
      BY <1>4, <1>7, FS_RemoveElement
  <2>2. m - 1 \in Nat /\ m - 1 <= Cardinality(R) - 1
      BY <1>3, <1>4, <1>5
  <2> QED
      BY <2>1, <2>2
<1>9. m - 1 \notin T
    BY <1>2, <1>4, <1>8
<1>10. PICK g : Ascending(m - 1, R \ {x}, g)
    BY <1>8, <1>9
<1> DEFINE f == [k \in 1..m |-> IF k = 1 THEN x ELSE g[k - 1]]
<1>11. \A k \in 1..m : k # 1 => k - 1 \in 1..(m - 1) /\ f[k] = g[k - 1]
    BY <1>4
<1>12. \A k \in 1..(m - 1) : g[k] \in R /\ g[k] # x /\ x <= g[k]
    BY <1>7, <1>10 DEF Ascending
<1>13. \A k \in 1..m : f[k] \in R
    BY <1>7, <1>11, <1>12
<1>14. f \in [1..m -> R]
    BY <1>13
<1>15. ASSUME NEW j \in 1..m, NEW k \in 1..m, j < k PROVE f[j] < f[k]
  <2>1. k # 1 /\ k - 1 \in 1..(m - 1) /\ f[k] = g[k - 1]
      BY <1>4, <1>11, <1>15
  <2>2. CASE j = 1
    <3>1. f[j] = x
        BY <2>2
    <3>2. x \in Nat /\ g[k - 1] \in Nat
        BY <1>4, <1>7, <1>12, <2>1
    <3> QED
        BY <1>12, <2>1, <3>1, <3>2
  <2>3. CASE j # 1
    <3>1. j - 1 \in 1..(m - 1) /\ f[j] = g[j - 1] /\ j - 1 < k - 1
        BY <1>4, <1>11, <1>15, <2>3
    <3> QED
        BY <1>10, <2>1, <3>1 DEF Ascending
  <2> QED
      BY <2>2, <2>3
<1> HIDE DEF f
<1>16. Ascending(m, R, f)
    BY <1>14, <1>15 DEF Ascending
<1> QED
    BY <1>3, <1>16

\* The ids of many mails are fresh, and no two of them are the same.
LEMMA MailIdsFresh ==
    ASSUME NEW n \in Nat, n <= Cardinality(FreshMails)
    PROVE  /\ MailIds(n) \in [1..n -> FreshMails]
           /\ \A j, k \in 1..n : j # k => MailIds(n)[j] # MailIds(n)[k]
<1>1. FreshMails \subseteq Nat /\ IsFiniteSet(FreshMails)
  <2>1. FreshMails \in SUBSET MailId
      BY DEF FreshMails
  <2> QED
      BY <2>1, FS_Subset, CharacterDBAssumption DEF CharacterDBAssumption
<1>2. PICK f : Ascending(n, FreshMails, f)
    BY <1>1, AscendingExists
<1>3. Ascending(n, FreshMails, MailIds(n))
    BY <1>2 DEF Ascending, MailIds
<1>4. ASSUME NEW j \in 1..n, NEW k \in 1..n, j # k
      PROVE  MailIds(n)[j] # MailIds(n)[k]
  <2>1. j < k \/ k < j
      BY <1>4
  <2>2. MailIds(n)[j] \in Nat /\ MailIds(n)[k] \in Nat
      BY <1>1, <1>3 DEF Ascending
  <2> QED
      BY <1>3, <2>1, <2>2 DEF Ascending
<1> QED
    BY <1>3, <1>4 DEF Ascending

\* A set as a sequence.
LEMMA SetAsSequence ==
    ASSUME NEW S, IsFiniteSet(S)
    PROVE  /\ Cardinality(S) \in Nat
           /\ SetToSeq(S) \in [1..Cardinality(S) -> S]
           /\ \A x \in S : \E k \in 1..Cardinality(S) : SetToSeq(S)[k] = x
           /\ \A j, k \in 1..Cardinality(S) :
                 SetToSeq(S)[j] = SetToSeq(S)[k] => j = k
<1> DEFINE n == Cardinality(S)
<1>1. n \in Nat /\ ExistsBijection(1..n, S)
    BY FS_CardinalityType
<1>2. PICK f : f \in Bijection(1..n, S)
    BY <1>1 DEF ExistsBijection
<1>3. f \in [1..n -> S] /\ IsInjective(f)
    BY <1>2 DEF Bijection, Injection, IsInjective
<1>4. SetToSeq(S) \in [1..n -> S] /\ IsInjective(SetToSeq(S))
    BY <1>3 DEF SetToSeq
<1>5. SetToSeq(S) \in Injection(1..n, S)
    BY <1>4 DEF Injection
<1>6. Cardinality(1..n) = n
    BY <1>1, FS_Interval
<1>7. SetToSeq(S) \in Surjection(1..n, S)
    BY <1>5, <1>6, FS_Injection
<1> QED
    BY <1>1, <1>4, <1>7 DEF Surjection, IsInjective

\* What the transactions of the handlers write.
LEMMA BothIs ==
    ASSUME NEW tx, NEW ty, IsTransaction(tx), IsTransaction(ty)
    PROVE  LET b == Both(tx, ty) IN
           /\ IsTransaction(b)
           /\ \A t, id : Written(b, t, id) <=>
                Written(tx, t, id) \/ Written(ty, t, id)
           /\ \A t, id : Written(tx, t, id) => b[t][id] = tx[t][id]
           /\ \A t, id : Written(ty, t, id) /\ ~Written(tx, t, id)
                            => b[t][id] = ty[t][id]
<1> DEFINE b == Both(tx, ty)
<1>1. DOMAIN b = DOMAIN tx \cup DOMAIN ty
    BY DEF Both
<1>2. \A t \in DOMAIN b :
        b[t] = IF t \notin DOMAIN ty THEN tx[t]
               ELSE IF t \notin DOMAIN tx THEN ty[t] ELSE Over(tx[t], ty[t])
    BY DEF Both
<1> HIDE DEF b
<1>3. ASSUME NEW t, NEW id
      PROVE  Written(b, t, id) <=> Written(tx, t, id) \/ Written(ty, t, id)
  <2>1. CASE t \in DOMAIN tx /\ t \in DOMAIN ty
    <3>1. b[t] = Over(tx[t], ty[t]) /\ t \in DOMAIN b
        BY <1>1, <1>2, <2>1
    <3> QED
        BY <2>1, <3>1 DEF Over, Written
  <2>2. CASE ~(t \in DOMAIN tx /\ t \in DOMAIN ty)
      BY <1>1, <1>2, <2>2 DEF Written
  <2> QED
      BY <2>1, <2>2
<1>4. ASSUME NEW t, NEW id
      PROVE  /\ Written(tx, t, id) => b[t][id] = tx[t][id]
             /\ Written(ty, t, id) /\ ~Written(tx, t, id) =>
                  b[t][id] = ty[t][id]
  <2>1. CASE t \in DOMAIN tx /\ t \in DOMAIN ty
    <3>1. b[t] = Over(tx[t], ty[t])
        BY <1>1, <1>2, <2>1
    <3> QED
        BY <2>1, <3>1 DEF Over, Written
  <2>2. CASE ~(t \in DOMAIN tx /\ t \in DOMAIN ty)
      BY <1>1, <1>2, <2>2 DEF Written
  <2> QED
      BY <2>1, <2>2
<1>5. IsTransaction(b)
  <2>1. DOMAIN b \subseteq Tables
      BY <1>1 DEF IsTransaction
  <2>2. ASSUME NEW t, NEW Ids, NEW Rows,
               \A id : Written(tx, t, id) => id \in Ids /\ tx[t][id] \in Rows,
               \A id : Written(ty, t, id) => id \in Ids /\ ty[t][id] \in Rows
        PROVE  \A id : Written(b, t, id) => id \in Ids /\ b[t][id] \in Rows
      BY <1>3, <1>4, <2>2
  <2>3. \A c : Written(b, "gold", c) => c \in Character /\ b["gold"][c] \in Int
      BY <2>2 DEF IsTransaction
  <2>4. \A i : Written(b, "inv", i) =>
            i \in Item /\ b["inv"][i] \in Character \cup {NULL}
      BY <2>2 DEF IsTransaction
  <2>5. \A m : Written(b, "mail", m) =>
            m \in MailId /\ b["mail"][m] \in MailRow \cup {NULL}
      BY <2>2 DEF IsTransaction
  <2>6. \A a : Written(b, "auction", a) =>
            a \in AuctionId /\ b["auction"][a] \in AuctionRow \cup {NULL}
      BY <2>2 DEF IsTransaction
  <2> QED
      BY <2>1, <2>3, <2>4, <2>5, <2>6 DEF IsTransaction
<1> QED
    BY <1>3, <1>4, <1>5 DEF b

\* The statement that saves the gold of a character.
LEMMA SaveGoldIs ==
    ASSUME NEW c \in Character, NEW gold \in Int
    PROVE  LET tx == SaveGoldToDB(c, gold) IN
           /\ IsTransaction(tx) /\ tx["gold"][c] = gold
           /\ \A t, id : Written(tx, t, id) <=> t = "gold" /\ id = c
<1> DEFINE tx == SaveGoldToDB(c, gold)
<1>1. DOMAIN tx = {"gold"} /\ DOMAIN tx["gold"] = {c} /\ tx["gold"][c] = gold
    BY DEF SaveGoldToDB, OneRow
<1> HIDE DEF tx
<1>2. \A t, id : Written(tx, t, id) <=> t = "gold" /\ id = c
    BY <1>1 DEF Written
<1>3. IsTransaction(tx)
    BY <1>1, <1>2 DEF IsTransaction, Tables
<1> QED
    BY <1>1, <1>2, <1>3 DEF tx

\* Those of SaveInventoryAndGoldToDB.
LEMMA SaveInventoryIs ==
    ASSUME NEW c \in Character, NEW gold \in Int, NEW items \in SUBSET Item
    PROVE  LET tx == SaveInventoryAndGoldToDB(c, gold, items) IN
           /\ IsTransaction(tx) /\ tx["gold"][c] = gold
           /\ \A i \in items : tx["inv"][i] = c
           /\ \A t, id : Written(tx, t, id)
                 <=> (t = "gold" /\ id = c) \/ (t = "inv" /\ id \in items)
<1> DEFINE tx == SaveInventoryAndGoldToDB(c, gold, items)
<1>1. /\ DOMAIN tx = {"gold", "inv"}
      /\ DOMAIN tx["gold"] = {c} /\ tx["gold"][c] = gold
      /\ DOMAIN tx["inv"] = items /\ \A i \in items : tx["inv"][i] = c
    BY DEF SaveInventoryAndGoldToDB, OneRow
<1> HIDE DEF tx
<1>2. \A t, id : Written(tx, t, id)
                 <=> (t = "gold" /\ id = c) \/ (t = "inv" /\ id \in items)
    BY <1>1 DEF Written
<1>3. IsTransaction(tx)
    BY <1>1, <1>2 DEF IsTransaction, Tables
<1> QED
    BY <1>1, <1>2, <1>3 DEF tx

\* The statement that inserts a mail, or deletes it.
LEMMA MailWriteIs ==
    ASSUME NEW m \in MailId, NEW row \in MailRow \cup {NULL}
    PROVE  LET tx == [mail |-> OneRow(m, row)] IN
           /\ IsTransaction(tx) /\ tx["mail"][m] = row
           /\ \A t, id : Written(tx, t, id) <=> t = "mail" /\ id = m
<1> DEFINE tx == [mail |-> OneRow(m, row)]
<1>1. DOMAIN tx = {"mail"} /\ DOMAIN tx["mail"] = {m} /\ tx["mail"][m] = row
    BY DEF OneRow
<1> HIDE DEF tx
<1>2. \A t, id : Written(tx, t, id) <=> t = "mail" /\ id = m
    BY <1>1 DEF Written
<1>3. IsTransaction(tx)
    BY <1>1, <1>2 DEF IsTransaction, Tables
<1> QED
    BY <1>1, <1>2, <1>3 DEF tx

\* The one that takes an item out of the inventory.
LEMMA ItemDeleteIs ==
    ASSUME NEW i \in Item
    PROVE  LET tx == [inv |-> OneRow(i, NULL)] IN
           /\ IsTransaction(tx) /\ tx["inv"][i] = NULL
           /\ \A t, id : Written(tx, t, id) <=> t = "inv" /\ id = i
<1> DEFINE tx == [inv |-> OneRow(i, NULL)]
<1>1. DOMAIN tx = {"inv"} /\ DOMAIN tx["inv"] = {i} /\ tx["inv"][i] = NULL
    BY DEF OneRow
<1> HIDE DEF tx
<1>2. \A t, id : Written(tx, t, id) <=> t = "inv" /\ id = i
    BY <1>1 DEF Written
<1>3. IsTransaction(tx)
    BY <1>1, <1>2 DEF IsTransaction, Tables
<1> QED
    BY <1>1, <1>2, <1>3 DEF tx

\* The one that inserts, updates or deletes an auction.
LEMMA SaveAuctionIs ==
    ASSUME NEW a \in AuctionId, NEW row \in AuctionRow \cup {NULL}
    PROVE  LET tx == SaveAuction(a, row) IN
           /\ IsTransaction(tx) /\ tx["auction"][a] = row
           /\ \A t, id : Written(tx, t, id) <=> t = "auction" /\ id = a
<1> DEFINE tx == SaveAuction(a, row)
<1>1. DOMAIN tx = {"auction"} /\ DOMAIN tx["auction"] = {a}
        /\ tx["auction"][a] = row
    BY DEF OneRow, SaveAuction
<1> HIDE DEF tx
<1>2. \A t, id : Written(tx, t, id) <=> t = "auction" /\ id = a
    BY <1>1 DEF Written
<1>3. IsTransaction(tx)
    BY <1>1, <1>2 DEF IsTransaction, Tables
<1> QED
    BY <1>1, <1>2, <1>3 DEF tx

\* Those of _SaveMail: the mail that has changed, and the deleted ones.
LEMMA SaveMailIs ==
    ASSUME NEW c \in Character, NEW changes, DOMAIN changes \subseteq MailId,
           \A m \in DOMAIN changes : changes[m] \in MailRow,
           deletedMails \subseteq MailId
    PROVE  LET tx == SaveMail(c, changes) IN
           /\ IsTransaction(tx)
           /\ \A t, id : Written(tx, t, id)
                 <=> t = "mail" /\ id \in DOMAIN changes \cup ToDelete(c)
           /\ \A m \in DOMAIN changes : tx["mail"][m] = Row(changes[m])
           /\ \A m \in ToDelete(c) \ DOMAIN changes : tx["mail"][m] = NULL
<1> DEFINE tx == SaveMail(c, changes)
<1>1. /\ DOMAIN tx = {"mail"}
      /\ DOMAIN tx["mail"] = DOMAIN changes \cup ToDelete(c)
      /\ \A m \in DOMAIN changes : tx["mail"][m] = Row(changes[m])
      /\ \A m \in ToDelete(c) \ DOMAIN changes : tx["mail"][m] = NULL
    BY DEF SaveMail, Over
<1>2. ToDelete(c) \subseteq MailId
    BY DEF ToDelete
<1> HIDE DEF tx
<1>3. \A t, id : Written(tx, t, id)
                 <=> t = "mail" /\ id \in DOMAIN changes \cup ToDelete(c)
    BY <1>1 DEF Written
<1>4. IsTransaction(tx)
  <2>1. \A m \in DOMAIN changes \cup ToDelete(c) :
            m \in MailId /\ tx["mail"][m] \in MailRow \cup {NULL}
      BY <1>1, <1>2 DEF Row
  <2> QED
      BY <1>1, <1>3, <2>1 DEF IsTransaction, Tables
<1> QED
    BY <1>1, <1>3, <1>4 DEF tx

\* The transactions before a mail is sent: one for each item, of that item.
LEMMA TakeOutIs ==
    ASSUME NEW items \in SUBSET Item
    PROVE  /\ IsSequence(TakeOut(items))
           /\ Len(TakeOut(items)) = Cardinality(items)
           /\ Cardinality(items) \in Nat
           /\ \A k \in 1..Cardinality(items) :
                 /\ IsTransaction(TakeOut(items)[k])
                 /\ DOMAIN TakeOut(items)[k] = {"inv"}
                 /\ \A t, id : Written(TakeOut(items)[k], t, id) =>
                       t = "inv" /\ id \in items
                       /\ TakeOut(items)[k][t][id] = NULL
           /\ \A i \in items : \E k \in 1..Cardinality(items) :
                 Written(TakeOut(items)[k], "inv", i)
           /\ \A j, k \in 1..Cardinality(items) : \A t, id :
                 Written(TakeOut(items)[j], t, id)
                 /\ Written(TakeOut(items)[k], t, id)
                    => j = k
<1> DEFINE n == Cardinality(items)
           s == SetToSeq(items)
<1>1. IsFiniteSet(items)
    BY FS_Subset, CharacterDBAssumption DEF CharacterDBAssumption
<1>2. /\ n \in Nat /\ s \in [1..n -> items]
      /\ \A x \in items : \E k \in 1..n : s[k] = x
      /\ \A j, k \in 1..n : s[j] = s[k] => j = k
    BY <1>1, SetAsSequence
<1>3. TakeOut(items) = [k \in 1..n |-> [inv |-> OneRow(s[k], NULL)]]
    BY DEF TakeOut
<1> HIDE DEF n, s
<1>4. TakeOut(items) = [k \in 1..n |-> TakeOut(items)[k]]
    BY <1>3
<1>5. IsSequence(TakeOut(items)) /\ Len(TakeOut(items)) = n
    BY <1>2, <1>4, SequenceOf
<1>6. ASSUME NEW k \in 1..n
      PROVE  LET tx == TakeOut(items)[k] IN
             /\ IsTransaction(tx) /\ tx["inv"][s[k]] = NULL
             /\ DOMAIN tx = {"inv"}
             /\ \A t, id : Written(tx, t, id) <=> t = "inv" /\ id = s[k]
  <2>1. TakeOut(items)[k] = [inv |-> OneRow(s[k], NULL)] /\ s[k] \in Item
      BY <1>2, <1>3
  <2>2. DOMAIN TakeOut(items)[k] = {"inv"}
      BY <2>1
  <2> QED
      BY <2>1, <2>2, ItemDeleteIs
<1> QED
    BY <1>2, <1>5, <1>6 DEF n

----------------------------------------------------------------------------
(* The inductive invariant.                                                *)

Boxes == UNION {[ids -> MailRow] : ids \in SUBSET MailId}

StateTyped ==
    /\ Typed
    /\ online \subseteq Character
    /\ money \in [Character -> Int] /\ bag \in [Character -> SUBSET Item]
    /\ mailbox \in [Character -> Boxes \cup {NULL}]
    /\ deletedMails \subseteq MailId /\ Gone \subseteq Item
    /\ auctions \in [AuctionId -> AuctionRow \cup {NULL}]

\* Only who is in the world has his mails loaded, and they are his.
BoxesOwned ==
    \A c \in Character : mailbox[c] # NULL =>
        c \in online /\ \A m \in DOMAIN mailbox[c] : mailbox[c][m].to = c

\* Only a mail of the auction house has no sender; it asks for no gold.
SendersKnown ==
    \A m \in MailId : Drained.mail[m] # NULL /\ Drained.mail[m].from = NULL
        => Drained.mail[m].kind = "auction" /\ Drained.mail[m].cod = 0

\* No transaction after the first k saves c.
Quiet(c, k) == \A j \in (k + 1)..Len(queue) : ~Written(queue[j], "gold", c)

\* After the last save of a character who has left, his items are final.
ItemsSafe ==
    \A c \in Character \ online, k \in 0..Len(queue) : Quiet(c, k) =>
        \A i \in Item : Committed[k].inv[i] = c <=> Drained.inv[i] = c

\* And so are the mails he has received, until he loads them.
MailsSafe ==
    \A c \in Character, k \in 0..Len(queue) :
        mailbox[c] = NULL /\ (c \in online \/ Quiet(c, k)) =>
            \A m \in MailId :
                Committed[k].mail[m] # NULL /\ Committed[k].mail[m].to = c
                    => Drained.mail[m] = Committed[k].mail[m]

\* Where an item is, in a state d of the database.
InMail(d, m, i) == d.mail[m] # NULL /\ i \in d.mail[m].items
InAuction(d, a, i) == d.auction[a] # NULL /\ d.auction[a].item = i
Nowhere(d, i) ==
    /\ d.inv[i] = NULL
    /\ \A m \in MailId : ~InMail(d, m, i)
    /\ \A a \in AuctionId : ~InAuction(d, a, i)
OnePlaceOnly(d, i) ==
    /\ \A m \in MailId : InMail(d, m, i) => d.inv[i] = NULL
    /\ \A a \in AuctionId : InAuction(d, a, i) => d.inv[i] = NULL
    /\ \A m, n \in MailId : InMail(d, m, i) /\ InMail(d, n, i) => m = n
    /\ \A a, b \in AuctionId : InAuction(d, a, i) /\ InAuction(d, b, i) =>
         a = b
    /\ \A m \in MailId,
         a \in AuctionId : ~(InMail(d, m, i) /\ InAuction(d, a, i))

NoItemTwice == \A i \in Item : OnePlaceOnly(Drained, i)
GivenUpIsGone == \A i \in Gone : Nowhere(Drained, i)
NoItemLost ==
    GmLogTrade = TRUE => \A i \in Item \ Gone : ~Nowhere(Drained, i)

ItemsPlaced == NoItemTwice /\ GivenUpIsGone /\ NoItemLost

EconomyInv ==
    /\ StateTyped /\ SavedAsMade /\ BoxesOwned /\ SendersKnown
    /\ ItemsSafe /\ MailsSafe /\ ItemsPlaced

----------------------------------------------------------------------------
(* Consequences.                                                           *)

\* No row and no mailbox is NULL.
LEMMA NullIs ==
    /\ NULL \notin Character /\ NULL \notin Item /\ NULL \notin MailRow
    /\ NULL \notin AuctionRow /\ NULL \notin Boxes
<1>1. /\ NULL \notin Character /\ NULL \notin Item /\ NULL \notin MailRow
      /\ NULL \notin AuctionRow
    BY CharacterDBAssumption, MailAssumption, AuctionAssumption
       DEF CharacterDBAssumption, MailAssumption, AuctionAssumption
<1>2. NULL \notin Boxes
    BY MailAssumption DEF MailAssumption, Boxes
<1> QED
    BY <1>1, <1>2

\* A mailbox has mails by their ids.
LEMMA BoxIs ==
    \A b : b \in Boxes <=>
        DOMAIN b \subseteq MailId /\ b \in [DOMAIN b -> MailRow]
    BY DEF Boxes

\* The drained queue leaves a database.
LEMMA DrainedTyped == StateTyped => IsDatabase(Drained)
<1> SUFFICES ASSUME StateTyped PROVE IsDatabase(Drained)
    OBVIOUS
<1>1. Len(queue) \in Nat
    BY SequenceLength DEF StateTyped, Typed
<1> QED
    BY <1>1, CommittedTyped DEF StateTyped, Drained

\* A fresh id has no row, and no mailbox has it.
LEMMA FreshIs ==
    ASSUME StateTyped, NEW m \in FreshMails
    PROVE  /\ m \in MailId /\ Drained.mail[m] = NULL
           /\ \A k \in 0..Len(queue) : Committed[k].mail[m] = NULL
           /\ \A c \in Character : mailbox[c] # NULL =>
                m \notin DOMAIN mailbox[c]
<1>1. /\ m \in MailId /\ db.mail[m] = NULL /\ ~Writes("mail", m)
      /\ \A c \in Character : mailbox[c] # NULL => m \notin DOMAIN mailbox[c]
    BY DEF FreshMails
<1>2. "mail" \in Tables /\ m \in DOMAIN db["mail"]
    BY <1>1 DEF StateTyped, Typed, IsDatabase, Tables
<1>3. \A k \in 0..Len(queue) : Committed[k].mail[m] = NULL
    BY <1>1, <1>2, NoWrites DEF StateTyped
<1>4. Len(queue) \in Nat
    BY SequenceLength DEF StateTyped, Typed
<1> QED
    BY <1>1, <1>3, <1>4 DEF Drained

\* A step that delays transactions keeps what is safe, if it changes nothing
\* of those who have left and of mailboxes that are not loaded.
LEMMA SafeKept ==
    ASSUME EconomyInv, NEW txs, Len(txs) \in Nat, Queued(txs),
           online' \subseteq online,
           \A c \in Character \ online, i \in Item :
               Drained'.inv[i] = c <=> Drained.inv[i] = c,
           \A c \in online \ online' :
             Len(txs) = 1 /\ Written(txs[1], "gold", c),
           \A c \in Character : mailbox'[c] = NULL =>
               mailbox[c] = NULL \/ c \in online \ online',
           \A c \in Character, m \in MailId :
               mailbox[c] = NULL /\ Drained.mail[m] # NULL
               /\ Drained.mail[m].to = c
                   => Drained'.mail[m] = Drained.mail[m]
    PROVE  ItemsSafe' /\ MailsSafe'
<1> DEFINE L == Len(queue)
<1>1. L \in Nat /\ IsDatabase(Drained)
    BY SequenceLength, DrainedTyped DEF EconomyInv, StateTyped, Typed
<1>2. /\ Len(queue') = L + Len(txs)
      /\ \A k \in 1..L : queue'[k] = queue[k]
      /\ \A k \in 1..Len(txs) : queue'[L + k] = txs[k]
      /\ \A k \in 0..L : Committed'[k] = Committed[k]
      /\ \A k \in L..(L + Len(txs)) :
            /\ \A i \in Item :
                 Committed'[k].inv[i] \in {Drained.inv[i], Drained'.inv[i]}
            /\ \A m \in MailId :
                 Committed'[k].mail[m] \in {Drained.mail[m], Drained'.mail[m]}
    BY <1>1 DEF Queued, IsDatabase, Tables
<1>3. \A c \in Character, k \in 0..L : Quiet(c, k)' => Quiet(c, k)
  <2> SUFFICES ASSUME NEW c \in Character, NEW k \in 0..L, Quiet(c, k)',
                      NEW j \in (k + 1)..L
               PROVE  ~Written(queue[j], "gold", c)
      BY DEF Quiet
  <2>1. j \in (k + 1)..Len(queue') /\ j \in 1..L
      BY <1>1, <1>2
  <2>2. ~Written(queue'[j], "gold", c)
      BY <2>1 DEF Quiet
  <2> QED
      BY <1>2, <2>1, <2>2
<1>4. Drained' = Committed'[L + Len(txs)]
    BY <1>2 DEF Drained
<1>5. ASSUME NEW c \in online \ online', NEW k \in 0..Len(queue'), Quiet(c, k)'
      PROVE  Committed'[k] = Drained'
  <2>1. Len(txs) = 1 /\ queue'[L + 1] = txs[1] /\ Written(txs[1], "gold", c)
      BY <1>2
  <2>2. ~(L + 1 \in (k + 1)..Len(queue'))
      BY <1>5, <2>1 DEF Quiet
  <2>3. k = L + 1
      BY <1>1, <1>2, <2>1, <2>2
  <2> QED
      BY <1>4, <2>1, <2>3
<1>6. ItemsSafe'
  <2> SUFFICES ASSUME NEW c \in Character \ online', NEW k \in 0..Len(queue'),
                      Quiet(c, k)', NEW i \in Item
               PROVE  Committed'[k].inv[i] = c <=> Drained'.inv[i] = c
      BY DEF ItemsSafe
  <2>1. CASE c \in online
      BY <1>5, <2>1
  <2>2. CASE c \notin online /\ k \in 0..L
    <3>1. Quiet(c, k) /\ Committed'[k] = Committed[k]
        BY <1>2, <1>3, <2>2
    <3>2. Committed[k].inv[i] = c <=> Drained.inv[i] = c
        BY <2>2, <3>1 DEF EconomyInv, ItemsSafe
    <3> QED
        BY <2>2, <3>1, <3>2
  <2>3. CASE c \notin online /\ k \notin 0..L
    <3>1. k \in L..(L + Len(txs))
        BY <1>1, <1>2, <2>3
    <3>2. Committed'[k].inv[i] \in {Drained.inv[i], Drained'.inv[i]}
        BY <1>2, <3>1
    <3> QED
        BY <2>3, <3>2
  <2> QED
      BY <2>1, <2>2, <2>3
<1>7. MailsSafe'
  <2> SUFFICES ASSUME NEW c \in Character, NEW k \in 0..Len(queue'),
                      mailbox'[c] = NULL, c \in online' \/ Quiet(c, k)',
                      NEW m \in MailId,
                      Committed'[k].mail[m] # NULL,
                      Committed'[k].mail[m].to = c
               PROVE  Drained'.mail[m] = Committed'[k].mail[m]
      BY DEF MailsSafe
  <2>1. CASE c \in online \ online'
      BY <1>5, <2>1
  <2>2. CASE c \notin online \ online' /\ k \in 0..L
    <3>1. mailbox[c] = NULL /\ Committed'[k] = Committed[k]
        BY <1>2, <2>2
    <3>2. c \in online \/ Quiet(c, k)
        BY <1>3, <2>2
    <3>3. Drained.mail[m] = Committed[k].mail[m]
        BY <2>2, <3>1, <3>2 DEF EconomyInv, MailsSafe
    <3> QED
        BY <3>1, <3>3
  <2>3. CASE c \notin online \ online' /\ k \notin 0..L
    <3>1. k \in L..(L + Len(txs))
        BY <1>1, <1>2, <2>3
    <3>2. Committed'[k].mail[m] \in {Drained.mail[m], Drained'.mail[m]}
        BY <1>2, <3>1
    <3>3. mailbox[c] = NULL
        BY <2>3
    <3> QED
        BY <3>2, <3>3
  <2> QED
      BY <2>1, <2>2, <2>3
<1> QED
    BY <1>6, <1>7

----------------------------------------------------------------------------
(* The steps that delay nothing.                                           *)

\* What the queue and the database determine.
LEMMA SameQueue ==
    ASSUME UNCHANGED dbVars
    PROVE  /\ Committed' = Committed /\ Drained' = Drained
           /\ (Typed <=> Typed')
           /\ \A c, k : Quiet(c, k) <=> Quiet(c, k)'
<1>1. queue' = queue /\ db' = db
    BY DEF dbVars
<1>2. Committed' = Committed
    BY <1>1 DEF Committed
<1>3. Drained' = Drained
    BY <1>1, <1>2 DEF Drained
<1>4. Typed <=> Typed'
    BY <1>1 DEF Typed
<1>5. \A c, k : Quiet(c, k) <=> Quiet(c, k)'
    BY <1>1 DEF Quiet
<1> QED
    BY <1>2, <1>3, <1>4, <1>5

\* A step that changes no more than which mails are deleted.
LEMMA NothingDelayed ==
    ASSUME EconomyInv,
           UNCHANGED <<ownVars, dbVars, historyVars, mailbox, auctions>>,
           deletedMails' \subseteq MailId
    PROVE  EconomyInv'
<1>1. /\ Committed' = Committed /\ Drained' = Drained
      /\ (Typed <=> Typed')
      /\ \A c, k : Quiet(c, k) <=> Quiet(c, k)'
      /\ queue' = queue
    BY SameQueue DEF dbVars
<1>2. UNCHANGED <<online, money, bag, Gone, mailbox, auctions>>
    BY DEF ownVars, historyVars, Gone
<1>3. StateTyped'
    BY <1>1, <1>2 DEF EconomyInv, StateTyped
<1>4. SavedAsMade' /\ BoxesOwned' /\ SendersKnown'
    BY <1>1, <1>2 DEF EconomyInv, SavedAsMade, BoxesOwned, SendersKnown
<1>5. ItemsSafe' /\ MailsSafe'
    BY <1>1, <1>2 DEF EconomyInv, ItemsSafe, MailsSafe
<1>6. ItemsPlaced'
    BY <1>1, <1>2
       DEF EconomyInv, ItemsPlaced, NoItemTwice, GivenUpIsGone, NoItemLost,
       OnePlaceOnly, Nowhere, InMail, InAuction
<1> QED
    BY <1>3, <1>4, <1>5, <1>6 DEF EconomyInv

\* The delay thread commits a transaction.
LEMMA CommitKeeps ==
    ASSUME EconomyInv, Commit, UNCHANGED <<mailVars, auctions>>
    PROVE  EconomyInv'
<1>1. /\ Typed' /\ Len(queue) \in Nat \ {0}
      /\ Len(queue') = Len(queue) - 1
      /\ \A k \in 1..Len(queue') : queue'[k] = queue[k + 1]
      /\ \A k \in 0..Len(queue') : Committed'[k] = Committed[k + 1]
      /\ Drained' = Drained
    BY CommitShifts DEF EconomyInv, StateTyped
<1>2. UNCHANGED <<online, money, bag, Gone, mailbox, deletedMails,
                  auctions>>
    BY DEF Commit, ownVars, historyVars, Gone, mailVars
<1>3. \A k \in 0..Len(queue') : k + 1 \in 0..Len(queue)
    BY <1>1
<1>4. ASSUME NEW c, NEW k \in 0..Len(queue'), Quiet(c, k)'
      PROVE  Quiet(c, k + 1)
  <2> SUFFICES ASSUME NEW j \in ((k + 1) + 1)..Len(queue)
               PROVE  ~Written(queue[j], "gold", c)
      BY DEF Quiet
  <2>1. j - 1 \in (k + 1)..Len(queue') /\ j - 1 \in 1..Len(queue')
          /\ (j - 1) + 1 = j
      BY <1>1
  <2> QED
      BY <1>1, <1>4, <2>1 DEF Quiet
<1>5. StateTyped'
    BY <1>1, <1>2 DEF EconomyInv, StateTyped
<1>6. SavedAsMade' /\ BoxesOwned' /\ SendersKnown'
    BY <1>1, <1>2 DEF EconomyInv, SavedAsMade, BoxesOwned, SendersKnown
<1>7. ItemsSafe'
    BY <1>1, <1>2, <1>3, <1>4 DEF EconomyInv, ItemsSafe
<1>8. MailsSafe'
    BY <1>1, <1>2, <1>3, <1>4 DEF EconomyInv, MailsSafe
<1>9. ItemsPlaced'
    BY <1>1, <1>2
       DEF EconomyInv, ItemsPlaced, NoItemTwice, GivenUpIsGone, NoItemLost,
       OnePlaceOnly, Nowhere, InMail, InAuction
<1> QED
    BY <1>5, <1>6, <1>7, <1>8, <1>9 DEF EconomyInv

\* A login: no save of the character is delayed, so ItemsSafe says that what is
\* committed of his is what the drained queue would leave.
LEMMA LoadFromDBKeeps ==
    ASSUME EconomyInv, NEW c \in Character, LoadFromDB(c)
    PROVE  EconomyInv'
<1>1. /\ c \notin online /\ ~Writes("gold", c)
      /\ online' = online \cup {c}
      /\ money' = [money EXCEPT ![c] = db.gold[c]]
      /\ bag' = [bag EXCEPT ![c] = {i \in Item : db.inv[i] = c}]
      /\ UNCHANGED <<dbVars, Gone, mailbox, deletedMails, auctions>>
    BY DEF LoadFromDB, historyVars, Gone, mailVars
<1>2. /\ Committed' = Committed /\ Drained' = Drained
      /\ (Typed <=> Typed')
      /\ \A x, k : Quiet(x, k) <=> Quiet(x, k)'
      /\ queue' = queue
    BY <1>1, SameQueue DEF dbVars
<1>3. Len(queue) \in Nat /\ DOMAIN queue = 1..Len(queue) /\ Committed[0] = db
    BY SequenceLength, CommittedIs
       DEF EconomyInv, StateTyped, Typed, IsSequence
<1>4. \A k \in 0..Len(queue) : Quiet(c, k)
    BY <1>1, <1>3 DEF Quiet, Writes, Written
<1>5. Drained.gold[c] = db.gold[c]
  <2>1. "gold" \in Tables /\ c \in DOMAIN db["gold"] /\ Typed
      BY DEF EconomyInv, StateTyped, Typed, IsDatabase, Tables
  <2> QED
      BY <1>1, <1>3, <2>1, NoWrites DEF Drained
<1>6. {i \in Item : Drained.inv[i] = c} = {i \in Item : db.inv[i] = c}
    BY <1>1, <1>3, <1>4 DEF EconomyInv, ItemsSafe
<1>7. mailbox[c] = NULL
    BY <1>1 DEF EconomyInv, BoxesOwned
<1>8. StateTyped'
  <2>1. db.gold[c] \in Int
      BY DEF EconomyInv, StateTyped, Typed, IsDatabase
  <2> QED
      BY <1>1, <1>2, <2>1 DEF EconomyInv, StateTyped
<1>9. SavedAsMade'
  <2> SUFFICES ASSUME NEW x \in online'
               PROVE  /\ Drained.gold[x] = money'[x]
                      /\ {i \in Item : Drained.inv[i] = x} = bag'[x]
                      /\ mailbox[x] # NULL =>
                           \A m \in DOMAIN mailbox[x] :
                             Drained.mail[m] = mailbox[x][m]
      BY <1>1, <1>2 DEF EconomyInv, SavedAsMade
  <2>1. CASE x = c
      BY <1>1, <1>5, <1>6, <1>7, <2>1 DEF EconomyInv, StateTyped
  <2>2. CASE x # c
      BY <1>1, <2>2 DEF EconomyInv, StateTyped, SavedAsMade
  <2> QED
      BY <2>1, <2>2
<1>10. BoxesOwned' /\ SendersKnown'
    BY <1>1, <1>2 DEF EconomyInv, BoxesOwned, SendersKnown
<1>11. ItemsSafe'
    BY <1>1, <1>2 DEF EconomyInv, ItemsSafe
<1>12. MailsSafe'
    BY <1>1, <1>2, <1>4 DEF EconomyInv, MailsSafe
<1>13. ItemsPlaced'
    BY <1>1, <1>2
       DEF EconomyInv, ItemsPlaced, NoItemTwice, GivenUpIsGone, NoItemLost,
       OnePlaceOnly, Nowhere, InMail, InAuction
<1> QED
    BY <1>8, <1>9, <1>10, <1>11, <1>12, <1>13 DEF EconomyInv

\* _LoadMail reads past the queue: MailsSafe says that what it finds is final.
LEMMA LoadMailKeeps ==
    ASSUME EconomyInv, NEW c \in Character, LoadMail(c), UNCHANGED auctions
    PROVE  EconomyInv'
<1> DEFINE ids == {n \in RowsWith(db, "mail") : db.mail[n].to = c}
           box == [m \in ids |-> db.mail[m]]
<1>1. /\ c \in online /\ mailbox[c] = NULL
      /\ mailbox' = [mailbox EXCEPT ![c] = box]
      /\ UNCHANGED <<dbVars, online, money, bag, Gone, deletedMails,
                     auctions>>
  <2>1. mailbox' = [mailbox EXCEPT ![c] = box]
      BY DEF LoadMail
  <2>2. /\ c \in online /\ mailbox[c] = NULL
        /\ UNCHANGED <<ownVars, dbVars, historyVars, deletedMails>>
      BY DEF LoadMail
  <2>3. UNCHANGED auctions
      OBVIOUS
  <2> HIDE DEF box
  <2> QED
      BY <2>1, <2>2, <2>3 DEF ownVars, historyVars, Gone
<1>2. /\ Committed' = Committed /\ Drained' = Drained
      /\ (Typed <=> Typed')
      /\ \A x, k : Quiet(x, k) <=> Quiet(x, k)'
      /\ queue' = queue
    BY <1>1, SameQueue DEF dbVars
<1>3. Len(queue) \in Nat /\ Committed[0] = db /\ IsDatabase(db)
    BY SequenceLength, CommittedIs DEF EconomyInv, StateTyped, Typed
<1>4. ids \subseteq MailId /\ \A m \in ids :
        db.mail[m] \in MailRow /\ db.mail[m].to = c
    BY <1>3 DEF RowsWith, IsDatabase
<1>5. \A m \in ids : Drained.mail[m] = db.mail[m]
  <2>1. \A m \in ids : db.mail[m] # NULL
      BY <1>4, NullIs
  <2> QED
      BY <1>1, <1>3, <1>4, <2>1 DEF EconomyInv, MailsSafe
<1> HIDE DEF ids
<1>6. /\ box \in Boxes /\ DOMAIN box = ids
      /\ \A m \in ids : box[m] = Drained.mail[m] /\ box[m].to = c
    BY <1>4, <1>5, BoxIs
<1> HIDE DEF box
<1>7. /\ mailbox'[c] = box /\ box # NULL
      /\ \A x \in Character \ {c} : mailbox'[x] = mailbox[x]
    BY <1>1, <1>6, NullIs DEF EconomyInv, StateTyped
<1>8. StateTyped'
    BY <1>1, <1>2, <1>6 DEF EconomyInv, StateTyped
<1>9. SavedAsMade'
  <2> SUFFICES ASSUME NEW x \in online
               PROVE  /\ Drained.gold[x] = money[x]
                      /\ {i \in Item : Drained.inv[i] = x} = bag[x]
                      /\ mailbox'[x] # NULL =>
                           \A m \in DOMAIN mailbox'[x] :
                             Drained.mail[m] = mailbox'[x][m]
      BY <1>1, <1>2 DEF EconomyInv, SavedAsMade
  <2>1. x \in Character
      BY DEF EconomyInv, StateTyped
  <2>2. CASE x = c
      BY <1>6, <1>7, <2>2 DEF EconomyInv, SavedAsMade
  <2>3. CASE x # c
      BY <1>7, <2>1, <2>3 DEF EconomyInv, SavedAsMade
  <2> QED
      BY <2>2, <2>3
<1>10. BoxesOwned'
    BY <1>1, <1>6, <1>7 DEF EconomyInv, BoxesOwned
<1>11. SendersKnown'
    BY <1>2 DEF EconomyInv, SendersKnown
<1>12. ItemsSafe'
    BY <1>1, <1>2 DEF EconomyInv, ItemsSafe
<1>13. MailsSafe'
    BY <1>1, <1>2, <1>7 DEF EconomyInv, MailsSafe
<1>14. ItemsPlaced'
    BY <1>1, <1>2
       DEF EconomyInv, ItemsPlaced, NoItemTwice, GivenUpIsGone, NoItemLost,
       OnePlaceOnly, Nowhere, InMail, InAuction
<1> QED
    BY <1>8, <1>9, <1>10, <1>11, <1>12, <1>13, <1>14 DEF EconomyInv

----------------------------------------------------------------------------
(* One transaction.                                                        *)

\* The drained database after tx.
IsAfter(tx) ==
    /\ IsDatabase(Drained) /\ IsDatabase(Drained') /\ Typed'
    /\ \A c \in Character :
          Drained'.gold[c] =
            IF Written(tx, "gold", c) THEN tx["gold"][c]
            ELSE Drained.gold[c]
    /\ \A i \in Item :
          Drained'.inv[i] =
            IF Written(tx, "inv", i) THEN tx["inv"][i]
            ELSE Drained.inv[i]
    /\ \A m \in MailId :
          Drained'.mail[m] =
            IF Written(tx, "mail", m) THEN tx["mail"][m]
            ELSE Drained.mail[m]
    /\ \A a \in AuctionId :
          Drained'.auction[a] =
            IF Written(tx, "auction", a) THEN tx["auction"][a]
            ELSE Drained.auction[a]

\* After one transaction is delayed.
LEMMA OneDelayed ==
    ASSUME StateTyped, NEW tx, IsTransaction(tx), Delay(<<tx>>)
    PROVE  Queued(<<tx>>) /\ IsAfter(tx)
<1>1. IsSequence(<<tx>>) /\ Len(<<tx>>) = 1 /\ <<tx>>[1] = tx
    BY OneOrTwo
<1>2. Once(<<tx>>)
    BY <1>1 DEF Once
<1>3. Queued(<<tx>>)
  <2>1. \A k \in 1..Len(<<tx>>) : IsTransaction(<<tx>>[k])
      BY <1>1
  <2> QED
      BY <1>1, <1>2, <2>1, Delayed DEF StateTyped
<1>4. IsDatabase(Drained)
    BY DrainedTyped
<1>5. IsDatabase(Drained') /\ Typed'
  <2>1. IsDatabase(Drained')
      BY <1>3, AddedTyped
  <2>2. Typed'
      BY <1>3 DEF Queued
  <2> QED
      BY <2>1, <2>2
<1>6. \A t \in Tables : \A id \in DOMAIN Drained[t] :
          Drained'[t][id] =
            IF Written(tx, t, id) THEN tx[t][id]
            ELSE Drained[t][id]
    BY <1>1, <1>3 DEF Queued
<1>7. /\ Tables = {"gold", "inv", "mail", "auction"}
      /\ DOMAIN Drained["gold"] = Character /\ DOMAIN Drained["inv"] = Item
      /\ DOMAIN Drained["mail"] = MailId
      /\ DOMAIN Drained["auction"] = AuctionId
    BY <1>4 DEF IsDatabase, Tables
<1> QED
    BY <1>3, <1>4, <1>5, <1>6, <1>7 DEF IsAfter

\* What holds of the items in the inventories.
LEMMA InBag ==
    ASSUME EconomyInv, NEW c \in online
    PROVE  /\ c \in Character /\ c # NULL /\ bag[c] \subseteq Item
           /\ \A i \in Item : i \in bag[c] <=> Drained.inv[i] = c
           /\ Drained.gold[c] = money[c]
    BY NullIs DEF EconomyInv, SavedAsMade, StateTyped

\* What SavedAsMade says, row by row.
LEMMA SavedByRows ==
    ASSUME StateTyped', IsDatabase(Drained'),
           \A a \in AuctionId : Drained'.auction[a] = auctions'[a],
           \A x \in online' :
               /\ Drained'.gold[x] = money'[x]
               /\ \A i \in Item : Drained'.inv[i] = x <=> i \in bag'[x]
               /\ mailbox'[x] # NULL =>
                    \A m \in DOMAIN mailbox'[x] :
                      Drained'.mail[m] = mailbox'[x][m]
    PROVE  SavedAsMade'
<1>1. Drained'.auction = auctions'
    BY DEF IsDatabase, StateTyped
<1>2. ASSUME NEW x \in online'
      PROVE {i \in Item : Drained'.inv[i] = x} = bag'[x]
    BY DEF StateTyped
<1> QED
    BY <1>1, <1>2 DEF SavedAsMade

\* A mail that is loaded is in the database.
LEMMA InBox ==
    ASSUME EconomyInv, NEW c \in Character, mailbox[c] # NULL
    PROVE  /\ c \in online /\ mailbox[c] \in Boxes
           /\ \A m \in DOMAIN mailbox[c] :
                /\ m \in MailId /\ mailbox[c][m] \in MailRow
                /\ mailbox[c][m].to = c
                /\ Drained.mail[m] = mailbox[c][m] /\ Drained.mail[m] # NULL
<1>1. mailbox[c] \in Boxes /\ c \in online
    BY DEF EconomyInv, StateTyped, BoxesOwned
<1>2. \A m \in DOMAIN mailbox[c] : m \in MailId /\ mailbox[c][m] \in MailRow
    BY <1>1, BoxIs
<1>3. \A m \in DOMAIN mailbox[c] :
          mailbox[c][m].to = c /\ Drained.mail[m] = mailbox[c][m]
    BY <1>1 DEF EconomyInv, BoxesOwned, SavedAsMade
<1> QED
    BY <1>1, <1>2, <1>3, NullIs

\* These transactions are delayed; they change the gold of nobody who has left
\* and none but these mails.
Delays(txs, mails) ==
    /\ Len(txs) \in Nat /\ Queued(txs) /\ IsDatabase(Drained')
    /\ \A x \in Character \ online : Drained'.gold[x] = Drained.gold[x]
    /\ \A m \in MailId \ mails : Drained'.mail[m] = Drained.mail[m]

\* All but the last of the transactions only insert mails.
InsertsFirst(txs) ==
    \A k \in 1..Len(txs) : k < Len(txs) =>
        \A t, id : Written(txs[k], t, id) => t = "mail" /\ id \in FreshMails

\* Two trade.
LEMMA ExchangeKeeps ==
    ASSUME EconomyInv, TradeInv, NEW c \in Character, pTrader[c] # NULL,
           Exchange(c, pTrader[c]),
           UNCHANGED <<online, historyVars, mailVars, auctions>>
    PROVE  EconomyInv' /\ \E txs : Len(txs) = 1 /\ Delays(txs, {})
<1> DEFINE d == pTrader[c]
           gc == (money[c] - tradeGold[c]) + tradeGold[d]
           gd == (money[d] - tradeGold[d]) + tradeGold[c]
           bc == (bag[c] \ Given(c)) \cup Given(d)
           bd == (bag[d] \ Given(d)) \cup Given(c)
           tx == Both(SaveInventoryAndGoldToDB(c, gc, bc),
                      SaveInventoryAndGoldToDB(d, gd, bd))
<1>1. /\ c \in online /\ d \in online /\ c # d /\ d \in Character
      /\ tradeGold[c] \in Nat /\ tradeGold[d] \in Nat
    BY TwoOfATrade DEF TradeInv, TradeTypeOK
<1>2. /\ money' = [money EXCEPT ![c] = gc, ![d] = gd]
      /\ bag' = [bag EXCEPT ![c] = bc, ![d] = bd]
      /\ Delay(<<tx>>)
    BY DEF Exchange
<1>3. /\ bag[c] \subseteq Item /\ bag[d] \subseteq Item
      /\ \A i \in Item : i \in bag[c] <=> Drained.inv[i] = c
      /\ \A i \in Item : i \in bag[d] <=> Drained.inv[i] = d
      /\ c # NULL /\ d # NULL
    BY <1>1, InBag
<1>4. Given(c) \subseteq bag[c] /\ Given(d) \subseteq bag[d]
    BY DEF Given
<1>5. gc \in Int /\ gd \in Int /\ bc \in SUBSET Item /\ bd \in SUBSET Item
    BY <1>1, <1>3, <1>4 DEF EconomyInv, StateTyped
<1>6. \A i \in Item : ~(i \in bc /\ i \in bd)
                      /\ (i \in bc \cup bd <=> i \in bag[c] \cup bag[d])
    BY <1>1, <1>3, <1>4
<1> HIDE DEF gc, gd, bc, bd, d
<1> DEFINE tc == SaveInventoryAndGoldToDB(c, gc, bc)
           td == SaveInventoryAndGoldToDB(d, gd, bd)
<1>7. /\ IsTransaction(tc) /\ tc["gold"][c] = gc
      /\ \A i \in bc : tc["inv"][i] = c
      /\ \A t, id : Written(tc, t, id)
                 <=> (t = "gold" /\ id = c) \/ (t = "inv" /\ id \in bc)
    BY <1>5, SaveInventoryIs
<1>8. /\ IsTransaction(td) /\ td["gold"][d] = gd
      /\ \A i \in bd : td["inv"][i] = d
      /\ \A t, id : Written(td, t, id)
                 <=> (t = "gold" /\ id = d) \/ (t = "inv" /\ id \in bd)
    BY <1>1, <1>5, SaveInventoryIs
<1> HIDE DEF tc, td
<1>9. /\ IsTransaction(tx)
      /\ \A t, id : Written(tx, t, id) <=>
           Written(tc, t, id) \/ Written(td, t, id)
      /\ \A t, id : Written(tc, t, id) => tx[t][id] = tc[t][id]
      /\ \A t, id : Written(td, t, id) /\ ~Written(tc, t, id)
                            => tx[t][id] = td[t][id]
    BY <1>7, <1>8, BothIs DEF tc, td
<1> HIDE DEF tx
<1>10. Queued(<<tx>>) /\ IsAfter(tx)
    BY <1>2, <1>9, OneDelayed DEF EconomyInv
<1>11. \A x \in Character :
         Drained'.gold[x] = IF x = c THEN gc ELSE IF x = d THEN gd
                                               ELSE Drained.gold[x]
    BY <1>1, <1>7, <1>8, <1>9, <1>10 DEF IsAfter
<1>12. \A i \in Item :
         Drained'.inv[i] = IF i \in bc THEN c ELSE IF i \in bd THEN d
                                         ELSE Drained.inv[i]
    BY <1>7, <1>8, <1>9, <1>10 DEF IsAfter
<1>13. /\ \A m \in MailId : Drained'.mail[m] = Drained.mail[m]
       /\ \A a \in AuctionId : Drained'.auction[a] = Drained.auction[a]
    BY <1>7, <1>8, <1>9, <1>10 DEF IsAfter
<1>14. UNCHANGED <<online, Gone, mailbox, deletedMails, auctions>>
    BY DEF historyVars, Gone, mailVars
<1>15. StateTyped'
    BY <1>2, <1>5, <1>10, <1>14 DEF EconomyInv, StateTyped, IsAfter
<1>16. SavedAsMade'
  <2>1. \A a \in AuctionId : Drained'.auction[a] = auctions'[a]
      BY <1>13, <1>14 DEF EconomyInv, SavedAsMade
  <2>2. ASSUME NEW x \in online'
        PROVE  /\ Drained'.gold[x] = money'[x]
               /\ \A i \in Item : Drained'.inv[i] = x <=> i \in bag'[x]
               /\ mailbox'[x] # NULL =>
                    \A m \in DOMAIN mailbox'[x] :
                      Drained'.mail[m] = mailbox'[x][m]
    <3>1. /\ x \in Character /\ Drained.gold[x] = money[x]
          /\ \A i \in Item : i \in bag[x] <=> Drained.inv[i] = x
        BY <1>14, InBag
    <3>2. Drained'.gold[x] = money'[x]
        BY <1>1, <1>2, <1>11, <3>1 DEF EconomyInv, StateTyped
    <3>3. bag'[x] = IF x = d THEN bd ELSE IF x = c THEN bc ELSE bag[x]
        BY <1>1, <1>2, <3>1 DEF EconomyInv, StateTyped
    <3>4. ASSUME NEW i \in Item PROVE Drained'.inv[i] = x <=> i \in bag'[x]
      <4>1. CASE x = c
          BY <1>1, <1>3, <1>6, <1>12, <3>3, <4>1
      <4>2. CASE x = d
          BY <1>1, <1>3, <1>6, <1>12, <3>3, <4>2
      <4>3. CASE x # c /\ x # d
          BY <1>1, <1>3, <1>6, <1>12, <3>3, <4>3, <3>1
      <4> QED
          BY <4>1, <4>2, <4>3
    <3>5. mailbox'[x] # NULL =>
                    \A m \in DOMAIN mailbox'[x] :
                      Drained'.mail[m] = mailbox'[x][m]
        BY <1>13, <1>14, <3>1, InBox
    <3> QED
        BY <3>2, <3>4, <3>5
  <2> QED
      BY <1>10, <1>15, <2>1, <2>2, SavedByRows DEF IsAfter
<1>17. BoxesOwned' /\ SendersKnown'
    BY <1>13, <1>14 DEF EconomyInv, BoxesOwned, SendersKnown
<1>18. ItemsSafe' /\ MailsSafe'
  <2>1. Len(<<tx>>) = 1
      BY OneOrTwo
  <2>2. \A x \in Character \ online, i \in Item :
               Drained'.inv[i] = x <=> Drained.inv[i] = x
      BY <1>1, <1>3, <1>6, <1>12
  <2> QED
      BY <1>10, <1>13, <1>14, <2>1, <2>2, SafeKept
<1>19. ItemsPlaced'
  <2>1. /\ \A m \in MailId, i \in Item : InMail(Drained', m, i) <=>
             InMail(Drained, m, i)
        /\ \A a \in AuctionId, i \in Item :
              InAuction(Drained', a, i) <=> InAuction(Drained, a, i)
        /\ \A i \in Item : Drained'.inv[i] = NULL <=> Drained.inv[i] = NULL
      BY <1>3, <1>6, <1>12, <1>13 DEF InMail, InAuction
  <2> QED
      BY <2>1, <1>14
         DEF EconomyInv, StateTyped, ItemsPlaced, NoItemTwice, GivenUpIsGone,
         NoItemLost,
       OnePlaceOnly, Nowhere
<1>20. Len(<<tx>>) = 1 /\ Delays(<<tx>>, {})
  <2>1. Len(<<tx>>) = 1 /\ 1 \in Nat
      BY OneOrTwo
  <2>2. \A x \in Character \ online : Drained'.gold[x] = Drained.gold[x]
      BY <1>1, <1>11
  <2> QED
      BY <1>10, <1>13, <2>1, <2>2 DEF Delays, IsAfter
<1>21. EconomyInv'
    BY <1>15, <1>16, <1>17, <1>18, <1>19 DEF EconomyInv
<1> QED
    BY <1>20, <1>21

----------------------------------------------------------------------------
(* Mailboxes.                                                              *)

Mailboxes == [Character -> Boxes \cup {NULL}]

\* The mailbox of the receiver has one mail more, if it is loaded.
LEMMA SentTo ==
    ASSUME NEW box \in Mailboxes, NEW m \in MailId, NEW mail \in MailRow
    PROVE  LET sent == SendMailTo(box, m, mail) IN
           /\ sent \in Mailboxes
           /\ \A x \in Character :
                /\ sent[x] = NULL <=> box[x] = NULL
                /\ box[x] # NULL => \A k :
                     /\ k \in DOMAIN sent[x] <=>
                          k \in DOMAIN box[x] \/ (x = mail.to /\ k = m)
                     /\ k \in DOMAIN sent[x] =>
                          sent[x][k] =
                            IF x = mail.to /\ k = m THEN mail
                            ELSE box[x][k]
<1> DEFINE sent == SendMailTo(box, m, mail)
           new == Over(OneRow(m, mail), box[mail.to])
<1>1. mail.to \in Character
    BY DEF MailRow
<1>2. CASE box[mail.to] = NULL
  <2>1. sent = box
      BY <1>2 DEF SendMailTo
  <2> HIDE DEF sent
  <2> QED
      BY <1>2, <2>1 DEF sent
<1>3. CASE box[mail.to] # NULL
  <2>1. sent = [box EXCEPT ![mail.to] = new]
      BY <1>3 DEF SendMailTo
  <2>2. /\ DOMAIN new = DOMAIN box[mail.to] \cup {m}
        /\ \A k \in DOMAIN new : new[k] =
             IF k = m THEN mail
             ELSE box[mail.to][k]
        /\ new = [k \in DOMAIN new |-> new[k]]
      BY DEF Over, OneRow
  <2>3. box[mail.to] \in Boxes
      BY <1>1, <1>3 DEF Mailboxes
  <2> HIDE DEF new, sent
  <2>4. new \in Boxes
    <3>1. DOMAIN new \subseteq MailId /\ \A k \in DOMAIN new :
            new[k] \in MailRow
        BY <2>2, <2>3, BoxIs
    <3> QED
        BY <2>2, <3>1, BoxIs
  <2>5. new # NULL
      BY <2>4, NullIs
  <2>6. sent \in Mailboxes
      BY <1>1, <2>1, <2>4 DEF Mailboxes
  <2>7. \A x \in Character : sent[x] = IF x = mail.to THEN new ELSE box[x]
      BY <1>1, <2>1 DEF Mailboxes
  <2> QED
      BY <1>3, <2>2, <2>5, <2>6, <2>7 DEF sent
<1> QED
    BY <1>2, <1>3

\* A mailbox after _SaveMail.
LEMMA SavedBoxIs ==
    ASSUME StateTyped, NEW c \in Character, mailbox[c] # NULL,
           NEW changes, DOMAIN changes \subseteq DOMAIN mailbox[c],
           \A m \in DOMAIN changes : changes[m] \in MailRow
    PROVE  LET box == SavedBox(mailbox, c, changes) IN
           /\ box \in Mailboxes /\ box[c] # NULL
           /\ \A x \in Character \ {c} : box[x] = mailbox[x]
           /\ \A k : k \in DOMAIN box[c] <=>
                 /\ k \in DOMAIN mailbox[c] /\ k \notin ToDelete(c)
                 /\ k \in DOMAIN changes => ~Empty(changes[k])
           /\ \A k \in DOMAIN box[c] :
                 box[c][k] =
                   IF k \in DOMAIN changes THEN changes[k]
                   ELSE mailbox[c][k]
<1> DEFINE gone == ToDelete(c) \cup {m \in DOMAIN changes : Empty(changes[m])}
           new == Without(Over(changes, mailbox[c]), gone)
           box == SavedBox(mailbox, c, changes)
<1>1. box = [mailbox EXCEPT ![c] = new]
    BY DEF SavedBox
<1>2. /\ DOMAIN Over(changes, mailbox[c]) = DOMAIN mailbox[c]
      /\ \A k \in DOMAIN mailbox[c] :
            Over(changes, mailbox[c])[k] =
              IF k \in DOMAIN changes THEN changes[k]
              ELSE mailbox[c][k]
    BY DEF Over
<1>3. /\ DOMAIN new = DOMAIN mailbox[c] \ gone
      /\ \A k \in DOMAIN new :
            new[k] = IF k \in DOMAIN changes THEN changes[k] ELSE mailbox[c][k]
      /\ new = [k \in DOMAIN new |-> new[k]]
    BY <1>2 DEF Without
<1>4. mailbox[c] \in Boxes
    BY DEF StateTyped
<1> HIDE DEF new, box
<1>5. new \in Boxes
  <2>1. DOMAIN new \subseteq MailId /\ \A k \in DOMAIN new : new[k] \in MailRow
      BY <1>3, <1>4, BoxIs
  <2> QED
      BY <1>3, <2>1, BoxIs
<1>6. box \in Mailboxes /\ box[c] = new /\ new # NULL
      /\ \A x \in Character \ {c} : box[x] = mailbox[x]
    BY <1>1, <1>5, NullIs DEF StateTyped, Mailboxes
<1> QED
    BY <1>3, <1>6 DEF box

\* A step that delays txs and changes mails: some of c, and those it sends.
MailStep(txs, c, changed, new) ==
    /\ Len(txs) \in Nat /\ Queued(txs) /\ c \in Character
    /\ changed # {} => mailbox[c] # NULL /\ changed \subseteq DOMAIN mailbox[c]
    /\ new \subseteq FreshMails
    /\ \A m \in MailId :
          m \notin changed \cup new => Drained'.mail[m] = Drained.mail[m]
    /\ \A m \in changed : Drained'.mail[m] # NULL =>
          /\ Drained'.mail[m].from = Drained.mail[m].from
          /\ Drained'.mail[m].kind = Drained.mail[m].kind
          /\ Drained'.mail[m].cod \in {0, Drained.mail[m].cod}
    /\ \A m \in new : Drained'.mail[m].from = NULL =>
          Drained'.mail[m].kind = "auction" /\ Drained'.mail[m].cod = 0
    /\ online' \subseteq online
    /\ \A x \in Character \ online, i \in Item :
          Drained'.inv[i] = x <=> Drained.inv[i] = x
    /\ \A x \in online \ online' : Len(txs) = 1 /\ Written(txs[1], "gold", x)
    /\ \A x \in Character :
          IF mailbox'[x] = NULL THEN mailbox[x] = NULL
          \/ x \in online \ online'
          ELSE /\ mailbox[x] # NULL /\ x \in online'
               /\ \A m \in DOMAIN mailbox'[x] : mailbox'[x][m].to = x

\* What such a step keeps of the parts about mails and logins.
LEMMA MailsChange ==
    ASSUME EconomyInv, NEW txs, NEW c, NEW changed, NEW new,
           MailStep(txs, c, changed, new)
    PROVE  BoxesOwned' /\ SendersKnown' /\ ItemsSafe' /\ MailsSafe'
<1>1. BoxesOwned'
    BY DEF BoxesOwned, MailStep
<1>2. \A m \in new : m \in MailId /\ Drained.mail[m] = NULL
    BY FreshIs DEF EconomyInv, MailStep
<1>3. \A m \in changed : /\ m \in MailId /\ mailbox[c] # NULL
                         /\ Drained.mail[m] # NULL /\ Drained.mail[m].to = c
    BY InBox DEF MailStep
<1>4. SendersKnown'
  <2> SUFFICES ASSUME NEW m \in MailId, Drained'.mail[m] # NULL,
                      Drained'.mail[m].from = NULL
               PROVE  Drained'.mail[m].kind = "auction"
                        /\ Drained'.mail[m].cod = 0
      BY DEF SendersKnown
  <2>1. CASE m \in new
      BY <2>1 DEF MailStep
  <2>2. CASE m \in changed
      BY <1>3, <2>2 DEF EconomyInv, SendersKnown, MailStep
  <2>3. CASE m \notin changed \cup new
      BY <2>3 DEF EconomyInv, SendersKnown, MailStep
  <2> QED
      BY <2>1, <2>2, <2>3
<1>5. \A x \in Character, m \in MailId :
          mailbox[x] = NULL /\ Drained.mail[m] # NULL /\ Drained.mail[m].to = x
              => Drained'.mail[m] = Drained.mail[m]
    BY <1>2, <1>3 DEF MailStep
<1>6. \A x \in Character : mailbox'[x] = NULL =>
               mailbox[x] = NULL \/ x \in online \ online'
    BY DEF MailStep
<1>7. ItemsSafe' /\ MailsSafe'
    BY <1>5, <1>6, SafeKept DEF MailStep
<1> QED
    BY <1>1, <1>4, <1>7

----------------------------------------------------------------------------
(* Gold or an item is taken from a mail.                                   *)

\* What is in a mail that is deleted for good, and what goes astray.
LEMMA GivenUpOrAstray ==
    ASSUME NEW c \in Character, NEW ids, GiveUp(c, ids), NEW strays,
           astray' = astray \cup strays
    PROVE  Gone' = Gone \cup strays \cup UNION {mailbox[c][m].items : m \in ids}
    BY DEF GiveUp, Gone

LEMMA GivenUp ==
    ASSUME NEW c \in Character, NEW ids, GiveUp(c, ids), UNCHANGED astray
    PROVE  Gone' = Gone \cup UNION {mailbox[c][m].items : m \in ids}
    BY DEF GiveUp, Gone

\* These items leave the mails of c that are not deleted: the first for his
\* bag, the others go astray.  The rows are those of the mails that change.
Leaving(c, rows, taken, strays) ==
    /\ DOMAIN rows \subseteq DOMAIN mailbox[c] \ deletedMails
    /\ \A k \in DOMAIN rows :
          /\ rows[k] \in MailRow
          /\ rows[k].items = mailbox[c][k].items \ (taken \cup strays)
          /\ rows[k].from = mailbox[c][k].from
          /\ rows[k].kind = mailbox[c][k].kind
          /\ rows[k].to = c
          /\ rows[k].cod \in {0, mailbox[c][k].cod}
    /\ \A k \in DOMAIN mailbox[c] \ deletedMails : k \notin DOMAIN rows =>
          mailbox[c][k].items \cap (taken \cup strays) = {}
    /\ \A i \in taken :
          i \notin strays /\ \E k \in DOMAIN rows : i \in mailbox[c][k].items
    /\ \A i \in strays :
          i \in Gone \/ \E k \in DOMAIN mailbox[c] : i \in mailbox[c][k].items

\* These mails of c have these rows now, his deleted mails are gone, and the
\* mails new were sent; the gold of c is left.
TakeStep(c, rows, taken, strays, left, txs, new) ==
    /\ Len(txs) \in Nat /\ Queued(txs) /\ IsDatabase(Drained')
    /\ InsertsFirst(txs)
    /\ new \subseteq FreshMails
    /\ \A n \in new : /\ Drained'.mail[n].from # NULL
                      /\ Drained'.mail[n].items = {}
    /\ \A x \in Character :
          Drained'.gold[x] = IF x = c THEN left ELSE Drained.gold[x]
    /\ \A i \in Item :
          Drained'.inv[i] = IF i \in taken THEN c ELSE Drained.inv[i]
    /\ \A k \in MailId \ new :
          Drained'.mail[k] = IF k \in DOMAIN rows THEN Row(rows[k])
                             ELSE IF k \in ToDelete(c) THEN NULL
                             ELSE Drained.mail[k]
    /\ \A a \in AuctionId : Drained'.auction[a] = Drained.auction[a]
    /\ money' = [money EXCEPT ![c] = left]
    /\ bag' = [bag EXCEPT ![c] = @ \cup taken]
    /\ deletedMails' = deletedMails \ ToDelete(c) /\ GiveUp(c, ToDelete(c))
    /\ astray' = astray \cup strays
    /\ UNCHANGED <<online, auctions>>
    /\ mailbox' \in Mailboxes
    /\ \A x \in Character : mailbox'[x] = NULL <=> mailbox[x] = NULL
    /\ \A x \in Character : mailbox'[x] # NULL =>
          \A k \in DOMAIN mailbox'[x] :
              mailbox'[x][k] = Drained'.mail[k] /\ mailbox'[x][k].to = x

\* After something is taken from mails.
LEMMA TakeKeeps ==
    ASSUME EconomyInv, NEW c \in online, mailbox[c] # NULL,
           NEW rows, NEW taken, NEW strays, Leaving(c, rows, taken, strays),
           NEW left \in Int, NEW txs, NEW new,
           TakeStep(c, rows, taken, strays, left, txs, new)
    PROVE  EconomyInv'
<1> USE DEF TakeStep
<1>1. /\ c \in Character /\ ToDelete(c) \subseteq DOMAIN mailbox[c]
      /\ \A k \in DOMAIN mailbox[c] : k \in ToDelete(c) <=> k \in deletedMails
      /\ DOMAIN rows \subseteq DOMAIN mailbox[c]
      /\ \A k \in DOMAIN rows : k \notin ToDelete(c)
    BY DEF EconomyInv, StateTyped, ToDelete, Leaving
<1>2. \A k \in DOMAIN mailbox[c] :
          /\ k \in MailId /\ mailbox[c][k] \in MailRow
          /\ Drained.mail[k] = mailbox[c][k]
          /\ Drained.mail[k] # NULL /\ mailbox[c][k].items \subseteq Item
    BY <1>1, InBox DEF MailRow
<1>3. /\ taken \subseteq Item /\ strays \subseteq Item
      /\ Gone \subseteq Item
    BY <1>1, <1>2 DEF Leaving, EconomyInv, StateTyped
<1>4. \A n \in new :
        n \in MailId /\ Drained.mail[n] = NULL /\ n \notin DOMAIN mailbox[c]
    BY <1>1, FreshIs DEF EconomyInv
<1>5. \A i \in taken : Drained.inv[i] = NULL
  <2> SUFFICES ASSUME NEW i \in taken PROVE Drained.inv[i] = NULL
      OBVIOUS
  <2>1. PICK k \in DOMAIN rows : i \in mailbox[c][k].items
      BY DEF Leaving
  <2> QED
      BY <1>1, <1>2, <1>3, <2>1
         DEF EconomyInv, ItemsPlaced, NoItemTwice, OnePlaceOnly, InMail
<1>6. Gone' = Gone \cup strays
        \cup UNION {mailbox[c][k].items : k \in ToDelete(c)}
    BY <1>1, GivenUpOrAstray
<1>7. StateTyped'
  <2>1. Gone' \subseteq Item
      BY <1>1, <1>2, <1>3, <1>6
  <2> QED
      BY <1>1, <1>3, <2>1 DEF EconomyInv, StateTyped, Mailboxes, Queued
<1>8. SavedAsMade'
  <2>1. \A a \in AuctionId : Drained'.auction[a] = auctions'[a]
      BY DEF EconomyInv, SavedAsMade
  <2>2. ASSUME NEW x \in online'
        PROVE  /\ Drained'.gold[x] = money'[x]
               /\ \A i \in Item : Drained'.inv[i] = x <=> i \in bag'[x]
               /\ mailbox'[x] # NULL =>
                    \A k \in DOMAIN mailbox'[x] :
                      Drained'.mail[k] = mailbox'[x][k]
    <3>1. /\ x \in Character /\ Drained.gold[x] = money[x] /\ x # NULL
          /\ \A i \in Item : i \in bag[x] <=> Drained.inv[i] = x
        BY InBag
    <3>2. Drained'.gold[x] = money'[x]
        BY <1>1, <3>1 DEF EconomyInv, StateTyped
    <3>3. bag'[x] = IF x = c THEN bag[c] \cup taken ELSE bag[x]
        BY <1>1, <3>1 DEF EconomyInv, StateTyped
    <3>4. \A i \in Item : Drained'.inv[i] = x <=> i \in bag'[x]
        BY <1>5, <3>1, <3>3
    <3> QED
        BY <3>1, <3>2, <3>4
  <2> QED
      BY <1>7, <2>1, <2>2, SavedByRows
<1>9. BoxesOwned' /\ SendersKnown' /\ ItemsSafe' /\ MailsSafe'
  <2> DEFINE changed == DOMAIN rows \cup ToDelete(c)
  <2>1. changed \subseteq DOMAIN mailbox[c]
      BY <1>1
  <2>2. changed # {} =>
          mailbox[c] # NULL /\ changed \subseteq DOMAIN mailbox[c]
      BY <2>1
  <2>3. \A k \in MailId : k \notin changed \cup new =>
          Drained'.mail[k] = Drained.mail[k]
      OBVIOUS
  <2>4. \A k \in changed : Drained'.mail[k] # NULL =>
               /\ Drained'.mail[k].from = Drained.mail[k].from
               /\ Drained'.mail[k].kind = Drained.mail[k].kind
               /\ Drained'.mail[k].cod \in {0, Drained.mail[k].cod}
    <3> SUFFICES ASSUME NEW k \in changed, Drained'.mail[k] # NULL
                 PROVE  /\ Drained'.mail[k].from = Drained.mail[k].from
                        /\ Drained'.mail[k].kind = Drained.mail[k].kind
                        /\ Drained'.mail[k].cod \in {0, Drained.mail[k].cod}
        OBVIOUS
    <3>1. k \in MailId \ new /\ k \in DOMAIN mailbox[c]
        BY <1>2, <1>4, <2>1
    <3>2. k \in DOMAIN rows
        BY <3>1
    <3>3. Drained'.mail[k] = rows[k]
        BY <3>1, <3>2 DEF Row
    <3> QED
        BY <1>2, <3>1, <3>2, <3>3 DEF Leaving
  <2>5. \A x \in Character \ online, i \in Item :
               Drained'.inv[i] = x <=> Drained.inv[i] = x
      BY <1>5, NullIs
  <2>6. \A x \in Character :
               IF mailbox'[x] = NULL THEN mailbox[x] = NULL
               \/ x \in online \ online'
               ELSE /\ mailbox[x] # NULL /\ x \in online'
                    /\ \A k \in DOMAIN mailbox'[x] : mailbox'[x][k].to = x
      BY DEF EconomyInv, BoxesOwned
  <2>7. \A n \in new : Drained'.mail[n].from = NULL =>
               Drained'.mail[n].kind = "auction" /\ Drained'.mail[n].cod = 0
      OBVIOUS
  <2>8. online' \subseteq online /\ \A x \in online \ online' :
          Len(txs) = 1 /\ Written(txs[1], "gold", x)
      OBVIOUS
  <2> HIDE DEF changed
  <2>9. c \in Character /\ EconomyInv /\ Len(txs) \in Nat /\ Queued(txs)
          /\ new \subseteq FreshMails
      BY <1>1
  <2>10. online' \subseteq online
      BY <2>8
  <2>11. \A x \in online \ online' : Len(txs) = 1 /\ Written(txs[1], "gold", x)
      BY <2>8
  <2>12. MailStep(txs, c, changed, new)
      BY ONLY <2>3, <2>4, <2>5, <2>6, <2>7, <2>2, <2>9, <2>10, <2>11
         DEF MailStep
  <2> QED
      BY <2>12, MailsChange
<1>10. ItemsPlaced'
  <2>1. \A k \in MailId, i \in Item :
          InMail(Drained', k, i) <=>
            InMail(Drained, k, i) /\ k \notin ToDelete(c)
            /\ ~(k \in DOMAIN rows /\ i \in taken \cup strays)
    <3> SUFFICES ASSUME NEW k \in MailId, NEW i \in Item
                 PROVE  InMail(Drained', k, i) <=>
                          InMail(Drained, k, i) /\ k \notin ToDelete(c)
                          /\ ~(k \in DOMAIN rows /\ i \in taken \cup strays)
        OBVIOUS
    <3>1. CASE k \in new
        BY <1>1, <1>4, <3>1 DEF InMail
    <3>2. CASE k \in DOMAIN rows
      <4>1. Drained'.mail[k] = Row(rows[k]) /\ Drained.mail[k] = mailbox[c][k]
              /\ Drained.mail[k] # NULL
          BY <1>1, <1>2, <1>4, <3>2
      <4>2. rows[k] # NULL
              /\ rows[k].items = mailbox[c][k].items \ (taken \cup strays)
          BY <3>2, NullIs DEF Leaving
      <4>3. InMail(Drained', k, i) <=> i \in rows[k].items
          BY <4>1, <4>2 DEF InMail, Row, Empty
      <4> QED
          BY <1>1, <3>2, <4>1, <4>2, <4>3 DEF InMail
    <3>3. CASE k \notin new /\ k \notin DOMAIN rows
        BY <3>3 DEF InMail
    <3> QED
        BY <3>1, <3>2, <3>3
  <2>2. \A a \in AuctionId, i \in Item :
          InAuction(Drained', a, i) <=> InAuction(Drained, a, i)
      BY DEF InAuction
  <2>3. \A i \in Item : Drained'.inv[i] = NULL <=>
          Drained.inv[i] = NULL /\ i \notin taken
      BY <1>1, NullIs
  <2>4. \A i \in taken : /\ i \in Item /\ i \notin strays
                         /\ \E k \in DOMAIN rows : InMail(Drained, k, i)
      BY <1>1, <1>2, <1>3 DEF InMail, Leaving
  <2>5. \A i \in Item : i \in Gone' <=>
          i \in Gone \/ i \in strays
          \/ \E k \in ToDelete(c) : InMail(Drained, k, i)
      BY <1>1, <1>2, <1>6 DEF InMail
  <2>6. /\ Gone' \subseteq Item /\ DOMAIN rows \subseteq MailId
        /\ ToDelete(c) \subseteq MailId
        /\ \A k \in DOMAIN rows : k \notin ToDelete(c)
      BY <1>1, <1>2, <1>7 DEF StateTyped
  <2>7. \A i \in Item : OnePlaceOnly(Drained, i)
      BY DEF EconomyInv, ItemsPlaced, NoItemTwice
  <2>8. NoItemTwice'
    <3> SUFFICES ASSUME NEW i \in Item PROVE OnePlaceOnly(Drained', i)
        BY DEF NoItemTwice
    <3>1. OnePlaceOnly(Drained, i)
        BY <2>7
    <3>2. CASE i \notin taken
        BY <2>1, <2>2, <2>3, <3>1, <3>2 DEF OnePlaceOnly
    <3>3. CASE i \in taken
      <4>1. PICK k \in DOMAIN rows : InMail(Drained, k, i)
          BY <2>4, <3>3
      <4>2. \A m \in MailId : ~InMail(Drained', m, i)
          BY <2>1, <2>6, <3>1, <3>3, <4>1 DEF OnePlaceOnly
      <4>3. \A a \in AuctionId : ~InAuction(Drained', a, i)
          BY <2>2, <2>6, <3>1, <4>1 DEF OnePlaceOnly
      <4> QED
          BY <4>2, <4>3 DEF OnePlaceOnly
    <3> QED
        BY <3>2, <3>3
  <2>9. GivenUpIsGone'
    <3> SUFFICES ASSUME NEW i \in Gone' PROVE Nowhere(Drained', i)
        BY DEF GivenUpIsGone
    <3>1. OnePlaceOnly(Drained, i) /\ i \in Item
        BY <2>6, <2>7
    <3>2. CASE i \in Gone
      <4>1. Nowhere(Drained, i)
          BY <3>2 DEF EconomyInv, ItemsPlaced, GivenUpIsGone
      <4>2. i \notin taken
          BY <2>4, <2>6, <4>1 DEF Nowhere
      <4> QED
          BY <2>1, <2>2, <2>3, <3>1, <4>1, <4>2 DEF Nowhere
    <3>3. ASSUME NEW k \in MailId, InMail(Drained, k, i), i \notin taken,
                 k \in ToDelete(c) \/ (k \in DOMAIN rows /\ i \in strays)
          PROVE  Nowhere(Drained', i)
        BY <2>1, <2>2, <2>3, <3>1, <3>3 DEF OnePlaceOnly, Nowhere
    <3>4. CASE \E k \in ToDelete(c) : InMail(Drained, k, i)
      <4>1. PICK k \in ToDelete(c) : InMail(Drained, k, i)
          BY <3>4
      <4>2. i \notin taken
          BY <2>4, <2>6, <3>1, <4>1 DEF OnePlaceOnly
      <4> QED
          BY <2>6, <3>3, <4>1, <4>2
    <3>5. CASE i \in strays /\ i \notin Gone
      <4>1. PICK k \in DOMAIN mailbox[c] : i \in mailbox[c][k].items
          BY <3>5 DEF Leaving
      <4>2. k \in MailId /\ InMail(Drained, k, i) /\ i \notin taken
          BY <1>2, <2>4, <3>5, <4>1 DEF InMail
      <4>3. k \in ToDelete(c) \/ k \in DOMAIN rows
          BY <1>1, <3>5, <4>1 DEF Leaving
      <4> QED
          BY <3>3, <3>5, <4>2, <4>3
    <3> QED
        BY <2>5, <3>1, <3>2, <3>4, <3>5
  <2>10. NoItemLost'
    <3> SUFFICES ASSUME GmLogTrade = TRUE, NEW i \in Item \ Gone',
                        Nowhere(Drained', i)
                 PROVE  FALSE
        BY DEF NoItemLost
    <3>1. i \notin Gone /\ i \notin strays
            /\ \A k \in ToDelete(c) : ~InMail(Drained, k, i)
        BY <2>5
    <3>2. ~Nowhere(Drained, i)
        BY <3>1 DEF EconomyInv, ItemsPlaced, NoItemLost
    <3>3. i \notin taken
        BY <2>3 DEF Nowhere
    <3> QED
        BY <2>1, <2>2, <2>3, <2>6, <3>1, <3>2, <3>3 DEF Nowhere
  <2> QED
      BY <2>8, <2>9, <2>10 DEF ItemsPlaced
<1> QED
    BY <1>7, <1>8, <1>9, <1>10 DEF EconomyInv

\* Two in a row.
LEMMA JoinedFirst ==
    \A x, y : (<<x>> \o <<y>>)[1] = x /\ (<<x>> \o <<y>>)[2] = y
<1> SUFFICES ASSUME NEW x, NEW y
             PROVE  (<<x>> \o <<y>>)[1] = x /\ (<<x>> \o <<y>>)[2] = y
    OBVIOUS
<1>1. /\ IsSequence(<<x>>) /\ Len(<<x>>) = 1 /\ <<x>>[1] = x
      /\ IsSequence(<<y>>) /\ Len(<<y>>) = 1 /\ <<y>>[1] = y
    BY OneOrTwo
<1>2. \A i \in 1..(1 + 1) : (<<x>> \o <<y>>)[i] =
         IF i <= 1 THEN <<x>>[i] ELSE <<y>>[i - 1]
    BY <1>1, Concatenated
<1> QED
    BY <1>1, <1>2

\* Two transactions that share no row: as one, to the drained database.
LEMMA TwoDelayed ==
    ASSUME StateTyped, NEW tx, NEW ty, IsTransaction(tx), IsTransaction(ty),
           \A t, id : ~(Written(tx, t, id) /\ Written(ty, t, id)),
           Delay(<<tx>> \o <<ty>>)
    PROVE  /\ Len(<<tx>> \o <<ty>>) = 2 /\ Queued(<<tx>> \o <<ty>>)
           /\ IsAfter(Both(tx, ty))
<1> DEFINE txs == <<tx>> \o <<ty>>
           b == Both(tx, ty)
<1>1. IsSequence(txs) /\ Len(txs) = 2 /\ txs[1] = tx /\ txs[2] = ty
  <2>1. /\ IsSequence(<<tx>>) /\ Len(<<tx>>) = 1 /\ <<tx>>[1] = tx
        /\ IsSequence(<<ty>>) /\ Len(<<ty>>) = 1 /\ <<ty>>[1] = ty
      BY OneOrTwo
  <2>2. /\ IsSequence(txs) /\ Len(txs) = 1 + 1
        /\ \A i \in 1..(1 + 1) : txs[i] =
             IF i <= 1 THEN <<tx>>[i]
             ELSE <<ty>>[i - 1]
      BY <2>1, Concatenated
  <2> QED
      BY <2>1, <2>2
<1>2. Delay(txs)
    OBVIOUS
<1> HIDE DEF txs
<1>3. Once(txs)
  <2> SUFFICES ASSUME NEW i \in 1..2, NEW j \in 1..2, NEW t, NEW id,
                      Written(txs[i], t, id), Written(txs[j], t, id)
               PROVE  i = j
      BY <1>1 DEF Once
  <2>1. (i = 1 \/ i = 2) /\ (j = 1 \/ j = 2)
      OBVIOUS
  <2> QED
      BY <1>1, <2>1
<1>4. Queued(txs)
  <2>1. \A k \in 1..Len(txs) : k = 1 \/ k = 2
      BY <1>1
  <2>2. \A k \in 1..Len(txs) : IsTransaction(txs[k])
      BY <1>1, <2>1
  <2> QED
      BY <1>2, <1>1, <1>3, <2>2, Delayed DEF StateTyped
<1>5. IsDatabase(Drained)
    BY DrainedTyped
<1>6. IsDatabase(Drained') /\ Typed'
  <2>1. IsDatabase(Drained')
      BY <1>4, AddedTyped
  <2>2. Typed'
      BY <1>4 DEF Queued
  <2> QED
      BY <2>1, <2>2
<1>7. /\ \A t, id : Written(b, t, id) <=>
           Written(tx, t, id) \/ Written(ty, t, id)
      /\ \A t, id : Written(tx, t, id) => b[t][id] = tx[t][id]
      /\ \A t, id : Written(ty, t, id) => b[t][id] = ty[t][id]
    BY BothIs
<1> HIDE DEF b
<1>8. ASSUME NEW t \in Tables, NEW id \in DOMAIN Drained[t]
      PROVE  Drained'[t][id] =
        IF Written(b, t, id) THEN b[t][id]
        ELSE Drained[t][id]
  <2>1. /\ Written(tx, t, id) => Drained'[t][id] = tx[t][id]
        /\ Written(ty, t, id) => Drained'[t][id] = ty[t][id]
      BY <1>1, <1>4 DEF Queued
  <2>2. CASE ~Written(b, t, id)
    <3>1. \A k \in 1..Len(txs) : k = 1 \/ k = 2
        BY <1>1
    <3>2. \A k \in 1..Len(txs) : ~Written(txs[k], t, id)
        BY <1>1, <1>7, <2>2, <3>1
    <3> QED
        BY <1>4, <2>2, <3>2 DEF Queued
  <2> QED
      BY <1>7, <2>1, <2>2
<1>9. /\ Tables = {"gold", "inv", "mail", "auction"}
      /\ DOMAIN Drained["gold"] = Character /\ DOMAIN Drained["inv"] = Item
      /\ DOMAIN Drained["mail"] = MailId
      /\ DOMAIN Drained["auction"] = AuctionId
    BY <1>5 DEF IsDatabase, Tables
<1>10. IsAfter(b)
    BY <1>5, <1>6, <1>8, <1>9 DEF IsAfter
<1> QED
    BY <1>1, <1>4, <1>10 DEF txs, b

\* A step that moves only these items, from one place to another.
Moved(items) ==
    /\ Gone' \subseteq Item
    /\ \A i \in Item \ items :
          /\ i \in Gone' <=> i \in Gone
          /\ Drained'.inv[i] = NULL <=> Drained.inv[i] = NULL
          /\ \A m \in MailId : InMail(Drained', m, i) <=> InMail(Drained, m, i)
          /\ \A a \in AuctionId :
                InAuction(Drained', a, i) <=> InAuction(Drained, a, i)
    /\ \A i \in items :
          /\ OnePlaceOnly(Drained', i)
          /\ i \in Gone' => Nowhere(Drained', i)
          /\ GmLogTrade = TRUE /\ i \notin Gone' => ~Nowhere(Drained', i)

\* Such a step leaves the items placed.
LEMMA PlacedKept ==
    ASSUME EconomyInv, NEW moved, Moved(moved)
    PROVE  ItemsPlaced'
<1> USE DEF Moved
<1>1. ASSUME NEW i \in Item PROVE OnePlaceOnly(Drained', i)
  <2>1. OnePlaceOnly(Drained, i)
      BY DEF EconomyInv, ItemsPlaced, NoItemTwice
  <2>2. CASE i \notin moved
      BY <2>1, <2>2 DEF OnePlaceOnly
  <2> QED
      BY <2>2
<1>2. ASSUME NEW i \in Gone' PROVE Nowhere(Drained', i)
  <2>1. CASE i \notin moved
    <3>1. i \in Item /\ Nowhere(Drained, i)
        BY <1>2, <2>1 DEF EconomyInv, ItemsPlaced, GivenUpIsGone
    <3> QED
        BY <2>1, <3>1 DEF Nowhere
  <2> QED
      BY <1>2, <2>1
<1>3. ASSUME GmLogTrade = TRUE, NEW i \in Item \ Gone'
      PROVE ~Nowhere(Drained', i)
  <2>1. CASE i \notin moved
    <3>1. ~Nowhere(Drained, i)
        BY <1>3, <2>1 DEF EconomyInv, ItemsPlaced, NoItemLost
    <3> QED
        BY <2>1, <3>1 DEF Nowhere
  <2> QED
      BY <1>3, <2>1
<1> QED
    BY <1>1, <1>2, <1>3 DEF ItemsPlaced, NoItemTwice, GivenUpIsGone, NoItemLost

\* The mailboxes once the changed mails are saved are as the rows.
Saved(c, rows, new) ==
    \A k \in MailId \ new :
        Drained'.mail[k] = IF k \in DOMAIN rows THEN Row(rows[k])
                           ELSE IF k \in ToDelete(c) THEN NULL
                           ELSE Drained.mail[k]

\* SavedBox does to the mailboxes what SaveMail does to the rows.
LEMMA TakenBox ==
    ASSUME EconomyInv, NEW c \in Character, mailbox[c] # NULL,
           NEW rows, DOMAIN rows \subseteq DOMAIN mailbox[c],
           \A k \in DOMAIN rows : rows[k] \in MailRow /\ rows[k].to = c,
           NEW new, new \subseteq FreshMails, Saved(c, rows, new)
    PROVE  LET box == SavedBox(mailbox, c, rows) IN
           /\ box \in Mailboxes
           /\ \A x \in Character : box[x] = NULL <=> mailbox[x] = NULL
           /\ \A x \in Character : box[x] # NULL => \A k \in DOMAIN box[x] :
                 /\ k \in MailId \ new
                 /\ box[x][k] = Drained'.mail[k] /\ box[x][k].to = x
<1> DEFINE box == SavedBox(mailbox, c, rows)
<1>1. \A x \in Character : mailbox[x] # NULL => \A k \in DOMAIN mailbox[x] :
          /\ k \in MailId /\ mailbox[x][k].to = x
          /\ Drained.mail[k] = mailbox[x][k] /\ Drained.mail[k] # NULL
    BY InBox
<1>2. \A n \in new : Drained.mail[n] = NULL
    BY FreshIs DEF EconomyInv
<1>3. /\ box \in Mailboxes /\ box[c] # NULL
      /\ \A x \in Character \ {c} : box[x] = mailbox[x]
      /\ \A k : k \in DOMAIN box[c] <=>
            /\ k \in DOMAIN mailbox[c] /\ k \notin ToDelete(c)
            /\ k \in DOMAIN rows => ~Empty(rows[k])
      /\ \A k \in DOMAIN box[c] :
            box[c][k] =
              IF k \in DOMAIN rows THEN rows[k]
              ELSE mailbox[c][k]
  <2>1. StateTyped
      BY DEF EconomyInv
  <2> QED
      BY <2>1, SavedBoxIs
<1> HIDE DEF box
<1> USE DEF Saved
<1>4. ASSUME NEW x \in Character, box[x] # NULL, NEW k \in DOMAIN box[x]
      PROVE  k \in MailId \ new /\ box[x][k] = Drained'.mail[k]
               /\ box[x][k].to = x
  <2>1. CASE x = c
    <3>1. k \in DOMAIN mailbox[c] /\ k \notin ToDelete(c) /\ k \in MailId \ new
        BY <1>1, <1>2, <1>3, <1>4, <2>1
    <3>2. CASE k \in DOMAIN rows
      <4>1. ~Empty(rows[k]) /\ box[c][k] = rows[k]
          BY <1>3, <1>4, <2>1, <3>2
      <4> QED
          BY <2>1, <3>1, <3>2, <4>1 DEF Row
    <3>3. CASE k \notin DOMAIN rows
      <4>1. box[c][k] = mailbox[c][k]
          BY <1>3, <1>4, <2>1, <3>3
      <4> QED
          BY <1>1, <2>1, <3>1, <3>3, <4>1
    <3> QED
        BY <3>2, <3>3
  <2>2. CASE x # c
    <3>1. box[x] = mailbox[x]
        BY <1>3, <2>2
    <3>2. k \in DOMAIN mailbox[x] /\ k \in MailId \ new
            /\ Drained.mail[k].to = x
        BY <1>1, <1>2, <1>4, <3>1
    <3>3. k \notin DOMAIN rows /\ k \notin ToDelete(c)
        BY <1>1, <2>2, <3>2 DEF ToDelete
    <3> QED
        BY <1>1, <1>4, <3>1, <3>2, <3>3
  <2> QED
      BY <2>1, <2>2
<1>5. \A x \in Character : box[x] = NULL <=> mailbox[x] = NULL
    BY <1>3
<1> QED
    BY <1>3, <1>4, <1>5 DEF box

\* What the handlers do.
TookMoney(c, m) ==
    /\ HasMail(c, m)
    /\ \E txs :
         TakeStep(c, OneRow(m, [mailbox[c][m] EXCEPT !.gold = 0]), {}, {},
                  money[c] + mailbox[c][m].gold, txs, {})
TookItem(c, m, i) ==
    LET mail == Named(c, m)
        held == {i} \cap mail.items
        strays == {i} \ mail.items
    IN
    /\ c \in online /\ mailbox[c] # NULL /\ mail.cod \in Nat
    /\ Leaving(c, Taken(c, m, i), held, strays)
    /\ \E txs, new :
         /\ TakeStep(c, Taken(c, m, i), held, strays, money[c] - mail.cod,
                     txs, new)
         /\ \/ new = {} /\ mail.cod = 0
            \/ \E n \in new : /\ new = {n} /\ Drained'.mail[n] # NULL
                              /\ Drained'.mail[n].gold = mail.cod

\* One transaction has none before the last.
LEMMA OneInserts == \A txs : Len(txs) = 1 => InsertsFirst(txs)
<1> SUFFICES ASSUME NEW txs, Len(txs) = 1, NEW k \in 1..1 PROVE ~(k < 1)
    BY DEF InsertsFirst
<1> QED
    OBVIOUS

\* The gold of a mail is taken.
LEMMA HandleTakeMoneyKeeps ==
    ASSUME EconomyInv, NEW c \in Character, NEW m, HandleTakeMoney(c, m),
           UNCHANGED auctions
    PROVE  EconomyInv' /\ TookMoney(c, m)
<1> DEFINE row == [mailbox[c][m] EXCEPT !.gold = 0]
           sum == money[c] + mailbox[c][m].gold
           changes == OneRow(m, row)
           tg == SaveGoldToDB(c, sum)
           tm == SaveMail(c, changes)
           tx == Both(tg, tm)
<1>1. /\ c \in online /\ mailbox[c] # NULL
      /\ m \in DOMAIN mailbox[c] /\ m \notin deletedMails
      /\ mailbox' = SavedBox(mailbox, c, changes)
      /\ money' = [money EXCEPT ![c] = sum] /\ Delay(<<tx>>)
      /\ deletedMails' = deletedMails \ ToDelete(c)
      /\ GiveUp(c, ToDelete(c))
      /\ UNCHANGED <<online, bag, astray, auctions>>
    BY DEF HandleTakeMoney, HasMail
<1>2. EconomyInv /\ c \in Character
    OBVIOUS
<1>3. mailbox[c][m] \in MailRow /\ mailbox[c][m].to = c
        /\ DOMAIN mailbox[c] \subseteq MailId
    BY <1>1, InBox
<1>4. /\ row \in MailRow /\ row.items = mailbox[c][m].items
      /\ row.from = mailbox[c][m].from /\ row.kind = mailbox[c][m].kind
      /\ row.cod = mailbox[c][m].cod /\ row.to = c
    BY <1>3 DEF MailRow
<1>5. sum \in Int
    BY <1>3 DEF EconomyInv, StateTyped, MailRow
<1>6. bag' = [bag EXCEPT ![c] = @ \cup {}]
    BY <1>1 DEF EconomyInv, StateTyped
<1> HIDE DEF row, sum
<1>7. DOMAIN changes = {m} /\ changes[m] = row
    BY DEF OneRow
<1>8. /\ IsTransaction(tg) /\ tg["gold"][c] = sum
      /\ \A t, id : Written(tg, t, id) <=> t = "gold" /\ id = c
    BY <1>5, SaveGoldIs
<1> HIDE DEF changes
<1>9. /\ IsTransaction(tm)
      /\ \A t, id : Written(tm, t, id) <=>
           t = "mail" /\ id \in {m} \cup ToDelete(c)
      /\ tm["mail"][m] = Row(row)
      /\ \A k \in ToDelete(c) \ {m} : tm["mail"][k] = NULL
  <2>1. /\ DOMAIN changes \subseteq MailId /\ deletedMails \subseteq MailId
        /\ \A k \in DOMAIN changes : changes[k] \in MailRow
      BY <1>1, <1>3, <1>4, <1>7 DEF EconomyInv, StateTyped
  <2> QED
      BY <1>7, <2>1, SaveMailIs
<1> HIDE DEF tg, tm
<1>10. /\ IsTransaction(tx)
       /\ \A t, id : Written(tx, t, id) <=>
            Written(tg, t, id) \/ Written(tm, t, id)
       /\ \A t, id : Written(tg, t, id) => tx[t][id] = tg[t][id]
       /\ \A t, id : Written(tm, t, id) /\ ~Written(tg, t, id)
                             => tx[t][id] = tm[t][id]
    BY <1>8, <1>9, BothIs
<1> HIDE DEF tx
<1>11. Queued(<<tx>>) /\ IsAfter(tx) /\ Len(<<tx>>) = 1
    BY <1>1, <1>10, OneDelayed, OneOrTwo DEF EconomyInv
<1>12. \A x \in Character :
         Drained'.gold[x] = IF x = c THEN sum ELSE Drained.gold[x]
    BY <1>8, <1>9, <1>10, <1>11 DEF IsAfter
<1>13. \A i \in Item : Drained'.inv[i] = Drained.inv[i]
    BY <1>8, <1>9, <1>10, <1>11 DEF IsAfter
<1>14. \A k \in MailId :
          Drained'.mail[k] = IF k \in DOMAIN changes THEN Row(changes[k])
                             ELSE IF k \in ToDelete(c) THEN NULL
                             ELSE Drained.mail[k]
    BY <1>7, <1>8, <1>9, <1>10, <1>11 DEF IsAfter
<1>15. \A a \in AuctionId : Drained'.auction[a] = Drained.auction[a]
    BY <1>8, <1>9, <1>10, <1>11 DEF IsAfter
<1>16. /\ mailbox' \in Mailboxes
       /\ \A x \in Character : mailbox'[x] = NULL <=> mailbox[x] = NULL
       /\ \A x \in Character : mailbox'[x] # NULL =>
            \A k \in DOMAIN mailbox'[x] :
             mailbox'[x][k] = Drained'.mail[k] /\ mailbox'[x][k].to = x
  <2>1. /\ Saved(c, changes, {}) /\ {} \subseteq FreshMails
        /\ DOMAIN changes \subseteq DOMAIN mailbox[c]
        /\ \A k \in DOMAIN changes : changes[k] \in MailRow /\ changes[k].to = c
      BY <1>1, <1>4, <1>7, <1>14 DEF Saved
  <2>2. LET box == SavedBox(mailbox, c, changes) IN
        /\ box \in Mailboxes
        /\ \A x \in Character : box[x] = NULL <=> mailbox[x] = NULL
        /\ \A x \in Character : box[x] # NULL => \A k \in DOMAIN box[x] :
              /\ k \in MailId \ {}
              /\ box[x][k] = Drained'.mail[k] /\ box[x][k].to = x
      BY <1>2, <1>1, <2>1, TakenBox
  <2> QED
      BY <1>1, <2>2
<1>17. Leaving(c, changes, {}, {})
    BY <1>1, <1>4, <1>7 DEF Leaving
<1> QED
  <2>1. /\ Len(<<tx>>) \in Nat /\ IsDatabase(Drained') /\ {} \subseteq FreshMails
        /\ astray' = astray \cup {}
      BY <1>1, <1>11 DEF IsAfter
  <2>2. \A i \in Item :
          Drained'.inv[i] = IF i \in {} THEN c ELSE Drained.inv[i]
      BY <1>13
  <2>3. \A k \in MailId \ {} :
           Drained'.mail[k] = IF k \in DOMAIN changes THEN Row(changes[k])
                              ELSE IF k \in ToDelete(c) THEN NULL
                              ELSE Drained.mail[k]
      BY <1>14
  <2>4. \A n \in {} :
          Drained'.mail[n].from # NULL /\ Drained'.mail[n].items = {}
      OBVIOUS
  <2>5. TakeStep(c, changes, {}, {}, sum, <<tx>>, {})
      BY <1>1, <1>5, <1>6, <1>11, <1>12, <1>15, <1>16, <2>1, <2>2, <2>3,
         <2>4, OneInserts DEF TakeStep
  <2>6. HasMail(c, m)
      BY <1>1 DEF HasMail
  <2>7. TookMoney(c, m)
      BY <2>5, <2>6 DEF TookMoney, row, sum, changes
  <2> QED
      BY <1>1, <1>5, <1>17, <2>5, <2>7, TakeKeeps

\* An item is taken, and the gold that the named mail asks for is sent in a
\* mail with a fresh id, before the rows of the taker are saved.
LEMMA HandleTakeItemKeeps ==
    ASSUME EconomyInv, NEW c \in Character, NEW m, NEW i,
           HandleTakeItem(c, m, i), UNCHANGED auctions
    PROVE  EconomyInv' /\ TookItem(c, m, i)
<1> DEFINE mail == Named(c, m)
           rows == Taken(c, m, i)
           held == {i} \cap mail.items
           strays == {i} \ mail.items
           left == money[c] - mail.cod
           ti == SaveInventoryAndGoldToDB(c, left, bag[c] \cup held)
           tm == SaveMail(c, rows)
           tx == Both(ti, tm)
           n == NextMail
           payment == NewMail(c, mail.from, "normal", {}, mail.cod)
           tn == [mail |-> OneRow(n, payment)]
           box == SavedBox(mailbox, c, rows)
<1>1. EconomyInv /\ c \in Character
    OBVIOUS
<1>2. /\ c \in online /\ mailbox[c] # NULL
      /\ m # NULL => m \in DOMAIN mailbox[c] /\ m \notin deletedMails
      /\ GetMItem(c, i)
      /\ money' = [money EXCEPT ![c] = left]
      /\ bag' = [bag EXCEPT ![c] = @ \cup held]
      /\ astray' = astray \cup strays
      /\ deletedMails' = deletedMails \ ToDelete(c)
      /\ GiveUp(c, ToDelete(c)) /\ UNCHANGED <<online, auctions>>
      /\ IF mail.cod > 0
         THEN /\ FreshMails # {} /\ mailbox' = SendMailTo(box, n, payment)
              /\ Delay(<<tn>> \o <<tx>>)
         ELSE mailbox' = box /\ Delay(<<tx>>)
    BY DEF HandleTakeItem, HasMail, InsertMail
<1>3. /\ mail \in MailRow /\ mail.to = c /\ DOMAIN mailbox[c] \subseteq MailId
      /\ m # NULL => /\ m \in MailId /\ Drained.mail[m] = mail
                     /\ mail = mailbox[c][m] /\ Drained.mail[m] # NULL
      /\ m = NULL => mail.cod = 0 /\ mail.items = {}
  <2>1. CASE m = NULL
    <3>1. mail = NewMail(c, c, "normal", {}, 0)
        BY <2>1 DEF Named
    <3>2. mail \in MailRow /\ mail.to = c /\ mail.cod = 0 /\ mail.items = {}
      <4> HIDE DEF mail
      <4> QED
          BY <3>1 DEF NewMail, MailRow, MailKind
    <3> QED
        BY <1>2, <2>1, <3>2, InBox
  <2>2. CASE m # NULL
    <3>1. mail = mailbox[c][m]
        BY <2>2 DEF Named
    <3> HIDE DEF mail
    <3> QED
        BY <1>2, <2>2, <3>1, InBox
  <2> QED
      BY <2>1, <2>2
<1>4. /\ DOMAIN rows = {k \in DOMAIN mailbox[c] \ deletedMails :
                          k = m \/ i \in mailbox[c][k].items}
      /\ \A k \in DOMAIN rows :
            rows[k] = [mailbox[c][k] EXCEPT !.items = @ \ {i},
                          !.cod = IF k = m THEN 0 ELSE @]
    BY DEF Taken
<1>5. left \in Int /\ mail.cod \in Nat /\ i \in Item
        /\ mail.from \in Character \cup {NULL}
  <2>1. i \in Item
      BY <1>1, <1>2, InBox DEF GetMItem, EconomyInv, StateTyped, MailRow
  <2>2. mail.cod \in Nat /\ mail.from \in Character \cup {NULL}
      BY <1>3 DEF MailRow
  <2> HIDE DEF mail
  <2>3. left \in Int
      BY <2>2 DEF EconomyInv, StateTyped
  <2> QED
      BY <2>1, <2>2, <2>3
<1>6. /\ bag[c] \subseteq Item /\ \A j \in Item : j \in bag[c] <=>
           Drained.inv[j] = c
    BY <1>2, InBag
<1>7. held \cup strays = {i} /\ held \cap strays = {} /\ held \subseteq {i}
    OBVIOUS
<1> HIDE DEF rows, left, mail
<1>8. /\ IsTransaction(ti) /\ ti["gold"][c] = left
      /\ \A j \in bag[c] \cup held : ti["inv"][j] = c
      /\ \A t, id : Written(ti, t, id)
            <=> (t = "gold" /\ id = c) \/ (t = "inv" /\ id \in bag[c] \cup held)
  <2>1. bag[c] \cup held \in SUBSET Item
      BY <1>5, <1>6
  <2> HIDE DEF held
  <2> QED
      BY <1>5, <2>1, SaveInventoryIs
<1>9. Leaving(c, rows, held, strays)
  <2>1. ASSUME NEW k \in DOMAIN rows
        PROVE  /\ rows[k] \in MailRow
               /\ rows[k].items = mailbox[c][k].items \ (held \cup strays)
               /\ rows[k].from = mailbox[c][k].from
               /\ rows[k].kind = mailbox[c][k].kind
               /\ rows[k].to = c /\ rows[k].cod \in {0, mailbox[c][k].cod}
    <3>1. mailbox[c][k] \in MailRow /\ mailbox[c][k].to = c
        BY <1>2, <1>4, InBox
    <3>2. rows[k] = [mailbox[c][k] EXCEPT !.items = @ \ {i},
                       !.cod = IF k = m THEN 0 ELSE @]
        BY <1>4
    <3> DEFINE old == mailbox[c][k]
               asked == IF k = m THEN 0 ELSE old.cod
    <3>3. /\ old \in MailRow /\ old.to = c /\ old.items \ {i} \in SUBSET Item
          /\ asked \in Nat /\ asked \in {0, old.cod}
        BY <3>1 DEF MailRow
    <3>4. rows[k] = [old EXCEPT !.items = old.items \ {i}, !.cod = asked]
        BY <3>2
    <3> HIDE DEF old, asked
    <3>5. /\ rows[k] \in MailRow /\ rows[k].items = old.items \ {i}
          /\ rows[k].from = old.from /\ rows[k].kind = old.kind
          /\ rows[k].to = old.to /\ rows[k].cod = asked
        BY <3>3, <3>4 DEF MailRow
    <3> HIDE DEF held, strays
    <3> QED
        BY <1>7, <3>3, <3>5 DEF old
  <2>2. \A k \in DOMAIN mailbox[c] \ deletedMails : k \notin DOMAIN rows =>
          mailbox[c][k].items \cap (held \cup strays) = {}
      BY <1>4, <1>7
  <2>3. \A j \in held :
          j \notin strays /\ \E k \in DOMAIN rows : j \in mailbox[c][k].items
    <3> SUFFICES ASSUME NEW j \in held
                 PROVE  j \notin strays
                          /\ \E k \in DOMAIN rows : j \in mailbox[c][k].items
        OBVIOUS
    <3>1. m # NULL /\ j = i /\ i \in mail.items
        BY <1>3
    <3>2. m \in DOMAIN rows /\ j \in mailbox[c][m].items
        BY <1>2, <1>3, <1>4, <3>1
    <3> QED
        BY <1>7, <3>2
  <2>4. \A j \in strays :
          j \in Gone \/ \E k \in DOMAIN mailbox[c] : j \in mailbox[c][k].items
      BY <1>2 DEF GetMItem
  <2>5. DOMAIN rows \subseteq DOMAIN mailbox[c] \ deletedMails
      BY <1>4
  <2> HIDE DEF held, strays
  <2> QED
      BY <2>1, <2>2, <2>3, <2>4, <2>5 DEF Leaving
<1>10. /\ IsTransaction(tm)
       /\ \A t, id : Written(tm, t, id) <=>
            t = "mail" /\ id \in DOMAIN rows \cup ToDelete(c)
       /\ \A k \in DOMAIN rows : tm["mail"][k] = Row(rows[k])
       /\ \A k \in ToDelete(c) \ DOMAIN rows : tm["mail"][k] = NULL
  <2>1. /\ DOMAIN rows \subseteq MailId /\ deletedMails \subseteq MailId
        /\ \A k \in DOMAIN rows : rows[k] \in MailRow
      BY <1>3, <1>4, <1>9 DEF EconomyInv, StateTyped, Leaving
  <2> QED
      BY <2>1, SaveMailIs
<1> HIDE DEF ti, tm, held, strays
<1>11. /\ IsTransaction(tx)
       /\ \A t, id : Written(tx, t, id) <=>
            Written(ti, t, id) \/ Written(tm, t, id)
       /\ \A t, id : Written(ti, t, id) => tx[t][id] = ti[t][id]
       /\ \A t, id : Written(tm, t, id) /\ ~Written(ti, t, id)
                             => tx[t][id] = tm[t][id]
    BY <1>8, <1>10, BothIs
<1> HIDE DEF tx
<1>12. /\ \A j \in Item :
             (IF j \in bag[c] \cup held THEN c ELSE Drained.inv[j])
               = (IF j \in held THEN c ELSE Drained.inv[j])
       /\ DOMAIN rows \subseteq DOMAIN mailbox[c]
       /\ \A k \in DOMAIN rows : rows[k] \in MailRow /\ rows[k].to = c
    BY <1>6, <1>9 DEF Leaving
<1>13. CASE ~(mail.cod > 0)
  <2>1. Queued(<<tx>>) /\ IsAfter(tx) /\ Len(<<tx>>) = 1
    <3>1. Delay(<<tx>>) /\ StateTyped
        BY <1>2, <1>13 DEF EconomyInv
    <3> QED
        BY <1>11, <3>1, OneDelayed, OneOrTwo
  <2>2. \A x \in Character :
          Drained'.gold[x] = IF x = c THEN left ELSE Drained.gold[x]
      BY <1>8, <1>10, <1>11, <2>1 DEF IsAfter
  <2>3. \A j \in Item :
          Drained'.inv[j] = IF j \in bag[c] \cup held THEN c ELSE Drained.inv[j]
      BY <1>8, <1>10, <1>11, <2>1 DEF IsAfter
  <2>4. \A k \in MailId :
            Drained'.mail[k] = IF k \in DOMAIN rows THEN Row(rows[k])
                               ELSE IF k \in ToDelete(c) THEN NULL
                               ELSE Drained.mail[k]
      BY <1>8, <1>10, <1>11, <2>1 DEF IsAfter
  <2>5. \A a \in AuctionId : Drained'.auction[a] = Drained.auction[a]
      BY <1>8, <1>10, <1>11, <2>1 DEF IsAfter
  <2>6. /\ box \in Mailboxes
        /\ \A x \in Character : box[x] = NULL <=> mailbox[x] = NULL
        /\ \A x \in Character : box[x] # NULL => \A k \in DOMAIN box[x] :
              /\ k \in MailId \ {}
              /\ box[x][k] = Drained'.mail[k] /\ box[x][k].to = x
    <3>1. Saved(c, rows, {}) /\ {} \subseteq FreshMails
        BY <2>4 DEF Saved
    <3> QED
        BY <1>1, <1>2, <1>12, <3>1, TakenBox
  <2>7. mailbox' = box
      BY <1>2, <1>13
  <2>8. TakeStep(c, rows, held, strays, left, <<tx>>, {})
    <3>1. \A j \in Item :
            Drained'.inv[j] = IF j \in held THEN c ELSE Drained.inv[j]
        BY <1>12, <2>3
    <3>2. Len(<<tx>>) \in Nat /\ IsDatabase(Drained')
            /\ {} \subseteq FreshMails
        BY <2>1 DEF IsAfter
    <3> HIDE DEF box
    <3> QED
        BY <1>2, <2>1, <2>2, <2>4, <2>5, <2>6, <2>7, <3>1, <3>2, OneInserts
           DEF TakeStep
  <2>9. TookItem(c, m, i)
    <3>1. mail.cod = 0
        BY <1>5, <1>13
    <3> QED
        BY <1>2, <1>5, <1>9, <2>8, <3>1
           DEF TookItem, rows, held, strays, left, mail
  <2> QED
      BY <1>2, <1>5, <1>9, <2>8, <2>9, TakeKeeps
<1>14. CASE mail.cod > 0
  <2>1. n \in FreshMails /\ n \in MailId /\ n \notin DOMAIN mailbox[c]
    <3>1. n \in FreshMails
        BY <1>2, <1>14, NextMailFresh
    <3> QED
        BY <1>2, <3>1, FreshIs DEF EconomyInv
  <2>2. mail.from \in Character
      BY <1>3, <1>5, <1>14 DEF EconomyInv, SendersKnown
  <2>3. /\ payment \in MailRow /\ payment.from = c /\ payment.items = {}
        /\ payment.to = mail.from /\ payment.gold = mail.cod
      BY <1>5, <2>2 DEF MailRow, NewMail, MailKind
  <2> HIDE DEF payment, n
  <2>4. /\ IsTransaction(tn) /\ tn["mail"][n] = payment
        /\ \A t, id : Written(tn, t, id) <=> t = "mail" /\ id = n
      BY <2>1, <2>3, MailWriteIs
  <2> HIDE DEF tn
  <2>5. n \notin DOMAIN rows /\ n \notin ToDelete(c)
      BY <1>2, <1>12, <2>1 DEF ToDelete
  <2>6. /\ Len(<<tn>> \o <<tx>>) = 2 /\ Queued(<<tn>> \o <<tx>>)
        /\ IsAfter(Both(tn, tx))
    <3>1. Delay(<<tn>> \o <<tx>>) /\ StateTyped
        BY <1>2, <1>14 DEF EconomyInv
    <3>2. \A t, id : ~(Written(tn, t, id) /\ Written(tx, t, id))
        BY <1>8, <1>10, <1>11, <2>4, <2>5
    <3> QED
        BY <1>11, <2>4, <3>1, <3>2, TwoDelayed
  <2> DEFINE b == Both(tn, tx)
  <2>7. /\ \A t, id : Written(b, t, id) <=>
             Written(tn, t, id) \/ Written(tx, t, id)
        /\ \A t, id : Written(tn, t, id) => b[t][id] = tn[t][id]
        /\ \A t, id : Written(tx, t, id) /\ ~Written(tn, t, id) =>
             b[t][id] = tx[t][id]
      BY <1>11, <2>4, BothIs
  <2>8. IsAfter(b)
      BY <2>6
  <2> HIDE DEF b
  <2>9. \A x \in Character :
          Drained'.gold[x] = IF x = c THEN left ELSE Drained.gold[x]
      BY <1>8, <1>10, <1>11, <2>4, <2>7, <2>8 DEF IsAfter
  <2>10. \A j \in Item :
           Drained'.inv[j] = IF j \in bag[c]
           \cup held THEN c ELSE Drained.inv[j]
      BY <1>8, <1>10, <1>11, <2>4, <2>7, <2>8 DEF IsAfter
  <2>11. \A k \in MailId \ {n} :
            Drained'.mail[k] = IF k \in DOMAIN rows THEN Row(rows[k])
                               ELSE IF k \in ToDelete(c) THEN NULL
                               ELSE Drained.mail[k]
      BY <1>8, <1>10, <1>11, <2>4, <2>7, <2>8 DEF IsAfter
  <2>12. Drained'.mail[n] = payment
      BY <1>8, <1>10, <1>11, <2>1, <2>4, <2>7, <2>8 DEF IsAfter
  <2>13. \A a \in AuctionId : Drained'.auction[a] = Drained.auction[a]
      BY <1>8, <1>10, <1>11, <2>4, <2>7, <2>8 DEF IsAfter
  <2>14. /\ box \in Mailboxes
         /\ \A x \in Character : box[x] = NULL <=> mailbox[x] = NULL
         /\ \A x \in Character : box[x] # NULL => \A k \in DOMAIN box[x] :
               /\ k \in MailId \ {n}
               /\ box[x][k] = Drained'.mail[k] /\ box[x][k].to = x
    <3>1. Saved(c, rows, {n}) /\ {n} \subseteq FreshMails
        BY <2>1, <2>11 DEF Saved
    <3> QED
        BY <1>1, <1>2, <1>12, <3>1, TakenBox
  <2> HIDE DEF box
  <2>15. mailbox' = SendMailTo(box, n, payment)
      BY <1>2, <1>14
  <2>16. /\ mailbox' \in Mailboxes
         /\ \A x \in Character :
              /\ mailbox'[x] = NULL <=> box[x] = NULL
              /\ box[x] # NULL => \A k :
                   /\ k \in DOMAIN mailbox'[x] <=>
                        k \in DOMAIN box[x] \/ (x = payment.to /\ k = n)
                   /\ k \in DOMAIN mailbox'[x] =>
                        mailbox'[x][k] =
                          IF x = payment.to /\ k = n THEN payment
                          ELSE box[x][k]
      BY <2>1, <2>3, <2>14, <2>15, SentTo
  <2>17. \A x \in Character : mailbox'[x] = NULL <=> mailbox[x] = NULL
    <3>1. \A x \in Character : box[x] = NULL <=> mailbox[x] = NULL
        BY <2>14
    <3>2. \A x \in Character : mailbox'[x] = NULL <=> box[x] = NULL
        BY <2>16
    <3> QED
        BY <3>1, <3>2
  <2>18. \A x \in Character : box[x] # NULL => \A k \in DOMAIN box[x] :
            box[x][k] = Drained'.mail[k] /\ box[x][k].to = x
      BY <2>14
  <2>19. \A x \in Character : mailbox'[x] # NULL =>
           \A k \in DOMAIN mailbox'[x] :
             mailbox'[x][k] = Drained'.mail[k] /\ mailbox'[x][k].to = x
    <3> SUFFICES ASSUME NEW x \in Character, mailbox'[x] # NULL,
                        NEW k \in DOMAIN mailbox'[x]
                 PROVE  mailbox'[x][k] = Drained'.mail[k]
                          /\ mailbox'[x][k].to = x
        OBVIOUS
    <3>1. CASE x = payment.to /\ k = n
        BY <2>12, <2>16, <3>1
    <3>2. CASE ~(x = payment.to /\ k = n)
      <4>1. box[x] # NULL /\ k \in DOMAIN box[x] /\ mailbox'[x][k] = box[x][k]
          BY <2>16, <3>2
      <4> QED
          BY <2>18, <4>1
    <3> QED
        BY <3>1, <3>2
  <2>20. TakeStep(c, rows, held, strays, left, <<tn>> \o <<tx>>, {n})
    <3>1. \A j \in Item :
            Drained'.inv[j] = IF j \in held THEN c ELSE Drained.inv[j]
        BY <1>12, <2>10
    <3>2. Len(<<tn>> \o <<tx>>) \in Nat /\ IsDatabase(Drained')
            /\ {n} \subseteq FreshMails
        BY <2>1, <2>6, <2>8 DEF IsAfter
    <3>3. c # NULL
        BY NullIs
    <3>4. \A k \in {n} :
            Drained'.mail[k].from # NULL /\ Drained'.mail[k].items = {}
        BY <2>3, <2>12, <3>3
    <3>5. \A x \in Character : mailbox'[x] = NULL <=> mailbox[x] = NULL
        BY <2>17
    <3>6. InsertsFirst(<<tn>> \o <<tx>>)
      <4>1. \A k \in 1..2 : k < 2 => k = 1
          OBVIOUS
      <4>2. (<<tn>> \o <<tx>>)[1] = tn
          BY JoinedFirst
      <4> QED
          BY <2>1, <2>4, <2>6, <4>1, <4>2 DEF InsertsFirst
    <3> QED
        BY <1>2, <2>6, <2>9, <2>11, <2>13, <2>16, <2>19, <3>1, <3>2, <3>4,
           <3>5, <3>6 DEF TakeStep
  <2>21. TookItem(c, m, i)
    <3>1. n \in {n} /\ Drained'.mail[n] # NULL
            /\ Drained'.mail[n].gold = mail.cod
        BY <2>3, <2>12, NullIs
    <3> QED
        BY <1>2, <1>5, <1>9, <2>20, <3>1
           DEF TookItem, rows, held, strays, left, mail
  <2> QED
      BY <1>2, <1>5, <1>9, <2>20, <2>21, TakeKeeps
<1> QED
    BY <1>13, <1>14

\* The mailboxes without one of the mails.
Dropped(box, m) ==
    /\ box \in Mailboxes
    /\ \A x \in Character : box[x] = NULL <=> mailbox[x] = NULL
    /\ \A x \in Character : box[x] # NULL => \A k \in DOMAIN box[x] :
          /\ k \in DOMAIN mailbox[x] /\ k # m
          /\ box[x][k] = mailbox[x][k] /\ box[x][k].to = x

\* Without takes the mail from the mailbox.
LEMMA DroppedBox ==
    ASSUME EconomyInv, NEW c \in Character, mailbox[c] # NULL,
           NEW m \in DOMAIN mailbox[c]
    PROVE  Dropped([mailbox EXCEPT ![c] = Without(@, {m})], m)
<1> DEFINE box == [mailbox EXCEPT ![c] = Without(@, {m})]
<1> DEFINE new == Without(mailbox[c], {m})
<1>1. /\ DOMAIN new = DOMAIN mailbox[c] \ {m}
      /\ \A k \in DOMAIN new : new[k] = mailbox[c][k]
      /\ new = [k \in DOMAIN new |-> new[k]]
    BY DEF Without
<1>2. mailbox[c] \in Boxes /\ mailbox \in Mailboxes
    BY DEF EconomyInv, StateTyped, Mailboxes
<1>3. box = [mailbox EXCEPT ![c] = new]
    OBVIOUS
<1> HIDE DEF new, box
<1>4. new \in Boxes
  <2>1. DOMAIN new \subseteq MailId /\ \A k \in DOMAIN new : new[k] \in MailRow
      BY <1>1, <1>2, BoxIs
  <2> QED
      BY <1>1, <2>1, BoxIs
<1>5. new # NULL
    BY <1>4, NullIs
<1>6. /\ box \in Mailboxes
      /\ \A x \in Character : box[x] = IF x = c THEN new ELSE mailbox[x]
    BY <1>2, <1>3, <1>4 DEF Mailboxes
<1>7. \A x \in Character : mailbox[x] # NULL => \A k \in DOMAIN mailbox[x] :
          mailbox[x][k].to = x /\ Drained.mail[k] = mailbox[x][k]
    BY InBox
<1>8. ASSUME NEW x \in Character, box[x] # NULL, NEW k \in DOMAIN box[x]
      PROVE  /\ k \in DOMAIN mailbox[x] /\ k # m
             /\ box[x][k] = mailbox[x][k] /\ box[x][k].to = x
  <2>1. CASE x = c
    <3>1. k \in DOMAIN mailbox[c] /\ k # m /\ box[x][k] = mailbox[c][k]
        BY <1>1, <1>6, <1>8, <2>1
    <3> QED
        BY <1>7, <2>1, <3>1
  <2>2. CASE x # c
    <3>1. box[x] = mailbox[x]
        BY <1>6, <2>2
    <3>2. /\ k \in DOMAIN mailbox[x] /\ Drained.mail[k].to = x
          /\ Drained.mail[m].to = c /\ mailbox[x][k].to = x
        BY <1>7, <1>8, <3>1
    <3> QED
        BY <2>2, <3>1, <3>2
  <2> QED
      BY <2>1, <2>2
<1>9. Dropped(box, m)
    BY <1>5, <1>6, <1>8 DEF Dropped
<1> QED
    BY <1>9 DEF box

\* A transaction that only inserts the mail n.
Inserts(tx, n, mail) ==
    /\ DOMAIN tx = {"mail"} /\ DOMAIN tx["mail"] = {n} /\ tx["mail"][n] = mail

\* The transaction of a mail is one.
LEMMA InsertIs ==
    ASSUME NEW m, NEW row PROVE Inserts([mail |-> OneRow(m, row)], m, row)
<1> DEFINE tx == [mail |-> OneRow(m, row)]
<1>1. DOMAIN tx = {"mail"} /\ DOMAIN tx["mail"] = {m} /\ tx["mail"][m] = row
    BY DEF OneRow
<1> QED
    BY <1>1 DEF Inserts

\* The mail m is deleted, and then n with the same contents is inserted as one
\* on its way back.
DeletesThenInserts(txs, m, n, mail) ==
    /\ Len(txs) = 2 /\ spent' = spent
    /\ \A t, id : Written(txs[1], t, id) => t = "mail" /\ id = m
    /\ Inserts(txs[2], n, Drained'.mail[n])
    /\ Drained'.mail[n].gold = mail.gold /\ Drained'.mail[n].items = mail.items
    /\ Drained'.mail[n].kind = "normal" /\ Drained'.mail[n].returned = TRUE

\* The mail m of c has no row any more, and that in new has its items and its
\* gold, if there is one.
ReturnStep(c, m, txs, new) ==
    /\ Len(txs) \in Nat /\ Queued(txs) /\ IsDatabase(Drained')
    /\ new \subseteq FreshMails
    /\ \A x \in Character : Drained'.gold[x] = Drained.gold[x]
    /\ \A i \in Item : Drained'.inv[i] = Drained.inv[i]
    /\ \A k \in MailId \ new :
          Drained'.mail[k] = IF k = m THEN NULL ELSE Drained.mail[k]
    /\ \A n \in new :
         new = {n} /\ Drained'.mail[n] # NULL /\ Drained'.mail[n].from # NULL
                      /\ Drained'.mail[n].items = mailbox[c][m].items
    /\ IF new = {} THEN Len(txs) = 1 /\ GiveUp(c, {m})
       ELSE \E n \in new : DeletesThenInserts(txs, m, n, mailbox[c][m])
    /\ \A a \in AuctionId : Drained'.auction[a] = Drained.auction[a]
    /\ Gone' =
         IF new = {} THEN Gone \cup mailbox[c][m].items
         ELSE Gone
    /\ UNCHANGED <<ownVars, astray, deletedMails, auctions>>
    /\ mailbox' \in Mailboxes
    /\ \A x \in Character : mailbox'[x] = NULL <=> mailbox[x] = NULL
    /\ \A x \in Character : mailbox'[x] # NULL =>
          \A k \in DOMAIN mailbox'[x] :
              mailbox'[x][k] = Drained'.mail[k] /\ mailbox'[x][k].to = x

\* After a mail is deleted and, if new has an id, sent back.
LEMMA ReturnKeeps ==
    ASSUME EconomyInv, NEW c \in online, mailbox[c] # NULL,
           NEW m \in DOMAIN mailbox[c], NEW txs, NEW new,
           ReturnStep(c, m, txs, new)
    PROVE  EconomyInv'
<1> DEFINE items == mailbox[c][m].items
<1>1. /\ c \in Character /\ m \in MailId /\ mailbox[c][m] \in MailRow
      /\ Drained.mail[m] = mailbox[c][m] /\ Drained.mail[m] # NULL
      /\ items \subseteq Item
  <2>1. c \in Character
      BY DEF EconomyInv, StateTyped
  <2> QED
      BY <2>1, InBox DEF MailRow
<1>2. UNCHANGED <<online, money, bag, deletedMails, auctions>>
    BY DEF ReturnStep, ownVars
<1>3. \A n \in new : n \in MailId /\ Drained.mail[n] = NULL /\ n # m
    BY <1>1, FreshIs DEF EconomyInv, ReturnStep
<1> HIDE DEF items
<1>4. Gone' = IF new = {} THEN Gone \cup items ELSE Gone
    BY DEF ReturnStep, items
<1>5. StateTyped'
  <2>1. Gone' \subseteq Item
      BY <1>1, <1>4 DEF EconomyInv, StateTyped
  <2> QED
      BY <1>2, <2>1 DEF EconomyInv, StateTyped, Mailboxes, Queued, ReturnStep
<1>6. SavedAsMade'
  <2>1. \A a \in AuctionId : Drained'.auction[a] = auctions'[a]
      BY <1>2 DEF EconomyInv, SavedAsMade, ReturnStep
  <2>2. ASSUME NEW x \in online'
        PROVE  /\ Drained'.gold[x] = money'[x]
               /\ \A i \in Item : Drained'.inv[i] = x <=> i \in bag'[x]
               /\ mailbox'[x] # NULL =>
                    \A k \in DOMAIN mailbox'[x] :
                      Drained'.mail[k] = mailbox'[x][k]
    <3>1. /\ x \in Character /\ Drained.gold[x] = money[x]
          /\ \A i \in Item : i \in bag[x] <=> Drained.inv[i] = x
        BY <1>2, InBag
    <3> QED
        BY <1>2, <3>1 DEF ReturnStep
  <2> QED
      BY <1>5, <2>1, <2>2, SavedByRows DEF ReturnStep
<1>7. BoxesOwned' /\ SendersKnown' /\ ItemsSafe' /\ MailsSafe'
  <2>1. \A k \in MailId : k \notin {m} \cup new =>
          Drained'.mail[k] = Drained.mail[k]
      BY DEF ReturnStep
  <2>2. \A k \in {m} : Drained'.mail[k] = NULL
      BY <1>1, <1>3 DEF ReturnStep
  <2>3. \A n \in new : Drained'.mail[n].from # NULL
      BY DEF ReturnStep
  <2>4. \A x \in Character :
            IF mailbox'[x] = NULL THEN mailbox[x] = NULL
            \/ x \in online \ online'
            ELSE /\ mailbox[x] # NULL /\ x \in online'
                 /\ \A k \in DOMAIN mailbox'[x] : mailbox'[x][k].to = x
      BY <1>2 DEF ReturnStep, EconomyInv, BoxesOwned
  <2>5. /\ Len(txs) \in Nat /\ Queued(txs) /\ new \subseteq FreshMails
        /\ \A x \in Character \ online, i \in Item : Drained'.inv[i] = x <=>
             Drained.inv[i] = x
      BY DEF ReturnStep
  <2>6. MailStep(txs, c, {m}, new)
    <3>1. {m} \subseteq DOMAIN mailbox[c] /\ online' = online
        BY <1>2
    <3> QED
        BY <1>1, <2>1, <2>2, <2>3, <2>4, <2>5, <3>1 DEF MailStep
  <2> QED
      BY <2>6, MailsChange
<1>8. ItemsPlaced'
  <2>1. \A i \in Item : Drained'.inv[i] = Drained.inv[i]
      BY DEF ReturnStep
  <2>2. \A a \in AuctionId, i \in Item : InAuction(Drained', a, i) <=>
          InAuction(Drained, a, i)
      BY DEF ReturnStep, InAuction
  <2>3. \A k \in MailId, i \in Item :
          InMail(Drained', k, i) <=> \/ k # m /\ InMail(Drained, k, i)
                                     \/ k \in new /\ i \in items
    <3> SUFFICES ASSUME NEW k \in MailId, NEW i \in Item
                 PROVE  InMail(Drained', k, i) <=>
                                                   \/ k # m /\ InMail(Drained,
                                                        k, i)
                                                   \/ k \in new /\ i \in items
        OBVIOUS
    <3>1. CASE k \in new
        BY <1>3, <3>1 DEF InMail, ReturnStep, items
    <3>2. CASE k \notin new
        BY <3>2 DEF InMail, ReturnStep
    <3> QED
        BY <3>1, <3>2
  <2>4. \A i \in Item : InMail(Drained, m, i) <=> i \in items
      BY <1>1 DEF InMail, items
  <2>5. \A n \in new : new = {n} /\ n \in MailId
      BY <1>3 DEF ReturnStep
  <2>6. Gone' \subseteq Item
      BY <1>5 DEF StateTyped
  <2>7. ASSUME NEW i \in Item \ items
        PROVE  /\ i \in Gone' <=> i \in Gone
               /\ Drained'.inv[i] = NULL <=> Drained.inv[i] = NULL
               /\ \A k \in MailId : InMail(Drained', k, i) <=>
                    InMail(Drained, k, i)
               /\ \A a \in AuctionId : InAuction(Drained', a, i) <=>
                    InAuction(Drained, a, i)
      BY <1>1, <1>4, <2>1, <2>2, <2>3, <2>4
  <2>8. ASSUME NEW i \in items
        PROVE  /\ i \in Item /\ Drained'.inv[i] = NULL
               /\ \A k \in MailId : InMail(Drained', k, i) <=> k \in new
               /\ \A a \in AuctionId : ~InAuction(Drained', a, i)
               /\ i \notin Gone
    <3>1. i \in Item /\ OnePlaceOnly(Drained, i) /\ InMail(Drained, m, i)
        BY <1>1, <2>4 DEF EconomyInv, ItemsPlaced, NoItemTwice
    <3>2. i \notin Gone
        BY <1>1, <3>1 DEF EconomyInv, ItemsPlaced, GivenUpIsGone, Nowhere
    <3> QED
        BY <1>1, <2>1, <2>2, <2>3, <3>1, <3>2 DEF OnePlaceOnly
  <2>9. \A i \in items : OnePlaceOnly(Drained', i)
      BY <2>5, <2>8 DEF OnePlaceOnly
  <2>10. \A i \in items : i \in Gone' => Nowhere(Drained', i)
    <3> SUFFICES ASSUME NEW i \in items, i \in Gone'
                 PROVE Nowhere(Drained', i)
        OBVIOUS
    <3>1. new = {}
        BY <1>4, <2>8
    <3> QED
        BY <2>8, <3>1 DEF Nowhere
  <2>11. \A i \in items : GmLogTrade = TRUE /\ i \notin Gone' =>
           ~Nowhere(Drained', i)
    <3> SUFFICES ASSUME NEW i \in items, i \notin Gone'
                 PROVE ~Nowhere(Drained', i)
        OBVIOUS
    <3>1. new # {}
        BY <1>4
    <3>2. PICK n \in new : TRUE
        BY <3>1
    <3>3. InMail(Drained', n, i) /\ n \in MailId
        BY <2>5, <2>8, <3>2
    <3> QED
        BY <3>3 DEF Nowhere
  <2>12. Moved(items)
      BY <2>6, <2>7, <2>9, <2>10, <2>11 DEF Moved
  <2> QED
      BY <2>12, PlacedKept
<1> QED
    BY <1>5, <1>6, <1>7, <1>8 DEF EconomyInv

\* What the handler does.
SentBack(c, m) ==
    /\ HasMail(c, m)
    /\ \E txs, new : ReturnStep(c, m, txs, new)

\* A mail is sent back, or one of the auction house is dropped.
LEMMA HandleReturnToSenderKeeps ==
    ASSUME EconomyInv, NEW c \in Character, NEW m,
           HandleReturnToSender(c, m), UNCHANGED auctions
    PROVE  EconomyInv' /\ SentBack(c, m)
<1> DEFINE mail == mailbox[c][m]
           back == [NewMail(c, mail.from, "normal", mail.items, mail.gold)
                      EXCEPT !.returned = TRUE]
           td == [mail |-> OneRow(m, NULL)]
           n == NextMail
           tn == [mail |-> OneRow(n, back)]
           box == [mailbox EXCEPT ![c] = Without(@, {m})]
           goes == mail.kind = "normal" /\ ~Empty(back)
<1>1. /\ c \in online /\ mailbox[c] # NULL /\ m \in DOMAIN mailbox[c]
      /\ HasMail(c, m) /\ UNCHANGED <<ownVars, deletedMails, auctions>>
      /\ IF goes
         THEN /\ FreshMails # {} /\ mailbox' = SendMailTo(box, n, back)
              /\ Delay(<<td>> \o <<tn>>) /\ UNCHANGED historyVars
         ELSE /\ mailbox' = box /\ Delay(<<td>>)
              /\ GiveUp(c, {m}) /\ UNCHANGED astray
    BY DEF HandleReturnToSender, HasMail, InsertMail
<1>2. /\ mail \in MailRow /\ DOMAIN mailbox[c] \subseteq MailId /\ m \in MailId
      /\ Drained.mail[m] = mail /\ Drained.mail[m] # NULL /\ mail.to = c
    BY <1>1, InBox
<1>3. Dropped(box, m)
    BY <1>1, DroppedBox
<1> HIDE DEF box
<1>4. /\ box \in Mailboxes
      /\ \A x \in Character : box[x] = NULL <=> mailbox[x] = NULL
      /\ \A x \in Character : box[x] # NULL => \A k \in DOMAIN box[x] :
            /\ k \in DOMAIN mailbox[x] /\ k # m
            /\ box[x][k] = mailbox[x][k] /\ box[x][k].to = x
    BY <1>3 DEF Dropped
<1>5. \A x \in Character : mailbox[x] # NULL => \A k \in DOMAIN mailbox[x] :
         k \in MailId /\ mailbox[x][k] = Drained.mail[k]
         /\ Drained.mail[k] # NULL
    BY InBox
<1>6. /\ IsTransaction(td) /\ td["mail"][m] = NULL
      /\ \A t, id : Written(td, t, id) <=> t = "mail" /\ id = m
    BY <1>2, MailWriteIs
<1> HIDE DEF td, mail
<1>7. goes => mail.kind = "normal"
    OBVIOUS
<1> HIDE DEF goes
<1>8. CASE goes
  <2>1. n \in FreshMails /\ n \in MailId /\ Drained.mail[n] = NULL
    <3>1. n \in FreshMails
        BY <1>1, <1>8, NextMailFresh
    <3> QED
        BY <3>1, FreshIs DEF EconomyInv
  <2>2. mail.from \in Character
    <3>1. mail.from \in Character \cup {NULL} /\ "normal" # "auction"
        BY <1>2 DEF MailRow
    <3> QED
        BY <1>2, <1>8, <1>7, <3>1 DEF EconomyInv, SendersKnown
  <2>3. /\ back \in MailRow /\ back.from = c /\ back.items = mail.items
        /\ back.to = mail.from /\ back.gold = mail.gold
        /\ back.kind = "normal" /\ back.returned = TRUE
      BY <1>2, <2>2 DEF MailRow, NewMail, MailKind
  <2> HIDE DEF back, n
  <2>4. /\ IsTransaction(tn) /\ tn["mail"][n] = back
        /\ \A t, id : Written(tn, t, id) <=> t = "mail" /\ id = n
      BY <2>1, <2>3, MailWriteIs
  <2>5. Inserts(tn, n, back)
      BY InsertIs
  <2> HIDE DEF tn
  <2>6. n # m
      BY <1>2, <2>1
  <2>7. /\ Len(<<td>> \o <<tn>>) = 2 /\ Queued(<<td>> \o <<tn>>)
        /\ IsAfter(Both(td, tn))
    <3>1. Delay(<<td>> \o <<tn>>) /\ StateTyped
        BY <1>1, <1>8 DEF EconomyInv
    <3>2. \A t, id : ~(Written(td, t, id) /\ Written(tn, t, id))
        BY <1>6, <2>4, <2>6
    <3> QED
        BY <1>6, <2>4, <3>1, <3>2, TwoDelayed
  <2> DEFINE b == Both(td, tn)
  <2>8. /\ \A t, id : Written(b, t, id) <=>
             Written(td, t, id) \/ Written(tn, t, id)
        /\ \A t, id : Written(td, t, id) => b[t][id] = td[t][id]
        /\ \A t, id : Written(tn, t, id) /\ ~Written(td, t, id) =>
             b[t][id] = tn[t][id]
      BY <1>6, <2>4, BothIs
  <2>9. IsAfter(b)
      BY <2>7
  <2> HIDE DEF b
  <2>10. /\ \A x \in Character : Drained'.gold[x] = Drained.gold[x]
         /\ \A i \in Item : Drained'.inv[i] = Drained.inv[i]
         /\ \A a \in AuctionId : Drained'.auction[a] = Drained.auction[a]
      BY <1>6, <2>4, <2>8, <2>9 DEF IsAfter
  <2>11. \A k \in MailId \ {n} :
           Drained'.mail[k] = IF k = m THEN NULL ELSE Drained.mail[k]
      BY <1>6, <2>4, <2>8, <2>9 DEF IsAfter
  <2>12. Drained'.mail[n] = back
      BY <1>6, <2>1, <2>4, <2>6, <2>8, <2>9 DEF IsAfter
  <2>13. mailbox' = SendMailTo(box, n, back)
      BY <1>1, <1>8
  <2>14. /\ mailbox' \in Mailboxes
         /\ \A x \in Character :
              /\ mailbox'[x] = NULL <=> box[x] = NULL
              /\ box[x] # NULL => \A k :
                   /\ k \in DOMAIN mailbox'[x] <=>
                        k \in DOMAIN box[x] \/ (x = back.to /\ k = n)
                   /\ k \in DOMAIN mailbox'[x] =>
                        mailbox'[x][k] =
                          IF x = back.to /\ k = n THEN back
                          ELSE box[x][k]
      BY <1>4, <2>1, <2>3, <2>13, SentTo
  <2>15. \A x \in Character : mailbox'[x] # NULL =>
           \A k \in DOMAIN mailbox'[x] :
             mailbox'[x][k] = Drained'.mail[k] /\ mailbox'[x][k].to = x
    <3> SUFFICES ASSUME NEW x \in Character, mailbox'[x] # NULL,
                        NEW k \in DOMAIN mailbox'[x]
                 PROVE  mailbox'[x][k] = Drained'.mail[k]
                          /\ mailbox'[x][k].to = x
        OBVIOUS
    <3>1. CASE x = back.to /\ k = n
        BY <2>12, <2>14, <3>1
    <3>2. CASE ~(x = back.to /\ k = n)
      <4>1. box[x] # NULL /\ k \in DOMAIN box[x] /\ mailbox'[x][k] = box[x][k]
          BY <2>14, <3>2
      <4>2. /\ k \in DOMAIN mailbox[x] /\ k # m /\ mailbox[x] # NULL
            /\ box[x][k] = mailbox[x][k] /\ box[x][k].to = x
          BY <1>4, <4>1
      <4>3. k \in MailId /\ mailbox[x][k] = Drained.mail[k] /\ k # n
          BY <1>5, <2>1, <4>2
      <4> QED
          BY <2>11, <4>1, <4>2, <4>3
    <3> QED
        BY <3>1, <3>2
  <2>16. ReturnStep(c, m, <<td>> \o <<tn>>, {n})
    <3>1. c # NULL /\ back # NULL
        BY <2>3, NullIs
    <3>2. \A k \in {n} :
            /\ {n} = {k} /\ Drained'.mail[k] # NULL
            /\ Drained'.mail[k].from # NULL
                         /\ Drained'.mail[k].items = mailbox[c][m].items
        BY <2>3, <2>12, <3>1 DEF mail
    <3>3. Gone' = IF {n} = {} THEN Gone
            \cup mailbox[c][m].items ELSE Gone
        BY <1>1, <1>8 DEF historyVars, Gone
    <3>4. \A x \in Character : mailbox'[x] = NULL <=> mailbox[x] = NULL
        BY <1>4, <2>14
    <3>5. Len(<<td>> \o <<tn>>) \in Nat /\ IsDatabase(Drained')
            /\ {n} \subseteq FreshMails
        BY <2>1, <2>7, <2>9 DEF IsAfter
    <3>6. DeletesThenInserts(<<td>> \o <<tn>>, m, n, mailbox[c][m])
      <4>1. /\ (<<td>> \o <<tn>>)[1] = td /\ (<<td>> \o <<tn>>)[2] = tn
            /\ spent' = spent
          BY <1>1, <1>8, JoinedFirst DEF historyVars, Gone
      <4> QED
          BY <1>6, <2>3, <2>7, <2>12, <2>5, <4>1 DEF DeletesThenInserts, mail
    <3>7. IF {n} = {} THEN Len(<<td>> \o <<tn>>) = 1 /\ GiveUp(c, {m})
          ELSE \E k \in {n} :
                 DeletesThenInserts(<<td>> \o <<tn>>, m, k, mailbox[c][m])
        BY <3>6
    <3> QED
        BY <1>1, <1>8, <2>7, <2>10, <2>11, <2>14, <2>15, <3>2, <3>3, <3>4,
           <3>5, <3>7 DEF ReturnStep, historyVars
  <2> QED
      BY <1>1, <2>16, ReturnKeeps DEF SentBack
<1>9. CASE ~goes
  <2>1. Queued(<<td>>) /\ IsAfter(td) /\ Len(<<td>>) = 1
    <3>1. Delay(<<td>>) /\ StateTyped
        BY <1>1, <1>9 DEF EconomyInv
    <3> QED
        BY <1>6, <3>1, OneDelayed, OneOrTwo
  <2>2. /\ \A x \in Character : Drained'.gold[x] = Drained.gold[x]
        /\ \A i \in Item : Drained'.inv[i] = Drained.inv[i]
        /\ \A a \in AuctionId : Drained'.auction[a] = Drained.auction[a]
        /\ \A k \in MailId : Drained'.mail[k] =
             IF k = m THEN NULL
             ELSE Drained.mail[k]
      BY <1>6, <2>1 DEF IsAfter
  <2>3. mailbox' = box /\ GiveUp(c, {m}) /\ UNCHANGED astray
      BY <1>1, <1>9
  <2>4. Gone' = Gone \cup mailbox[c][m].items
    <3>1. UNION {mailbox[c][k].items : k \in {m}} = mailbox[c][m].items
        OBVIOUS
    <3> QED
        BY <2>3, <3>1, GivenUp
  <2>5. ReturnStep(c, m, <<td>>, {})
    <3>1. \A x \in Character : mailbox'[x] # NULL =>
            \A k \in DOMAIN mailbox'[x] :
             mailbox'[x][k] = Drained'.mail[k] /\ mailbox'[x][k].to = x
        BY <1>4, <1>5, <2>2, <2>3
    <3>2. Len(<<td>>) \in Nat /\ IsDatabase(Drained')
            /\ {} \subseteq FreshMails
        BY <2>1 DEF IsAfter
    <3> QED
        BY <1>1, <1>4, <2>1, <2>2, <2>3, <2>4, <3>1, <3>2 DEF ReturnStep
  <2> QED
      BY <1>1, <2>5, ReturnKeeps DEF SentBack
<1> QED
    BY <1>8, <1>9

\* What the gold is then: as it was, but in the mails that are deleted.
SavedAndLeft(c) ==
    /\ \E txs : Len(txs) = 1 /\ Delays(txs, ToDelete(c))
    /\ \A x \in Character : Drained'.gold[x] = Drained.gold[x]
    /\ \A m \in ToDelete(c) : Drained'.mail[m] = NULL
    /\ GiveUp(c, ToDelete(c)) /\ UNCHANGED <<astray, auctions>>

\* A logout: the last save of the character is delayed, so that ItemsSafe and
\* MailsSafe ask nothing of him before it is committed.
LEMMA LogoutPlayerKeeps ==
    ASSUME EconomyInv, NEW c \in Character, LogoutPlayer(c)
    PROVE  EconomyInv' /\ SavedAndLeft(c)
<1> DEFINE ti == SaveInventoryAndGoldToDB(c, money[c], bag[c])
           tm == SaveMail(c, <<>>)
           tx == Both(ti, tm)
           gone == ToDelete(c)
           items == UNION {mailbox[c][m].items : m \in gone}
<1>1. /\ c \in online /\ Delay(<<tx>>)
      /\ GiveUp(c, gone) /\ deletedMails' = deletedMails \ gone
      /\ mailbox' = [mailbox EXCEPT ![c] = NULL]
      /\ online' = online \ {c}
      /\ money' = [money EXCEPT ![c] = 0] /\ bag' = [bag EXCEPT ![c] = {}]
      /\ UNCHANGED <<astray, auctions>>
    BY DEF LogoutPlayer
<1>2. /\ bag[c] \subseteq Item /\ \A j \in Item : j \in bag[c] <=>
           Drained.inv[j] = c
      /\ Drained.gold[c] = money[c] /\ c # NULL
    BY <1>1, InBag
<1>3. /\ gone # {} => mailbox[c] # NULL /\ gone \subseteq DOMAIN mailbox[c]
      /\ mailbox[c] = NULL => gone = {}
    BY DEF ToDelete
<1>4. \A m \in gone : /\ m \in MailId /\ mailbox[c][m] \in MailRow
                      /\ Drained.mail[m] = mailbox[c][m]
                      /\ Drained.mail[m] # NULL
    BY <1>3, InBox
<1>5. Gone' = Gone \cup items
    BY <1>1, GivenUp
<1>6. /\ IsTransaction(ti) /\ ti["gold"][c] = money[c]
      /\ \A j \in bag[c] : ti["inv"][j] = c
      /\ \A t, id : Written(ti, t, id)
            <=> (t = "gold" /\ id = c) \/ (t = "inv" /\ id \in bag[c])
  <2>1. money[c] \in Int /\ bag[c] \in SUBSET Item
      BY <1>2 DEF EconomyInv, StateTyped
  <2> QED
      BY <2>1, SaveInventoryIs
<1>7. /\ IsTransaction(tm)
      /\ \A t, id : Written(tm, t, id) <=> t = "mail" /\ id \in gone
      /\ \A k \in gone : tm["mail"][k] = NULL
  <2>1. DOMAIN <<>> = {}
      OBVIOUS
  <2>2. /\ DOMAIN <<>> \subseteq MailId /\ deletedMails \subseteq MailId
        /\ \A k \in DOMAIN <<>> : <<>>[k] \in MailRow
      BY <2>1 DEF EconomyInv, StateTyped
  <2>3. /\ IsTransaction(tm)
        /\ \A t, id : Written(tm, t, id) <=>
             t = "mail" /\ id \in DOMAIN <<>> \cup ToDelete(c)
        /\ \A k \in ToDelete(c) \ DOMAIN <<>> : tm["mail"][k] = NULL
      BY <2>2, SaveMailIs
  <2> QED
      BY <2>1, <2>3
<1> HIDE DEF ti, tm
<1>8. /\ IsTransaction(tx)
      /\ \A t, id : Written(tx, t, id) <=>
           Written(ti, t, id) \/ Written(tm, t, id)
      /\ \A t, id : Written(ti, t, id) => tx[t][id] = ti[t][id]
      /\ \A t, id : Written(tm, t, id) /\ ~Written(ti, t, id)
                            => tx[t][id] = tm[t][id]
    BY <1>6, <1>7, BothIs
<1> HIDE DEF tx
<1>9. Queued(<<tx>>) /\ IsAfter(tx) /\ Len(<<tx>>) = 1 /\ <<tx>>[1] = tx
  <2>1. Delay(<<tx>>) /\ StateTyped
      BY <1>1 DEF EconomyInv
  <2> QED
      BY <1>8, <2>1, OneDelayed, OneOrTwo
<1>10. \A x \in Character : Drained'.gold[x] = Drained.gold[x]
    BY <1>2, <1>6, <1>7, <1>8, <1>9 DEF IsAfter
<1>11. \A j \in Item : Drained'.inv[j] = Drained.inv[j]
    BY <1>2, <1>6, <1>7, <1>8, <1>9 DEF IsAfter
<1>12. \A k \in MailId :
         Drained'.mail[k] = IF k \in gone THEN NULL ELSE Drained.mail[k]
    BY <1>6, <1>7, <1>8, <1>9 DEF IsAfter
<1>13. \A a \in AuctionId : Drained'.auction[a] = Drained.auction[a]
    BY <1>6, <1>7, <1>8, <1>9 DEF IsAfter
<1>14. Written(<<tx>>[1], "gold", c)
    BY <1>6, <1>8, <1>9
<1> HIDE DEF gone, items
<1>15. items \subseteq Item /\ \A i : i \in items <=>
         \E m \in gone : i \in mailbox[c][m].items
    BY <1>4 DEF items, MailRow
<1>16. StateTyped'
    BY <1>1, <1>5, <1>9, <1>15 DEF EconomyInv, StateTyped, IsAfter
<1>17. SavedAsMade'
  <2>1. \A a \in AuctionId : Drained'.auction[a] = auctions'[a]
      BY <1>1, <1>13 DEF EconomyInv, SavedAsMade
  <2>2. ASSUME NEW x \in online'
        PROVE  /\ Drained'.gold[x] = money'[x]
               /\ \A i \in Item : Drained'.inv[i] = x <=> i \in bag'[x]
               /\ mailbox'[x] # NULL =>
                    \A k \in DOMAIN mailbox'[x] :
                      Drained'.mail[k] = mailbox'[x][k]
    <3>1. /\ x \in Character /\ x # c /\ x \in online
          /\ Drained.gold[x] = money[x]
          /\ \A i \in Item : i \in bag[x] <=> Drained.inv[i] = x
        BY <1>1, InBag
    <3>2. money'[x] = money[x] /\ bag'[x] = bag[x] /\ mailbox'[x] = mailbox[x]
        BY <1>1, <3>1 DEF EconomyInv, StateTyped
    <3>3. ASSUME mailbox[x] # NULL, NEW k \in DOMAIN mailbox[x]
          PROVE  Drained'.mail[k] = mailbox[x][k]
      <4>1. k \in MailId /\ mailbox[x][k].to = x
              /\ Drained.mail[k] = mailbox[x][k]
          BY <3>1, <3>3, InBox
      <4>2. k \notin gone
        <5> SUFFICES ASSUME k \in gone PROVE FALSE
            OBVIOUS
        <5>1. mailbox[c][k].to = c /\ Drained.mail[k] = mailbox[c][k]
            BY <1>3, InBox
        <5> QED
            BY <3>1, <4>1, <5>1
      <4> QED
          BY <1>12, <4>1, <4>2
    <3> QED
        BY <1>10, <1>11, <3>1, <3>2, <3>3
  <2> QED
      BY <1>9, <1>16, <2>1, <2>2, SavedByRows DEF IsAfter
<1>18. BoxesOwned' /\ SendersKnown' /\ ItemsSafe' /\ MailsSafe'
  <2>1. \A x \in Character :
            IF mailbox'[x] = NULL THEN mailbox[x] = NULL
            \/ x \in online \ online'
            ELSE /\ mailbox[x] # NULL /\ x \in online'
                 /\ \A k \in DOMAIN mailbox'[x] : mailbox'[x][k].to = x
      BY <1>1 DEF EconomyInv, BoxesOwned, StateTyped
  <2>2. \A m \in gone : Drained'.mail[m] = NULL
      BY <1>4, <1>12
  <2>3. online' \subseteq online /\ \A x \in online \ online' : x = c
      BY <1>1
  <2>4. MailStep(<<tx>>, c, gone, {})
      BY <1>3, <1>9, <1>11, <1>12, <1>14, <2>1, <2>2, <2>3 DEF MailStep
  <2> QED
      BY <2>4, MailsChange
<1>19. ItemsPlaced'
  <2>1. \A a \in AuctionId, i \in Item : InAuction(Drained', a, i) <=>
          InAuction(Drained, a, i)
      BY <1>13 DEF InAuction
  <2>2. \A k \in MailId, i \in Item :
          InMail(Drained', k, i) <=> k \notin gone /\ InMail(Drained, k, i)
      BY <1>12 DEF InMail
  <2>3. \A i \in Item : i \in items <=> \E m \in gone : InMail(Drained, m, i)
      BY <1>4, <1>15 DEF InMail
  <2>4. Gone' \subseteq Item
      BY <1>16 DEF StateTyped
  <2>5. ASSUME NEW i \in Item \ items
        PROVE  /\ i \in Gone' <=> i \in Gone
               /\ Drained'.inv[i] = NULL <=> Drained.inv[i] = NULL
               /\ \A k \in MailId : InMail(Drained', k, i) <=>
                    InMail(Drained, k, i)
               /\ \A a \in AuctionId : InAuction(Drained', a, i) <=>
                    InAuction(Drained, a, i)
      BY <1>5, <1>11, <2>1, <2>2, <2>3
  <2>6. ASSUME NEW i \in items PROVE Nowhere(Drained', i) /\ i \in Gone'
    <3>1. i \in Item /\ OnePlaceOnly(Drained, i)
        BY <1>15 DEF EconomyInv, ItemsPlaced, NoItemTwice
    <3>2. PICK m \in gone : InMail(Drained, m, i)
        BY <2>3, <3>1
    <3> QED
        BY <1>4, <1>5, <1>11, <2>1, <2>2, <3>1, <3>2 DEF OnePlaceOnly, Nowhere
  <2>7. \A i \in items : OnePlaceOnly(Drained', i)
      BY <2>6 DEF Nowhere, OnePlaceOnly
  <2>8. Moved(items)
      BY <2>4, <2>5, <2>6, <2>7 DEF Moved
  <2> QED
      BY <2>8, PlacedKept
<1>20. SavedAndLeft(c)
  <2>1. Len(<<tx>>) = 1 /\ Delays(<<tx>>, gone)
      BY <1>9, <1>10, <1>12 DEF Delays, IsAfter
  <2> QED
      BY <1>1, <1>4, <1>10, <1>12, <2>1 DEF SavedAndLeft, gone
<1> QED
    BY <1>16, <1>17, <1>18, <1>19, <1>20 DEF EconomyInv

\* An item goes from the inventory into a new auction, in one transaction.
LEMMA HandleAuctionSellItemKeeps ==
    ASSUME EconomyInv, NEW c \in Character, NEW i \in Item,
           NEW startbid \in Prices, NEW buyout \in Prices \cup {0},
           HandleAuctionSellItem(c, i, startbid, buyout)
    PROVE  EconomyInv' /\ \E txs : Len(txs) = 1 /\ Delays(txs, {})
<1> DEFINE a == Min(FreshAuctions)
           auc == [owner |-> c, item |-> i, bidder |-> NULL, bid |-> 0,
                   startbid |-> startbid, buyout |-> buyout,
                   deposit |-> Deposit]
           left == money[c] - Deposit
           rest == bag[c] \ {i}
           td == [inv |-> OneRow(i, NULL)]
           ta == SaveAuction(a, auc)
           ti == SaveInventoryAndGoldToDB(c, left, rest)
           tda == Both(td, ta)
           tx == Both(tda, ti)
<1>1. /\ c \in online /\ i \in bag[c] /\ FreshAuctions # {}
      /\ money' = [money EXCEPT ![c] = left]
      /\ bag' = [bag EXCEPT ![c] = @ \ {i}]
      /\ auctions' = [auctions EXCEPT ![a] = auc]
      /\ Delay(<<tx>>)
      /\ UNCHANGED <<online, historyVars, mailVars>>
    BY DEF HandleAuctionSellItem
<1>2. UNCHANGED <<Gone, mailbox, deletedMails>>
    BY <1>1 DEF historyVars, Gone, mailVars
<1>3. /\ bag[c] \subseteq Item /\ c # NULL
      /\ \A j \in Item : j \in bag[c] <=> Drained.inv[j] = c
    BY <1>1, InBag
<1>4. a \in AuctionId /\ auctions[a] = NULL /\ Drained.auction[a] = NULL
  <2>1. FreshAuctions \subseteq Nat
      BY CharacterDBAssumption DEF CharacterDBAssumption, FreshAuctions
  <2>2. a \in FreshAuctions
      BY <1>1, <2>1, LeastOf
  <2> QED
      BY <2>2 DEF FreshAuctions, EconomyInv, SavedAsMade
<1>5. auc \in AuctionRow /\ auc.item = i
    BY AuctionAssumption DEF AuctionAssumption, AuctionRow
<1>6. left \in Int /\ rest \in SUBSET Item
    BY <1>3, AuctionAssumption DEF AuctionAssumption, EconomyInv, StateTyped
<1> HIDE DEF a, auc, left
<1>7. /\ IsTransaction(td) /\ td["inv"][i] = NULL
      /\ \A t, id : Written(td, t, id) <=> t = "inv" /\ id = i
    BY ItemDeleteIs
<1>8. /\ IsTransaction(ta) /\ ta["auction"][a] = auc
      /\ \A t, id : Written(ta, t, id) <=> t = "auction" /\ id = a
    BY <1>4, <1>5, SaveAuctionIs
<1>9. /\ IsTransaction(ti) /\ ti["gold"][c] = left
      /\ \A j \in rest : ti["inv"][j] = c
      /\ \A t, id : Written(ti, t, id)
            <=> (t = "gold" /\ id = c) \/ (t = "inv" /\ id \in rest)
    BY <1>6, SaveInventoryIs
<1> HIDE DEF td, ta, ti
<1>10. /\ IsTransaction(tda)
       /\ \A t, id : Written(tda, t, id) <=>
            Written(td, t, id) \/ Written(ta, t, id)
       /\ \A t, id : Written(td, t, id) => tda[t][id] = td[t][id]
       /\ \A t, id : Written(ta, t, id) /\ ~Written(td, t, id)
                            => tda[t][id] = ta[t][id]
    BY <1>7, <1>8, BothIs
<1> HIDE DEF tda
<1>11. /\ IsTransaction(tx)
       /\ \A t, id : Written(tx, t, id) <=>
            Written(tda, t, id) \/ Written(ti, t, id)
       /\ \A t, id : Written(tda, t, id) => tx[t][id] = tda[t][id]
       /\ \A t, id : Written(ti, t, id) /\ ~Written(tda, t, id)
                            => tx[t][id] = ti[t][id]
    BY <1>9, <1>10, BothIs
<1> HIDE DEF tx
<1>12. Queued(<<tx>>) /\ IsAfter(tx) /\ Len(<<tx>>) = 1
  <2>1. Delay(<<tx>>) /\ StateTyped
      BY <1>1 DEF EconomyInv
  <2> QED
      BY <1>11, <2>1, OneDelayed, OneOrTwo
<1>13. \A x \in Character :
         Drained'.gold[x] = IF x = c THEN left ELSE Drained.gold[x]
    BY <1>7, <1>8, <1>9, <1>10, <1>11, <1>12 DEF IsAfter
<1>14. \A j \in Item : Drained'.inv[j] = IF j = i THEN NULL ELSE Drained.inv[j]
  <2> SUFFICES ASSUME NEW j \in Item
               PROVE  Drained'.inv[j] = IF j = i THEN NULL ELSE Drained.inv[j]
      OBVIOUS
  <2>1. CASE j = i
      BY <1>7, <1>10, <1>11, <1>12, <2>1 DEF IsAfter
  <2>2. CASE j \in rest
    <3>1. /\ Written(ti, "inv", j) /\ ~Written(tda, "inv", j)
          /\ Written(tx, "inv", j)
        BY <1>7, <1>8, <1>9, <1>10, <1>11, <2>2
    <3>2. tx["inv"][j] = c /\ Drained.inv[j] = c
        BY <1>3, <1>9, <1>11, <2>2, <3>1
    <3> QED
        BY <1>12, <2>2, <3>1, <3>2 DEF IsAfter
  <2>3. CASE j # i /\ j \notin rest
    <3>1. ~Written(tx, "inv", j)
        BY <1>7, <1>8, <1>9, <1>10, <1>11, <2>3
    <3> QED
        BY <1>12, <2>3, <3>1 DEF IsAfter
  <2> QED
      BY <2>1, <2>2, <2>3
<1>15. \A m \in MailId : Drained'.mail[m] = Drained.mail[m]
    BY <1>7, <1>8, <1>9, <1>10, <1>11, <1>12 DEF IsAfter
<1>16. \A b \in AuctionId :
         Drained'.auction[b] = IF b = a THEN auc ELSE Drained.auction[b]
  <2> SUFFICES ASSUME NEW b \in AuctionId
               PROVE  Drained'.auction[b] =
                 IF b = a THEN auc
                 ELSE Drained.auction[b]
      OBVIOUS
  <2>1. CASE b = a
    <3>1. Written(ta, "auction", a) /\ ~Written(td, "auction", a)
            /\ Written(tda, "auction", a)
          /\ Written(tx, "auction", a)
        BY <1>7, <1>8, <1>10, <1>11
    <3>2. tx["auction"][a] = auc
        BY <1>8, <1>10, <1>11, <3>1
    <3> QED
        BY <1>4, <1>12, <2>1, <3>1, <3>2 DEF IsAfter
  <2>2. CASE b # a
    <3>1. ~Written(tx, "auction", b)
        BY <1>7, <1>8, <1>9, <1>10, <1>11, <2>2
    <3> QED
        BY <1>12, <2>2, <3>1 DEF IsAfter
  <2> QED
      BY <2>1, <2>2
<1> HIDE DEF rest
<1>17. StateTyped'
    BY <1>1, <1>2, <1>3, <1>4, <1>5, <1>6, <1>12
       DEF EconomyInv, StateTyped, IsAfter
<1>18. SavedAsMade'
  <2>1. \A b \in AuctionId : Drained'.auction[b] = auctions'[b]
      BY <1>1, <1>4, <1>16 DEF EconomyInv, SavedAsMade, StateTyped
  <2>2. ASSUME NEW x \in online'
        PROVE  /\ Drained'.gold[x] = money'[x]
               /\ \A j \in Item : Drained'.inv[j] = x <=> j \in bag'[x]
               /\ mailbox'[x] # NULL =>
                    \A k \in DOMAIN mailbox'[x] :
                      Drained'.mail[k] = mailbox'[x][k]
    <3>1. /\ x \in Character /\ x # NULL /\ x \in online
          /\ Drained.gold[x] = money[x]
          /\ \A j \in Item : j \in bag[x] <=> Drained.inv[j] = x
        BY <1>1, InBag
    <3>2. Drained'.gold[x] = money'[x]
        BY <1>1, <1>13, <3>1 DEF EconomyInv, StateTyped
    <3>3. bag'[x] = IF x = c THEN bag[c] \ {i} ELSE bag[x]
        BY <1>1, <3>1 DEF EconomyInv, StateTyped
    <3>4. \A j \in Item : Drained'.inv[j] = x <=> j \in bag'[x]
        BY <1>1, <1>3, <1>14, <3>1, <3>3
    <3>5. mailbox'[x] # NULL =>
                    \A k \in DOMAIN mailbox'[x] :
                      Drained'.mail[k] = mailbox'[x][k]
        BY <1>2, <1>15, <3>1, InBox
    <3> QED
        BY <3>2, <3>4, <3>5
  <2> QED
      BY <1>12, <1>17, <2>1, <2>2, SavedByRows DEF IsAfter
<1>19. BoxesOwned' /\ SendersKnown'
    BY <1>1, <1>2, <1>15 DEF EconomyInv, BoxesOwned, SendersKnown
<1>20. ItemsSafe' /\ MailsSafe'
  <2>1. \A x \in Character \ online, j \in Item :
               Drained'.inv[j] = x <=> Drained.inv[j] = x
      BY <1>1, <1>3, <1>14, NullIs
  <2> QED
      BY <1>1, <1>2, <1>12, <1>15, <2>1, SafeKept
<1>21. ItemsPlaced'
  <2>1. /\ OnePlaceOnly(Drained, i) /\ Drained.inv[i] = c
        /\ i \notin Gone
    <3>1. OnePlaceOnly(Drained, i) /\ Drained.inv[i] = c
        BY <1>1, <1>3 DEF EconomyInv, ItemsPlaced, NoItemTwice
    <3> QED
        BY <1>3, <3>1 DEF EconomyInv, ItemsPlaced, GivenUpIsGone, Nowhere
  <2>2. \A k \in MailId, j \in Item : InMail(Drained', k, j) <=>
          InMail(Drained, k, j)
      BY <1>15 DEF InMail
  <2>3. \A b \in AuctionId, j \in Item :
            InAuction(Drained', b, j) <=>
            (b = a /\ j = i) \/ (b # a /\ InAuction(Drained, b, j))
    <3>1. auc # NULL
        BY <1>5, NullIs
    <3> QED
        BY <1>4, <1>5, <1>16, <3>1 DEF InAuction
  <2>4. \A j \in Item : ~InAuction(Drained, a, j)
      BY <1>4 DEF InAuction
  <2>5. Gone' \subseteq Item
      BY <1>17 DEF StateTyped
  <2>6. ASSUME NEW j \in Item \ {i}
        PROVE  /\ j \in Gone' <=> j \in Gone
               /\ Drained'.inv[j] = NULL <=> Drained.inv[j] = NULL
               /\ \A k \in MailId : InMail(Drained', k, j) <=>
                    InMail(Drained, k, j)
               /\ \A b \in AuctionId : InAuction(Drained', b, j) <=>
                    InAuction(Drained, b, j)
      BY <1>2, <1>14, <2>2, <2>3, <2>4
  <2>7. /\ Drained'.inv[i] = NULL /\ \A k \in MailId : ~InMail(Drained', k, i)
        /\ \A b \in AuctionId : InAuction(Drained', b, i) <=> b = a
      BY <1>3, <1>14, <2>1, <2>2, <2>3 DEF OnePlaceOnly
  <2>8. OnePlaceOnly(Drained', i) /\ ~Nowhere(Drained', i)
      BY <1>4, <2>7 DEF OnePlaceOnly, Nowhere
  <2>9. i \notin Gone'
      BY <1>2, <2>1
  <2>10. Moved({i})
      BY <2>5, <2>6, <2>8, <2>9 DEF Moved
  <2> QED
      BY <2>10, PlacedKept
<1>22. Len(<<tx>>) = 1 /\ Delays(<<tx>>, {})
    BY <1>1, <1>12, <1>13, <1>15 DEF Delays, IsAfter
<1>23. EconomyInv'
    BY <1>17, <1>18, <1>19, <1>20, <1>21 DEF EconomyInv
<1> QED
    BY <1>22, <1>23

\* Mails of the auction house that carry these items, in one of them.
HouseMails(mails, items) ==
    /\ IsSequence(mails) /\ items \subseteq Item
    /\ \A k \in 1..Len(mails) :
          /\ mails[k] \in MailRow /\ mails[k].from = NULL
          /\ mails[k].kind = "auction" /\ mails[k].cod = 0
          /\ mails[k].items \subseteq items
    /\ \A j, k \in 1..Len(mails) :
          mails[j].items # {} /\ mails[k].items # {} => j = k
    /\ \A i \in items : \E k \in 1..Len(mails) : i \in mails[k].items

\* Two such sequences as one.
LEMMA MailsJoined ==
    ASSUME NEW s, NEW t, NEW I, NEW J, HouseMails(s, I), HouseMails(t, J),
           I = {} \/ J = {}
    PROVE  HouseMails(s \o t, I \cup J)
<1> DEFINE r == s \o t
<1>1. /\ IsSequence(r) /\ Len(r) = Len(s) + Len(t) /\ Len(s) \in Nat
      /\ Len(t) \in Nat
      /\ \A k \in 1..(Len(s) + Len(t)) :
            r[k] = IF k <= Len(s) THEN s[k] ELSE t[k - Len(s)]
    BY Concatenated, SequenceLength DEF HouseMails
<1> HIDE DEF r
<1>2. ASSUME NEW k \in 1..Len(r)
      PROVE  \/ k \in 1..Len(s) /\ r[k] = s[k]
             \/ k - Len(s) \in 1..Len(t) /\ r[k] = t[k - Len(s)]
    BY <1>1
<1>3. \A k \in 1..Len(s) : k \in 1..Len(r) /\ r[k] = s[k]
    BY <1>1
<1>4. \A k \in 1..Len(t) : Len(s) + k \in 1..Len(r) /\ r[Len(s) + k] = t[k]
  <2> SUFFICES ASSUME NEW k \in 1..Len(t)
               PROVE  Len(s) + k \in 1..Len(r) /\ r[Len(s) + k] = t[k]
      OBVIOUS
  <2>1. /\ Len(s) + k \in 1..(Len(s) + Len(t)) /\ ~(Len(s) + k <= Len(s))
        /\ (Len(s) + k) - Len(s) = k
      BY <1>1
  <2> QED
      BY <1>1, <2>1
<1>5. ASSUME NEW k \in 1..Len(r)
      PROVE  /\ r[k] \in MailRow /\ r[k].from = NULL
             /\ r[k].kind = "auction" /\ r[k].cod = 0
             /\ r[k].items \subseteq I \cup J
    BY <1>2 DEF HouseMails
<1>6. ASSUME NEW j \in 1..Len(r), NEW k \in 1..Len(r),
             r[j].items # {}, r[k].items # {}
      PROVE  j = k
  <2>1. CASE I = {}
    <3>1. \A n \in 1..Len(s) : s[n].items = {}
        BY <2>1 DEF HouseMails
    <3>2. /\ j - Len(s) \in 1..Len(t) /\ r[j] = t[j - Len(s)]
          /\ k - Len(s) \in 1..Len(t) /\ r[k] = t[k - Len(s)]
        BY <1>2, <1>6, <3>1
    <3>3. j - Len(s) = k - Len(s)
        BY <1>6, <3>2 DEF HouseMails
    <3> QED
        BY <1>1, <3>3
  <2>2. CASE J = {}
    <3>1. \A n \in 1..Len(t) : t[n].items = {}
        BY <2>2 DEF HouseMails
    <3>2. /\ j \in 1..Len(s) /\ r[j] = s[j] /\ k \in 1..Len(s) /\ r[k] = s[k]
        BY <1>2, <1>6, <3>1
    <3> QED
        BY <1>6, <3>2 DEF HouseMails
  <2> QED
      BY <2>1, <2>2
<1>7. ASSUME NEW i \in I \cup J PROVE \E k \in 1..Len(r) : i \in r[k].items
  <2>1. CASE i \in I
    <3>1. PICK k \in 1..Len(s) : i \in s[k].items
        BY <2>1 DEF HouseMails
    <3> QED
        BY <1>3, <3>1
  <2>2. CASE i \in J
    <3>1. PICK k \in 1..Len(t) : i \in t[k].items
        BY <2>2 DEF HouseMails
    <3> QED
        BY <1>4, <3>1
  <2> QED
      BY <2>1, <2>2
<1>8. I \cup J \subseteq Item
    BY DEF HouseMails
<1>9. HouseMails(r, I \cup J)
    BY <1>1, <1>5, <1>6, <1>7, <1>8 DEF HouseMails
<1> QED
    BY <1>9 DEF r

\* The mails of the auction house are such sequences.
LEMMA HouseSends ==
    /\ HouseMails(<<>>, {})
    /\ \A to \in Character, gold \in Nat : HouseMails(MailGoldTo(to, gold), {})
    /\ \A to \in Character, i \in Item : HouseMails(MailItemTo(to, i), {i})
<1>1. ASSUME NEW to \in Character, NEW items \in SUBSET Item, NEW gold \in Nat
      PROVE  HouseMails(<<NewMail(NULL, to, "auction", items, gold)>>, items)
  <2> DEFINE mail == NewMail(NULL, to, "auction", items, gold)
  <2>1. /\ mail \in MailRow /\ mail.from = NULL /\ mail.kind = "auction"
        /\ mail.cod = 0 /\ mail.items = items
      BY DEF NewMail, MailRow, MailKind
  <2>2. IsSequence(<<mail>>) /\ Len(<<mail>>) = 1 /\ <<mail>>[1] = mail
      BY OneOrTwo
  <2> HIDE DEF mail
  <2>3. \A k \in 1..Len(<<mail>>) : k = 1
      BY <2>2
  <2>4. HouseMails(<<mail>>, items)
      BY <2>1, <2>2, <2>3 DEF HouseMails
  <2> QED
      BY <2>4 DEF mail
<1>2. HouseMails(<<>>, {})
    BY OneOrTwo DEF HouseMails
<1>3. ASSUME NEW to \in Character, NEW gold \in Nat
      PROVE  HouseMails(MailGoldTo(to, gold), {})
    BY <1>1, <1>2 DEF MailGoldTo
<1>4. ASSUME NEW to \in Character, NEW i \in Item
      PROVE  HouseMails(MailItemTo(to, i), {i})
    BY <1>1 DEF MailItemTo
<1> QED
    BY <1>2, <1>3, <1>4

\* These mails have these ids.
Numbered(mails, ids) ==
    /\ ids \in [1..Len(mails) -> FreshMails]
    /\ \A j, k \in 1..Len(mails) : ids[j] = ids[k] => j = k

\* What the receivers have then.
LEMMA SentManyTo ==
    ASSUME EconomyInv, NEW mails, NEW items, HouseMails(mails, items),
           NEW ids, Numbered(mails, ids)
    PROVE  LET sent == SendMailsTo(mailbox, ids, mails) IN
           /\ sent \in Mailboxes
           /\ \A x \in Character :
                /\ sent[x] = NULL <=> mailbox[x] = NULL
                /\ mailbox[x] # NULL => \A m \in DOMAIN sent[x] :
                     \/ m \in DOMAIN mailbox[x] /\ sent[x][m] = mailbox[x][m]
                        /\ \A k \in 1..Len(mails) : ids[k] # m
                     \/ \E k \in 1..Len(mails) :
                          m = ids[k] /\ mails[k].to = x
                          /\ sent[x][m] = mails[k]
<1> DEFINE sent == SendMailsTo(mailbox, ids, mails)
           N == Len(mails)
           received(x) == {k \in DOMAIN mails : mails[k].to = x}
           rows(x) == [m \in {ids[k] : k \in received(x)} |->
                          mails[CHOOSE k \in received(x) : ids[k] = m]]
           new(x) == Over(rows(x), mailbox[x])
<1>1. N \in Nat /\ DOMAIN mails = 1..N
    BY SequenceLength DEF HouseMails, IsSequence
<1>2. sent = [x \in Character |-> IF mailbox[x] = NULL THEN NULL ELSE new(x)]
    BY DEF SendMailsTo
<1>3. \A x : /\ received(x) \subseteq 1..N
             /\ \A k \in received(x) : mails[k].to = x
             /\ \A k \in 1..N : mails[k].to = x => k \in received(x)
    BY <1>1
<1>4. ASSUME NEW x
      PROVE  /\ DOMAIN rows(x) = {ids[k] : k \in received(x)}
             /\ \A k \in received(x) : rows(x)[ids[k]] = mails[k]
  <2>1. ASSUME NEW k \in received(x)
        PROVE  (CHOOSE j \in received(x) : ids[j] = ids[k]) = k
    <3> HIDE DEF received
    <3> QED
        BY <1>3, <2>1 DEF Numbered
  <2> QED
      BY <2>1
<1> HIDE DEF sent, rows, N
<1>5. \A x : /\ DOMAIN new(x) = DOMAIN rows(x) \cup DOMAIN mailbox[x]
             /\ \A m \in DOMAIN new(x) :
                   new(x)[m] =
                     IF m \in DOMAIN rows(x) THEN rows(x)[m]
                     ELSE mailbox[x][m]
             /\ new(x) = [m \in DOMAIN new(x) |-> new(x)[m]]
    BY DEF Over
<1> HIDE DEF new, received
<1>6. \A k \in 1..N : ids[k] \in MailId /\ ids[k] \in FreshMails
    BY DEF Numbered, FreshMails, N
<1>7. ASSUME NEW x \in Character, mailbox[x] # NULL, NEW m \in DOMAIN new(x)
      PROVE  \/ m \in DOMAIN mailbox[x] /\ new(x)[m] = mailbox[x][m]
                /\ \A k \in 1..N : ids[k] # m
             \/ \E k \in 1..N :
                   m = ids[k] /\ mails[k].to = x /\ new(x)[m] = mails[k]
  <2>1. CASE m \in DOMAIN rows(x)
    <3>1. DOMAIN rows(x) = {ids[k] : k \in received(x)}
        BY <1>4
    <3>2. PICK k \in received(x) : m = ids[k]
        BY <2>1, <3>1
    <3>3. k \in 1..N /\ mails[k].to = x /\ rows(x)[m] = mails[k]
            /\ new(x)[m] = rows(x)[m]
        BY <1>3, <1>4, <1>5, <1>7, <2>1, <3>2
    <3> QED
        BY <3>2, <3>3
  <2>2. CASE m \notin DOMAIN rows(x)
    <3>1. m \in DOMAIN mailbox[x] /\ new(x)[m] = mailbox[x][m]
        BY <1>5, <1>7, <2>2
    <3>2. \A k \in 1..N : ids[k] # m
        BY <1>6, <1>7, <3>1, FreshIs DEF EconomyInv
    <3> QED
        BY <3>1, <3>2
  <2> QED
      BY <2>1, <2>2
<1>8. ASSUME NEW x \in Character, mailbox[x] # NULL
      PROVE new(x) \in Boxes /\ new(x) # NULL
  <2>1. ASSUME NEW m \in DOMAIN new(x)
        PROVE m \in MailId /\ new(x)[m] \in MailRow
    <3>1. CASE m \in DOMAIN mailbox[x] /\ new(x)[m] = mailbox[x][m]
        BY <1>8, <3>1, InBox
    <3>2. CASE \E k \in 1..N :
                 m = ids[k] /\ mails[k].to = x /\ new(x)[m] = mails[k]
        BY <1>6, <3>2 DEF HouseMails, N
    <3> QED
        BY <1>7, <1>8, <2>1, <3>1, <3>2
  <2>2. new(x) \in Boxes
    <3>1. DOMAIN new(x) \subseteq MailId /\ \A m \in DOMAIN new(x) :
            new(x)[m] \in MailRow
        BY <2>1
    <3> QED
        BY <1>5, <3>1, BoxIs
  <2> QED
      BY <2>2, NullIs
<1>9. sent \in Mailboxes
    BY <1>2, <1>8 DEF Mailboxes
<1>10. \A x \in Character :
         sent[x] = IF mailbox[x] = NULL THEN NULL ELSE new(x)
    BY <1>2
<1> QED
    BY <1>7, <1>8, <1>9, <1>10 DEF sent, N

\* After mails of the house, and then the transaction tx.
HouseStep(mails, ids, tx, txs) ==
    /\ Len(txs) \in Nat /\ Queued(txs) /\ IsDatabase(Drained')
    /\ InsertsFirst(txs) /\ Numbered(mails, ids)
    /\ \A x \in Character :
          Drained'.gold[x] =
            IF Written(tx, "gold", x) THEN tx["gold"][x]
            ELSE Drained.gold[x]
    /\ \A i \in Item :
          Drained'.inv[i] =
            IF Written(tx, "inv", i) THEN tx["inv"][i]
            ELSE Drained.inv[i]
    /\ \A a \in AuctionId :
          Drained'.auction[a] =
            IF Written(tx, "auction", a) THEN tx["auction"][a]
            ELSE Drained.auction[a]
    /\ \A k \in 1..Len(mails) : Drained'.mail[ids[k]] = mails[k]
    /\ \A m \in MailId :
          (\A k \in 1..Len(mails) : ids[k] # m) =>
            Drained'.mail[m] = Drained.mail[m]

\* SendAll delays the mails, one transaction each, and the transaction of the
\* house behind them.
LEMMA AllSent ==
    ASSUME EconomyInv, NEW mails, NEW items, HouseMails(mails, items),
           NEW tx, IsTransaction(tx), \A id : ~Written(tx, "mail", id),
           SendAll(mails, tx)
    PROVE  \E ids, txs :
             HouseStep(mails, ids, tx, txs)
             /\ mailbox' = SendMailsTo(mailbox, ids, mails)
<1> DEFINE N == Len(mails)
           ids == MailIds(Len(mails))
           insert == [k \in DOMAIN mails |-> [mail |-> OneRow(ids[k],
           mails[k])]]
           txs == insert \o <<tx>>
<1>1. N \in Nat /\ DOMAIN mails = 1..N /\ \A k \in 1..N : mails[k] \in MailRow
    BY SequenceLength DEF HouseMails, IsSequence
<1>2. /\ N <= Cardinality(FreshMails)
      /\ mailbox' = SendMailsTo(mailbox, ids, mails)
      /\ Delay(txs)
    BY DEF SendAll
<1>3. Numbered(mails, ids) /\ \A k \in 1..N : ids[k] \in MailId
    BY <1>1, <1>2, MailIdsFresh DEF Numbered, FreshMails
<1> HIDE DEF ids
<1>4. IsSequence(insert) /\ Len(insert) = N
  <2>1. insert = [k \in 1..N |-> insert[k]]
      BY <1>1
  <2> HIDE DEF insert
  <2> QED
      BY <1>1, <2>1, SequenceOf
<1>5. ASSUME NEW k \in 1..N
      PROVE  /\ IsTransaction(insert[k])
             /\ insert[k]["mail"][ids[k]] = mails[k]
             /\ \A t, id : Written(insert[k], t, id) <=>
                  t = "mail" /\ id = ids[k]
  <2>1. insert[k] = [mail |-> OneRow(ids[k], mails[k])]
      BY <1>1
  <2> HIDE DEF insert
  <2> QED
      BY <1>1, <1>3, <2>1, MailWriteIs
<1> HIDE DEF insert
<1>6. /\ IsSequence(txs) /\ Len(txs) = N + 1
      /\ \A k \in 1..N : txs[k] = insert[k]
      /\ txs[N + 1] = tx
  <2>1. /\ IsSequence(<<tx>>) /\ Len(<<tx>>) = 1 /\ <<tx>>[1] = tx
      BY OneOrTwo
  <2>2. /\ IsSequence(txs) /\ Len(txs) = N + 1
        /\ \A i \in 1..(N + 1) : txs[i] =
             IF i <= N THEN insert[i]
             ELSE <<tx>>[i - N]
      BY <1>4, <2>1, Concatenated
  <2>3. \A k \in 1..N : txs[k] = insert[k]
      BY <1>1, <2>2
  <2>4. N + 1 \in 1..(N + 1) /\ ~(N + 1 <= N) /\ (N + 1) - N = 1
      BY <1>1
  <2>5. txs[N + 1] = tx
      BY <2>1, <2>2, <2>4
  <2> QED
      BY <2>2, <2>3, <2>5
<1> HIDE DEF txs, N
<1>7. \A k \in 1..Len(txs) : k \in 1..N \/ k = N + 1
    BY <1>1, <1>6
<1>8. \A k \in 1..Len(txs) : IsTransaction(txs[k])
    BY <1>5, <1>6, <1>7
<1>9. Once(txs)
  <2> SUFFICES ASSUME NEW i \in 1..Len(txs), NEW j \in 1..Len(txs), NEW t,
                      NEW id,
                      Written(txs[i], t, id), Written(txs[j], t, id)
               PROVE  i = j
      BY DEF Once
  <2>1. CASE i \in 1..N /\ j \in 1..N
    <3>1. id = ids[i] /\ id = ids[j]
        BY <1>5, <1>6, <2>1
    <3> QED
        BY <1>3, <2>1, <3>1 DEF Numbered, N
  <2>2. CASE i = N + 1 /\ j = N + 1
      BY <2>2
  <2>3. CASE i \in 1..N /\ j = N + 1
    <3>1. txs[i] = insert[i] /\ txs[j] = tx
        BY <1>6, <2>3
    <3>2. t = "mail"
        BY <1>5, <2>3, <3>1
    <3> QED
        BY <3>1, <3>2
  <2>4. CASE i = N + 1 /\ j \in 1..N
    <3>1. txs[j] = insert[j] /\ txs[i] = tx
        BY <1>6, <2>4
    <3>2. t = "mail"
        BY <1>5, <2>4, <3>1
    <3> QED
        BY <3>1, <3>2
  <2> QED
      BY <1>7, <2>1, <2>2, <2>3, <2>4
<1>10. Queued(txs)
    BY <1>2, <1>6, <1>8, <1>9, Delayed DEF EconomyInv, StateTyped
<1>11. IsDatabase(Drained) /\ Len(txs) \in Nat
    BY <1>6, DrainedTyped, SequenceLength DEF EconomyInv
<1>12. IsDatabase(Drained')
    BY <1>10, AddedTyped
<1>13. /\ Tables = {"gold", "inv", "mail", "auction"}
       /\ DOMAIN Drained["gold"] = Character /\ DOMAIN Drained["inv"] = Item
       /\ DOMAIN Drained["mail"] = MailId
       /\ DOMAIN Drained["auction"] = AuctionId
    BY <1>11 DEF IsDatabase, Tables
<1>14. N + 1 \in 1..Len(txs)
    BY <1>1, <1>6
<1>15. ASSUME NEW t \in Tables, t # "mail", NEW id \in DOMAIN Drained[t]
       PROVE  Drained'[t][id] =
         IF Written(tx, t, id) THEN tx[t][id]
         ELSE Drained[t][id]
  <2>1. CASE Written(tx, t, id)
      BY <1>6, <1>10, <1>14, <2>1 DEF Queued
  <2>2. CASE ~Written(tx, t, id)
    <3>1. \A k \in 1..Len(txs) : ~Written(txs[k], t, id)
        BY <1>5, <1>6, <1>7, <1>15, <2>2
    <3> QED
        BY <1>10, <2>2, <3>1 DEF Queued
  <2> QED
      BY <2>1, <2>2
<1>16. ASSUME NEW k \in 1..N PROVE Drained'.mail[ids[k]] = mails[k]
  <2>1. k \in 1..Len(txs) /\ Written(txs[k], "mail", ids[k])
          /\ txs[k]["mail"][ids[k]] = mails[k]
      BY <1>1, <1>5, <1>6
  <2> QED
      BY <1>3, <1>10, <1>13, <2>1 DEF Queued
<1>17. ASSUME NEW m \in MailId, \A k \in 1..N : ids[k] # m
       PROVE  Drained'.mail[m] = Drained.mail[m]
  <2>1. \A k \in 1..Len(txs) : ~Written(txs[k], "mail", m)
      BY <1>5, <1>6, <1>7, <1>17
  <2> QED
      BY <1>10, <1>13, <2>1 DEF Queued
<1>18. /\ \A x \in Character :
            Drained'.gold[x] =
              IF Written(tx, "gold", x) THEN tx["gold"][x]
              ELSE Drained.gold[x]
       /\ \A i \in Item :
            Drained'.inv[i] =
              IF Written(tx, "inv", i) THEN tx["inv"][i]
              ELSE Drained.inv[i]
       /\ \A a \in AuctionId :
            Drained'.auction[a] =
              IF Written(tx, "auction", a) THEN tx["auction"][a]
              ELSE Drained.auction[a]
    BY <1>13, <1>15
<1>19. InsertsFirst(txs)
  <2> SUFFICES ASSUME NEW k \in 1..Len(txs), k < Len(txs), NEW t, NEW id,
                      Written(txs[k], t, id)
               PROVE  t = "mail" /\ id \in FreshMails
      BY DEF InsertsFirst
  <2>1. k \in 1..N
      BY <1>1, <1>6
  <2>2. ids[k] \in FreshMails
      BY <1>3, <2>1 DEF Numbered, N
  <2>3. Written(insert[k], t, id)
      BY <1>6, <2>1
  <2>4. t = "mail" /\ id = ids[k]
      BY <1>5, <2>1, <2>3
  <2> QED
      BY <2>2, <2>4
<1>20. HouseStep(mails, ids, tx, txs)
    BY <1>3, <1>10, <1>11, <1>12, <1>16, <1>17, <1>18, <1>19 DEF HouseStep, N
<1> QED
    BY <1>2, <1>20

\* The transaction of the house: the auction has this row now, and who pays has
\* his gold and his inventory saved.
HouseSaves(tx, a, row) ==
    /\ IsTransaction(tx) /\ \A id : ~Written(tx, "mail", id)
    /\ \A i : Written(tx, "inv", i) => tx["inv"][i] = Drained.inv[i]
    /\ \A b : Written(tx, "auction", b) <=> b = a
    /\ tx["auction"][a] = row
    /\ money' \in [Character -> Int]
    /\ \A x : Written(tx, "gold", x) => x \in online
    /\ \A x \in online :
          IF Written(tx, "gold", x) THEN tx["gold"][x] = money'[x]
          ELSE money'[x] = money[x]

\* The auction is saved together with who pays.
LEMMA PaidAndSaved ==
    ASSUME EconomyInv, NEW c \in online, NEW left \in Int,
           NEW a \in AuctionId, NEW row \in AuctionRow \cup {NULL},
           money' = [money EXCEPT ![c] = left]
    PROVE  HouseSaves(Both(SaveAuction(a, row),
             SaveInventoryAndGoldToDB(c, left, bag[c])), a, row)
<1> DEFINE ta == SaveAuction(a, row)
           ti == SaveInventoryAndGoldToDB(c, left, bag[c])
           tx == Both(ta, ti)
<1>1. c \in Character /\ bag[c] \in SUBSET Item
      /\ \A i \in Item : i \in bag[c] <=> Drained.inv[i] = c
    BY InBag
<1>2. /\ IsTransaction(ta) /\ ta["auction"][a] = row
      /\ \A t, id : Written(ta, t, id) <=> t = "auction" /\ id = a
    BY SaveAuctionIs
<1>3. /\ IsTransaction(ti) /\ ti["gold"][c] = left
      /\ \A i \in bag[c] : ti["inv"][i] = c
      /\ \A t, id : Written(ti, t, id)
            <=> (t = "gold" /\ id = c) \/ (t = "inv" /\ id \in bag[c])
    BY <1>1, SaveInventoryIs
<1> HIDE DEF ta, ti
<1>4. /\ IsTransaction(tx)
      /\ \A t, id : Written(tx, t, id) <=>
           Written(ta, t, id) \/ Written(ti, t, id)
      /\ \A t, id : Written(ta, t, id) => tx[t][id] = ta[t][id]
      /\ \A t, id : Written(ti, t, id) /\ ~Written(ta, t, id)
                            => tx[t][id] = ti[t][id]
    BY <1>2, <1>3, BothIs
<1> HIDE DEF tx
<1>5. money' \in [Character -> Int] /\ \A x \in Character :
        money'[x] = IF x = c THEN left ELSE money[x]
    BY <1>1 DEF EconomyInv, StateTyped
<1>6. \A i : Written(tx, "inv", i) => tx["inv"][i] = Drained.inv[i]
    BY <1>1, <1>2, <1>3, <1>4
<1>7. /\ \A id : ~Written(tx, "mail", id)
      /\ \A b : Written(tx, "auction", b) <=> b = a
      /\ tx["auction"][a] = row
    BY <1>2, <1>3, <1>4
<1>8. \A x \in online :
          IF Written(tx, "gold", x) THEN tx["gold"][x] = money'[x]
          ELSE money'[x] = money[x]
    BY <1>1, <1>2, <1>3, <1>4, <1>5 DEF EconomyInv, StateTyped
<1>9. \A x : Written(tx, "gold", x) => x \in online
    BY <1>2, <1>3, <1>4
<1>10. HouseSaves(tx, a, row)
    BY <1>4, <1>5, <1>6, <1>7, <1>8, <1>9 DEF HouseSaves
<1> QED
    BY <1>10 DEF tx, ta, ti

\* The auction is saved alone.
LEMMA OnlySaved ==
    ASSUME EconomyInv, NEW a \in AuctionId, NEW row \in AuctionRow \cup {NULL},
           money' = money
    PROVE  HouseSaves(SaveAuction(a, row), a, row)
<1> DEFINE tx == SaveAuction(a, row)
<1>1. /\ IsTransaction(tx) /\ tx["auction"][a] = row
      /\ \A t, id : Written(tx, t, id) <=> t = "auction" /\ id = a
    BY SaveAuctionIs
<1> HIDE DEF tx
<1>2. HouseSaves(tx, a, row)
    BY <1>1 DEF HouseSaves, EconomyInv, StateTyped
<1> QED
    BY <1>2 DEF tx

\* The auction a has this row now, or is over (NULL) and its item is in one of
\* the mails.
AuctionStep(a, row, mails, items) ==
    /\ a \in AuctionId /\ auctions[a] # NULL
    /\ HouseMails(mails, items)
    /\ \/ row = NULL /\ items \subseteq {auctions[a].item}
          /\ (GmLogTrade = TRUE => items # {})
       \/ row \in AuctionRow /\ items = {} /\ row.item = auctions[a].item
    /\ auctions' = [auctions EXCEPT ![a] = row]
    /\ UNCHANGED <<online, bag, Gone, deletedMails>>

\* What the totals need to know of it.
HouseSent(mails) ==
    \E ids, txs :
      /\ Delays(txs, {ids[k] : k \in 1..Len(mails)})
      /\ InsertsFirst(txs) /\ Numbered(mails, ids)
      /\ \A k \in 1..Len(mails) : /\ Drained'.mail[ids[k]] = mails[k]
                                  /\ mails[k] \in MailRow

\* A step of the auction house on an auction.
LEMMA HouseKeeps ==
    ASSUME EconomyInv, NEW a, NEW row, NEW mails, NEW items,
           AuctionStep(a, row, mails, items),
           NEW tx, HouseSaves(tx, a, row), SendAll(mails, tx)
    PROVE  EconomyInv' /\ HouseSent(mails)
<1> DEFINE N == Len(mails)
           i0 == auctions[a].item
<1>1. PICK ids, txs : HouseStep(mails, ids, tx, txs)
                        /\ mailbox' = SendMailsTo(mailbox, ids, mails)
    BY AllSent DEF AuctionStep, HouseSaves
<1> DEFINE new == {ids[k] : k \in 1..N}
<1>2. /\ a \in AuctionId /\ auctions[a] # NULL /\ auctions[a] \in AuctionRow
      /\ i0 \in Item /\ auctions[a].owner \in Character
  <2>1. a \in AuctionId /\ auctions[a] # NULL /\ auctions[a] \in AuctionRow
      BY DEF AuctionStep, EconomyInv, StateTyped
  <2> QED
      BY <2>1 DEF AuctionRow
<1> HIDE DEF i0, N
<1>3. \A k \in 1..N : /\ ids[k] \in MailId /\ ids[k] \in FreshMails
                      /\ Drained.mail[ids[k]] = NULL
                      /\ Drained'.mail[ids[k]] = mails[k]
    BY <1>1, FreshIs DEF HouseStep, Numbered, EconomyInv, N
<1>4. \A k \in 1..N :
          /\ mails[k] \in MailRow /\ mails[k].from = NULL /\ mails[k] # NULL
          /\ mails[k].kind = "auction" /\ mails[k].cod = 0
          /\ mails[k].items \subseteq items
    BY NullIs DEF AuctionStep, HouseMails, N
<1>5. \A m \in MailId \ new : Drained'.mail[m] = Drained.mail[m]
    BY <1>1 DEF HouseStep, N
<1>6. \A i \in Item : Drained'.inv[i] = Drained.inv[i]
    BY <1>1 DEF HouseStep, HouseSaves
<1>7. \A b \in AuctionId :
        /\ Drained'.auction[b] = IF b = a THEN row ELSE Drained.auction[b]
        /\ Drained.auction[b] = auctions[b]
    BY <1>1 DEF HouseStep, HouseSaves, EconomyInv, SavedAsMade
<1>8. \A x \in online : Drained'.gold[x] = money'[x]
  <2> SUFFICES ASSUME NEW x \in online PROVE Drained'.gold[x] = money'[x]
      OBVIOUS
  <2>1. x \in Character /\ Drained.gold[x] = money[x]
      BY InBag
  <2> QED
      BY <1>1, <2>1 DEF HouseStep, HouseSaves
<1>9. /\ mailbox' \in Mailboxes
      /\ \A x \in Character : mailbox'[x] = NULL <=> mailbox[x] = NULL
      /\ \A x \in Character : mailbox[x] # NULL =>
           \A m \in DOMAIN mailbox'[x] :
                     \/ m \in DOMAIN mailbox[x]
                          /\ mailbox'[x][m] = mailbox[x][m]
                        /\ \A k \in 1..N : ids[k] # m
                     \/ \E k \in 1..N :
                          m = ids[k] /\ mails[k].to = x
                          /\ mailbox'[x][m] = mails[k]
  <2>1. HouseMails(mails, items) /\ Numbered(mails, ids)
      BY <1>1 DEF AuctionStep, HouseStep
  <2> DEFINE sent == SendMailsTo(mailbox, ids, mails)
  <2>2. /\ sent \in Mailboxes
        /\ \A x \in Character :
                /\ sent[x] = NULL <=> mailbox[x] = NULL
                /\ mailbox[x] # NULL => \A m \in DOMAIN sent[x] :
                     \/ m \in DOMAIN mailbox[x] /\ sent[x][m] = mailbox[x][m]
                        /\ \A k \in 1..Len(mails) : ids[k] # m
                     \/ \E k \in 1..Len(mails) :
                          m = ids[k] /\ mails[k].to = x
                          /\ sent[x][m] = mails[k]
      BY <2>1, SentManyTo
  <2>3. mailbox' = sent
      BY <1>1
  <2> HIDE DEF sent
  <2> QED
      BY <2>2, <2>3 DEF N
<1>10. ASSUME NEW x \in Character, mailbox'[x] # NULL,
              NEW m \in DOMAIN mailbox'[x]
       PROVE  mailbox'[x][m] = Drained'.mail[m] /\ mailbox'[x][m].to = x
  <2>1. mailbox[x] # NULL
      BY <1>9, <1>10
  <2>2. CASE /\ m \in DOMAIN mailbox[x] /\ mailbox'[x][m] = mailbox[x][m]
             /\ \A k \in 1..N : ids[k] # m
    <3>1. m \in MailId \ new /\ Drained.mail[m] = mailbox[x][m]
            /\ mailbox[x][m].to = x
        BY <2>1, <2>2, InBox
    <3> QED
        BY <1>5, <2>2, <3>1
  <2>3. CASE \E k \in 1..N :
               m = ids[k] /\ mails[k].to = x /\ mailbox'[x][m] = mails[k]
      BY <1>3, <2>3
  <2> QED
      BY <1>9, <1>10, <2>1, <2>2, <2>3
<1> HIDE DEF new
<1>11. UNCHANGED <<online, bag, Gone, deletedMails>>
       /\ auctions' = [auctions EXCEPT ![a] = row]
       /\ row \in AuctionRow \cup {NULL}
    BY DEF AuctionStep
<1>12. StateTyped'
    BY <1>1, <1>2, <1>9, <1>11
       DEF EconomyInv, StateTyped, Mailboxes, HouseStep, HouseSaves, Queued
<1>13. SavedAsMade'
  <2>1. \A b \in AuctionId : Drained'.auction[b] = auctions'[b]
      BY <1>2, <1>7, <1>11 DEF EconomyInv, StateTyped
  <2>2. ASSUME NEW x \in online'
        PROVE  /\ Drained'.gold[x] = money'[x]
               /\ \A j \in Item : Drained'.inv[j] = x <=> j \in bag'[x]
               /\ mailbox'[x] # NULL =>
                    \A k \in DOMAIN mailbox'[x] :
                      Drained'.mail[k] = mailbox'[x][k]
    <3>1. /\ x \in Character /\ x \in online
          /\ \A j \in Item : j \in bag[x] <=> Drained.inv[j] = x
        BY <1>11, InBag
    <3> QED
        BY <1>6, <1>8, <1>10, <1>11, <3>1
  <2> QED
      BY <1>1, <1>12, <2>1, <2>2, SavedByRows DEF HouseStep
<1>14. BoxesOwned' /\ SendersKnown' /\ ItemsSafe' /\ MailsSafe'
  <2> DEFINE c == auctions[a].owner
  <2>1. c \in Character
      BY <1>2
  <2> HIDE DEF c
  <2>2. \A x \in Character :
            IF mailbox'[x] = NULL THEN mailbox[x] = NULL
            \/ x \in online \ online'
            ELSE /\ mailbox[x] # NULL /\ x \in online'
                 /\ \A k \in DOMAIN mailbox'[x] : mailbox'[x][k].to = x
      BY <1>9, <1>10, <1>11 DEF EconomyInv, BoxesOwned
  <2>3. \A m \in new :
          Drained'.mail[m].kind = "auction" /\ Drained'.mail[m].cod = 0
      BY <1>3, <1>4 DEF new
  <2>4. new \subseteq FreshMails
      BY <1>3 DEF new
  <2>5. Len(txs) \in Nat /\ Queued(txs) /\ online' = online
      BY <1>1, <1>11 DEF HouseStep
  <2>6. MailStep(txs, c, {}, new)
      BY <1>5, <1>6, <2>1, <2>2, <2>3, <2>4, <2>5 DEF MailStep
  <2> QED
      BY <2>6, MailsChange
<1>15. ItemsPlaced'
  <2>1. \A m \in MailId, i \in Item :
          InMail(Drained', m, i) <=> \/ InMail(Drained, m, i)
                                     \/ \E k \in 1..N :
                                          m = ids[k] /\ i \in mails[k].items
    <3> SUFFICES ASSUME NEW m \in MailId, NEW i \in Item
                 PROVE  InMail(Drained', m, i) <=>
                          \/ InMail(Drained, m, i)
                          \/ \E k \in 1..N : m = ids[k] /\ i \in mails[k].items
        OBVIOUS
    <3>1. CASE m \in new
      <4>1. PICK k \in 1..N : m = ids[k]
          BY <3>1 DEF new
      <4>2. ~InMail(Drained, m, i)
              /\ (InMail(Drained', m, i) <=> i \in mails[k].items)
          BY <1>3, <1>4, <4>1 DEF InMail
      <4>3. \A j \in 1..N : m = ids[j] => j = k
          BY <1>1, <4>1 DEF HouseStep, Numbered, N
      <4> QED
          BY <4>1, <4>2, <4>3
    <3>2. CASE m \notin new
        BY <1>5, <3>2 DEF InMail, new
    <3> QED
        BY <3>1, <3>2
  <2>2. Gone' \subseteq Item
      BY <1>12 DEF StateTyped
  <2>3. /\ OnePlaceOnly(Drained, i0) /\ InAuction(Drained, a, i0)
        /\ \A i \in Item : InAuction(Drained, a, i) <=> i = i0
      BY <1>2, <1>7 DEF EconomyInv, ItemsPlaced, NoItemTwice, InAuction, i0
  <2>4. i0 \notin Gone
      BY <1>2, <2>3 DEF EconomyInv, ItemsPlaced, GivenUpIsGone, Nowhere
  <2>5. \A b \in AuctionId \ {a}, i \in Item : InAuction(Drained', b, i) <=>
          InAuction(Drained, b, i)
      BY <1>7 DEF InAuction
  <2>6. CASE row = NULL /\ items \subseteq {i0}
               /\ (GmLogTrade = TRUE => items # {})
    <3>1. \A i \in Item : ~InAuction(Drained', a, i)
        BY <1>2, <1>7, <2>6 DEF InAuction
    <3>2. ASSUME NEW i \in Item \ {i0}
          PROVE  /\ i \in Gone' <=> i \in Gone
                 /\ Drained'.inv[i] = NULL <=> Drained.inv[i] = NULL
                 /\ \A m \in MailId : InMail(Drained', m, i) <=>
                      InMail(Drained, m, i)
                 /\ \A b \in AuctionId : InAuction(Drained', b, i) <=>
                      InAuction(Drained, b, i)
      <4>1. \A k \in 1..N : i \notin mails[k].items
          BY <1>4, <2>6
      <4>2. \A b \in AuctionId : InAuction(Drained', b, i) <=>
              InAuction(Drained, b, i)
          BY <2>3, <2>5, <3>1
      <4> QED
          BY <1>6, <1>11, <2>1, <4>1, <4>2
    <3>3. /\ Drained'.inv[i0] = NULL
          /\ \A b \in AuctionId : ~InAuction(Drained', b, i0)
          /\ \A m \in MailId : InMail(Drained', m, i0)
                <=> \E k \in 1..N : m = ids[k] /\ i0 \in mails[k].items
        BY <1>2, <1>6, <2>1, <2>3, <2>5, <3>1 DEF OnePlaceOnly
    <3>4. \A j, k \in 1..N : i0 \in mails[j].items /\ i0 \in mails[k].items =>
            j = k
        BY DEF AuctionStep, HouseMails, N
    <3>5. OnePlaceOnly(Drained', i0)
        BY <3>3, <3>4 DEF OnePlaceOnly
    <3>6. GmLogTrade = TRUE => ~Nowhere(Drained', i0)
      <4> SUFFICES ASSUME GmLogTrade = TRUE PROVE ~Nowhere(Drained', i0)
          OBVIOUS
      <4>1. i0 \in items
          BY <2>6
      <4>2. PICK k \in 1..N : i0 \in mails[k].items
          BY <4>1 DEF AuctionStep, HouseMails, N
      <4>3. InMail(Drained', ids[k], i0) /\ ids[k] \in MailId
          BY <1>3, <3>3, <4>2
      <4> QED
          BY <4>3 DEF Nowhere
    <3>7. i0 \notin Gone'
        BY <1>11, <2>4
    <3>8. Moved({i0})
        BY <2>2, <3>2, <3>5, <3>6, <3>7 DEF Moved
    <3> QED
        BY <3>8, PlacedKept
  <2>7. CASE row \in AuctionRow /\ items = {} /\ row.item = i0
    <3>1. \A i \in Item : InAuction(Drained', a, i) <=>
            InAuction(Drained, a, i)
      <4>1. row # NULL
          BY <2>7, NullIs
      <4> QED
          BY <1>2, <1>7, <2>3, <2>7, <4>1 DEF InAuction
    <3>2. ASSUME NEW i \in Item \ {}
          PROVE  /\ i \in Gone' <=> i \in Gone
                 /\ Drained'.inv[i] = NULL <=> Drained.inv[i] = NULL
                 /\ \A m \in MailId : InMail(Drained', m, i) <=>
                      InMail(Drained, m, i)
                 /\ \A b \in AuctionId : InAuction(Drained', b, i) <=>
                      InAuction(Drained, b, i)
      <4>1. \A k \in 1..N : i \notin mails[k].items
          BY <1>4, <2>7
      <4>2. \A b \in AuctionId : InAuction(Drained', b, i) <=>
              InAuction(Drained, b, i)
          BY <2>5, <3>1
      <4> QED
          BY <1>6, <1>11, <2>1, <4>1, <4>2
    <3>3. ItemsPlaced'
      <4>1. \A i \in {} :
              OnePlaceOnly(Drained', i) /\ Nowhere(Drained', i)
              /\ ~Nowhere(Drained', i)
          OBVIOUS
      <4>2. Moved({})
          BY <2>2, <3>2, <4>1 DEF Moved
      <4> QED
          BY <4>2, PlacedKept
    <3> QED
        BY <3>3
  <2> QED
      BY <2>6, <2>7 DEF AuctionStep, i0
<1>16. HouseSent(mails)
  <2>1. \A x \in Character \ online : Drained'.gold[x] = Drained.gold[x]
      BY <1>1 DEF HouseStep, HouseSaves
  <2>2. Delays(txs, new)
      BY <1>1, <1>5, <2>1 DEF HouseStep, Delays
  <2>3. InsertsFirst(txs) /\ Numbered(mails, ids)
      BY <1>1 DEF HouseStep
  <2>4. new = {ids[k] : k \in 1..Len(mails)}
      BY DEF N, new
  <2>5. Delays(txs, {ids[k] : k \in 1..Len(mails)})
      BY <2>2, <2>4
  <2>6. \A k \in 1..Len(mails) : /\ Drained'.mail[ids[k]] = mails[k]
                                 /\ mails[k] \in MailRow
      BY <1>3, <1>4 DEF N
  <2> QED
      BY <2>3, <2>5, <2>6 DEF HouseSent
<1> QED
    BY <1>12, <1>13, <1>14, <1>15, <1>16 DEF EconomyInv

\* What the house sends to the one who is outbid, and to the two of a sale.
LEMMA OutbidSent ==
    ASSUME NEW c, NEW auc \in AuctionRow
    PROVE  HouseMails(OutbiddedMail(c, auc), {})
<1>1. auc.bidder \in Character \cup {NULL} /\ auc.bid \in Nat
    BY DEF AuctionRow
<1>2. CASE auc.bidder \in {NULL, c}
    BY <1>2, HouseSends DEF OutbiddedMail
<1>3. CASE auc.bidder \notin {NULL, c}
  <2>1. OutbiddedMail(c, auc) = MailGoldTo(auc.bidder, auc.bid)
      BY <1>3 DEF OutbiddedMail
  <2> QED
      BY <1>1, <1>3, <2>1, HouseSends
<1> QED
    BY <1>2, <1>3

\* The mails of a sale carry the item, which may be lost without GM.LogTrade.
LEMMA SaleSent ==
    ASSUME NEW auc \in AuctionRow, auc.bidder # NULL
    PROVE  \E items :
             /\ HouseMails(SuccessfulMail(auc) \o WonMail(auc), items)
             /\ items \subseteq {auc.item} /\ (GmLogTrade = TRUE => items # {})
<1>1. /\ auc.bidder \in Character /\ auc.owner \in Character
      /\ auc.item \in Item
      /\ auc.bid \in Nat /\ auc.deposit \in Nat
    BY DEF AuctionRow
<1>2. (auc.bid + auc.deposit) - AuctionCut(auc.bid) \in Nat
  <2>1. AuctionCut(auc.bid) \in {0, auc.bid}
      BY <1>1, AuctionAssumption DEF AuctionAssumption, AuctionCut
  <2> QED
      BY <1>1, <2>1
<1>3. HouseMails(SuccessfulMail(auc), {})
    BY <1>1, <1>2, HouseSends DEF SuccessfulMail
<1>4. CASE auc.bidder \in online \/ GmLogTrade
  <2>1. HouseMails(WonMail(auc), {auc.item})
      BY <1>1, <1>4, HouseSends DEF WonMail
  <2>2. HouseMails(SuccessfulMail(auc) \o WonMail(auc), {} \cup {auc.item})
      BY <1>3, <2>1, MailsJoined
  <2>3. {} \cup {auc.item} \subseteq {auc.item} /\ {} \cup {auc.item} # {}
      OBVIOUS
  <2> QED
      BY <2>2, <2>3
<1>5. CASE ~(auc.bidder \in online \/ GmLogTrade)
  <2>1. WonMail(auc) = <<>>
      BY <1>5 DEF WonMail
  <2>2. HouseMails(WonMail(auc), {})
      BY <2>1, HouseSends
  <2>3. HouseMails(SuccessfulMail(auc) \o WonMail(auc), {} \cup {})
      BY <1>3, <2>2, MailsJoined
  <2>4. GmLogTrade # TRUE
      BY <1>5
  <2>5. {} \cup {} \subseteq {auc.item}
      OBVIOUS
  <2> QED
      BY <2>3, <2>4, <2>5
<1> QED
    BY <1>4, <1>5

\* The mails of the handlers.
SaleMails(auc) == SuccessfulMail(auc) \o WonMail(auc)
BoughtOut(c, a) ==
    [auctions[a] EXCEPT !.bidder = c, !.bid = auctions[a].buyout]
RemovalMails(c, auc) ==
    (IF auc.bidder = NULL THEN <<>> ELSE MailGoldTo(auc.bidder, auc.bid))
        \o MailItemTo(c, auc.item)
EndMails(auc) ==
    IF auc.bidder = NULL THEN ExpiredMail(auc) ELSE SaleMails(auc)

\* A bid below the buyout.
LEMMA PlaceBidKeeps ==
    ASSUME EconomyInv, NEW c \in Character, NEW a \in AuctionId,
           NEW price \in Prices, PlaceBid(c, a, price)
    PROVE  EconomyInv' /\ HouseSent(OutbiddedMail(c, auctions[a]))
<1> DEFINE auc == [auctions[a] EXCEPT !.bidder = c, !.bid = price]
           left == money[c] - Added(c, auctions[a], price)
           mails == OutbiddedMail(c, auctions[a])
           tx == Both(SaveAuction(a, auc),
           SaveInventoryAndGoldToDB(c, left, bag[c]))
<1>1. /\ c \in online /\ auctions[a] # NULL
      /\ money' = [money EXCEPT ![c] = left]
      /\ auctions' = [auctions EXCEPT ![a] = auc]
      /\ SendAll(mails, tx)
      /\ UNCHANGED <<online, bag, Gone, deletedMails>>
    BY DEF PlaceBid, GoodBid, historyVars, Gone
<1>2. auctions[a] \in AuctionRow /\ price \in Nat
    BY <1>1, AuctionAssumption DEF AuctionAssumption, EconomyInv, StateTyped
<1>3. auc \in AuctionRow /\ auc.item = auctions[a].item
    BY <1>2 DEF AuctionRow
<1>4. left \in Int
  <2>1. money[c] \in Int /\ auctions[a].bid \in Nat
      BY <1>2 DEF EconomyInv, StateTyped, AuctionRow
  <2> QED
      BY <1>2, <2>1 DEF Added
<1>5. HouseMails(mails, {})
    BY <1>2, OutbidSent
<1> HIDE DEF auc, left, mails
<1>6. HouseSaves(tx, a, auc)
    BY <1>1, <1>3, <1>4, PaidAndSaved
<1>7. AuctionStep(a, auc, mails, {})
    BY <1>1, <1>3, <1>5 DEF AuctionStep
<1> HIDE DEF tx
<1>8. EconomyInv' /\ HouseSent(mails)
    BY <1>1, <1>6, <1>7, HouseKeeps
<1> QED
    BY <1>8 DEF mails

\* A bid at the buyout ends the auction.
LEMMA BuyoutKeeps ==
    ASSUME EconomyInv, NEW c \in Character, NEW a \in AuctionId,
           NEW price \in Prices, Buyout(c, a, price)
    PROVE  EconomyInv' /\ HouseSent(OutbiddedMail(c, auctions[a])
                                       \o SaleMails(BoughtOut(c, a)))
<1> DEFINE buyout == auctions[a].buyout
           auc == [auctions[a] EXCEPT !.bidder = c, !.bid = buyout]
           left == money[c] - Added(c, auctions[a], buyout)
           outbid == OutbiddedMail(c, auctions[a])
           ended == SuccessfulMail(auc) \o WonMail(auc)
           mails == outbid \o ended
           tx == Both(SaveAuction(a, NULL),
           SaveInventoryAndGoldToDB(c, left, bag[c]))
<1>1. /\ c \in online /\ auctions[a] # NULL
      /\ money' = [money EXCEPT ![c] = left]
      /\ auctions' = [auctions EXCEPT ![a] = NULL]
      /\ SendAll(mails, tx)
      /\ UNCHANGED <<online, bag, Gone, deletedMails>>
    BY DEF Buyout, GoodBid, DeleteAuction, Gone
<1>2. auctions[a] \in AuctionRow /\ buyout \in Nat
  <2>1. auctions[a] \in AuctionRow
      BY <1>1 DEF EconomyInv, StateTyped
  <2> QED
      BY <2>1 DEF AuctionRow
<1>3. /\ auc \in AuctionRow /\ auc.item = auctions[a].item
      /\ auc.bidder # NULL
    BY <1>2, NullIs DEF AuctionRow
<1>4. left \in Int
  <2>1. money[c] \in Int /\ auctions[a].bid \in Nat
      BY <1>2 DEF EconomyInv, StateTyped, AuctionRow
  <2> HIDE DEF buyout
  <2> QED
      BY <1>2, <2>1 DEF Added
<1> HIDE DEF auc, left
<1>5. HouseMails(outbid, {})
    BY <1>2, OutbidSent
<1>6. PICK items : /\ HouseMails(ended, items) /\ items \subseteq {auc.item}
                   /\ (GmLogTrade = TRUE => items # {})
    BY <1>3, SaleSent
<1> HIDE DEF outbid, ended
<1>7. HouseMails(mails, {} \cup items)
    BY <1>5, <1>6, MailsJoined
<1> HIDE DEF mails
<1>8. HouseSaves(tx, a, NULL)
    BY <1>1, <1>4, PaidAndSaved
<1> HIDE DEF tx
<1>9. AuctionStep(a, NULL, mails, {} \cup items)
  <2>1. {} \cup items = items
      OBVIOUS
  <2> QED
      BY <1>1, <1>3, <1>6, <1>7, <2>1 DEF AuctionStep
<1>10. EconomyInv' /\ HouseSent(mails)
    BY <1>1, <1>8, <1>9, HouseKeeps
<1> QED
    BY <1>10 DEF mails, outbid, ended, auc, SaleMails, BoughtOut

\* The owner cancels the auction.
LEMMA HandleAuctionRemoveItemKeeps ==
    ASSUME EconomyInv, NEW c \in Character, NEW a \in AuctionId,
           HandleAuctionRemoveItem(c, a)
    PROVE  EconomyInv' /\ HouseSent(RemovalMails(c, auctions[a]))
<1> DEFINE auc == auctions[a]
           cut == AuctionCut(auc.bid)
           left == money[c] - cut
           cancelled ==
             IF auc.bidder = NULL THEN <<>>
             ELSE MailGoldTo(auc.bidder, auc.bid)
           mails == cancelled \o MailItemTo(c, auc.item)
           tx == Both(SaveAuction(a, NULL),
           SaveInventoryAndGoldToDB(c, left, bag[c]))
<1>1. /\ c \in online /\ auctions[a] # NULL
      /\ money' = [money EXCEPT ![c] = left]
      /\ auctions' = [auctions EXCEPT ![a] = NULL]
      /\ SendAll(mails, tx)
      /\ UNCHANGED <<online, bag, Gone, deletedMails>>
    BY DEF HandleAuctionRemoveItem, DeleteAuction, Gone
<1>2. /\ auc.bidder \in Character \cup {NULL} /\ auc.item \in Item
      /\ auc.bid \in Nat
  <2>1. auctions[a] \in AuctionRow
      BY <1>1 DEF EconomyInv, StateTyped
  <2> QED
      BY <2>1 DEF AuctionRow
<1> HIDE DEF auc
<1>3. left \in Int
  <2>1. money[c] \in Int /\ cut \in Int
      BY <1>2, AuctionAssumption
         DEF AuctionAssumption, AuctionCut, EconomyInv, StateTyped
  <2> HIDE DEF cut
  <2> QED
      BY <2>1
<1> HIDE DEF left
<1>4. HouseMails(cancelled, {})
  <2>1. CASE auc.bidder = NULL
      BY <2>1, HouseSends
  <2>2. CASE auc.bidder # NULL
    <3>1. auc.bidder \in Character /\ auc.bid \in Nat
        BY <1>2, <2>2
    <3>2. cancelled = MailGoldTo(auc.bidder, auc.bid)
        BY <2>2
    <3> QED
        BY <3>1, <3>2, HouseSends
  <2> QED
      BY <2>1, <2>2
<1>5. HouseMails(MailItemTo(c, auc.item), {auc.item})
    BY <1>2, HouseSends
<1> HIDE DEF cancelled
<1>6. HouseMails(mails, {} \cup {auc.item})
    BY <1>4, <1>5, MailsJoined
<1> HIDE DEF mails
<1>7. HouseSaves(tx, a, NULL)
    BY <1>1, <1>3, PaidAndSaved
<1> HIDE DEF tx
<1>8. AuctionStep(a, NULL, mails, {} \cup {auc.item})
  <2>1. {} \cup {auc.item} = {auc.item} /\ {auc.item} # {} /\ auc = auctions[a]
      BY DEF auc
  <2> QED
      BY <1>1, <1>6, <2>1 DEF AuctionStep
<1>9. EconomyInv' /\ HouseSent(mails)
    BY <1>1, <1>7, <1>8, HouseKeeps
<1> QED
    BY <1>9 DEF mails, cancelled, auc, RemovalMails

\* An auction expires.
LEMMA UpdateKeeps ==
    ASSUME EconomyInv, NEW a \in AuctionId, Update(a)
    PROVE  EconomyInv' /\ HouseSent(EndMails(auctions[a]))
<1> DEFINE auc == auctions[a]
           mails == IF auc.bidder = NULL THEN ExpiredMail(auc)
                    ELSE SuccessfulMail(auc) \o WonMail(auc)
           tx == SaveAuction(a, NULL)
<1>1. /\ auctions[a] # NULL
      /\ auctions' = [auctions EXCEPT ![a] = NULL]
      /\ SendAll(mails, tx)
      /\ UNCHANGED <<online, money, bag, Gone, deletedMails>>
    BY DEF Update, DeleteAuction, ownVars, Gone
<1>2. auc \in AuctionRow /\ auc.owner \in Character /\ auc.item \in Item
  <2>1. auctions[a] \in AuctionRow
      BY <1>1 DEF EconomyInv, StateTyped
  <2> QED
      BY <2>1 DEF AuctionRow
<1> HIDE DEF auc
<1>3. \E items : /\ HouseMails(mails, items) /\ items \subseteq {auc.item}
                 /\ (GmLogTrade = TRUE => items # {})
  <2>1. CASE auc.bidder = NULL
    <3>1. mails = MailItemTo(auc.owner, auc.item)
        BY <2>1 DEF ExpiredMail
    <3>2. HouseMails(mails, {auc.item})
        BY <1>2, <3>1, HouseSends
    <3> QED
        BY <3>2
  <2>2. CASE auc.bidder # NULL
      BY <1>2, <2>2, SaleSent
  <2> QED
      BY <2>1, <2>2
<1> HIDE DEF mails
<1>4. PICK items : /\ HouseMails(mails, items) /\ items \subseteq {auc.item}
                   /\ (GmLogTrade = TRUE => items # {})
    BY <1>3
<1>5. HouseSaves(tx, a, NULL)
    BY <1>1, OnlySaved
<1> HIDE DEF tx
<1>6. AuctionStep(a, NULL, mails, items)
    BY <1>1, <1>4 DEF AuctionStep, auc
<1>7. EconomyInv' /\ HouseSent(mails)
    BY <1>1, <1>5, <1>6, HouseKeeps
<1> QED
    BY <1>7 DEF mails, auc, EndMails, SaleMails

\* Every step of the auction house.
LEMMA AuctionKeeps == ASSUME EconomyInv, AuctionNext PROVE EconomyInv'
<1>1. CASE \E c \in Character, i \in Item, startbid \in Prices,
             buyout \in Prices \cup {0} :
              HandleAuctionSellItem(c, i, startbid, buyout)
    BY <1>1, HandleAuctionSellItemKeeps
<1>2. CASE \E a \in AuctionId : Update(a)
    BY <1>2, UpdateKeeps
<1>3. CASE \E a \in AuctionId, c \in Character : HandleAuctionRemoveItem(c, a)
    BY <1>3, HandleAuctionRemoveItemKeeps
<1>4. CASE \E a \in AuctionId, c \in Character,
             price \in Prices : PlaceBid(c, a, price)
    BY <1>4, PlaceBidKeeps
<1>5. CASE \E a \in AuctionId, c \in Character,
             price \in Prices : Buyout(c, a, price)
    BY <1>5, BuyoutKeeps
<1> QED
    BY <1>1, <1>2, <1>3, <1>4, <1>5 DEF AuctionNext

\* The postage is a number.
LEMMA CostIs == ASSUME NEW items \in SUBSET Item PROVE Cost(items) \in Int
<1>1. Cardinality(items) \in Nat
    BY TakeOutIs
<1> DEFINE n == Cardinality(items)
           S == {1, n}
<1> HIDE DEF n
<1>2. \E x \in S : \A y \in S : x >= y
  <2>1. CASE n >= 1
      BY <1>1, <2>1 DEF n
  <2>2. CASE ~(n >= 1)
      BY <1>1, <2>2 DEF n
  <2> QED
      BY <2>1, <2>2
<1>3. Max(S) \in S
    BY <1>2 DEF Max
<1>4. Max(S) \in Nat
    BY <1>1, <1>3 DEF n
<1> HIDE DEF S
<1>5. Postage * Max(S) \in Int
    BY <1>4, MailAssumption DEF MailAssumption
<1> QED
    BY <1>5 DEF Cost, S, n

\* The sum that is asked for does not wrap.
LEMMA RequiredIs ==
    ASSUME NEW items \in SUBSET Item, NEW gold \in MailGold, NEW x \in Int
    PROVE  /\ gold \in Nat
           /\ x - Required(items, gold) = (x - Cost(items)) - gold
<1>1. gold \in Nat /\ Cost(items) \in Int
    BY CostIs, MailAssumption DEF MailAssumption
<1>2. Cost(items) + gold < Wrap
    BY AmountAssumption
<1>3. Required(items, gold) = Cost(items) + gold
    BY <1>2 DEF Required
<1> HIDE DEF Cost
<1> QED
    BY <1>1, <1>3

\* A mail a player sends.
SentBy(mail, c, to, items, amount, asked) ==
    mail = [NewMail(c, to, "normal", items, amount) EXCEPT !.cod = asked]

\* A mail of a player is a row, with the fields it was given.
LEMMA NormalMail ==
    ASSUME NEW c \in Character, NEW to \in Character,
           NEW items \in SUBSET Item,
           NEW amount \in Nat, NEW asked \in Nat, NEW mail,
           SentBy(mail, c, to, items, amount, asked)
    PROVE  /\ mail \in MailRow /\ mail.from = c /\ mail.to = to
           /\ mail.items = items /\ mail # NULL
<1>1. mail = [from |-> c, to |-> to, kind |-> "normal", items |-> items,
              gold |-> amount, cod |-> asked, returned |-> FALSE]
    BY DEF NewMail, SentBy
<1>2. amount \in Nat /\ FALSE \in BOOLEAN /\ "normal" \in MailKind
    BY DEF MailKind
<1>3. mail.from = c /\ mail.to = to /\ mail.items = items
    BY <1>1
<1>4. mail \in MailRow
  <2> DEFINE f == FALSE
             B == BOOLEAN
  <2>1. f \in B
      OBVIOUS
  <2> HIDE DEF f
  <2>2. mail = [from |-> c, to |-> to, kind |-> "normal", items |-> items,
                gold |-> amount, cod |-> asked, returned |-> f]
      BY <1>1 DEF f
  <2> HIDE DEF B
  <2>3. mail \in [from : Character \cup {NULL}, to : Character,
          kind : MailKind,
              items : SUBSET Item, gold : Nat, cod : Nat, returned : B]
      BY <1>2, <2>1, <2>2
  <2> QED
      BY <2>3 DEF MailRow, B
<1> QED
    BY <1>3, <1>4, NullIs

\* The items of the mail are taken out, it is inserted with a fresh id, and the
\* sender is saved.
MailSent(mail) ==
    \E txs, n, N :
      /\ n \in FreshMails /\ Drained'.mail[n] = mail /\ mail \in MailRow
      /\ N \in Nat /\ Len(txs) = N + 2 /\ Delays(txs, {n})
      /\ \A k \in 1..N :
            /\ DOMAIN txs[k] = {"inv"}
            /\ \A id : Written(txs[k], "inv", id) => id \in mail.items
      /\ Inserts(txs[N + 1], n, mail)

\* A mail is sent: each item is taken out in a transaction of its own, the mail
\* is inserted, the sender is saved. Every row is written once.
LEMMA HandleSendMailKeeps ==
    ASSUME EconomyInv, NEW c \in Character, NEW to \in Character,
           NEW items \in SUBSET Item,
           NEW gold \in MailGold, NEW cod \in MailGold,
           HandleSendMail(c, to, items, gold, cod), UNCHANGED auctions
    PROVE  /\ EconomyInv'
           /\ \E mail : SentBy(mail, c, to, items, gold, cod)
                         /\ MailSent(mail)
<1> DEFINE sent == NextMail
           mail == [NewMail(c, to, "normal", items, gold) EXCEPT !.cod = cod]
           left == (money[c] - Cost(items)) - gold
           rest == bag[c] \ items
           N == Cardinality(items)
           out == TakeOut(items)
           tn == [mail |-> OneRow(sent, mail)]
           ti == SaveInventoryAndGoldToDB(c, left, rest)
           half == out \o <<tn>>
           txs == half \o <<ti>>
<1>1. /\ c \in online /\ FreshMails # {} /\ items \subseteq bag[c]
      /\ money' = [money EXCEPT ![c] = left]
      /\ bag' = [bag EXCEPT ![c] = @ \ items]
      /\ mailbox' = SendMailTo(mailbox, sent, mail)
      /\ Delay(txs)
      /\ UNCHANGED <<online, Gone, deletedMails, auctions>>
  <2>1. /\ c \in online /\ FreshMails # {} /\ items \subseteq bag[c]
        /\ bag' = [bag EXCEPT ![c] = @ \ items]
        /\ mailbox' = SendMailTo(mailbox, sent, mail)
        /\ UNCHANGED <<online, Gone, deletedMails, auctions>>
      BY DEF HandleSendMail, Gone
  <2>2. money[c] \in Int
      BY <2>1 DEF EconomyInv, StateTyped
  <2>3. left = money[c] - Required(items, gold)
      BY <2>2, RequiredIs
  <2> HIDE DEF left
  <2>4. money' = [money EXCEPT ![c] = left] /\ Delay(txs)
      BY <2>3 DEF HandleSendMail, InsertMail
  <2> QED
      BY <2>1, <2>4
<1>2. sent \in FreshMails /\ sent \in MailId /\ Drained.mail[sent] = NULL
  <2>1. sent \in FreshMails
      BY <1>1, NextMailFresh
  <2> QED
      BY <2>1, FreshIs DEF EconomyInv
<1>3. /\ bag[c] \subseteq Item /\ c # NULL
      /\ \A j \in Item : j \in bag[c] <=> Drained.inv[j] = c
    BY <1>1, InBag
<1>4. /\ mail \in MailRow /\ mail.from = c /\ mail.to = to
      /\ mail.items = items
      /\ mail # NULL
  <2>1. SentBy(mail, c, to, items, gold, cod)
      BY DEF SentBy
  <2>2. gold \in Nat /\ cod \in Nat
      BY MailAssumption DEF MailAssumption
  <2> HIDE DEF mail
  <2> QED
      BY <2>1, <2>2, NormalMail
<1>5. left \in Int /\ rest \in SUBSET Item
  <2>1. money[c] \in Int /\ Cost(items) \in Int
      BY CostIs, <1>1 DEF EconomyInv, StateTyped
  <2>2. gold \in Int
      BY MailAssumption DEF MailAssumption
  <2> QED
      BY <1>3, <2>1, <2>2
<1> HIDE DEF sent, mail, left
<1>6. /\ IsSequence(out) /\ Len(out) = N /\ N \in Nat
      /\ \A k \in 1..N :
            /\ IsTransaction(out[k]) /\ DOMAIN out[k] = {"inv"}
            /\ \A t, id : Written(out[k], t, id) =>
                  t = "inv" /\ id \in items /\ out[k][t][id] = NULL
      /\ \A i \in items : \E k \in 1..N : Written(out[k], "inv", i)
      /\ \A j, k \in 1..N : \A t, id :
            Written(out[j], t, id) /\ Written(out[k], t, id) => j = k
    BY TakeOutIs
<1>7. /\ IsTransaction(tn) /\ tn["mail"][sent] = mail
      /\ \A t, id : Written(tn, t, id) <=> t = "mail" /\ id = sent
    BY <1>2, <1>4, MailWriteIs
<1>8. Inserts(tn, sent, mail)
    BY InsertIs
<1>9. /\ IsTransaction(ti) /\ ti["gold"][c] = left
      /\ \A j \in rest : ti["inv"][j] = c
      /\ \A t, id : Written(ti, t, id)
            <=> (t = "gold" /\ id = c) \/ (t = "inv" /\ id \in rest)
    BY <1>5, SaveInventoryIs
<1> HIDE DEF out, tn, ti, N
<1>10. /\ IsSequence(half) /\ Len(half) = N + 1
       /\ \A k \in 1..N : half[k] = out[k]
       /\ half[N + 1] = tn
  <2>1. IsSequence(<<tn>>) /\ Len(<<tn>>) = 1 /\ <<tn>>[1] = tn
      BY OneOrTwo
  <2>2. /\ IsSequence(half) /\ Len(half) = N + 1
        /\ \A i \in 1..(N + 1) : half[i] =
             IF i <= N THEN out[i]
             ELSE <<tn>>[i - N]
      BY <1>6, <2>1, Concatenated
  <2>3. \A k \in 1..N : half[k] = out[k]
      BY <1>6, <2>2
  <2>4. N + 1 \in 1..(N + 1) /\ ~(N + 1 <= N) /\ (N + 1) - N = 1
      BY <1>6
  <2>5. half[N + 1] = tn
      BY <2>1, <2>2, <2>4
  <2> QED
      BY <2>2, <2>3, <2>5
<1> HIDE DEF half
<1>11. /\ IsSequence(txs) /\ Len(txs) = N + 2
       /\ \A k \in 1..N : txs[k] = out[k]
       /\ txs[N + 1] = tn /\ txs[N + 2] = ti
  <2>1. IsSequence(<<ti>>) /\ Len(<<ti>>) = 1 /\ <<ti>>[1] = ti
      BY OneOrTwo
  <2>2. /\ IsSequence(txs) /\ Len(txs) = (N + 1) + 1
        /\ \A i \in 1..((N + 1) + 1) :
              txs[i] = IF i <= N + 1 THEN half[i] ELSE <<ti>>[i - (N + 1)]
      BY <1>10, <2>1, Concatenated
  <2>3. \A k \in 1..N : txs[k] = half[k]
      BY <1>6, <2>2
  <2>4. /\ N + 1 \in 1..((N + 1) + 1) /\ N + 1 <= N + 1
        /\ N + 2 \in 1..((N + 1) + 1) /\ ~(N + 2 <= N + 1)
        /\ (N + 2) - (N + 1) = 1
        /\ (N + 1) + 1 = N + 2
      BY <1>6
  <2>5. txs[N + 1] = tn
      BY <1>10, <2>2, <2>4
  <2>6. txs[N + 2] = ti
      BY <2>1, <2>2, <2>4
  <2> QED
      BY <1>10, <2>2, <2>3, <2>4, <2>5, <2>6
<1> HIDE DEF txs
<1>12. \A k \in 1..Len(txs) : k \in 1..N \/ k = N + 1 \/ k = N + 2
    BY <1>6, <1>11
<1>13. \A k \in 1..Len(txs) : IsTransaction(txs[k])
    BY <1>6, <1>7, <1>9, <1>11, <1>12
<1>14. \A k \in 1..Len(txs) : \A t, id : Written(txs[k], t, id) =>
          \/ k \in 1..N /\ Written(out[k], t, id) /\ t = "inv" /\ id \in items
          \/ k = N + 1 /\ t = "mail" /\ id = sent
          \/ k = N + 2 /\ t = "gold" /\ id = c
          \/ k = N + 2 /\ t = "inv" /\ id \in bag[c] \ items
  <2> SUFFICES ASSUME NEW k \in 1..Len(txs), NEW t, NEW id,
                      Written(txs[k], t, id)
               PROVE  \/ k \in 1..N /\ Written(out[k], t, id) /\ t = "inv"
                           /\ id \in items
                      \/ k = N + 1 /\ t = "mail" /\ id = sent
                      \/ k = N + 2 /\ t = "gold" /\ id = c
                      \/ k = N + 2 /\ t = "inv" /\ id \in bag[c] \ items
      OBVIOUS
  <2>1. CASE k \in 1..N
      BY <1>6, <1>11, <2>1
  <2>2. CASE k = N + 1
      BY <1>7, <1>11, <2>2
  <2>3. CASE k = N + 2
      BY <1>9, <1>11, <2>3
  <2> QED
      BY <1>12, <2>1, <2>2, <2>3
<1>15. Once(txs)
  <2> SUFFICES ASSUME NEW i \in 1..Len(txs), NEW j \in 1..Len(txs), NEW t,
                      NEW id,
                      Written(txs[i], t, id), Written(txs[j], t, id)
               PROVE  i = j
      BY DEF Once
  <2>1. CASE i \in 1..N /\ j \in 1..N
    <3>1. Written(out[i], t, id) /\ Written(out[j], t, id)
        BY <1>11, <2>1
    <3> QED
        BY <1>6, <2>1, <3>1
  <2>2. CASE i \in 1..N /\ j \notin 1..N
    <3>1. t = "inv" /\ id \in items
        BY <1>6, <1>11, <2>2
    <3> QED
        BY <1>14, <2>2, <3>1
  <2>3. CASE j \in 1..N /\ i \notin 1..N
    <3>1. t = "inv" /\ id \in items
        BY <1>6, <1>11, <2>3
    <3> QED
        BY <1>14, <2>3, <3>1
  <2>4. CASE i \notin 1..N /\ j \notin 1..N
    <3>1. (i = N + 1 \/ i = N + 2) /\ (j = N + 1 \/ j = N + 2)
        BY <1>12, <2>4
    <3>2. ~(i = N + 1 /\ j = N + 2) /\ ~(j = N + 1 /\ i = N + 2)
        BY <1>7, <1>9, <1>11
    <3> QED
        BY <3>1, <3>2
  <2> QED
      BY <2>1, <2>2, <2>3, <2>4
<1>16. Queued(txs) /\ Len(txs) \in Nat
  <2>1. Delay(txs) /\ Typed
      BY <1>1 DEF EconomyInv, StateTyped
  <2> QED
      BY <1>6, <1>11, <1>13, <1>15, <2>1, Delayed
<1>17. IsDatabase(Drained)
    BY DrainedTyped DEF EconomyInv
<1>18. IsDatabase(Drained')
    BY <1>16, AddedTyped
<1>19. /\ Tables = {"gold", "inv", "mail", "auction"}
       /\ DOMAIN Drained["gold"] = Character /\ DOMAIN Drained["inv"] = Item
       /\ DOMAIN Drained["mail"] = MailId
       /\ DOMAIN Drained["auction"] = AuctionId
    BY <1>17 DEF IsDatabase, Tables
<1>20. /\ N + 1 \in 1..Len(txs) /\ N + 2 \in 1..Len(txs)
       /\ \A k \in 1..N : k \in 1..Len(txs)
    BY <1>6, <1>11
<1>21. /\ \A t \in Tables : \A id \in DOMAIN Drained[t] :
            /\ \A k \in 1..Len(txs) :
                  Written(txs[k], t, id) => Drained'[t][id] = txs[k][t][id]
            /\ (\A k \in 1..Len(txs) : ~Written(txs[k], t, id))
                  => Drained'[t][id] = Drained[t][id]
    BY <1>16 DEF Queued
<1>22. \A x \in Character :
         Drained'.gold[x] = IF x = c THEN left ELSE Drained.gold[x]
  <2> SUFFICES ASSUME NEW x \in Character
               PROVE  Drained'.gold[x] =
                 IF x = c THEN left
                 ELSE Drained.gold[x]
      OBVIOUS
  <2>1. CASE x = c
    <3>1. Written(txs[N + 2], "gold", x) /\ txs[N + 2]["gold"][x] = left
        BY <1>9, <1>11, <2>1
    <3> QED
        BY <1>19, <1>20, <1>21, <2>1, <3>1
  <2>2. CASE x # c
    <3>1. \A k \in 1..Len(txs) : ~Written(txs[k], "gold", x)
      <4> SUFFICES ASSUME NEW k \in 1..Len(txs), Written(txs[k], "gold", x)
                   PROVE FALSE
          OBVIOUS
      <4>1. \/ "gold" = "inv" \/ "gold" = "mail" \/ x = c
          BY <1>14
      <4> QED
          BY <2>2, <4>1
    <3> QED
        BY <1>19, <1>21, <2>2, <3>1
  <2> QED
      BY <2>1, <2>2
<1>23. \A i \in Item :
         Drained'.inv[i] = IF i \in items THEN NULL ELSE Drained.inv[i]
  <2> SUFFICES ASSUME NEW i \in Item
               PROVE  Drained'.inv[i] =
                 IF i \in items THEN NULL
                 ELSE Drained.inv[i]
      OBVIOUS
  <2>1. CASE i \in items
    <3>1. PICK k \in 1..N : Written(out[k], "inv", i)
        BY <1>6, <2>1
    <3>2. out[k]["inv"][i] = NULL /\ txs[k] = out[k] /\ k \in 1..Len(txs)
        BY <1>6, <1>11, <1>20, <3>1
    <3> QED
        BY <1>19, <1>21, <2>1, <3>1, <3>2
  <2>2. CASE i \in rest
    <3>1. Written(txs[N + 2], "inv", i) /\ txs[N + 2]["inv"][i] = c
            /\ Drained.inv[i] = c
        BY <1>3, <1>9, <1>11, <2>2
    <3> QED
        BY <1>19, <1>20, <1>21, <2>2, <3>1
  <2>3. CASE i \notin items /\ i \notin rest
    <3>1. \A k \in 1..Len(txs) : ~Written(txs[k], "inv", i)
        BY <1>9, <1>14, <2>3
    <3> QED
        BY <1>19, <1>21, <2>3, <3>1
  <2> QED
      BY <2>1, <2>2, <2>3
<1>24. \A m \in MailId :
         Drained'.mail[m] = IF m = sent THEN mail ELSE Drained.mail[m]
  <2> SUFFICES ASSUME NEW m \in MailId
               PROVE  Drained'.mail[m] =
                 IF m = sent THEN mail
                 ELSE Drained.mail[m]
      OBVIOUS
  <2>1. CASE m = sent
    <3>1. Written(txs[N + 1], "mail", m) /\ txs[N + 1]["mail"][m] = mail
        BY <1>7, <1>11, <2>1
    <3> QED
        BY <1>19, <1>20, <1>21, <2>1, <3>1
  <2>2. CASE m # sent
    <3>1. \A k \in 1..Len(txs) : ~Written(txs[k], "mail", m)
      <4> SUFFICES ASSUME NEW k \in 1..Len(txs), Written(txs[k], "mail", m)
                   PROVE FALSE
          OBVIOUS
      <4>1. \/ "mail" = "inv" \/ m = sent \/ "mail" = "gold"
          BY <1>14
      <4> QED
          BY <2>2, <4>1
    <3> QED
        BY <1>19, <1>21, <2>2, <3>1
  <2> QED
      BY <2>1, <2>2
<1>25. \A a \in AuctionId : Drained'.auction[a] = Drained.auction[a]
  <2> SUFFICES ASSUME NEW a \in AuctionId
               PROVE  Drained'.auction[a] = Drained.auction[a]
      OBVIOUS
  <2>1. \A k \in 1..Len(txs) : ~Written(txs[k], "auction", a)
    <3> SUFFICES ASSUME NEW k \in 1..Len(txs), Written(txs[k], "auction", a)
                 PROVE FALSE
        OBVIOUS
    <3>1. \/ "auction" = "inv" \/ "auction" = "mail" \/ "auction" = "gold"
        BY <1>14
    <3> QED
        BY <3>1
  <2> QED
      BY <1>19, <1>21, <2>1
<1> HIDE DEF rest
<1>26. /\ mailbox' \in Mailboxes
       /\ \A x \in Character :
            /\ mailbox'[x] = NULL <=> mailbox[x] = NULL
            /\ mailbox[x] # NULL => \A k :
                 /\ k \in DOMAIN mailbox'[x] <=>
                      k \in DOMAIN mailbox[x] \/ (x = mail.to /\ k = sent)
                 /\ k \in DOMAIN mailbox'[x] =>
                      mailbox'[x][k] =
                        IF x = mail.to /\ k = sent THEN mail
                        ELSE mailbox[x][k]
  <2>1. mailbox \in Mailboxes
      BY DEF Mailboxes, EconomyInv, StateTyped
  <2> QED
      BY <1>1, <1>2, <1>4, <2>1, SentTo
<1>27. ASSUME NEW x \in Character, mailbox'[x] # NULL,
              NEW k \in DOMAIN mailbox'[x]
       PROVE  mailbox'[x][k] = Drained'.mail[k] /\ mailbox'[x][k].to = x
  <2>1. mailbox[x] # NULL
      BY <1>26, <1>27
  <2>2. CASE x = mail.to /\ k = sent
      BY <1>2, <1>24, <1>26, <1>27, <2>1, <2>2
  <2>3. CASE ~(x = mail.to /\ k = sent)
    <3>1. k \in DOMAIN mailbox[x] /\ mailbox'[x][k] = mailbox[x][k]
        BY <1>26, <1>27, <2>1, <2>3
    <3>2. /\ k \in MailId /\ k # sent /\ mailbox[x][k] = Drained.mail[k]
          /\ mailbox[x][k].to = x
        BY <1>2, <2>1, <3>1, InBox
    <3> QED
        BY <1>24, <3>1, <3>2
  <2> QED
      BY <2>2, <2>3
<1>28. StateTyped'
    BY <1>1, <1>3, <1>5, <1>16, <1>26
       DEF EconomyInv, StateTyped, Mailboxes, Queued
<1>29. SavedAsMade'
  <2>1. \A a \in AuctionId : Drained'.auction[a] = auctions'[a]
      BY <1>1, <1>25 DEF EconomyInv, SavedAsMade
  <2>2. ASSUME NEW x \in online'
        PROVE  /\ Drained'.gold[x] = money'[x]
               /\ \A j \in Item : Drained'.inv[j] = x <=> j \in bag'[x]
               /\ mailbox'[x] # NULL =>
                    \A k \in DOMAIN mailbox'[x] :
                      Drained'.mail[k] = mailbox'[x][k]
    <3>1. /\ x \in Character /\ x # NULL /\ x \in online
          /\ Drained.gold[x] = money[x]
          /\ \A j \in Item : j \in bag[x] <=> Drained.inv[j] = x
        BY <1>1, InBag
    <3>2. Drained'.gold[x] = money'[x]
        BY <1>1, <1>22, <3>1 DEF EconomyInv, StateTyped
    <3>3. bag'[x] = IF x = c THEN bag[c] \ items ELSE bag[x]
        BY <1>1, <3>1 DEF EconomyInv, StateTyped
    <3>4. \A j \in Item : Drained'.inv[j] = x <=> j \in bag'[x]
        BY <1>1, <1>3, <1>23, <3>1, <3>3
    <3> QED
        BY <1>27, <3>1, <3>2, <3>4
  <2> QED
      BY <1>18, <1>28, <2>1, <2>2, SavedByRows
<1>30. BoxesOwned' /\ SendersKnown' /\ ItemsSafe' /\ MailsSafe'
  <2>1. \A x \in Character \ online, j \in Item :
               Drained'.inv[j] = x <=> Drained.inv[j] = x
      BY <1>1, <1>3, <1>23, NullIs
  <2>2. \A x \in Character :
            IF mailbox'[x] = NULL THEN mailbox[x] = NULL
            \/ x \in online \ online'
            ELSE /\ mailbox[x] # NULL /\ x \in online'
                 /\ \A k \in DOMAIN mailbox'[x] : mailbox'[x][k].to = x
      BY <1>1, <1>26, <1>27 DEF EconomyInv, BoxesOwned
  <2>3. MailStep(txs, c, {}, {sent})
      BY <1>1, <1>2, <1>3, <1>4, <1>16, <1>24, <2>1, <2>2 DEF MailStep
  <2> QED
      BY <2>3, MailsChange
<1>31. ItemsPlaced'
  <2>1. \A m \in MailId, i \in Item :
            InMail(Drained', m, i) <=>
              IF m = sent THEN i \in items
              ELSE InMail(Drained, m, i)
      BY <1>4, <1>24 DEF InMail
  <2>2. \A a \in AuctionId, i \in Item : InAuction(Drained', a, i) <=>
          InAuction(Drained, a, i)
      BY <1>25 DEF InAuction
  <2>3. \A i \in Item : ~InMail(Drained, sent, i)
      BY <1>2 DEF InMail
  <2>4. ASSUME NEW i \in Item \ items
        PROVE  /\ i \in Gone' <=> i \in Gone
               /\ Drained'.inv[i] = NULL <=> Drained.inv[i] = NULL
               /\ \A m \in MailId : InMail(Drained', m, i) <=>
                    InMail(Drained, m, i)
               /\ \A a \in AuctionId : InAuction(Drained', a, i) <=>
                    InAuction(Drained, a, i)
      BY <1>1, <1>23, <2>1, <2>2, <2>3
  <2>5. ASSUME NEW i \in items
        PROVE  /\ i \in Item /\ i \notin Gone /\ Drained'.inv[i] = NULL
               /\ \A m \in MailId : InMail(Drained', m, i) <=> m = sent
               /\ \A a \in AuctionId : ~InAuction(Drained', a, i)
    <3>1. i \in Item /\ Drained.inv[i] # NULL /\ OnePlaceOnly(Drained, i)
        BY <1>1, <1>3 DEF EconomyInv, ItemsPlaced, NoItemTwice
    <3>2. i \notin Gone
        BY <3>1 DEF EconomyInv, ItemsPlaced, GivenUpIsGone, Nowhere
    <3>3. /\ \A m \in MailId : ~InMail(Drained, m, i)
          /\ \A a \in AuctionId : ~InAuction(Drained, a, i)
        BY <3>1 DEF OnePlaceOnly
    <3> QED
        BY <1>23, <2>1, <2>2, <3>1, <3>2, <3>3
  <2>6. \A i \in items :
          OnePlaceOnly(Drained', i) /\ ~Nowhere(Drained', i)
          /\ i \notin Gone'
      BY <1>1, <1>2, <2>5 DEF OnePlaceOnly, Nowhere
  <2>7. Moved(items)
    <3>1. Gone' \subseteq Item
        BY <1>28 DEF StateTyped
    <3> QED
        BY <2>4, <2>6, <3>1 DEF Moved
  <2> QED
      BY <2>7, PlacedKept
<1>32. MailSent(mail)
  <2>1. \A x \in Character \ online : Drained'.gold[x] = Drained.gold[x]
      BY <1>1, <1>22
  <2>2. Delays(txs, {sent})
      BY <1>16, <1>18, <1>24, <2>1 DEF Delays
  <2>3. \A k \in 1..N :
            /\ DOMAIN txs[k] = {"inv"}
            /\ \A id : Written(txs[k], "inv", id) => id \in mail.items
      BY <1>4, <1>6, <1>11
  <2>4. Drained'.mail[sent] = mail
      BY <1>2, <1>24
  <2> QED
      BY <1>2, <1>4, <1>6, <1>11, <1>8, <2>2, <2>3, <2>4 DEF MailSent
<1>33. SentBy(mail, c, to, items, gold, cod)
    BY DEF SentBy, mail
<1> QED
    BY <1>28, <1>29, <1>30, <1>31, <1>32, <1>33 DEF EconomyInv

----------------------------------------------------------------------------
(* All steps.                                                              *)

\* Every step of a trade: only the exchange touches what characters own.
LEMMA TradeNextKeeps ==
    ASSUME EconomyInv, TradeInv, TradeNext, UNCHANGED <<mailVars, auctions>>
    PROVE  EconomyInv'
<1>1. ASSUME UNCHANGED otherVars PROVE EconomyInv'
  <2>1. deletedMails' \subseteq MailId
      BY DEF mailVars, EconomyInv, StateTyped
  <2>2. UNCHANGED <<ownVars, dbVars, historyVars, mailbox, auctions>>
      BY <1>1 DEF otherVars, mailVars
  <2> QED
      BY <2>1, <2>2, NothingDelayed
<1>2. ASSUME NEW c \in Character, HandleAcceptTrade(c) PROVE EconomyInv'
  <2>1. UNCHANGED historyVars /\ pTrader[c] # NULL
      BY <1>2 DEF HandleAcceptTrade, Trading
  <2>2. \/ UNCHANGED acceptFrame
        \/ Exchange(c, pTrader[c]) /\ UNCHANGED online
      BY <1>2 DEF HandleAcceptTrade
  <2>3. CASE UNCHANGED acceptFrame
    <3>1. UNCHANGED otherVars
        BY <2>1, <2>3 DEF acceptFrame, otherVars
    <3> QED
        BY <1>1, <3>1
  <2>4. CASE Exchange(c, pTrader[c]) /\ UNCHANGED online
      BY <2>1, <2>4, ExchangeKeeps
  <2> QED
      BY <2>2, <2>3, <2>4
<1>3. \/ UNCHANGED otherVars
      \/ \E c \in Character : HandleAcceptTrade(c)
    BY DEF TradeNext, HandleInitiateTrade, HandleBeginTrade,
       HandleSetTradeGold,
           HandleSetTradeItem, HandleClearTradeItem, HandleUnacceptTrade,
           HandleCancelTrade, otherVars
<1> QED
    BY <1>1, <1>2, <1>3

\* Every step of the mail handlers.
LEMMA MailNextKeeps ==
    ASSUME EconomyInv, MailNext, UNCHANGED auctions PROVE EconomyInv'
<1>1. PICK c \in Character :
        \/ LoadMail(c)
        \/ \E to \in Character, items \in SUBSET Item,
              gold \in MailGold, cod \in MailGold :
             HandleSendMail(c, to, items, gold, cod)
        \/ \E i \in Item, m \in MailId \cup {NULL} : HandleTakeItem(c, m, i)
        \/ \E m \in MailId :
             \/ HandleMarkAsRead(c, m)
             \/ HandleTakeMoney(c, m)
             \/ HandleMailDelete(c, m)
             \/ HandleReturnToSender(c, m)
    BY DEF MailNext
<1>2. CASE LoadMail(c)
    BY <1>2, LoadMailKeeps
<1>3. ASSUME NEW to \in Character, NEW items \in SUBSET Item,
             NEW gold \in MailGold, NEW cod \in MailGold,
             HandleSendMail(c, to, items, gold, cod)
      PROVE  EconomyInv'
    BY <1>3, HandleSendMailKeeps
<1>4. ASSUME NEW m \in MailId, HandleTakeMoney(c, m) PROVE EconomyInv'
    BY <1>4, HandleTakeMoneyKeeps
<1>5. ASSUME NEW m \in MailId, HandleMailDelete(c, m) PROVE EconomyInv'
  <2>1. UNCHANGED <<ownVars, dbVars, historyVars, mailbox, auctions>>
      BY <1>5 DEF HandleMailDelete
  <2>2. deletedMails' \subseteq MailId
      BY <1>5 DEF HandleMailDelete, EconomyInv, StateTyped
  <2> QED
      BY <2>1, <2>2, NothingDelayed
<1>6. ASSUME NEW m \in MailId, HandleReturnToSender(c, m) PROVE EconomyInv'
    BY <1>6, HandleReturnToSenderKeeps
<1>7. ASSUME NEW m \in MailId \cup {NULL}, NEW i \in Item,
             HandleTakeItem(c, m, i)
      PROVE  EconomyInv'
    BY <1>7, HandleTakeItemKeeps
<1>8. ASSUME NEW m \in MailId, HandleMarkAsRead(c, m) PROVE EconomyInv'
  <2>1. UNCHANGED <<ownVars, dbVars, historyVars, mailbox, auctions>>
      BY <1>8 DEF HandleMarkAsRead
  <2>2. deletedMails' \subseteq MailId
      BY <1>8 DEF HandleMarkAsRead, EconomyInv, StateTyped
  <2> QED
      BY <2>1, <2>2, NothingDelayed
<1> QED
    BY <1>1, <1>2, <1>3, <1>4, <1>5, <1>6, <1>7, <1>8

\* The initial states.
LEMMA InitKeeps == EconomyInit => EconomyInv
<1> SUFFICES ASSUME EconomyInit PROVE EconomyInv
    OBVIOUS
<1>1. PICK f \in OwnedAtStart :
        db = [gold |-> [c \in Character |-> InitialGold], inv |-> f,
              mail |-> [m \in MailId |-> NULL],
              auction |-> [a \in AuctionId |-> NULL]]
    BY DEF EconomyInit, Init
<1>2. /\ queue = <<>> /\ online \subseteq Character
      /\ money = [c \in Character |-> IF c \in online THEN InitialGold ELSE 0]
      /\ bag = [c \in Character |-> {i \in Item :
           c \in online /\ db.inv[i] = c}]
      /\ Gone = {} /\ mailbox = [c \in Character |-> NULL]
      /\ deletedMails = {} /\ auctions = [a \in AuctionId |-> NULL]
    BY DEF EconomyInit, Init, MailInit, AuctionInit, Gone
<1>3. InitialGold \in Int
    BY CharacterDBAssumption DEF CharacterDBAssumption
<1>4. f \in [Item -> Character]
    BY DEF OwnedAtStart
<1>5. /\ DOMAIN db = Tables
      /\ db.gold = [c \in Character |-> InitialGold] /\ db.inv = f
      /\ db.mail = [m \in MailId |-> NULL]
      /\ db.auction = [a \in AuctionId |-> NULL]
    BY <1>1 DEF Tables
<1>6. IsDatabase(db)
    BY <1>3, <1>4, <1>5 DEF IsDatabase
<1>7. IsSequence(queue) /\ Len(queue) = 0
    BY <1>2, OneOrTwo
<1>8. Typed
    BY <1>6, <1>7 DEF Typed
<1>9. Drained = db
    BY <1>7, CommittedIs DEF Drained
<1>10. StateTyped
    BY <1>2, <1>3, <1>8 DEF StateTyped
<1>11. SavedAsMade
  <2>1. \A c \in online : /\ db.gold[c] = money[c]
                          /\ {i \in Item : db.inv[i] = c} = bag[c]
      BY <1>2, <1>5
  <2>2. \A c \in online : mailbox[c] = NULL
      BY <1>2
  <2> QED
      BY <1>2, <1>5, <1>9, <2>1, <2>2 DEF SavedAsMade
<1>12. BoxesOwned /\ SendersKnown
    BY <1>2, <1>5, <1>9 DEF BoxesOwned, SendersKnown
<1>13. ItemsSafe /\ MailsSafe
  <2>1. \A k \in 0..Len(queue) : Committed[k] = Drained
      BY <1>7 DEF Drained
  <2> QED
      BY <2>1 DEF ItemsSafe, MailsSafe
<1>14. ItemsPlaced
  <2>1. /\ \A m \in MailId : Drained.mail[m] = NULL
        /\ \A a \in AuctionId : Drained.auction[a] = NULL
        /\ \A i \in Item : Drained.inv[i] # NULL
      BY <1>4, <1>5, <1>9, NullIs
  <2> QED
      BY <1>2, <2>1 DEF ItemsPlaced, NoItemTwice, GivenUpIsGone, NoItemLost,
                        OnePlaceOnly, Nowhere, InMail, InAuction
<1> QED
    BY <1>10, <1>11, <1>12, <1>13, <1>14 DEF EconomyInv

\* Every step.
LEMMA NextKeeps == EconomyInv /\ TradeInv /\ [Next]_vars => EconomyInv'
<1> SUFFICES ASSUME EconomyInv, TradeInv, [Next]_vars PROVE EconomyInv'
    OBVIOUS
<1>1. CASE UNCHANGED vars
  <2>1. deletedMails' \subseteq MailId
      BY <1>1 DEF vars, mailVars, EconomyInv, StateTyped
  <2>2. UNCHANGED <<ownVars, dbVars, historyVars, mailbox, auctions>>
      BY <1>1 DEF vars, mailVars
  <2> QED
      BY <2>1, <2>2, NothingDelayed
<1>2. CASE TradeNext /\ UNCHANGED <<mailVars, auctions>>
    BY <1>2, TradeNextKeeps
<1>3. CASE MailNext /\ UNCHANGED auctions
    BY <1>3, MailNextKeeps
<1>4. CASE AuctionNext
    BY <1>4, AuctionKeeps
<1>5. ASSUME NEW c \in Character, LoadFromDB(c) PROVE EconomyInv'
    BY <1>5, LoadFromDBKeeps
<1>6. ASSUME NEW c \in Character, LogoutPlayer(c) PROVE EconomyInv'
    BY <1>6, LogoutPlayerKeeps
<1>7. CASE Commit /\ UNCHANGED <<mailVars, auctions>>
    BY <1>7, CommitKeeps
<1>8. \/ UNCHANGED vars
      \/ Handler
      \/ Commit /\ UNCHANGED <<mailVars, auctions>>
    BY DEF Next
<1> QED
    BY <1>1, <1>2, <1>3, <1>4, <1>5, <1>6, <1>7, <1>8 DEF Handler

\* The inductive invariant holds in every reachable state.
THEOREM EconomyInvariant == Spec => []EconomyInv
<1>1. Spec => []TradeInv
    BY TradeInvariant
<1> QED
    BY <1>1, InitKeeps, NextKeeps, PTL DEF Spec

\* Every operation saves what it has changed: the queue, once drained, leaves
\* in the database what is in memory, whatever the delay thread has committed
\* and whoever has logged in or out meanwhile.
THEOREM MemoryIsSaved == Spec => []SavedAsMade
<1>1. EconomyInv => SavedAsMade
    BY DEF EconomyInv
<1> QED
    BY <1>1, EconomyInvariant, PTL

\* What the invariant says of the places of an item, counted.
LEMMA PlacesCounted ==
    ASSUME EconomyInv, GmLogTrade = TRUE PROVE ItemInOnePlace
<1> SUFFICES ASSUME NEW i \in Item
             PROVE  Places(Drained, i) = IF i \in Gone THEN 0 ELSE 1
    BY DEF ItemInOnePlace, Gone
<1> DEFINE M == MailsWith(Drained, i)
           A == AuctionsOf(Drained, i)
<1>1. /\ M = {m \in MailId : InMail(Drained, m, i)}
      /\ A = {a \in AuctionId : InAuction(Drained, a, i)}
    BY DEF MailsWith, AuctionsOf, InMail, InAuction
<1>2. Places(Drained, i) = (IF Drained.inv[i] = NULL THEN 0 ELSE 1)
                              + Cardinality(M) + Cardinality(A)
    BY DEF Places
<1> HIDE DEF M, A
<1>3. Cardinality({}) = 0 /\ \A x : Cardinality({x}) = 1
    BY FS_EmptySet, FS_Singleton
<1>4. CASE i \in Gone
  <2>1. Nowhere(Drained, i)
      BY <1>4 DEF EconomyInv, ItemsPlaced, GivenUpIsGone
  <2>2. Drained.inv[i] = NULL /\ M = {} /\ A = {}
      BY <1>1, <2>1 DEF Nowhere
  <2> QED
      BY <1>2, <1>3, <1>4, <2>2
<1>5. CASE i \notin Gone
  <2>1. OnePlaceOnly(Drained, i) /\ ~Nowhere(Drained, i)
      BY <1>5 DEF EconomyInv, ItemsPlaced, NoItemTwice, NoItemLost
  <2>2. CASE Drained.inv[i] # NULL
    <3>1. M = {} /\ A = {}
        BY <1>1, <2>1, <2>2 DEF OnePlaceOnly
    <3> QED
        BY <1>2, <1>3, <1>5, <2>2, <3>1
  <2>3. ASSUME NEW m \in MailId, InMail(Drained, m, i)
        PROVE  Places(Drained, i) = IF i \in Gone THEN 0 ELSE 1
    <3>1. Drained.inv[i] = NULL /\ M = {m} /\ A = {}
        BY <1>1, <2>1, <2>3 DEF OnePlaceOnly
    <3>2. Cardinality(M) = 1 /\ Cardinality(A) = 0
        BY <1>3, <3>1
    <3>3. Places(Drained, i) = 1
        BY <1>2, <3>1, <3>2
    <3> QED
        BY <1>5, <3>3
  <2>4. ASSUME NEW a \in AuctionId, InAuction(Drained, a, i)
        PROVE  Places(Drained, i) = IF i \in Gone THEN 0 ELSE 1
    <3>1. Drained.inv[i] = NULL /\ M = {} /\ A = {a}
        BY <1>1, <2>1, <2>4 DEF OnePlaceOnly
    <3>2. Cardinality(M) = 0 /\ Cardinality(A) = 1
        BY <1>3, <3>1
    <3>3. Places(Drained, i) = 1
        BY <1>2, <3>1, <3>2
    <3> QED
        BY <1>5, <3>3
  <2> QED
      BY <2>1, <2>2, <2>3, <2>4 DEF Nowhere
<1> QED
    BY <1>4, <1>5

\* An item is neither duplicated nor lost by trade, mail, auction or logout: it
\* is in one inventory, mail or auction, or was given up. Nothing is said of
\* one that is astray, and it is only with GM.LogTrade on: without it an
\* auction whose winner is offline loses its item, the finding of
\* Auction_v_winner.
THEOREM ItemsInOnePlace == GmLogTrade = TRUE => (Spec => []ItemInOnePlace)
<1> SUFFICES ASSUME GmLogTrade = TRUE PROVE Spec => []ItemInOnePlace
    OBVIOUS
<1>1. EconomyInv => ItemInOnePlace
    BY PlacesCounted
<1> QED
    BY <1>1, EconomyInvariant, PTL

----------------------------------------------------------------------------
(* Sums.                                                                   *)

\* h gives the sum of f over each subset of S.
IsSum(S, f, h) ==
    /\ h \in [SUBSET S -> Int] /\ h[{}] = 0
    /\ \A s \in SUBSET S : \A x \in s : h[s] = f[x] + h[s \ {x}]

\* There is such an h: by the least size of a set that has none.
LEMMA SumExists ==
    ASSUME NEW S, IsFiniteSet(S), NEW f \in [S -> Int]
    PROVE  \E h : IsSum(S, f, h)
<1> DEFINE T == {n \in Nat : \E R \in SUBSET S :
                   Cardinality(R) = n /\ ~\E h : IsSum(R, f, h)}
<1> SUFFICES ASSUME ~\E h : IsSum(S, f, h) PROVE FALSE
    OBVIOUS
<1>1. T \subseteq Nat /\ T # {}
  <2>1. Cardinality(S) \in Nat
      BY FS_CardinalityType
  <2>2. Cardinality(S) \in T
      BY <2>1
  <2> QED
      BY <2>2
<1>2. PICK n \in T : \A k \in T : n <= k
    <2> HIDE DEF T
    <2> QED BY <1>1, Least
<1>3. PICK R \in SUBSET S : Cardinality(R) = n /\ ~\E h : IsSum(R, f, h)
    BY <1>2
<1>4. IsFiniteSet(R) /\ n \in Nat
    BY <1>2, FS_Subset
<1>5. R # {}
  <2> SUFFICES ASSUME R = {} PROVE FALSE
      OBVIOUS
  <2> DEFINE h == [s \in {{}} |-> 0]
  <2>1. SUBSET R = {{}}
      OBVIOUS
  <2>2. h \in [SUBSET R -> Int] /\ h[{}] = 0
      BY <2>1
  <2>3. \A s \in SUBSET R : s = {}
      OBVIOUS
  <2> HIDE DEF h
  <2>4. IsSum(R, f, h)
      BY <2>2, <2>3 DEF IsSum
  <2> QED
      BY <1>3, <2>4
<1>6. PICK y : y \in R
    BY <1>5
<1>7. Cardinality(R \ {y}) = n - 1 /\ n - 1 \in Nat /\ n - 1 < n
  <2>1. Cardinality(R \ {y}) = n - 1 /\ IsFiniteSet(R \ {y})
      BY <1>3, <1>4, <1>6, FS_RemoveElement
  <2>2. Cardinality(R \ {y}) \in Nat
      BY <2>1, FS_CardinalityType
  <2> QED
      BY <1>4, <2>1, <2>2
<1>8. R \ {y} \in SUBSET S /\ n - 1 \notin T
    BY <1>2, <1>4, <1>7
<1>9. PICK g : IsSum(R \ {y}, f, g)
    BY <1>7, <1>8
<1> HIDE DEF T
<1> DEFINE h == [s \in SUBSET R |-> IF y \in s THEN f[y] + g[s \ {y}] ELSE g[s]]
<1>10. /\ \A s \in SUBSET (R \ {y}) : g[s] \in Int
       /\ \A s \in SUBSET (R \ {y}) : \A x \in s : g[s] = f[x] + g[s \ {x}]
       /\ g[{}] = 0
    BY <1>9 DEF IsSum
<1>11. \A x \in R : f[x] \in Int
    OBVIOUS
<1>12. \A s \in SUBSET R : s \ {y} \in SUBSET (R \ {y}) /\ (y \notin s => s \in SUBSET (R \ {y}))
    OBVIOUS
<1>13. h = [s \in SUBSET R |-> h[s]]
    OBVIOUS
<1>14. \A s \in SUBSET R : h[s] = IF y \in s THEN f[y] + g[s \ {y}] ELSE g[s]
    OBVIOUS
<1> HIDE DEF h
<1>15. ASSUME NEW s \in SUBSET R PROVE h[s] \in Int
  <2>1. CASE y \in s
    <3>1. h[s] = f[y] + g[s \ {y}]
        BY <1>14, <2>1
    <3>2. f[y] \in Int /\ g[s \ {y}] \in Int
        BY <1>6, <1>10, <1>11, <1>12
    <3> QED
        BY <3>1, <3>2
  <2>2. CASE y \notin s
    <3>1. h[s] = g[s]
        BY <1>14, <2>2
    <3>2. g[s] \in Int
        BY <1>10, <1>12, <2>2
    <3> QED
        BY <3>1, <3>2
  <2> QED
      BY <2>1, <2>2
<1>16. ASSUME NEW s \in SUBSET R, NEW x \in s PROVE h[s] = f[x] + h[s \ {x}]
  <2>1. s \ {x} \in SUBSET R
      OBVIOUS
  <2>2. CASE y \notin s
    <3>1. h[s] = g[s] /\ h[s \ {x}] = g[s \ {x}]
        BY <2>1, <2>2, <1>14
    <3>2. s \in SUBSET (R \ {y})
        BY <2>2
    <3>3. g[s] = f[x] + g[s \ {x}]
        BY <1>10, <3>2
    <3> QED
        BY <3>1, <3>3
  <2>3. CASE y \in s /\ x = y
    <3>1. h[s] = f[y] + g[s \ {y}] /\ h[s \ {x}] = g[s \ {x}]
        BY <2>1, <2>3, <1>14
    <3> QED
        BY <2>3, <3>1
  <2>4. CASE y \in s /\ x # y
    <3> DEFINE r == (s \ {y}) \ {x}
               t == s \ {x}
               u == s \ {y}
    <3>1. x \in u /\ t \ {y} = r /\ u \ {x} = r /\ y \in t /\ t \in SUBSET R
          /\ u \in SUBSET (R \ {y}) /\ r \in SUBSET (R \ {y})
        BY <2>4
    <3>2. h[s] = f[y] + g[u] /\ h[t] = f[y] + g[t \ {y}]
        BY <1>14, <2>4, <3>1
    <3>3. g[u] = f[x] + g[u \ {x}]
        BY <1>10, <3>1
    <3>4. f[x] \in Int /\ f[y] \in Int /\ g[r] \in Int
        BY <1>6, <1>10, <1>11, <3>1
    <3>5. h[t] = f[y] + g[r] /\ g[u] = f[x] + g[r]
        BY <3>1, <3>2, <3>3
    <3>6. h[s] = f[x] + h[t]
      <4> HIDE DEF t, u, r
      <4> QED
          BY <3>2, <3>4, <3>5
    <3> QED
        BY <3>6
  <2> QED
      BY <2>2, <2>3, <2>4
<1>17. h \in [SUBSET R -> Int] /\ h[{}] = 0
  <2>1. h[{}] = g[{}]
      BY <1>14
  <2>2. h \in [SUBSET R -> Int]
      BY <1>15, <1>13
  <2> QED
      BY <1>10, <2>1, <2>2
<1>18. IsSum(R, f, h)
    BY <1>16, <1>17 DEF IsSum
<1> QED
    BY <1>3, <1>18

\* And Total is its value for all of S.
LEMMA TotalIs ==
    ASSUME NEW S, IsFiniteSet(S), NEW f \in [S -> Int], NEW h, IsSum(S, f, h)
    PROVE  Total(f) = h[S]
<1> DEFINE Body(g) == [s \in SUBSET S |->
                         IF s = {} THEN 0
                         ELSE f[CHOOSE x \in s : TRUE] + g[s \ {CHOOSE x \in s : TRUE}]]
           iter == CHOOSE g : g = Body(g)
<1>1. Total(f) = iter[S]
    BY Zenon DEF Total, FoldFunction, FoldFunctionOnSet, MapThenFoldSet
<1>2. \A s \in SUBSET S : s # {} =>
        (CHOOSE x \in s : TRUE) \in s
    OBVIOUS
<1>3. h = Body(h)
  <2>1. h = [s \in SUBSET S |-> h[s]]
      BY DEF IsSum
  <2>2. \A s \in SUBSET S :
          h[s] = IF s = {} THEN 0
                 ELSE f[CHOOSE x \in s : TRUE] + h[s \ {CHOOSE x \in s : TRUE}]
      BY <1>2 DEF IsSum
  <2> QED
      BY <2>1, <2>2, Zenon
<1>4. iter = Body(iter)
    BY <1>3, Zenon
<1> HIDE DEF iter
<1>5. \A s \in SUBSET S :
        iter[s] = IF s = {} THEN 0
                  ELSE f[CHOOSE x \in s : TRUE] + iter[s \ {CHOOSE x \in s : TRUE}]
    BY <1>4, Zenon
<1>6. ASSUME NEW bad \in SUBSET S, iter[bad] # h[bad] PROVE FALSE
  <2> DEFINE T == {n \in Nat : \E s \in SUBSET S :
                     Cardinality(s) = n /\ iter[s] # h[s]}
  <2>1. \A s \in SUBSET S : IsFiniteSet(s) /\ Cardinality(s) \in Nat
      BY FS_Subset, FS_CardinalityType
  <2>2. T \subseteq Nat /\ T # {}
    <3>1. Cardinality(bad) \in T
        BY <1>6, <2>1
    <3> QED
        BY <3>1
  <2>3. PICK n \in T : \A k \in T : n <= k
      <3> HIDE DEF T
      <3> QED BY <2>2, Least
  <2>4. PICK s \in SUBSET S : Cardinality(s) = n /\ iter[s] # h[s]
      BY <2>3
  <2>5. s # {}
      BY <1>5, <2>4 DEF IsSum
  <2> DEFINE y == CHOOSE x \in s : TRUE
  <2>6. y \in s
      BY <1>2, <2>5
  <2>7. iter[s] = f[y] + iter[s \ {y}]
      BY <1>5, <2>5
  <2> HIDE DEF y
  <2>8. h[s] = f[y] + h[s \ {y}]
      BY <2>6 DEF IsSum
  <2>9. Cardinality(s \ {y}) = n - 1 /\ s \ {y} \in SUBSET S
      BY <2>1, <2>4, <2>6, FS_RemoveElement
  <2>10. n - 1 \in Nat /\ n - 1 < n
      BY <2>1, <2>3, <2>9
  <2>11. n - 1 \notin T
      BY <2>3, <2>10
  <2>12. iter[s \ {y}] = h[s \ {y}]
      BY <2>9, <2>10, <2>11
  <2> QED
      BY <2>4, <2>7, <2>8, <2>12
<1>7. iter[S] = h[S]
    BY <1>6
<1> QED
    BY <1>1, <1>7

\* The part of f on s.
On(f, s) == [x \in s |-> f[x]]

\* Total over the subsets of S is such an h.
LEMMA TotalOver ==
    ASSUME NEW S, IsFiniteSet(S), NEW f \in [S -> Int]
    PROVE  \E h : IsSum(S, f, h) /\ \A s \in SUBSET S : Total(On(f, s)) = h[s]
<1>1. PICK h : IsSum(S, f, h)
    BY SumExists
<1>2. ASSUME NEW s \in SUBSET S PROVE Total(On(f, s)) = h[s]
  <2> DEFINE p == On(f, s)
             g == [r \in SUBSET s |-> h[r]]
  <2>1. IsFiniteSet(s)
      BY FS_Subset
  <2>2. p \in [s -> Int] /\ \A x \in s : p[x] = f[x]
      BY DEF On
  <2>3. \A r \in SUBSET s : r \in SUBSET S /\ g[r] = h[r]
      OBVIOUS
  <2>4. g \in [SUBSET s -> Int]
      BY <1>1 DEF IsSum
  <2> HIDE DEF g, p
  <2>5. IsSum(s, p, g)
    <3>1. g[{}] = 0
        BY <1>1, <2>3 DEF IsSum
    <3>2. ASSUME NEW r \in SUBSET s, NEW x \in r PROVE g[r] = p[x] + g[r \ {x}]
      <4>1. r \in SUBSET S /\ g[r] = h[r] /\ g[r \ {x}] = h[r \ {x}] /\ p[x] = f[x]
          BY <2>2, <2>3
      <4>2. h[r] = f[x] + h[r \ {x}]
          BY <1>1, <4>1 DEF IsSum
      <4> QED
          BY <4>1, <4>2
    <3> QED
        BY <2>4, <3>1, <3>2 DEF IsSum
  <2>6. Total(p) = g[s]
      BY ONLY <2>1, <2>2, <2>5, TotalIs
  <2>7. g[s] = h[s]
      BY <2>3
  <2> QED
      BY <2>6, <2>7 DEF p
<1> QED
    BY <1>1, <1>2

\* A sum may begin with any element.
LEMMA TotalSteps ==
    ASSUME NEW S, IsFiniteSet(S), NEW f \in [S -> Int]
    PROVE  /\ Total(f) \in Int /\ f = On(f, S) /\ Total(On(f, {})) = 0
           /\ \A s \in SUBSET S : Total(On(f, s)) \in Int
           /\ \A s \in SUBSET S : \A x \in s :
                 Total(On(f, s)) = f[x] + Total(On(f, s \ {x}))
<1>1. PICK h : IsSum(S, f, h) /\ \A s \in SUBSET S : Total(On(f, s)) = h[s]
    BY TotalOver
<1>2. f = On(f, S)
    BY DEF On
<1>3. Total(f) = h[S]
    BY <1>1, <1>2
<1>4. {} \in SUBSET S /\ S \in SUBSET S /\ \A s \in SUBSET S : h[s] \in Int
    BY <1>1 DEF IsSum
<1>5. Total(On(f, {})) = 0
    BY <1>1, <1>4 DEF IsSum
<1>6. ASSUME NEW s \in SUBSET S, NEW x \in s
      PROVE  Total(On(f, s)) = f[x] + Total(On(f, s \ {x}))
  <2>1. s \ {x} \in SUBSET S
      OBVIOUS
  <2>2. Total(On(f, s)) = h[s] /\ Total(On(f, s \ {x})) = h[s \ {x}]
      BY <1>1, <2>1
  <2>3. h[s] = f[x] + h[s \ {x}]
      BY <1>1 DEF IsSum
  <2> QED
      BY <2>2, <2>3
<1> QED
    BY <1>1, <1>2, <1>3, <1>4, <1>5, <1>6

\* What is zero does not count.
LEMMA TotalZeros ==
    ASSUME NEW T, IsFiniteSet(T), NEW f \in [T -> Int], NEW S \in SUBSET T,
           \A x \in T \ S : f[x] = 0
    PROVE  Total(f) = Total(On(f, S))
<1> DEFINE h == [s \in SUBSET T |-> Total(On(f, s \cap S))]
<1>1. \A s \in SUBSET T : s \cap S \in SUBSET T /\ h[s] = Total(On(f, s \cap S))
    OBVIOUS
<1>2. \A s \in SUBSET T : Total(On(f, s \cap S)) \in Int
    BY <1>1, TotalSteps
<1>3. h \in [SUBSET T -> Int]
    BY <1>2
<1> HIDE DEF h
<1>4. h[{}] = 0
  <2>1. {} \in SUBSET T /\ {} \cap S = {}
      OBVIOUS
  <2>2. h[{}] = Total(On(f, {}))
      BY <1>1, <2>1
  <2> QED
      BY <2>2, TotalSteps
<1>5. ASSUME NEW s \in SUBSET T, NEW x \in s PROVE h[s] = f[x] + h[s \ {x}]
  <2> DEFINE t == s \cap S
             u == (s \ {x}) \cap S
  <2>1. h[s] = Total(On(f, t)) /\ h[s \ {x}] = Total(On(f, u))
        /\ t \in SUBSET T /\ u \in SUBSET T
      BY <1>1
  <2>2. CASE x \in S
    <3>1. x \in t /\ u = t \ {x}
        BY <2>2
    <3> HIDE DEF t, u
    <3>2. Total(On(f, t)) = f[x] + Total(On(f, t \ {x}))
        BY <2>1, <3>1, TotalSteps
    <3> QED
        BY <2>1, <3>1, <3>2
  <2>3. CASE x \notin S
    <3>1. t = u /\ f[x] = 0
        BY <2>3
    <3>2. Total(On(f, u)) \in Int
        BY <2>1, TotalSteps
    <3> HIDE DEF t, u
    <3> QED
        BY <2>1, <3>1, <3>2
  <2> QED
      BY <2>2, <2>3
<1>6. IsSum(T, f, h)
    BY <1>3, <1>4, <1>5 DEF IsSum
<1>7. Total(f) = h[T]
    BY <1>6, TotalIs
<1>8. h[T] = Total(On(f, S))
  <2>1. T \in SUBSET T /\ T \cap S = S
      OBVIOUS
  <2> QED
      BY <1>1, <2>1
<1> QED
    BY <1>7, <1>8

\* The difference of two sums is the sum of the differences.
LEMMA TotalMinus ==
    ASSUME NEW S, IsFiniteSet(S), NEW f \in [S -> Int], NEW g \in [S -> Int],
           NEW d, d = [x \in S |-> f[x] - g[x]]
    PROVE  Total(d) = Total(f) - Total(g)
<1> DEFINE h == [s \in SUBSET S |-> Total(On(f, s)) - Total(On(g, s))]
<1>1. \A s \in SUBSET S : /\ Total(On(f, s)) \in Int /\ Total(On(g, s)) \in Int
                          /\ h[s] = Total(On(f, s)) - Total(On(g, s))
    BY TotalSteps
<1>2. h \in [SUBSET S -> Int]
  <2>1. h = [s \in SUBSET S |-> h[s]]
      OBVIOUS
  <2> HIDE DEF h
  <2>2. \A s \in SUBSET S : h[s] \in Int
      BY <1>1
  <2> QED
      BY <2>1, <2>2
<1> HIDE DEF h
<1>3. d \in [S -> Int] /\ \A x \in S : f[x] \in Int /\ g[x] \in Int /\ d[x] = f[x] - g[x]
    OBVIOUS
<1>4. h[{}] = 0
  <2>1. {} \in SUBSET S /\ Total(On(f, {})) = 0 /\ Total(On(g, {})) = 0
      BY TotalSteps
  <2> QED
      BY <1>1, <2>1
<1>5. ASSUME NEW s \in SUBSET S, NEW x \in s PROVE h[s] = d[x] + h[s \ {x}]
  <2> DEFINE t == s \ {x}
  <2>1. /\ Total(On(f, s)) = f[x] + Total(On(f, t))
        /\ Total(On(g, s)) = g[x] + Total(On(g, t))
      BY TotalSteps
  <2>2. t \in SUBSET S /\ f[x] \in Int /\ g[x] \in Int /\ d[x] = f[x] - g[x]
      BY <1>3
  <2> HIDE DEF t
  <2>3. /\ h[s] = Total(On(f, s)) - Total(On(g, s))
        /\ h[t] = Total(On(f, t)) - Total(On(g, t))
        /\ Total(On(f, t)) \in Int /\ Total(On(g, t)) \in Int
      BY <1>1, <2>2
  <2>4. h[s] = d[x] + h[t]
      BY <2>1, <2>2, <2>3
  <2> QED
      BY <2>4 DEF t
<1>6. IsSum(S, d, h)
    BY <1>2, <1>4, <1>5 DEF IsSum
<1>7. Total(d) = h[S]
    BY <1>3, <1>6, TotalIs
<1>8. h[S] = Total(On(f, S)) - Total(On(g, S))
    BY <1>1
<1>9. f = On(f, S) /\ g = On(g, S)
    BY TotalSteps
<1> QED
    BY <1>7, <1>8, <1>9

\* A sum of two parts.
LEMMA TotalParts ==
    ASSUME NEW S, IsFiniteSet(S), NEW f \in [S -> Int], NEW K \in SUBSET S
    PROVE  Total(f) = Total(On(f, K)) + Total(On(f, S \ K))
<1> DEFINE g == [x \in S |-> IF x \in K THEN f[x] ELSE 0]
           d == [x \in S |-> f[x] - g[x]]
<1>1. /\ g \in [S -> Int] /\ d \in [S -> Int]
      /\ \A x \in K : g[x] = f[x]
      /\ \A x \in S \ K : g[x] = 0 /\ d[x] = f[x]
      /\ \A x \in K : d[x] = 0
    OBVIOUS
<1>2. Total(d) = Total(f) - Total(g)
  <2>1. d = [x \in S |-> f[x] - g[x]] /\ g \in [S -> Int]
      BY <1>1
  <2> HIDE DEF d, g
  <2> QED
      BY <2>1, TotalMinus
<1> HIDE DEF d, g
<1>3. Total(g) = Total(On(g, K)) /\ On(g, K) = On(f, K)
    BY <1>1, TotalZeros DEF On
<1>4. Total(d) = Total(On(d, S \ K))
    BY <1>1, TotalZeros
<1>5. On(d, S \ K) = On(f, S \ K)
    BY <1>1 DEF On
<1>6. Total(f) \in Int /\ Total(g) \in Int
    BY <1>1, TotalSteps
<1> QED
    BY <1>2, <1>3, <1>4, <1>5, <1>6

\* The values may have other names.
LEMMA TotalMoved ==
    ASSUME NEW S, IsFiniteSet(S), NEW f \in [S -> Int],
           NEW A, IsFiniteSet(A), NEW e \in [A -> S],
           \A a, b \in A : e[a] = e[b] => a = b,
           \A x \in S : \E a \in A : e[a] = x,
           NEW g \in [A -> Int], \A a \in A : g[a] = f[e[a]]
    PROVE  Total(g) = Total(f)
<1> DEFINE Names(s) == {e[a] : a \in s}
           h == [s \in SUBSET A |-> Total(On(f, Names(s)))]
<1>1. \A s \in SUBSET A : Names(s) \in SUBSET S /\ h[s] = Total(On(f, Names(s)))
    OBVIOUS
<1>2. \A s \in SUBSET A : Total(On(f, Names(s))) \in Int
    BY <1>1, TotalSteps
<1>3. h \in [SUBSET A -> Int]
    BY <1>2
<1> HIDE DEF h
<1>4. h[{}] = 0
  <2>1. {} \in SUBSET A /\ Names({}) = {}
      OBVIOUS
  <2>2. h[{}] = Total(On(f, {}))
      BY <1>1, <2>1
  <2> QED
      BY <2>2, TotalSteps
<1>5. ASSUME NEW s \in SUBSET A, NEW a \in s PROVE h[s] = g[a] + h[s \ {a}]
  <2> DEFINE t == Names(s)
             u == Names(s \ {a})
             x == e[a]
  <2>1. x \in t /\ u = t \ {x}
      OBVIOUS
  <2>2. t \in SUBSET S /\ h[s] = Total(On(f, t)) /\ h[s \ {a}] = Total(On(f, u))
      BY <1>1
  <2>3. g[a] = f[x]
      OBVIOUS
  <2> HIDE DEF t, u, x
  <2>4. Total(On(f, t)) = f[x] + Total(On(f, t \ {x}))
      BY <2>1, <2>2, TotalSteps
  <2> QED
      BY <2>1, <2>2, <2>3, <2>4
<1>6. IsSum(A, g, h)
    BY <1>3, <1>4, <1>5 DEF IsSum
<1>7. Total(g) = h[A]
    BY <1>6, TotalIs
<1>8. h[A] = Total(On(f, S))
  <2>1. Names(A) = S /\ A \in SUBSET A
      OBVIOUS
  <2> QED
      BY <1>1, <2>1
<1>9. f = On(f, S)
    BY TotalSteps
<1> QED
    BY <1>7, <1>8, <1>9

\* A sum of natural numbers is one.
LEMMA TotalNat ==
    ASSUME NEW S, IsFiniteSet(S), NEW f \in [S -> Nat]
    PROVE  Total(f) \in Nat
<1>1. f \in [S -> Int] /\ \A x \in S : f[x] \in Nat
    OBVIOUS
<1>2. PICK h : IsSum(S, f, h)
    BY <1>1, SumExists
<1>3. ASSUME NEW bad \in SUBSET S, h[bad] \notin Nat PROVE FALSE
  <2> DEFINE T == {n \in Nat : \E s \in SUBSET S :
                     Cardinality(s) = n /\ h[s] \notin Nat}
  <2>1. \A s \in SUBSET S : IsFiniteSet(s) /\ Cardinality(s) \in Nat
      BY FS_Subset, FS_CardinalityType
  <2>2. T \subseteq Nat /\ T # {}
    <3>1. Cardinality(bad) \in T
        BY <1>3, <2>1
    <3> QED
        BY <3>1
  <2>3. PICK n \in T : \A k \in T : n <= k
      <3> HIDE DEF T
      <3> QED BY <2>2, Least
  <2>4. PICK s \in SUBSET S : Cardinality(s) = n /\ h[s] \notin Nat
      BY <2>3
  <2>5. s # {}
    <3>1. h[{}] = 0 /\ 0 \in Nat
        BY <1>2 DEF IsSum
    <3> HIDE DEF T
    <3> QED
        BY <2>4, <3>1
  <2>6. PICK y : y \in s
      BY <2>5
  <2>7. h[s] = f[y] + h[s \ {y}]
      BY <1>2, <2>6 DEF IsSum
  <2>8. Cardinality(s \ {y}) = n - 1 /\ s \ {y} \in SUBSET S
      BY <2>1, <2>4, <2>6, FS_RemoveElement
  <2>9. n - 1 \in Nat /\ n - 1 < n
      BY <2>1, <2>3, <2>8
  <2>10. n - 1 \notin T
      BY <2>3, <2>9
  <2>11. h[s \ {y}] \in Nat
      BY <2>8, <2>9, <2>10
  <2>12. f[y] \in Nat
      BY <1>1, <2>6
  <2> QED
      BY <2>4, <2>7, <2>11, <2>12
<1>4. h[S] \in Nat
    BY <1>3
<1>5. Total(f) = h[S]
    BY <1>1, <1>2, TotalIs
<1> QED
    BY <1>4, <1>5

\* A sum of one, and of two.
LEMMA TotalFew ==
    ASSUME NEW S, NEW f \in [S -> Int]
    PROVE  /\ S = {} => Total(f) = 0
           /\ \A x : S = {x} => Total(f) = f[x]
           /\ \A x, y : S = {x, y} /\ x # y => Total(f) = f[x] + f[y]
<1>1. ASSUME S = {} PROVE Total(f) = 0
  <2>1. IsFiniteSet(S)
      BY <1>1, FS_EmptySet
  <2> QED
      BY <1>1, <2>1, TotalSteps
<1>2. ASSUME NEW s \in SUBSET S, IsFiniteSet(S), NEW x \in s
      PROVE  /\ Total(On(f, s)) = f[x] + Total(On(f, s \ {x}))
             /\ Total(On(f, {})) = 0 /\ f[x] \in Int /\ f = On(f, S)
    BY <1>2, TotalSteps
<1>3. ASSUME NEW x, S = {x} PROVE Total(f) = f[x]
  <2>1. IsFiniteSet(S) /\ S \in SUBSET S /\ x \in S /\ S \ {x} = {}
      BY <1>3, FS_Singleton
  <2>2. /\ Total(On(f, S)) = f[x] + Total(On(f, {}))
        /\ Total(On(f, {})) = 0 /\ f[x] \in Int /\ f = On(f, S)
      BY <1>2, <2>1
  <2> QED
      BY <2>2
<1>4. ASSUME NEW x, NEW y, S = {x, y}, x # y PROVE Total(f) = f[x] + f[y]
  <2>1. IsFiniteSet({y}) /\ {y} \cup {x} = S
      BY <1>4, FS_Singleton
  <2>2. IsFiniteSet(S)
      BY <2>1, FS_AddElement
  <2>3. /\ S \in SUBSET S /\ x \in S /\ S \ {x} = {y}
        /\ {y} \in SUBSET S /\ y \in {y} /\ {y} \ {y} = {}
      BY <1>4
  <2>4. /\ Total(On(f, S)) = f[x] + Total(On(f, {y}))
        /\ f[x] \in Int /\ f = On(f, S)
      BY <1>2, <2>2, <2>3
  <2>5. /\ Total(On(f, {y})) = f[y] + Total(On(f, {}))
        /\ Total(On(f, {})) = 0 /\ f[y] \in Int
      BY <1>2, <2>2, <2>3
  <2> QED
      BY <2>4, <2>5
<1> QED
    BY <1>1, <1>3, <1>4

\* Adding to some values adds the same to the sum.
LEMMA TotalShift ==
    ASSUME NEW S, IsFiniteSet(S), NEW f \in [S -> Int], NEW g \in [S -> Int],
           NEW K \in SUBSET S, \A x \in S \ K : g[x] = f[x]
    PROVE  /\ Total(f) \in Int /\ Total(g) \in Int
           /\ Total(On(f, K)) \in Int /\ Total(On(g, K)) \in Int
           /\ Total(g) - Total(f) = Total(On(g, K)) - Total(On(f, K))
<1>1. /\ Total(f) = Total(On(f, K)) + Total(On(f, S \ K))
      /\ Total(g) = Total(On(g, K)) + Total(On(g, S \ K))
    BY TotalParts
<1>2. On(f, S \ K) = On(g, S \ K)
    BY DEF On
<1>3. /\ S \ K \in SUBSET S
      /\ Total(f) \in Int /\ Total(g) \in Int
      /\ \A s \in SUBSET S : Total(On(f, s)) \in Int /\ Total(On(g, s)) \in Int
    BY TotalSteps
<1>4. /\ Total(On(f, K)) \in Int /\ Total(On(g, K)) \in Int
      /\ Total(On(f, S \ K)) \in Int
    BY <1>3
<1> QED
    BY <1>1, <1>2, <1>3, <1>4

\* A sum of greater values is not less.
LEMMA TotalAtLeast ==
    ASSUME NEW S, IsFiniteSet(S), NEW f \in [S -> Int], NEW g \in [S -> Int],
           \A x \in S : g[x] >= f[x]
    PROVE  Total(f) \in Int /\ Total(g) \in Int /\ Total(g) >= Total(f)
<1> DEFINE d == [x \in S |-> g[x] - f[x]]
<1>1. \A x \in S : f[x] \in Int /\ g[x] \in Int /\ g[x] - f[x] \in Nat
    OBVIOUS
<1>2. d \in [S -> Nat] /\ d = [x \in S |-> g[x] - f[x]]
    BY <1>1
<1> HIDE DEF d
<1>3. Total(d) \in Nat
    BY <1>2, TotalNat
<1>4. Total(d) = Total(g) - Total(f)
    BY <1>2, TotalMinus
<1>5. Total(f) \in Int /\ Total(g) \in Int
    BY TotalSteps
<1> QED
    BY <1>3, <1>4, <1>5

----------------------------------------------------------------------------
(* The gold in a state of the database.                                    *)

\* What is in the row of a mail and of an auction, if there is one.
InMailRow(row) == IF row = NULL THEN 0 ELSE row.gold
HeldByRow(row) == IF row = NULL THEN 0 ELSE row.bid + row.deposit
MailGoldOf(d) == [m \in MailId |-> InMailRow(d.mail[m])]
HeldGoldOf(d) == [a \in AuctionId |-> HeldByRow(d.auction[a])]

\* The three sums.
LEMMA GoldInIs ==
    ASSUME NEW d, IsDatabase(d)
    PROVE  /\ d.gold \in [Character -> Int]
           /\ MailGoldOf(d) \in [MailId -> Nat]
           /\ HeldGoldOf(d) \in [AuctionId -> Nat]
           /\ GoldIn(d) = Total(d.gold) + Total(MailGoldOf(d))
                            + Total(HeldGoldOf(d))
<1> DEFINE M == RowsWith(d, "mail")
           A == RowsWith(d, "auction")
           f == [m \in M |-> d.mail[m].gold]
           g == [a \in A |-> d.auction[a].bid + d.auction[a].deposit]
<1>1. /\ d.gold \in [Character -> Int]
      /\ d.mail \in [MailId -> MailRow \cup {NULL}]
      /\ d.auction \in [AuctionId -> AuctionRow \cup {NULL}]
    BY DEF IsDatabase
<1>2. M = {m \in MailId : d.mail[m] # NULL}
      /\ A = {a \in AuctionId : d.auction[a] # NULL}
    BY <1>1 DEF RowsWith
<1>3. \A row \in MailRow \cup {NULL} : InMailRow(row) \in Nat
    BY DEF InMailRow, MailRow
<1>4. \A row \in AuctionRow \cup {NULL} : HeldByRow(row) \in Nat
    BY DEF HeldByRow, AuctionRow
<1>5. \A m \in MailId : InMailRow(d.mail[m]) \in Nat
    BY <1>1, <1>3
<1>6. \A a \in AuctionId : HeldByRow(d.auction[a]) \in Nat
    BY <1>1, <1>4
<1>7. /\ MailGoldOf(d) \in [MailId -> Nat]
      /\ HeldGoldOf(d) \in [AuctionId -> Nat]
      /\ MailGoldOf(d) \in [MailId -> Int]
      /\ HeldGoldOf(d) \in [AuctionId -> Int]
    BY <1>5, <1>6 DEF MailGoldOf, HeldGoldOf
<1>8. /\ \A m \in MailId \ M : MailGoldOf(d)[m] = 0
      /\ \A m \in M : MailGoldOf(d)[m] = d.mail[m].gold
    BY <1>2 DEF MailGoldOf, InMailRow
<1>9. /\ \A a \in AuctionId \ A : HeldGoldOf(d)[a] = 0
      /\ \A a \in A : HeldGoldOf(d)[a] = d.auction[a].bid + d.auction[a].deposit
    BY <1>2 DEF HeldGoldOf, HeldByRow
<1>10. M \in SUBSET MailId /\ A \in SUBSET AuctionId
    BY <1>2
<1>11. f = On(MailGoldOf(d), M) /\ g = On(HeldGoldOf(d), A)
    BY <1>8, <1>9 DEF On
<1>12. GoldIn(d) = Total(d.gold) + Total(f) + Total(g)
    BY DEF GoldIn
<1> HIDE DEF M, A, f, g
<1>13. IsFiniteSet(MailId) /\ IsFiniteSet(AuctionId)
    BY CharacterDBAssumption DEF CharacterDBAssumption
<1>14. Total(MailGoldOf(d)) = Total(f)
    BY <1>7, <1>8, <1>10, <1>11, <1>13, TotalZeros
<1>15. Total(HeldGoldOf(d)) = Total(g)
    BY <1>7, <1>9, <1>10, <1>11, <1>13, TotalZeros
<1> QED
    BY <1>1, <1>7, <1>12, <1>14, <1>15

\* What changes it, in the rows of these characters, mails and auctions.
LEMMA GoldShift ==
    ASSUME NEW d, NEW e, IsDatabase(d), IsDatabase(e),
           NEW G \in SUBSET Character, NEW M \in SUBSET MailId,
           NEW A \in SUBSET AuctionId,
           \A c \in Character \ G : e.gold[c] = d.gold[c],
           \A m \in MailId \ M : e.mail[m] = d.mail[m],
           \A a \in AuctionId \ A : e.auction[a] = d.auction[a]
    PROVE  /\ GoldIn(d) \in Int /\ GoldIn(e) \in Int
           /\ \A f \in {d.gold, e.gold} : Total(On(f, G)) \in Int
           /\ \A f \in {MailGoldOf(d), MailGoldOf(e)} : Total(On(f, M)) \in Int
           /\ \A f \in {HeldGoldOf(d), HeldGoldOf(e)} : Total(On(f, A)) \in Int
           /\ GoldIn(e) - GoldIn(d) =
                 (Total(On(e.gold, G)) - Total(On(d.gold, G)))
                 + (Total(On(MailGoldOf(e), M)) - Total(On(MailGoldOf(d), M)))
                 + (Total(On(HeldGoldOf(e), A)) - Total(On(HeldGoldOf(d), A)))
<1>1. /\ IsFiniteSet(Character) /\ IsFiniteSet(MailId) /\ IsFiniteSet(AuctionId)
    BY CharacterDBAssumption DEF CharacterDBAssumption
<1> DEFINE gd == d.gold
           ge == e.gold
           md == MailGoldOf(d)
           me == MailGoldOf(e)
           hd == HeldGoldOf(d)
           he == HeldGoldOf(e)
<1>2. /\ gd \in [Character -> Int] /\ md \in [MailId -> Nat]
      /\ hd \in [AuctionId -> Nat]
      /\ GoldIn(d) = Total(gd) + Total(md) + Total(hd)
    BY GoldInIs
<1>3. /\ ge \in [Character -> Int] /\ me \in [MailId -> Nat]
      /\ he \in [AuctionId -> Nat]
      /\ GoldIn(e) = Total(ge) + Total(me) + Total(he)
    BY GoldInIs
<1>4. \A m \in MailId \ M : me[m] = md[m]
    BY DEF MailGoldOf
<1>5. \A a \in AuctionId \ A : he[a] = hd[a]
    BY DEF HeldGoldOf
<1>6. \A c \in Character \ G : ge[c] = gd[c]
    OBVIOUS
<1> HIDE DEF gd, ge, md, me, hd, he
<1>7. /\ md \in [MailId -> Int] /\ me \in [MailId -> Int]
      /\ M \in SUBSET MailId /\ IsFiniteSet(MailId)
    BY <1>1, <1>2, <1>3
<1>8. /\ hd \in [AuctionId -> Int] /\ he \in [AuctionId -> Int]
       /\ A \in SUBSET AuctionId /\ IsFiniteSet(AuctionId)
    BY <1>1, <1>2, <1>3
<1>9. /\ gd \in [Character -> Int] /\ ge \in [Character -> Int]
       /\ G \in SUBSET Character /\ IsFiniteSet(Character)
    BY <1>1, <1>2, <1>3
<1>10. /\ Total(gd) \in Int /\ Total(ge) \in Int
      /\ Total(On(gd, G)) \in Int /\ Total(On(ge, G)) \in Int
      /\ Total(ge) - Total(gd) = Total(On(ge, G)) - Total(On(gd, G))
    BY ONLY <1>6, <1>9, TotalShift
<1>11. /\ Total(md) \in Int /\ Total(me) \in Int
      /\ Total(On(md, M)) \in Int /\ Total(On(me, M)) \in Int
      /\ Total(me) - Total(md) = Total(On(me, M)) - Total(On(md, M))
    BY ONLY <1>4, <1>7, TotalShift
<1>12. /\ Total(hd) \in Int /\ Total(he) \in Int
       /\ Total(On(hd, A)) \in Int /\ Total(On(he, A)) \in Int
       /\ Total(he) - Total(hd) = Total(On(he, A)) - Total(On(hd, A))
    BY ONLY <1>5, <1>8, TotalShift
<1>13. /\ GoldIn(d) \in Int /\ GoldIn(e) \in Int
       /\ GoldIn(e) - GoldIn(d) =
            (Total(On(ge, G)) - Total(On(gd, G)))
            + (Total(On(me, M)) - Total(On(md, M)))
            + (Total(On(he, A)) - Total(On(hd, A)))
    BY <1>2, <1>3, <1>10, <1>11, <1>12
<1> QED
    BY <1>10, <1>11, <1>12, <1>13 DEF gd, ge, md, me, hd, he

\* Nothing is lost where rows are only added.
LEMMA GoldOnlyAdded ==
    ASSUME NEW d, NEW e, IsDatabase(d), IsDatabase(e),
           \A c \in Character : e.gold[c] = d.gold[c],
           \A a \in AuctionId : e.auction[a] = d.auction[a],
           \A m \in MailId : e.mail[m] = d.mail[m] \/ d.mail[m] = NULL
    PROVE  GoldIn(d) \in Int /\ GoldIn(e) \in Int /\ GoldIn(e) >= GoldIn(d)
<1>1. /\ IsFiniteSet(Character) /\ IsFiniteSet(MailId) /\ IsFiniteSet(AuctionId)
    BY CharacterDBAssumption DEF CharacterDBAssumption
<1> DEFINE md == MailGoldOf(d)
           me == MailGoldOf(e)
<1>2. /\ d.gold \in [Character -> Int] /\ md \in [MailId -> Nat]
      /\ HeldGoldOf(d) \in [AuctionId -> Nat]
      /\ GoldIn(d) = Total(d.gold) + Total(md) + Total(HeldGoldOf(d))
    BY GoldInIs
<1>3. /\ e.gold \in [Character -> Int] /\ me \in [MailId -> Nat]
      /\ GoldIn(e) = Total(e.gold) + Total(me) + Total(HeldGoldOf(e))
    BY GoldInIs
<1>4. e.gold = d.gold
    BY <1>2, <1>3
<1>5. HeldGoldOf(e) = HeldGoldOf(d)
    BY DEF HeldGoldOf
<1>6. \A m \in MailId : me[m] = md[m] \/ md[m] = 0
    BY DEF MailGoldOf, InMailRow
<1> HIDE DEF md, me
<1>7. \A m \in MailId : md[m] \in Nat /\ me[m] \in Nat
    BY <1>2, <1>3
<1>8. \A m \in MailId : me[m] >= md[m]
    BY <1>6, <1>7
<1>9. md \in [MailId -> Int] /\ me \in [MailId -> Int]
      /\ HeldGoldOf(d) \in [AuctionId -> Int]
    BY <1>2, <1>3
<1>10. Total(md) \in Int /\ Total(me) \in Int /\ Total(me) >= Total(md)
    BY <1>1, <1>8, <1>9, TotalAtLeast
<1>11. Total(d.gold) \in Int /\ Total(HeldGoldOf(d)) \in Int
    BY <1>1, <1>2, <1>9, TotalSteps
<1> QED
    BY <1>2, <1>3, <1>4, <1>5, <1>10, <1>11

----------------------------------------------------------------------------
(* The inductive invariant.                                                *)

\* The gold of the mails on their way back that tx inserts, and of those that
\* the next transaction does once k of the delayed ones are committed.
Returned(tx) == Total([m \in ReturnedBy(tx) |-> tx.mail[m].gold])
ReturnedAfter(k) == IF k < Len(queue) THEN Returned(queue[k + 1]) ELSE 0

\* An auction without a bidder holds no bid.
UnbidIsFree ==
    \A a \in AuctionId :
        auctions[a] # NULL /\ auctions[a].bidder = NULL => auctions[a].bid = 0

\* However many of the transactions are committed, no gold is lost.
GoldOnTheWay ==
    \A k \in 0..Len(queue) :
        GoldIn(Committed[k]) + spent + ReturnedAfter(k) >= AllGold

\* After k of the transactions q only items are taken out until a mail of a
\* player that holds i is inserted.
Carries(tx, i) ==
    /\ "mail" \in DOMAIN tx
    /\ \E m \in DOMAIN tx.mail :
          LET mail == tx.mail[m] IN
          mail # NULL /\ i \in mail.items /\ mail.kind = "normal"
Carried(q, k, i) ==
    \E j \in 1..Len(q) :
        /\ k < j /\ Carries(q[j], i)
        /\ \A x \in 1..Len(q) : k < x /\ x < j => DOMAIN q[x] = {"inv"}

\* However many of the transactions are committed, an item is somewhere.
ItemsOnTheWay ==
    \A k \in 0..Len(queue), i \in Item \ Gone :
        ~Nowhere(Committed[k], i) \/ Carried(queue, k, i)

CrashInv ==
    /\ spent \in Int /\ GoldConserved /\ UnbidIsFree /\ GoldOnTheWay
    /\ GmLogTrade = TRUE => ItemsOnTheWay

----------------------------------------------------------------------------
(* The steps that delay nothing, and commits.                              *)

\* There is so much gold.
LEMMA AllGoldIs == AllGold \in Nat
<1>1. Cardinality(Character) \in Nat /\ InitialGold \in Nat
    BY CharacterDBAssumption, FS_CardinalityType DEF CharacterDBAssumption
<1> QED
    BY <1>1 DEF AllGold

\* What is on its way back is no debt.
LEMMA ReturnedIs ==
    ASSUME NEW tx, IsTransaction(tx) PROVE Returned(tx) \in Nat
<1> DEFINE S == ReturnedBy(tx)
           f == [m \in S |-> tx.mail[m].gold]
<1>1. \A m \in S : Written(tx, "mail", m) /\ tx.mail[m] # NULL
    BY DEF ReturnedBy, Written
<1>2. \A m \in S : m \in MailId /\ tx.mail[m] \in MailRow
    BY <1>1 DEF IsTransaction
<1> HIDE DEF S
<1>3. \A m \in S : tx.mail[m].gold \in Nat
    BY <1>2 DEF MailRow
<1>4. S \subseteq MailId /\ IsFiniteSet(MailId)
    BY <1>2, CharacterDBAssumption DEF CharacterDBAssumption
<1>5. IsFiniteSet(S)
    BY <1>4, FS_Subset
<1>6. f \in [S -> Nat]
    BY <1>3
<1> HIDE DEF f
<1>7. Total(f) \in Nat
    BY <1>5, <1>6, TotalNat
<1> QED
    BY <1>7 DEF Returned, f, S

\* In the states of Committed there is a sum of gold.
LEMMA GoldIsInt ==
    ASSUME NEW d, IsDatabase(d) PROVE GoldIn(d) \in Int
<1>1. \A c \in Character : d.gold[c] = d.gold[c]
    OBVIOUS
<1> QED
    BY GoldOnlyAdded

\* A step that neither delays nor pays.
LEMMA NothingLost ==
    ASSUME CrashInv, UNCHANGED <<dbVars, historyVars, auctions>>
    PROVE  CrashInv'
<1>1. Committed' = Committed /\ Drained' = Drained /\ queue' = queue
    BY SameQueue DEF dbVars
<1>2. spent' = spent /\ Gone' = Gone /\ auctions' = auctions
    BY DEF historyVars, Gone
<1>3. GoldOnTheWay'
    BY <1>1, <1>2 DEF CrashInv, GoldOnTheWay, ReturnedAfter
<1>4. GmLogTrade = TRUE => ItemsOnTheWay'
    BY <1>1, <1>2 DEF CrashInv, ItemsOnTheWay
<1>5. GoldConserved' /\ UnbidIsFree'
    BY <1>1, <1>2 DEF CrashInv, GoldConserved, UnbidIsFree
<1> QED
    BY <1>2, <1>3, <1>4, <1>5 DEF CrashInv

\* A commit: the states that are left are those of before.
LEMMA CommitLosesNothing ==
    ASSUME EconomyInv, CrashInv, Commit, UNCHANGED auctions
    PROVE  CrashInv'
<1>1. /\ Len(queue) \in Nat \ {0} /\ Len(queue') = Len(queue) - 1
      /\ \A k \in 1..Len(queue') : queue'[k] = queue[k + 1]
      /\ \A k \in 0..Len(queue') : Committed'[k] = Committed[k + 1]
      /\ Drained' = Drained
    BY CommitShifts DEF EconomyInv, StateTyped
<1>2. spent' = spent /\ Gone' = Gone
    BY DEF Commit, historyVars, Gone
<1>3. ASSUME NEW k \in 0..Len(queue')
      PROVE  /\ k + 1 \in 0..Len(queue)
             /\ ReturnedAfter(k)' = ReturnedAfter(k + 1)
  <2>1. k + 1 \in 0..Len(queue)
      BY <1>1
  <2>2. CASE k < Len(queue')
    <3>1. k + 1 \in 1..Len(queue') /\ k + 1 < Len(queue)
        BY <1>1, <2>2
    <3>2. queue'[k + 1] = queue[(k + 1) + 1]
        BY <1>1, <3>1
    <3> QED
        BY <2>1, <2>2, <3>1, <3>2 DEF ReturnedAfter
  <2>3. CASE ~(k < Len(queue'))
    <3>1. ~(k + 1 < Len(queue))
        BY <1>1, <2>3
    <3> QED
        BY <2>1, <2>3, <3>1 DEF ReturnedAfter
  <2> QED
      BY <2>2, <2>3
<1>4. GoldOnTheWay'
  <2> SUFFICES ASSUME NEW k \in 0..Len(queue')
               PROVE  GoldIn(Committed'[k]) + spent' + ReturnedAfter(k)' >= AllGold
      BY DEF GoldOnTheWay
  <2>1. GoldIn(Committed[k + 1]) + spent + ReturnedAfter(k + 1) >= AllGold
      BY <1>3 DEF CrashInv, GoldOnTheWay
  <2>2. Committed'[k] = Committed[k + 1] /\ ReturnedAfter(k)' = ReturnedAfter(k + 1)
      BY <1>1, <1>3
  <2> QED
      BY <1>2, <2>1, <2>2
<1>5. ASSUME NEW k \in 0..Len(queue'), NEW i, Carried(queue, k + 1, i)
      PROVE  Carried(queue', k, i)
  <2>1. PICK j \in 1..Len(queue) :
          /\ k + 1 < j /\ Carries(queue[j], i)
          /\ \A x \in 1..Len(queue) : k + 1 < x /\ x < j => DOMAIN queue[x] = {"inv"}
      BY <1>5 DEF Carried
  <2>2. j - 1 \in 1..Len(queue') /\ k < j - 1 /\ (j - 1) + 1 = j
      BY <1>1, <2>1
  <2>3. Carries(queue'[j - 1], i)
      BY <1>1, <2>1, <2>2
  <2>4. ASSUME NEW x \in 1..Len(queue'), k < x, x < j - 1
        PROVE  DOMAIN queue'[x] = {"inv"}
    <3>1. x + 1 \in 1..Len(queue) /\ k + 1 < x + 1 /\ x + 1 < j
        BY <1>1, <2>1, <2>4
    <3>2. DOMAIN queue[x + 1] = {"inv"}
        BY <2>1, <3>1
    <3> QED
        BY <1>1, <3>2
  <2> QED
      BY <2>2, <2>3, <2>4 DEF Carried
<1>6. GmLogTrade = TRUE => ItemsOnTheWay'
  <2> SUFFICES ASSUME GmLogTrade = TRUE, NEW k \in 0..Len(queue'),
                      NEW i \in Item \ Gone'
               PROVE  ~Nowhere(Committed'[k], i) \/ Carried(queue', k, i)
      BY DEF ItemsOnTheWay
  <2>1. ~Nowhere(Committed[k + 1], i) \/ Carried(queue, k + 1, i)
      BY <1>2, <1>3 DEF CrashInv, ItemsOnTheWay
  <2> QED
      BY <1>1, <1>5, <2>1
<1>7. GoldConserved' /\ UnbidIsFree'
    BY <1>1, <1>2 DEF CrashInv, GoldConserved, UnbidIsFree
<1> QED
    BY <1>2, <1>4, <1>6, <1>7 DEF CrashInv

----------------------------------------------------------------------------
(* The steps that delay transactions.                                      *)

\* With the first j of the transactions committed, the rows that they do not
\* write are as the queue before them leaves them, and the last has written.
LEMMA Midway ==
    ASSUME StateTyped, NEW txs, Len(txs) \in Nat, Queued(txs),
           NEW j \in 1..Len(txs)
    PROVE  LET d == Committed'[Len(queue) + j] IN
           /\ IsDatabase(d)
           /\ \A t \in Tables : \A id \in DOMAIN Drained[t] :
                /\ d[t][id] \in {Drained[t][id], Drained'[t][id]}
                /\ Written(txs[j], t, id) => d[t][id] = txs[j][t][id]
                /\ (\A k \in 1..j : ~Written(txs[k], t, id))
                     => d[t][id] = Drained[t][id]
<1> DEFINE L == Len(queue)
           N == Len(txs)
           C == Committed'
<1>1. L \in Nat /\ N \in Nat /\ IsDatabase(Drained)
    BY SequenceLength, DrainedTyped DEF StateTyped, Typed
<1>2. /\ Typed' /\ Len(queue') = L + N
      /\ \A k \in 1..N : queue'[L + k] = txs[k]
      /\ C[L] = Drained
  <2>1. L \in 0..L /\ \A k \in 0..L : C[k] = Committed[k]
      BY <1>1 DEF Queued
  <2> QED
      BY <2>1 DEF Queued, Drained
<1>3. \A k \in 0..(L + N) : IsDatabase(C[k])
  <2>1. (Typed => \A n \in 0..Len(queue) : IsDatabase(Committed[n]))'
      BY CommittedTyped, PTL
  <2> QED
      BY <1>2, <2>1
<1>4. \A n \in 1..(L + N) : C[n] = Apply(C[n - 1], queue'[n])
  <2>1. (IsSequence(queue) =>
           /\ Committed[0] = db
           /\ \A n \in 1..Len(queue) :
                Committed[n] = Apply(Committed[n - 1], queue[n]))'
      BY CommittedIs, PTL
  <2> QED
      BY <1>2, <2>1 DEF Typed
<1>5. \A k \in L..(L + N), t \in Tables : \A id \in DOMAIN Drained[t] :
         C[k][t][id] \in {Drained[t][id], Drained'[t][id]}
    BY DEF Queued
<1> HIDE DEF L, N, C
<1>6. ASSUME NEW k \in 1..N, NEW t \in Tables, NEW id \in DOMAIN Drained[t]
      PROVE  C[L + k][t][id] = IF Written(txs[k], t, id) THEN txs[k][t][id]
                               ELSE C[L + (k - 1)][t][id]
  <2>1. /\ L + k \in 1..(L + N) /\ (L + k) - 1 = L + (k - 1)
        /\ L + (k - 1) \in 0..(L + N)
      BY <1>1
  <2>2. C[L + k] = Apply(C[L + (k - 1)], txs[k])
      BY <1>2, <1>4, <2>1
  <2>3. IsDatabase(C[L + (k - 1)])
      BY <1>3, <2>1
  <2>4. t \in DOMAIN C[L + (k - 1)] /\ DOMAIN C[L + (k - 1)][t] = DOMAIN Drained[t]
      BY <1>1, <2>3 DEF IsDatabase, Tables
  <2> QED
      BY <2>2, <2>4, Applied
<1>7. ASSUME NEW t \in Tables, NEW id \in DOMAIN Drained[t],
             \A k \in 1..j : ~Written(txs[k], t, id),
             C[L + j][t][id] # Drained[t][id]
      PROVE  FALSE
  <2> DEFINE T == {k \in 0..j : C[L + k][t][id] # Drained[t][id]}
  <2>1. j \in Nat /\ j \in T /\ T \subseteq 0..j /\ \A k \in 0..j : k <= N
      BY <1>1, <1>7 DEF N
  <2>2. PICK m \in T : m \in 0..j /\ \A k \in 0..j : k < m => k \notin T
      <3> HIDE DEF T
      <3> QED BY <2>1, FirstOf
  <2>3. m # 0
      BY <1>1, <1>2, <2>2
  <2>4. m \in 1..j /\ m - 1 \in 0..j /\ m - 1 < m /\ m \in 1..N
      BY <1>1, <2>1, <2>2, <2>3
  <2>5. C[L + (m - 1)][t][id] = Drained[t][id]
      BY <2>2, <2>4
  <2>6. C[L + m][t][id] = Drained[t][id]
      BY <1>6, <1>7, <2>4, <2>5
  <2> QED
      BY <2>2, <2>6
<1>8. L + j \in L..(L + N) /\ L + j \in 0..(L + N) /\ j \in 1..N
    BY <1>1 DEF N
<1>9. IsDatabase(C[L + j])
    BY <1>3, <1>8
<1>10. \A t \in Tables : \A id \in DOMAIN Drained[t] :
          /\ C[L + j][t][id] \in {Drained[t][id], Drained'[t][id]}
          /\ Written(txs[j], t, id) => C[L + j][t][id] = txs[j][t][id]
          /\ (\A k \in 1..j : ~Written(txs[k], t, id))
               => C[L + j][t][id] = Drained[t][id]
    BY <1>5, <1>6, <1>7, <1>8
<1> QED
    BY <1>9, <1>10 DEF L, C

\* With some of the transactions committed, and not all, no gold and no item of
\* before is lost.
Halfway(txs) ==
    \A j \in 1..Len(txs) : j < Len(txs) =>
        LET d == Committed'[Len(queue) + j] IN
        /\ GoldIn(d) + Returned(txs[j + 1]) >= GoldIn(Drained)
        /\ \A i \in Item : ~Nowhere(Drained, i) =>
              ~Nowhere(d, i) \/ Carried(queue', Len(queue) + j, i)

\* A step that delays these and moves gold from where it was to where it is, or
\* spends it.
GoldStep(txs) ==
    /\ Len(txs) \in Nat /\ Queued(txs) /\ Halfway(txs) /\ UnbidIsFree'
    /\ spent' \in Int /\ spent' >= spent /\ Gone \subseteq Gone'
    /\ GoldIn(Drained') + spent' = GoldIn(Drained) + spent

\* Such a step loses nothing.
LEMMA GoldMoved ==
    ASSUME EconomyInv, EconomyInv', CrashInv, NEW txs, GoldStep(txs)
    PROVE  CrashInv'
<1> DEFINE L == Len(queue)
           N == Len(txs)
<1>1. L \in Nat /\ N \in Nat /\ IsDatabase(Drained) /\ IsDatabase(Drained')
    BY SequenceLength, DrainedTyped, AddedTyped
       DEF EconomyInv, StateTyped, Typed, GoldStep
<1>2. /\ Typed' /\ Len(queue') = L + N
      /\ \A k \in 1..L : queue'[k] = queue[k]
      /\ \A k \in 1..N : queue'[L + k] = txs[k]
      /\ \A k \in 0..L : Committed'[k] = Committed[k]
    BY DEF GoldStep, Queued
<1>3. /\ \A k \in 1..(L + N) : IsTransaction(queue'[k])
      /\ \A k \in 0..(L + N) : IsDatabase(Committed'[k])
  <2>1. (Typed => \A n \in 0..Len(queue) : IsDatabase(Committed[n]))'
      BY CommittedTyped, PTL
  <2> QED
      BY <1>2, <2>1 DEF Typed
<1>4. \A k \in 1..(L + N) : Returned(queue'[k]) \in Nat
    BY <1>3, ReturnedIs
<1>5. /\ spent \in Int /\ spent' \in Int /\ spent' >= spent
      /\ GoldIn(Drained) \in Int /\ GoldIn(Drained') \in Int /\ AllGold \in Int
      /\ GoldIn(Drained) + spent = AllGold
      /\ GoldIn(Drained') + spent' = AllGold
      /\ \A k \in 0..(L + N) : GoldIn(Committed'[k]) \in Int
    BY <1>1, <1>3, AllGoldIs, GoldIsInt DEF CrashInv, GoldStep, GoldConserved
<1>6. \A k \in 0..(L + N) : ReturnedAfter(k)' =
         IF k < L + N THEN Returned(queue'[k + 1]) ELSE 0
    BY <1>2 DEF ReturnedAfter
<1>7. /\ Drained = Committed[L] /\ Drained' = Committed'[L + N]
    BY <1>2 DEF Drained
<1> HIDE DEF L, N
<1>8. \A k \in 0..(L + N) : k < L \/ k = L \/ k = L + N
                             \/ \E j \in 1..N : j < N /\ k = L + j
  <2> SUFFICES ASSUME NEW k \in 0..(L + N), k > L, k < L + N
               PROVE  \E j \in 1..N : j < N /\ k = L + j
      BY <1>1
  <2>1. k - L \in 1..N /\ k - L < N /\ k = L + (k - L)
      BY <1>1
  <2> QED
      BY <2>1
<1>9. ASSUME NEW k \in 0..(L + N)
      PROVE  GoldIn(Committed'[k]) + spent' + ReturnedAfter(k)' >= AllGold
  <2>1. ReturnedAfter(k)' \in Nat
    <3>1. k < L + N => k + 1 \in 1..(L + N)
        BY <1>1
    <3> QED
        BY <1>4, <1>6, <3>1
  <2>2. CASE k < L
    <3>1. k \in 0..L /\ k + 1 \in 1..L /\ k < L + N
        BY <1>1, <2>2
    <3>2. ReturnedAfter(k)' = ReturnedAfter(k)
        BY <1>2, <1>6, <2>2, <3>1 DEF ReturnedAfter, L
    <3>3. GoldIn(Committed[k]) + spent + ReturnedAfter(k) >= AllGold
        BY <3>1 DEF CrashInv, GoldOnTheWay, L
    <3>4. Committed'[k] = Committed[k]
        BY <1>2, <3>1
    <3> QED
        BY <1>5, <2>1, <3>2, <3>3, <3>4
  <2>3. CASE k = L
    <3>1. Committed'[k] = Drained
        BY <1>1, <1>2, <1>7, <2>3
    <3> QED
        BY <1>5, <2>1, <3>1
  <2>4. CASE k = L + N
      BY <1>5, <1>7, <2>1, <2>4
  <2>5. ASSUME NEW j \in 1..N, j < N, k = L + j
        PROVE  GoldIn(Committed'[k]) + spent' + ReturnedAfter(k)' >= AllGold
    <3>1. k < L + N /\ k + 1 = L + (j + 1) /\ j + 1 \in 1..N
        BY <1>1, <2>5
    <3>2. ReturnedAfter(k)' = Returned(txs[j + 1])
        BY <1>2, <1>6, <3>1
    <3>3. GoldIn(Committed'[k]) + Returned(txs[j + 1]) >= GoldIn(Drained)
        BY <2>5 DEF GoldStep, Halfway, L, N
    <3> QED
        BY <1>5, <2>1, <3>2, <3>3
  <2> QED
      BY <1>8, <2>2, <2>3, <2>4, <2>5
<1>10. GoldOnTheWay'
    BY <1>2, <1>9 DEF GoldOnTheWay
<1>11. ASSUME NEW k \in 0..L, NEW i, Carried(queue, k, i)
       PROVE  Carried(queue', k, i)
  <2>1. PICK j \in 1..L :
          /\ k < j /\ Carries(queue[j], i)
          /\ \A x \in 1..L : k < x /\ x < j => DOMAIN queue[x] = {"inv"}
      BY <1>11 DEF Carried, L
  <2>2. j \in 1..(L + N) /\ Carries(queue'[j], i)
      BY <1>1, <1>2, <2>1
  <2>3. ASSUME NEW x \in 1..(L + N), k < x, x < j
        PROVE  DOMAIN queue'[x] = {"inv"}
    <3>1. x \in 1..L
        BY <1>1, <2>1, <2>3
    <3> QED
        BY <1>2, <2>1, <2>3, <3>1
  <2> QED
      BY <1>2, <2>1, <2>2, <2>3 DEF Carried
<1>12. ASSUME GmLogTrade = TRUE, NEW k \in 0..(L + N), NEW i \in Item \ Gone'
       PROVE  ~Nowhere(Committed'[k], i) \/ Carried(queue', k, i)
  <2>1. i \in Item \ Gone
      BY <1>12 DEF GoldStep
  <2>2. ~Nowhere(Drained, i) /\ ~Nowhere(Drained', i)
      BY <1>12, <2>1 DEF EconomyInv, ItemsPlaced, NoItemLost
  <2>3. CASE k < L
    <3>1. k \in 0..L
        BY <1>1, <2>3
    <3>2. ~Nowhere(Committed[k], i) \/ Carried(queue, k, i)
        BY <1>12, <2>1, <3>1 DEF CrashInv, ItemsOnTheWay, L
    <3> QED
        BY <1>2, <1>11, <3>1, <3>2
  <2>4. CASE k = L
    <3>1. Committed'[k] = Drained
        BY <1>1, <1>2, <1>7, <2>4
    <3> QED
        BY <2>2, <3>1
  <2>5. CASE k = L + N
      BY <1>7, <2>2, <2>5
  <2>6. ASSUME NEW j \in 1..N, j < N, k = L + j
        PROVE  ~Nowhere(Committed'[k], i) \/ Carried(queue', k, i)
      BY <2>2, <2>6 DEF GoldStep, Halfway, L, N
  <2> QED
      BY <1>8, <2>3, <2>4, <2>5, <2>6
<1>13. GmLogTrade = TRUE => ItemsOnTheWay'
    BY <1>2, <1>12 DEF ItemsOnTheWay
<1>14. GoldConserved' /\ UnbidIsFree'
    BY <1>5 DEF GoldConserved, GoldStep
<1> QED
    BY <1>5, <1>10, <1>13, <1>14 DEF CrashInv

\* Rows of mails are added and nothing else changes.
OnlyAdded(d, e) ==
    /\ \A c \in Character : e.gold[c] = d.gold[c]
    /\ \A i \in Item : e.inv[i] = d.inv[i]
    /\ \A a \in AuctionId : e.auction[a] = d.auction[a]
    /\ \A m \in MailId : e.mail[m] = d.mail[m] \/ d.mail[m] = NULL

\* Where rows are only added, nothing is lost half way.
LEMMA AddedIsKept ==
    ASSUME NEW d, NEW e, IsDatabase(d), IsDatabase(e), OnlyAdded(d, e)
    PROVE  /\ GoldIn(d) \in Int /\ GoldIn(e) \in Int /\ GoldIn(e) >= GoldIn(d)
           /\ \A i \in Item : ~Nowhere(d, i) => ~Nowhere(e, i)
<1>1. GoldIn(d) \in Int /\ GoldIn(e) \in Int /\ GoldIn(e) >= GoldIn(d)
    BY GoldOnlyAdded DEF OnlyAdded
<1>2. ASSUME NEW i \in Item, Nowhere(e, i) PROVE Nowhere(d, i)
  <2>1. \A m \in MailId : InMail(d, m, i) => InMail(e, m, i)
      BY DEF OnlyAdded, InMail
  <2>2. \A a \in AuctionId : InAuction(d, a, i) => InAuction(e, a, i)
      BY DEF OnlyAdded, InAuction
  <2> QED
      BY <1>2, <2>1, <2>2 DEF OnlyAdded, Nowhere
<1> QED
    BY <1>1, <1>2

\* So it is when all but the last of the transactions only insert mails.
LEMMA InsertsAreHalfway ==
    ASSUME EconomyInv, NEW txs, Len(txs) \in Nat, Queued(txs), InsertsFirst(txs)
    PROVE  Halfway(txs)
<1> DEFINE L == Len(queue)
<1> SUFFICES ASSUME NEW j \in 1..Len(txs), j < Len(txs)
             PROVE  LET d == Committed'[L + j] IN
                    /\ GoldIn(d) + Returned(txs[j + 1]) >= GoldIn(Drained)
                    /\ \A i \in Item : ~Nowhere(Drained, i) => ~Nowhere(d, i)
    BY DEF Halfway
<1> DEFINE d == Committed'[L + j]
<1>1. IsDatabase(Drained) /\ StateTyped
    BY DrainedTyped DEF EconomyInv
<1>2. /\ IsDatabase(d)
      /\ \A t \in Tables : \A id \in DOMAIN Drained[t] :
           (\A k \in 1..j : ~Written(txs[k], t, id)) => d[t][id] = Drained[t][id]
    BY <1>1, Midway
<1> HIDE DEF d, L
<1>3. \A k \in 1..j : k \in 1..Len(txs) /\ k < Len(txs)
    OBVIOUS
<1>4. ASSUME NEW k \in 1..j
      PROVE  \A t, id : Written(txs[k], t, id) => t = "mail" /\ id \in FreshMails
    BY <1>3 DEF InsertsFirst
<1>5. /\ Tables = {"gold", "inv", "mail", "auction"}
      /\ DOMAIN Drained["gold"] = Character /\ DOMAIN Drained["inv"] = Item
      /\ DOMAIN Drained["mail"] = MailId
      /\ DOMAIN Drained["auction"] = AuctionId
    BY <1>1 DEF IsDatabase, Tables
<1>6. /\ \A k \in 1..j : \A id : ~Written(txs[k], "gold", id)
      /\ \A k \in 1..j : \A id : ~Written(txs[k], "inv", id)
      /\ \A k \in 1..j : \A id : ~Written(txs[k], "auction", id)
  <2> SUFFICES ASSUME NEW k \in 1..j
               PROVE  /\ \A id : ~Written(txs[k], "gold", id)
                      /\ \A id : ~Written(txs[k], "inv", id)
                      /\ \A id : ~Written(txs[k], "auction", id)
      OBVIOUS
  <2>1. \A t, id : Written(txs[k], t, id) => t = "mail" /\ id \in FreshMails
      BY <1>4
  <2>2. \A id : ~Written(txs[k], "gold", id)
      BY <2>1
  <2>3. \A id : ~Written(txs[k], "inv", id)
      BY <2>1
  <2>4. \A id : ~Written(txs[k], "auction", id)
      BY <2>1
  <2> QED
      BY <2>2, <2>3, <2>4
<1>7. ASSUME NEW m \in MailId, Drained.mail[m] # NULL
      PROVE  d.mail[m] = Drained.mail[m]
  <2>1. m \notin FreshMails
      BY <1>1, <1>7, FreshIs
  <2>2. ASSUME NEW k \in 1..j PROVE ~Written(txs[k], "mail", m)
    <3>1. \A t, id : Written(txs[k], t, id) => t = "mail" /\ id \in FreshMails
        BY <1>4
    <3> QED
        BY <2>1, <3>1
  <2> QED
      BY <1>2, <1>5, <2>2
<1>8. OnlyAdded(Drained, d)
    BY <1>2, <1>5, <1>6, <1>7 DEF OnlyAdded
<1>9. /\ GoldIn(Drained) \in Int /\ GoldIn(d) \in Int /\ GoldIn(d) >= GoldIn(Drained)
      /\ \A i \in Item : ~Nowhere(Drained, i) => ~Nowhere(d, i)
    BY <1>1, <1>2, <1>8, AddedIsKept
<1>10. Returned(txs[j + 1]) \in Nat
  <2>1. /\ j + 1 \in 1..Len(txs) /\ Len(queue) \in Nat
        /\ Len(queue) + (j + 1) \in 1..(Len(queue) + Len(txs))
      BY <1>1, SequenceLength DEF StateTyped, Typed
  <2>2. IsTransaction(queue'[Len(queue) + (j + 1)])
      BY <2>1 DEF Queued, Typed
  <2>3. queue'[Len(queue) + (j + 1)] = txs[j + 1]
      BY <2>1 DEF Queued
  <2> QED
      BY <2>2, <2>3, ReturnedIs
<1>11. GoldIn(d) + Returned(txs[j + 1]) >= GoldIn(Drained)
    BY <1>9, <1>10
<1> QED
    BY <1>9, <1>11 DEF d

----------------------------------------------------------------------------
(* The gold that a step moves.                                             *)

\* Two parts of a sum.
LEMMA TotalOfParts ==
    ASSUME NEW S, IsFiniteSet(S), NEW f \in [S -> Int], NEW K \in SUBSET S,
           NEW J \in SUBSET S, K \cap J = {}
    PROVE  /\ Total(On(f, K)) \in Int /\ Total(On(f, J)) \in Int
           /\ Total(On(f, K \cup J)) = Total(On(f, K)) + Total(On(f, J))
<1> DEFINE T == K \cup J
           g == On(f, T)
<1>1. T \in SUBSET S /\ IsFiniteSet(T) /\ K \in SUBSET T /\ T \ K = J
    BY FS_Subset
<1>2. g \in [T -> Int] /\ On(g, K) = On(f, K) /\ On(g, J) = On(f, J)
    BY <1>1 DEF On
<1> HIDE DEF g, T
<1>3. Total(g) = Total(On(g, K)) + Total(On(g, T \ K))
    BY <1>1, <1>2, TotalParts
<1>4. Total(On(f, K)) \in Int /\ Total(On(f, J)) \in Int
    BY TotalSteps
<1>5. Total(g) = Total(On(f, K)) + Total(On(f, J))
    BY <1>1, <1>2, <1>3
<1> QED
    BY <1>4, <1>5 DEF g, T

\* Parts of a sum that have no element, one, or only zeros.
LEMMA TotalOfFew ==
    ASSUME NEW S, IsFiniteSet(S), NEW f \in [S -> Int]
    PROVE  /\ Total(On(f, {})) = 0
           /\ \A x \in S : Total(On(f, {x})) = f[x]
           /\ \A K \in SUBSET S :
                (\A x \in K : f[x] = 0) => Total(On(f, K)) = 0
<1>1. Total(On(f, {})) = 0
    BY TotalSteps
<1>2. ASSUME NEW x \in S PROVE Total(On(f, {x})) = f[x]
  <2>1. On(f, {x}) \in [{x} -> Int] /\ On(f, {x})[x] = f[x]
      BY DEF On
  <2> QED
      BY <2>1, TotalFew
<1>3. ASSUME NEW K \in SUBSET S, \A x \in K : f[x] = 0
      PROVE  Total(On(f, K)) = 0
  <2> DEFINE g == On(f, K)
  <2>1. /\ IsFiniteSet(K) /\ g \in [K -> Int] /\ {} \in SUBSET K
        /\ \A x \in K \ {} : g[x] = 0
      BY <1>3, FS_Subset DEF On
  <2> HIDE DEF g
  <2>2. Total(g) = Total(On(g, {})) /\ Total(On(g, {})) = 0
      BY <2>1, TotalZeros, TotalSteps
  <2> QED
      BY <2>2 DEF g
<1> QED
    BY <1>1, <1>2, <1>3

\* The gold that the queue leaves in a row of each kind.
LEMMA DrainedGold ==
    ASSUME EconomyInv
    PROVE  /\ IsDatabase(Drained) /\ IsFiniteSet(MailId)
           /\ MailGoldOf(Drained) \in [MailId -> Int]
           /\ \A m \in MailId :
                MailGoldOf(Drained)[m] = InMailRow(Drained.mail[m])
           /\ \A c \in online : Drained.gold[c] = money[c]
           /\ \A a \in AuctionId : Drained.auction[a] = auctions[a]
<1>1. IsDatabase(Drained)
    BY DrainedTyped DEF EconomyInv
<1>2. MailGoldOf(Drained) \in [MailId -> Nat]
    BY <1>1, GoldInIs
<1>3. MailGoldOf(Drained) \in [MailId -> Int]
    BY <1>2
<1> QED
    BY <1>1, <1>3, CharacterDBAssumption
       DEF CharacterDBAssumption, MailGoldOf, EconomyInv, SavedAsMade

\* The same after a step.
LEMMA DrainedGoldNext ==
    ASSUME EconomyInv'
    PROVE  /\ IsDatabase(Drained')
           /\ MailGoldOf(Drained') \in [MailId -> Int]
           /\ \A m \in MailId :
                MailGoldOf(Drained')[m] = InMailRow(Drained'.mail[m])
           /\ \A c \in online' : Drained'.gold[c] = money'[c]
           /\ \A a \in AuctionId : Drained'.auction[a] = auctions'[a]
<1>1. (StateTyped => IsDatabase(Drained))'
    BY DrainedTyped, PTL
<1>2. IsDatabase(Drained')
    BY <1>1 DEF EconomyInv
<1>3. MailGoldOf(Drained') \in [MailId -> Nat]
    BY <1>2, GoldInIs
<1>4. MailGoldOf(Drained') \in [MailId -> Int]
    BY <1>3
<1> QED
    BY <1>2, <1>4 DEF MailGoldOf, EconomyInv, SavedAsMade

\* The gold of deleted mails is spent.
LEMMA GivenUpGold ==
    ASSUME EconomyInv, CrashInv, NEW c \in Character, NEW ids,
           ids # {} => mailbox[c] # NULL /\ ids \subseteq DOMAIN mailbox[c],
           GiveUp(c, ids), astray \subseteq astray'
    PROVE  /\ ids \subseteq MailId /\ Gone \subseteq Gone'
           /\ spent \in Int /\ spent' \in Int /\ spent' >= spent
           /\ Total(On(MailGoldOf(Drained), ids)) \in Int
           /\ spent' = spent + Total(On(MailGoldOf(Drained), ids))
<1> DEFINE f == MailGoldOf(Drained)
<1>1. /\ f \in [MailId -> Int] /\ IsFiniteSet(MailId)
      /\ \A m \in MailId : f[m] = InMailRow(Drained.mail[m])
    BY DrainedGold
<1>2. \A m \in ids : /\ m \in MailId /\ mailbox[c][m] \in MailRow
                     /\ f[m] = mailbox[c][m].gold
    BY <1>1, InBox DEF InMailRow
<1> HIDE DEF f
<1>3. [m \in ids |-> mailbox[c][m].gold] = On(f, ids)
    BY <1>2 DEF On
<1>4. IsFiniteSet(ids)
    BY <1>1, <1>2, FS_Subset
<1>5. \A m \in ids : f[m] \in Nat
    BY <1>2 DEF MailRow
<1>6. On(f, ids) \in [ids -> Nat]
    BY <1>5 DEF On
<1>7. Total(On(f, ids)) \in Nat
    BY <1>4, <1>6, TotalNat
<1>8. spent' = spent + Total(On(f, ids)) /\ Gone \subseteq Gone'
    BY <1>3 DEF GiveUp, Gone
<1>9. spent \in Int
    BY DEF CrashInv
<1> QED
    BY <1>2, <1>7, <1>8, <1>9 DEF f

\* A step that changes the gold of c and these mails.
LEMMA GoldOfMails ==
    ASSUME EconomyInv, EconomyInv', NEW c \in Character, NEW M \in SUBSET MailId,
           \A x \in Character \ {c} : Drained'.gold[x] = Drained.gold[x],
           \A m \in MailId \ M : Drained'.mail[m] = Drained.mail[m],
           \A a \in AuctionId : Drained'.auction[a] = Drained.auction[a]
    PROVE  /\ GoldIn(Drained) \in Int /\ GoldIn(Drained') \in Int
           /\ Drained'.gold[c] \in Int /\ Drained.gold[c] \in Int
           /\ Total(On(MailGoldOf(Drained'), M)) \in Int
           /\ Total(On(MailGoldOf(Drained), M)) \in Int
           /\ GoldIn(Drained') - GoldIn(Drained) =
                 (Drained'.gold[c] - Drained.gold[c])
                   + (Total(On(MailGoldOf(Drained'), M))
                        - Total(On(MailGoldOf(Drained), M)))
<1> DEFINE d == Drained
           e == Drained'
           G == {c}
           A == {}
<1>1. IsDatabase(d) /\ IsDatabase(e)
    BY DrainedGold, DrainedGoldNext
<1>2. /\ d.gold \in [Character -> Int] /\ e.gold \in [Character -> Int]
      /\ HeldGoldOf(d) \in [AuctionId -> Nat]
      /\ HeldGoldOf(e) \in [AuctionId -> Nat]
      /\ IsFiniteSet(Character) /\ IsFiniteSet(AuctionId)
    BY <1>1, GoldInIs, CharacterDBAssumption DEF CharacterDBAssumption
<1>3. /\ G \in SUBSET Character /\ A \in SUBSET AuctionId
      /\ \A x \in Character \ G : e.gold[x] = d.gold[x]
      /\ \A a \in AuctionId \ A : e.auction[a] = d.auction[a]
      /\ \A m \in MailId \ M : e.mail[m] = d.mail[m]
    OBVIOUS
<1>4. /\ Total(On(d.gold, G)) = d.gold[c] /\ Total(On(e.gold, G)) = e.gold[c]
    BY <1>2, TotalOfFew
<1>5. On(HeldGoldOf(d), A) = On(HeldGoldOf(e), A)
    BY DEF On
<1>6. d.gold[c] \in Int /\ e.gold[c] \in Int
    BY <1>2
<1> HIDE DEF G, A, d, e
<1>7. /\ GoldIn(d) \in Int /\ GoldIn(e) \in Int
      /\ \A f \in {MailGoldOf(d), MailGoldOf(e)} : Total(On(f, M)) \in Int
      /\ \A f \in {HeldGoldOf(d), HeldGoldOf(e)} : Total(On(f, A)) \in Int
      /\ GoldIn(e) - GoldIn(d) =
           (Total(On(e.gold, G)) - Total(On(d.gold, G)))
           + (Total(On(MailGoldOf(e), M)) - Total(On(MailGoldOf(d), M)))
           + (Total(On(HeldGoldOf(e), A)) - Total(On(HeldGoldOf(d), A)))
    BY <1>1, <1>3, GoldShift
<1>8. /\ Total(On(MailGoldOf(d), M)) \in Int /\ Total(On(MailGoldOf(e), M)) \in Int
      /\ Total(On(HeldGoldOf(d), A)) \in Int
    BY <1>7
<1>9. GoldIn(e) - GoldIn(d) = (e.gold[c] - d.gold[c])
           + (Total(On(MailGoldOf(e), M)) - Total(On(MailGoldOf(d), M)))
    BY <1>4, <1>5, <1>6, <1>7, <1>8
<1> QED
    BY <1>6, <1>7, <1>8, <1>9 DEF d, e

----------------------------------------------------------------------------
(* The mail handlers.                                                      *)

\* The gold in the row of a mail.
LEMMA GoldOfRow ==
    ASSUME NEW row \in MailRow PROVE InMailRow(Row(row)) = row.gold
<1>1. row.gold \in Nat
    BY DEF MailRow
<1> QED
    BY <1>1, NullIs DEF Row, Empty, InMailRow

\* Gold or an item is taken from mails, and what was asked for it is paid.
LEMMA TakeMovesGold ==
    ASSUME EconomyInv, EconomyInv', CrashInv, NEW c \in online,
           mailbox[c] # NULL, NEW rows,
           DOMAIN rows \subseteq DOMAIN mailbox[c] \ deletedMails,
           NEW taken, NEW strays, NEW left \in Int, NEW txs, NEW new,
           TakeStep(c, rows, taken, strays, left, txs, new),
           left + Total(On(MailGoldOf(Drained'), DOMAIN rows))
                + Total(On(MailGoldOf(Drained'), new))
             = money[c] + Total(On(MailGoldOf(Drained), DOMAIN rows))
    PROVE  CrashInv'
<1> DEFINE D == ToDelete(c)
           R == DOMAIN rows
           K == R \cup D
           M == K \cup new
           f == MailGoldOf(Drained)
           g == MailGoldOf(Drained')
<1>1. /\ c \in Character /\ D \subseteq DOMAIN mailbox[c] /\ R \cap D = {}
    BY DEF EconomyInv, StateTyped, ToDelete
<1>2. \A k \in DOMAIN mailbox[c] :
          /\ k \in MailId /\ mailbox[c][k] \in MailRow
          /\ Drained.mail[k] = mailbox[c][k] /\ Drained.mail[k] # NULL
    BY <1>1, InBox
<1>3. \A n \in new : n \in MailId /\ Drained.mail[n] = NULL
    BY FreshIs DEF TakeStep, EconomyInv
<1>4. /\ f \in [MailId -> Int] /\ g \in [MailId -> Int] /\ IsFiniteSet(MailId)
      /\ \A k \in MailId : f[k] = InMailRow(Drained.mail[k])
      /\ \A k \in MailId : g[k] = InMailRow(Drained'.mail[k])
      /\ Drained.gold[c] = money[c]
    BY DrainedGold, DrainedGoldNext
<1>5. /\ R \in SUBSET MailId /\ D \in SUBSET MailId /\ new \in SUBSET MailId
      /\ K \in SUBSET MailId /\ M \in SUBSET MailId
      /\ K \cap new = {}
    BY <1>1, <1>2, <1>3
<1>6. /\ Drained'.gold[c] = left
      /\ \A x \in Character \ {c} : Drained'.gold[x] = Drained.gold[x]
      /\ \A k \in MailId \ M : Drained'.mail[k] = Drained.mail[k]
      /\ \A a \in AuctionId : Drained'.auction[a] = Drained.auction[a]
      /\ \A k \in D : Drained'.mail[k] = NULL
    BY <1>1, <1>5 DEF TakeStep
<1>7. /\ \A k \in new : f[k] = 0
      /\ \A k \in D : g[k] = 0
    BY <1>3, <1>4, <1>5, <1>6 DEF InMailRow
<1>8. /\ D \subseteq MailId /\ Gone \subseteq Gone'
      /\ spent \in Int /\ spent' \in Int /\ spent' >= spent
      /\ Total(On(f, D)) \in Int /\ spent' = spent + Total(On(f, D))
  <2>1. GiveUp(c, D) /\ astray \subseteq astray'
      BY DEF TakeStep
  <2> QED
      BY <1>1, <2>1, GivenUpGold
<1>9. /\ GoldIn(Drained) \in Int /\ GoldIn(Drained') \in Int
      /\ Drained'.gold[c] \in Int /\ Drained.gold[c] \in Int
      /\ Total(On(g, M)) \in Int /\ Total(On(f, M)) \in Int
      /\ GoldIn(Drained') - GoldIn(Drained) =
           (Drained'.gold[c] - Drained.gold[c])
             + (Total(On(g, M)) - Total(On(f, M)))
  <2> HIDE DEF M
  <2> QED
      BY <1>1, <1>5, <1>6, GoldOfMails
<1> DEFINE before == Total(On(f, R))
           after == Total(On(g, R))
           sent == Total(On(g, new))
<1>10. left + after + sent = money[c] + before
    OBVIOUS
<1> HIDE DEF f, g, D, K, M, R
<1>11. Total(On(f, new)) = 0 /\ Total(On(g, D)) = 0
    BY <1>4, <1>5, <1>7, TotalOfFew
<1>12. /\ Total(On(f, K)) = before + Total(On(f, D))
       /\ Total(On(g, K)) = after + Total(On(g, D))
       /\ before \in Int /\ after \in Int
  <2>1. K = R \cup D
      BY DEF K
  <2>2. /\ IsFiniteSet(MailId) /\ R \in SUBSET MailId /\ D \in SUBSET MailId
        /\ R \cap D = {} /\ f \in [MailId -> Int] /\ g \in [MailId -> Int]
      BY <1>1, <1>4, <1>5
  <2>3. /\ Total(On(f, R \cup D)) = Total(On(f, R)) + Total(On(f, D))
        /\ Total(On(f, R)) \in Int
      BY ONLY <2>2, TotalOfParts
  <2>4. /\ Total(On(g, R \cup D)) = Total(On(g, R)) + Total(On(g, D))
        /\ Total(On(g, R)) \in Int
      BY ONLY <2>2, TotalOfParts
  <2> QED
      BY <2>1, <2>3, <2>4
<1>13. /\ Total(On(f, M)) = Total(On(f, K)) + Total(On(f, new))
       /\ Total(On(g, M)) = Total(On(g, K)) + sent
       /\ sent \in Int
  <2>1. M = K \cup new
      BY DEF M
  <2>2. /\ IsFiniteSet(MailId) /\ K \in SUBSET MailId /\ new \in SUBSET MailId
        /\ K \cap new = {}
      BY <1>4, <1>5
  <2>3. f \in [MailId -> Int] /\ g \in [MailId -> Int]
      BY <1>4
  <2>4. Total(On(f, K \cup new)) = Total(On(f, K)) + Total(On(f, new))
      BY ONLY <2>2, <2>3, TotalOfParts
  <2>5. /\ Total(On(g, K \cup new)) = Total(On(g, K)) + Total(On(g, new))
        /\ Total(On(g, new)) \in Int
      BY ONLY <2>2, <2>3, TotalOfParts
  <2> QED
      BY <2>1, <2>4, <2>5
<1> HIDE DEF before, after, sent
<1>14. GoldIn(Drained') + spent' = GoldIn(Drained) + spent
  <2>1. /\ Total(On(f, M)) = before + Total(On(f, D))
        /\ Total(On(g, M)) = after + sent
      BY <1>8, <1>11, <1>12, <1>13
  <2>2. GoldIn(Drained') - GoldIn(Drained) =
           (left - money[c]) + (Total(On(g, M)) - Total(On(f, M)))
      BY <1>4, <1>6, <1>9
  <2>3. left \in Int /\ money[c] \in Int
      BY <1>4, <1>6, <1>9
  <2>4. after + sent = (money[c] + before) - left
      BY <1>10, <1>12, <1>13, <2>3
  <2>5. GoldIn(Drained') - GoldIn(Drained) =
           (left - money[c])
             + (((money[c] + before) - left) - (before + Total(On(f, D))))
      BY <2>1, <2>2, <2>4
  <2> DEFINE lost == Total(On(f, D))
  <2>6. lost \in Int /\ before \in Int /\ left \in Int /\ money[c] \in Int
      BY <1>8, <1>12, <2>3
  <2>7. spent' = spent + lost /\ spent \in Int
      BY <1>8
  <2> HIDE DEF lost
  <2>8. (left - money[c]) + (((money[c] + before) - left) - (before + lost))
          = 0 - lost
      BY <2>6
  <2>9. GoldIn(Drained') - GoldIn(Drained) = 0 - lost
      BY <2>5, <2>8 DEF lost
  <2> QED
      BY <1>9, <2>6, <2>7, <2>9
<1>15. Halfway(txs)
    BY InsertsAreHalfway DEF TakeStep
<1>16. UnbidIsFree'
    BY DEF TakeStep, CrashInv, UnbidIsFree
<1>17. GoldStep(txs)
    BY <1>8, <1>14, <1>15, <1>16 DEF GoldStep, TakeStep
<1> QED
    BY <1>17, GoldMoved

\* The gold of a mail goes to the one who takes it.
LEMMA TookMoneyMoves ==
    ASSUME EconomyInv, EconomyInv', CrashInv, NEW c \in Character, NEW m,
           TookMoney(c, m)
    PROVE  CrashInv'
<1> DEFINE row == [mailbox[c][m] EXCEPT !.gold = 0]
           rows == OneRow(m, row)
           left == money[c] + mailbox[c][m].gold
           f == MailGoldOf(Drained)
           g == MailGoldOf(Drained')
<1>1. /\ c \in online /\ mailbox[c] # NULL
      /\ m \in DOMAIN mailbox[c] /\ m \notin deletedMails
    BY DEF TookMoney, HasMail
<1>2. PICK txs : TakeStep(c, rows, {}, {}, left, txs, {})
    BY DEF TookMoney
<1>3. /\ mailbox[c][m] \in MailRow /\ money[c] \in Int /\ m \in MailId
      /\ Drained.mail[m] = mailbox[c][m] /\ Drained.mail[m] # NULL
    BY <1>1, InBox DEF EconomyInv, StateTyped
<1>4. row \in MailRow /\ row.gold = 0 /\ left \in Int
      /\ mailbox[c][m].gold \in Int
    BY <1>3 DEF MailRow
<1>5. DOMAIN rows = {m} /\ rows[m] = row
    BY DEF OneRow
<1> HIDE DEF row, rows
<1>6. /\ f \in [MailId -> Int] /\ g \in [MailId -> Int] /\ IsFiniteSet(MailId)
      /\ f[m] = InMailRow(Drained.mail[m])
      /\ g[m] = InMailRow(Drained'.mail[m])
    BY <1>3, DrainedGold, DrainedGoldNext
<1>7. Drained'.mail[m] = Row(row)
    BY <1>2, <1>3, <1>5 DEF TakeStep
<1>8. f[m] = mailbox[c][m].gold /\ g[m] = 0
    BY <1>3, <1>4, <1>6, <1>7, GoldOfRow DEF InMailRow
<1> HIDE DEF f, g
<1>9. /\ Total(On(f, {m})) = mailbox[c][m].gold /\ Total(On(g, {m})) = 0
      /\ Total(On(g, {})) = 0
    BY <1>3, <1>6, <1>8, TotalOfFew
<1>10. left + Total(On(g, DOMAIN rows)) + Total(On(g, {}))
         = money[c] + Total(On(f, DOMAIN rows))
    BY <1>3, <1>4, <1>5, <1>9
<1> HIDE DEF left
<1>11. DOMAIN rows \subseteq DOMAIN mailbox[c] \ deletedMails
    BY <1>1, <1>5
<1> QED
    BY <1>1, <1>2, <1>4, <1>10, <1>11, TakeMovesGold DEF f, g

\* What is asked for the item goes into the mail that pays.
LEMMA TookItemMoves ==
    ASSUME EconomyInv, EconomyInv', CrashInv, NEW c \in Character, NEW m,
           NEW i, TookItem(c, m, i)
    PROVE  CrashInv'
<1> DEFINE asked == Named(c, m).cod
           rows == Taken(c, m, i)
           held == {i} \cap Named(c, m).items
           strays == {i} \ Named(c, m).items
           left == money[c] - asked
           f == MailGoldOf(Drained)
           g == MailGoldOf(Drained')
<1>1. /\ c \in online /\ mailbox[c] # NULL /\ asked \in Nat
      /\ Leaving(c, rows, held, strays)
    BY DEF TookItem
<1>2. PICK txs, new :
        /\ TakeStep(c, rows, held, strays, left, txs, new)
        /\ \/ new = {} /\ asked = 0
           \/ \E n \in new : /\ new = {n} /\ Drained'.mail[n] # NULL
                             /\ Drained'.mail[n].gold = asked
    BY DEF TookItem
<1>3. \A k \in DOMAIN rows : rows[k].gold = mailbox[c][k].gold
  <2>1. \A k \in DOMAIN rows :
          /\ k \in DOMAIN mailbox[c]
          /\ rows[k] = [mailbox[c][k] EXCEPT !.items = @ \ {i},
                          !.cod = IF k = m THEN 0 ELSE @]
      BY DEF Taken
  <2>2. \A k \in DOMAIN mailbox[c] : mailbox[c][k] \in MailRow
      BY <1>1, InBox
  <2> HIDE DEF rows
  <2> QED
      BY <2>1, <2>2 DEF MailRow
<1> HIDE DEF asked, rows, held, strays
<1>4. left \in Int /\ money[c] \in Int
  <2>1. money[c] \in Int
      BY DEF EconomyInv, StateTyped
  <2> QED
      BY <1>1, <2>1
<1>5. /\ f \in [MailId -> Int] /\ g \in [MailId -> Int] /\ IsFiniteSet(MailId)
      /\ \A k \in MailId : f[k] = InMailRow(Drained.mail[k])
      /\ \A k \in MailId : g[k] = InMailRow(Drained'.mail[k])
    BY DrainedGold, DrainedGoldNext
<1>6. Total(On(g, new)) = asked
  <2>1. CASE new = {} /\ asked = 0
    <3> HIDE DEF g
    <3> QED
        BY <1>5, <2>1, TotalOfFew
  <2>2. ASSUME NEW n \in new, new = {n}, Drained'.mail[n] # NULL,
               Drained'.mail[n].gold = asked
        PROVE  Total(On(g, new)) = asked
    <3>1. n \in MailId
        BY <1>2, FreshIs DEF TakeStep, EconomyInv
    <3>2. g[n] = asked
        BY <1>5, <2>2, <3>1 DEF InMailRow
    <3> HIDE DEF g
    <3> QED
        BY <1>5, <2>2, <3>1, <3>2, TotalOfFew
  <2> QED
      BY <1>2, <2>1, <2>2
<1>7. ASSUME NEW k \in DOMAIN rows PROVE k \in MailId /\ g[k] = f[k]
  <2>1. k \in DOMAIN mailbox[c] /\ rows[k] \in MailRow
      BY <1>1 DEF Leaving
  <2>2. /\ k \in MailId
        /\ Drained.mail[k] = mailbox[c][k] /\ Drained.mail[k] # NULL
      BY <1>1, <2>1, InBox
  <2>3. k \notin new
      BY <1>2, <2>2, FreshIs DEF TakeStep, EconomyInv
  <2>4. Drained'.mail[k] = Row(rows[k])
      BY <1>2, <2>2, <2>3 DEF TakeStep
  <2>5. g[k] = rows[k].gold /\ f[k] = mailbox[c][k].gold
      BY <1>5, <2>1, <2>2, <2>4, GoldOfRow DEF InMailRow
  <2> QED
      BY <1>3, <2>2, <2>5
<1>8. On(g, DOMAIN rows) = On(f, DOMAIN rows)
    BY <1>7 DEF On
<1> HIDE DEF f, g
<1>9. Total(On(f, DOMAIN rows)) \in Int
  <2>1. DOMAIN rows \in SUBSET MailId
      BY <1>7
  <2> HIDE DEF rows
  <2> QED
      BY <1>5, <2>1, TotalSteps
<1>10. left + Total(On(g, DOMAIN rows)) + Total(On(g, new))
         = money[c] + Total(On(f, DOMAIN rows))
  <2>1. asked \in Int
      BY <1>1
  <2> QED
      BY <1>4, <1>6, <1>8, <1>9, <2>1
<1> HIDE DEF left
<1>11. DOMAIN rows \subseteq DOMAIN mailbox[c] \ deletedMails
    BY <1>1 DEF Leaving
<1> QED
    BY <1>1, <1>2, <1>4, <1>10, <1>11, TakeMovesGold DEF f, g

\* Where only one mail differs.
LEMMA GoldOfOneMail ==
    ASSUME NEW d, NEW e, IsDatabase(d), IsDatabase(e), NEW m \in MailId,
           \A c \in Character : e.gold[c] = d.gold[c],
           \A k \in MailId \ {m} : e.mail[k] = d.mail[k],
           \A a \in AuctionId : e.auction[a] = d.auction[a]
    PROVE  /\ GoldIn(d) \in Int /\ GoldIn(e) \in Int
           /\ InMailRow(d.mail[m]) \in Nat /\ InMailRow(e.mail[m]) \in Nat
           /\ GoldIn(e) - GoldIn(d) =
                 InMailRow(e.mail[m]) - InMailRow(d.mail[m])
<1> DEFINE f == MailGoldOf(d)
           g == MailGoldOf(e)
<1>1. /\ d.gold \in [Character -> Int] /\ e.gold \in [Character -> Int]
      /\ f \in [MailId -> Nat] /\ g \in [MailId -> Nat]
      /\ HeldGoldOf(d) \in [AuctionId -> Nat]
      /\ GoldIn(d) = Total(d.gold) + Total(f) + Total(HeldGoldOf(d))
      /\ GoldIn(e) = Total(e.gold) + Total(g) + Total(HeldGoldOf(e))
    BY GoldInIs
<1>2. d.gold = e.gold
    BY <1>1
<1>3. HeldGoldOf(d) = HeldGoldOf(e)
    BY DEF HeldGoldOf
<1>4. /\ \A k \in MailId : f[k] = InMailRow(d.mail[k])
      /\ \A k \in MailId : g[k] = InMailRow(e.mail[k])
    BY DEF MailGoldOf
<1>5. \A k \in MailId \ {m} : g[k] = f[k]
    BY <1>4
<1> HIDE DEF f, g
<1>6. /\ IsFiniteSet(Character) /\ IsFiniteSet(MailId) /\ IsFiniteSet(AuctionId)
    BY CharacterDBAssumption DEF CharacterDBAssumption
<1>7. /\ f \in [MailId -> Int] /\ g \in [MailId -> Int] /\ f[m] \in Nat
      /\ g[m] \in Nat /\ {m} \in SUBSET MailId
      /\ HeldGoldOf(d) \in [AuctionId -> Int]
    BY <1>1
<1>8. Total(On(f, {m})) = f[m] /\ Total(On(g, {m})) = g[m]
    BY <1>6, <1>7, TotalOfFew
<1>9. /\ Total(f) \in Int /\ Total(g) \in Int
      /\ Total(g) - Total(f) = Total(On(g, {m})) - Total(On(f, {m}))
    BY ONLY <1>5, <1>6, <1>7, TotalShift
<1>10. Total(d.gold) \in Int /\ Total(HeldGoldOf(d)) \in Int
    BY <1>1, <1>6, <1>7, TotalSteps
<1>11. f[m] = InMailRow(d.mail[m]) /\ g[m] = InMailRow(e.mail[m])
    BY <1>4
<1> QED
    BY <1>1, <1>2, <1>3, <1>7, <1>8, <1>9, <1>10, <1>11

\* A mail that is sent back is in a transaction of its own.
LEMMA ReturnedOf ==
    ASSUME NEW tx, NEW n, NEW mail \in MailRow, Inserts(tx, n, mail),
           mail.returned = TRUE
    PROVE  Returned(tx) = mail.gold
<1> DEFINE S == ReturnedBy(tx)
           f == [m \in S |-> tx.mail[m].gold]
<1>1. /\ DOMAIN tx = {"mail"} /\ DOMAIN tx.mail = {n} /\ tx.mail[n] = mail
    BY DEF Inserts
<1>2. S = {n}
    BY <1>1, NullIs DEF ReturnedBy
<1> HIDE DEF S
<1>3. mail.gold \in Int
    BY DEF MailRow
<1>4. f \in [S -> Int] /\ f[n] = mail.gold
    BY <1>1, <1>2, <1>3
<1> HIDE DEF f
<1>5. Total(f) = mail.gold
    BY <1>2, <1>4, TotalFew
<1> QED
    BY <1>5 DEF Returned, f, S

\* The items of a mail of a player are carried by the transaction that inserts
\* it, if it comes next.
LEMMA InsertCarries ==
    ASSUME NEW q, NEW k, k \in Nat, k + 1 \in 1..Len(q), NEW n,
           NEW mail \in MailRow, Inserts(q[k + 1], n, mail),
           mail.kind = "normal", NEW i \in mail.items
    PROVE  Carried(q, k, i)
<1>1. Carries(q[k + 1], i)
  <2>1. /\ DOMAIN q[k + 1] = {"mail"} /\ DOMAIN q[k + 1].mail = {n}
        /\ q[k + 1].mail[n] = mail
      BY DEF Inserts
  <2> QED
      BY <2>1, NullIs DEF Carries
<1>2. k < k + 1 /\ \A x \in 1..Len(q) : ~(k < x /\ x < k + 1)
    OBVIOUS
<1> QED
    BY <1>1, <1>2 DEF Carried

\* While it is on its way back, its gold and its items are in the transaction
\* that inserts it.
LEMMA ReturnIsHalfway ==
    ASSUME EconomyInv, EconomyInv', NEW c \in Character, mailbox[c] # NULL,
           NEW m \in DOMAIN mailbox[c], NEW txs, Queued(txs), NEW n \in MailId,
           Drained'.mail[n] # NULL,
           DeletesThenInserts(txs, m, n, mailbox[c][m])
    PROVE  Halfway(txs)
<1> DEFINE L == Len(queue)
           d == Committed'[L + 1]
           mail == mailbox[c][m]
           back == Drained'.mail[n]
<1>1. /\ IsDatabase(Drained) /\ StateTyped /\ IsDatabase(Drained')
      /\ L \in Nat /\ Len(txs) = 2 /\ 1 \in 1..2
    BY DrainedGold, DrainedGoldNext, SequenceLength
       DEF EconomyInv, StateTyped, Typed, DeletesThenInserts
<1>2. /\ m \in MailId /\ mail \in MailRow /\ Drained.mail[m] = mail
      /\ mail # NULL
    BY InBox
<1>3. back \in MailRow /\ Inserts(txs[2], n, back)
      /\ back.gold = mail.gold /\ back.items = mail.items
      /\ back.kind = "normal" /\ back.returned = TRUE
    BY <1>1 DEF IsDatabase, DeletesThenInserts
<1>4. Returned(txs[2]) = mail.gold
    BY <1>3, ReturnedOf
<1>5. /\ IsDatabase(d)
      /\ \A t \in Tables : \A id \in DOMAIN Drained[t] :
           ~Written(txs[1], t, id) => d[t][id] = Drained[t][id]
  <2>1. \A k \in 1..1 : k = 1
      OBVIOUS
  <2> DEFINE j == 1
  <2>2. StateTyped /\ Len(txs) \in Nat /\ j \in 1..Len(txs)
      BY <1>1
  <2> HIDE DEF j
  <2>3. /\ IsDatabase(Committed'[Len(queue) + j])
        /\ \A t \in Tables : \A id \in DOMAIN Drained[t] :
             (\A k \in 1..j : ~Written(txs[k], t, id))
               => Committed'[Len(queue) + j][t][id] = Drained[t][id]
      BY <2>2, Midway
  <2> QED
      BY <2>1, <2>3 DEF j
<1>6. \A t, id : Written(txs[1], t, id) => t = "mail" /\ id = m
    BY DEF DeletesThenInserts
<1>7. /\ Tables = {"gold", "inv", "mail", "auction"}
      /\ DOMAIN Drained["gold"] = Character /\ DOMAIN Drained["inv"] = Item
      /\ DOMAIN Drained["mail"] = MailId
      /\ DOMAIN Drained["auction"] = AuctionId
    BY <1>1 DEF IsDatabase, Tables
<1> HIDE DEF d, L, back
<1>8. /\ \A x \in Character : d.gold[x] = Drained.gold[x]
      /\ \A i \in Item : d.inv[i] = Drained.inv[i]
      /\ \A k \in MailId \ {m} : d.mail[k] = Drained.mail[k]
      /\ \A a \in AuctionId : d.auction[a] = Drained.auction[a]
  <2>1. \A id : ~Written(txs[1], "gold", id)
      BY <1>6
  <2>2. \A id : ~Written(txs[1], "inv", id)
      BY <1>6
  <2>3. \A id : ~Written(txs[1], "auction", id)
      BY <1>6
  <2>4. \A id : id # m => ~Written(txs[1], "mail", id)
      BY <1>6
  <2> QED
      BY <1>5, <1>7, <2>1, <2>2, <2>3, <2>4
<1>9. GoldIn(d) + mail.gold >= GoldIn(Drained)
  <2>1. /\ GoldIn(d) \in Int /\ GoldIn(Drained) \in Int
        /\ InMailRow(Drained.mail[m]) \in Nat /\ InMailRow(d.mail[m]) \in Nat
        /\ GoldIn(d) - GoldIn(Drained) =
              InMailRow(d.mail[m]) - InMailRow(Drained.mail[m])
      BY <1>1, <1>2, <1>5, <1>8, GoldOfOneMail
  <2>2. InMailRow(Drained.mail[m]) = mail.gold
      BY <1>2 DEF InMailRow
  <2> HIDE DEF mail
  <2> QED
      BY <2>1, <2>2
<1>10. ASSUME NEW i \in Item, ~Nowhere(Drained, i)
       PROVE  ~Nowhere(d, i) \/ Carried(queue', L + 1, i)
  <2>1. CASE i \in mail.items
    <3>1. /\ Len(queue') = L + 2 /\ queue'[L + 2] = txs[2]
        BY <1>1 DEF Queued, L
    <3>2. L + 1 \in Nat /\ (L + 1) + 1 = L + 2 /\ (L + 1) + 1 \in 1..Len(queue')
        BY <1>1, <3>1
    <3>3. Inserts(queue'[(L + 1) + 1], n, back)
        BY <1>3, <3>1, <3>2
    <3> QED
        BY <1>3, <2>1, <3>2, <3>3, InsertCarries
  <2>2. CASE i \notin mail.items
    <3>1. \A k \in MailId : InMail(Drained, k, i) => InMail(d, k, i)
        BY <1>2, <1>8, <2>2 DEF InMail
    <3>2. \A a \in AuctionId : InAuction(Drained, a, i) => InAuction(d, a, i)
        BY <1>8 DEF InAuction
    <3> QED
        BY <1>8, <1>10, <3>1, <3>2 DEF Nowhere
  <2> QED
      BY <2>1, <2>2
<1>11. ASSUME NEW j \in 1..Len(txs), j < Len(txs)
       PROVE  j = 1 /\ j + 1 = 2
  <2>1. j \in 1..2 /\ j < 2
      BY <1>1, <1>11
  <2> QED
      BY <2>1
<1> HIDE DEF mail
<1> QED
    BY <1>4, <1>9, <1>10, <1>11 DEF Halfway, d, L

\* A mail is sent back, or dropped with what is in it.
LEMMA SentBackMoves ==
    ASSUME EconomyInv, EconomyInv', CrashInv, NEW c \in Character, NEW m,
           SentBack(c, m)
    PROVE  CrashInv'
<1> DEFINE mail == mailbox[c][m]
           f == MailGoldOf(Drained)
           g == MailGoldOf(Drained')
<1>1. /\ mailbox[c] # NULL /\ m \in DOMAIN mailbox[c]
    BY DEF SentBack, HasMail
<1>2. PICK txs, new : ReturnStep(c, m, txs, new)
    BY DEF SentBack
<1>3. /\ m \in MailId /\ mail \in MailRow /\ Drained.mail[m] = mail
      /\ mail # NULL
    BY <1>1, InBox
<1>4. /\ f \in [MailId -> Int] /\ g \in [MailId -> Int] /\ IsFiniteSet(MailId)
      /\ \A k \in MailId : f[k] = InMailRow(Drained.mail[k])
      /\ \A k \in MailId : g[k] = InMailRow(Drained'.mail[k])
    BY DrainedGold, DrainedGoldNext
<1>5. \A n \in new : n \in MailId /\ Drained.mail[n] = NULL
    BY <1>2, FreshIs DEF ReturnStep, EconomyInv
<1>6. m \notin new /\ f[m] = mail.gold /\ f[m] \in Int
    BY <1>3, <1>4, <1>5 DEF InMailRow
<1>7. g[m] = 0
  <2>1. Drained'.mail[m] = NULL
      BY <1>2, <1>3, <1>6 DEF ReturnStep
  <2> QED
      BY <1>3, <1>4, <2>1 DEF InMailRow
<1>8. /\ Len(txs) \in Nat /\ Queued(txs) /\ UnbidIsFree'
      /\ \A x \in Character \ {c} : Drained'.gold[x] = Drained.gold[x]
      /\ Drained'.gold[c] = Drained.gold[c]
      /\ \A k \in MailId \ ({m} \cup new) : Drained'.mail[k] = Drained.mail[k]
      /\ \A a \in AuctionId : Drained'.auction[a] = Drained.auction[a]
    BY <1>2 DEF ReturnStep, CrashInv, UnbidIsFree
<1>9. {m} \cup new \in SUBSET MailId
    BY <1>3, <1>5
<1>10. /\ GoldIn(Drained) \in Int /\ GoldIn(Drained') \in Int
       /\ Drained'.gold[c] \in Int /\ Drained.gold[c] \in Int
       /\ Total(On(g, {m} \cup new)) \in Int /\ Total(On(f, {m} \cup new)) \in Int
       /\ GoldIn(Drained') - GoldIn(Drained) =
            (Drained'.gold[c] - Drained.gold[c])
              + (Total(On(g, {m} \cup new)) - Total(On(f, {m} \cup new)))
    BY <1>8, <1>9, GoldOfMails
<1> HIDE DEF mail, f, g
<1>11. CASE new = {}
  <2>1. Len(txs) = 1 /\ GiveUp(c, {m}) /\ astray \subseteq astray'
      BY <1>2, <1>11 DEF ReturnStep
  <2>2. /\ Gone \subseteq Gone'
        /\ spent \in Int /\ spent' \in Int /\ spent' >= spent
        /\ spent' = spent + Total(On(f, {m}))
      BY <1>1, <2>1, GivenUpGold DEF f
  <2>3. Total(On(f, {m})) = f[m] /\ Total(On(g, {m})) = g[m] /\ {m} \cup new = {m}
      BY <1>3, <1>4, <1>11, TotalOfFew
  <2>4. GoldIn(Drained') - GoldIn(Drained) = 0 - f[m] /\ spent' = spent + f[m]
    <3>1. /\ Total(On(f, {m} \cup new)) = f[m]
          /\ Total(On(g, {m} \cup new)) = 0
        BY <1>7, <2>3
    <3>2. GoldIn(Drained') - GoldIn(Drained) =
            (Drained.gold[c] - Drained.gold[c]) + (0 - f[m])
        BY <1>8, <1>10, <3>1
    <3>3. GoldIn(Drained') - GoldIn(Drained) = 0 - f[m]
        BY <1>6, <1>10, <3>2
    <3>4. spent' = spent + f[m]
        BY <2>2, <2>3
    <3> QED
        BY <3>3, <3>4
  <2>5. GoldIn(Drained') + spent' = GoldIn(Drained) + spent
    <3>1. /\ GoldIn(Drained) \in Int /\ GoldIn(Drained') \in Int
          /\ spent \in Int /\ f[m] \in Int
        BY <1>6, <1>10, <2>2
    <3> QED
        BY ONLY <2>4, <3>1
  <2>6. Halfway(txs)
      BY <1>8, <2>1, OneInserts, InsertsAreHalfway
  <2>7. GoldStep(txs)
      BY <1>8, <2>2, <2>5, <2>6 DEF GoldStep
  <2> QED
      BY <2>7, GoldMoved
<1>12. ASSUME NEW n \in new PROVE CrashInv'
  <2>1. /\ new = {n} /\ Drained'.mail[n] # NULL
        /\ Gone' = Gone
        /\ DeletesThenInserts(txs, m, n, mail)
      BY <1>2, <1>12 DEF ReturnStep, mail
  <2>2. spent' = spent /\ spent \in Int /\ Drained'.mail[n].gold = mail.gold
      BY <2>1 DEF DeletesThenInserts, CrashInv
  <2>3. g[n] = mail.gold /\ f[n] = 0 /\ n \in MailId
      BY <1>4, <1>5, <2>1, <2>2 DEF InMailRow
  <2>4. /\ {m} \in SUBSET MailId /\ new \in SUBSET MailId /\ {m} \cap new = {}
        /\ m \in MailId
      BY <1>3, <1>5, <1>6
  <2>5. /\ Total(On(f, {m})) = f[m] /\ Total(On(f, new)) = f[n]
        /\ Total(On(g, {m})) = g[m] /\ Total(On(g, new)) = g[n]
      BY <1>4, <2>1, <2>3, <2>4, TotalOfFew
  <2>6. Total(On(f, {m} \cup new)) = Total(On(f, {m})) + Total(On(f, new))
      BY <1>4, <2>4, TotalOfParts
  <2>7. Total(On(g, {m} \cup new)) = Total(On(g, {m})) + Total(On(g, new))
      BY <1>4, <2>4, TotalOfParts
  <2>8. GoldIn(Drained') + spent' = GoldIn(Drained) + spent
      BY <1>6, <1>7, <1>8, <1>10, <2>2, <2>3, <2>5, <2>6, <2>7
  <2>9. Halfway(txs)
      BY <1>1, <1>8, <2>1, <2>3, ReturnIsHalfway DEF mail
  <2>10. spent' \in Int /\ spent' >= spent
      BY <2>2
  <2>11. GoldStep(txs)
      BY <1>8, <2>1, <2>8, <2>9, <2>10 DEF GoldStep
  <2> QED
      BY <2>11, GoldMoved
<1> QED
    BY <1>11, <1>12

\* The deleted mails of a character who leaves are spent.
LEMMA LogoutMoves ==
    ASSUME EconomyInv, EconomyInv', CrashInv, NEW c \in Character,
           SavedAndLeft(c)
    PROVE  CrashInv'
<1> DEFINE D == ToDelete(c)
           f == MailGoldOf(Drained)
           g == MailGoldOf(Drained')
<1>1. PICK txs : Len(txs) = 1 /\ Delays(txs, D)
    BY DEF SavedAndLeft
<1>2. D # {} => mailbox[c] # NULL /\ D \subseteq DOMAIN mailbox[c]
    BY DEF ToDelete
<1>3. /\ D \subseteq MailId /\ Gone \subseteq Gone'
      /\ spent \in Int /\ spent' \in Int /\ spent' >= spent
      /\ Total(On(f, D)) \in Int /\ spent' = spent + Total(On(f, D))
  <2>1. GiveUp(c, D) /\ astray \subseteq astray'
      BY DEF SavedAndLeft
  <2> QED
      BY <1>2, <2>1, GivenUpGold
<1>4. /\ g \in [MailId -> Int] /\ IsFiniteSet(MailId)
      /\ \A k \in MailId : g[k] = InMailRow(Drained'.mail[k])
    BY DrainedGold, DrainedGoldNext
<1>5. /\ D \in SUBSET MailId
      /\ \A x \in Character \ {c} : Drained'.gold[x] = Drained.gold[x]
      /\ Drained'.gold[c] = Drained.gold[c]
      /\ \A k \in MailId \ D : Drained'.mail[k] = Drained.mail[k]
      /\ \A a \in AuctionId : Drained'.auction[a] = Drained.auction[a]
  <2>1. \A a \in AuctionId : Drained.auction[a] = auctions[a]
                              /\ Drained'.auction[a] = auctions'[a]
      BY DrainedGold, DrainedGoldNext
  <2> QED
      BY <1>1, <1>3, <2>1 DEF SavedAndLeft, Delays
<1>6. \A k \in D : g[k] = 0
    BY <1>4, <1>5 DEF SavedAndLeft, InMailRow
<1>7. /\ GoldIn(Drained) \in Int /\ GoldIn(Drained') \in Int
      /\ Drained'.gold[c] \in Int /\ Drained.gold[c] \in Int
      /\ GoldIn(Drained') - GoldIn(Drained) =
           (Drained'.gold[c] - Drained.gold[c])
             + (Total(On(g, D)) - Total(On(f, D)))
  <2> HIDE DEF D
  <2> QED
      BY <1>5, GoldOfMails
<1> HIDE DEF D, f, g
<1>8. Total(On(g, D)) = 0
    BY <1>4, <1>5, <1>6, TotalOfFew
<1>9. GoldIn(Drained') + spent' = GoldIn(Drained) + spent
    BY <1>3, <1>5, <1>7, <1>8
<1>10. /\ Len(txs) \in Nat /\ Queued(txs) /\ UnbidIsFree'
    BY <1>1 DEF Delays, SavedAndLeft, CrashInv, UnbidIsFree
<1>11. Halfway(txs)
    BY <1>1, <1>10, OneInserts, InsertsAreHalfway
<1>12. GoldStep(txs)
    BY <1>3, <1>9, <1>10, <1>11 DEF GoldStep
<1> QED
    BY <1>12, GoldMoved

\* While the items of a mail are taken out, one by one, it comes next.
LEMMA SendingIsHalfway ==
    ASSUME EconomyInv, NEW mail \in MailRow, mail.kind = "normal",
           NEW n \in FreshMails, NEW N \in Nat, NEW txs, Len(txs) = N + 2,
           Queued(txs),
           \A k \in 1..N :
              /\ DOMAIN txs[k] = {"inv"}
              /\ \A id : Written(txs[k], "inv", id) => id \in mail.items,
           Inserts(txs[N + 1], n, mail)
    PROVE  Halfway(txs)
<1> DEFINE L == Len(queue)
<1>1. /\ IsDatabase(Drained) /\ StateTyped /\ L \in Nat /\ Len(txs) \in Nat
      /\ n \in MailId /\ Drained.mail[n] = NULL /\ mail # NULL
    BY DrainedGold, SequenceLength, FreshIs, NullIs
       DEF EconomyInv, StateTyped, Typed
<1>2. /\ Tables = {"gold", "inv", "mail", "auction"}
      /\ DOMAIN Drained["gold"] = Character /\ DOMAIN Drained["inv"] = Item
      /\ DOMAIN Drained["mail"] = MailId
      /\ DOMAIN Drained["auction"] = AuctionId
    BY <1>1 DEF IsDatabase, Tables
<1>3. ASSUME NEW k \in 1..N
      PROVE  /\ \A id : ~Written(txs[k], "gold", id)
             /\ \A id : ~Written(txs[k], "mail", id)
             /\ \A id : ~Written(txs[k], "auction", id)
             /\ \A id : Written(txs[k], "inv", id) => id \in mail.items
    BY DEF Written
<1>4. /\ \A id : ~Written(txs[N + 1], "gold", id)
      /\ \A id : ~Written(txs[N + 1], "inv", id)
      /\ \A id : ~Written(txs[N + 1], "auction", id)
      /\ \A id : Written(txs[N + 1], "mail", id) => id = n
      /\ Written(txs[N + 1], "mail", n) /\ txs[N + 1]["mail"][n] = mail
    BY DEF Written, Inserts
<1> SUFFICES ASSUME NEW j \in 1..Len(txs), j < Len(txs)
             PROVE  LET d == Committed'[L + j] IN
                    /\ GoldIn(d) + Returned(txs[j + 1]) >= GoldIn(Drained)
                    /\ \A i \in Item : ~Nowhere(Drained, i) =>
                          ~Nowhere(d, i) \/ Carried(queue', L + j, i)
    BY DEF Halfway
<1> DEFINE d == Committed'[L + j]
<1>5. /\ IsDatabase(d)
      /\ \A t \in Tables : \A id \in DOMAIN Drained[t] :
           /\ Written(txs[j], t, id) => d[t][id] = txs[j][t][id]
           /\ (\A k \in 1..j : ~Written(txs[k], t, id))
                => d[t][id] = Drained[t][id]
  <2>1. StateTyped /\ Len(txs) \in Nat /\ Queued(txs) /\ j \in 1..Len(txs)
      BY <1>1
  <2> QED
      BY ONLY <2>1, Midway DEF d, L
<1> HIDE DEF d, L
<1>6. /\ j \in Nat /\ j <= N + 1
      /\ \A k \in 1..j : k \in 1..N \/ k = N + 1
      /\ j \in 1..N \/ j = N + 1
    OBVIOUS
<1>7. /\ \A k \in 1..j : \A id : ~Written(txs[k], "gold", id)
      /\ \A k \in 1..j : \A id : ~Written(txs[k], "auction", id)
      /\ \A k \in 1..j : \A id : Written(txs[k], "inv", id) => id \in mail.items
      /\ \A k \in 1..j : \A id : Written(txs[k], "mail", id) => id = n
    BY <1>3, <1>4, <1>6
<1>8. /\ \A x \in Character : d.gold[x] = Drained.gold[x]
      /\ \A i \in Item \ mail.items : d.inv[i] = Drained.inv[i]
      /\ \A m \in MailId \ {n} : d.mail[m] = Drained.mail[m]
      /\ \A a \in AuctionId : d.auction[a] = Drained.auction[a]
  <2>1. \A i \in Item \ mail.items : \A k \in 1..j : ~Written(txs[k], "inv", i)
      BY <1>7
  <2>2. \A m \in MailId \ {n} : \A k \in 1..j : ~Written(txs[k], "mail", m)
      BY <1>7
  <2> QED
      BY <1>2, <1>5, <1>7, <2>1, <2>2
<1>9. \A m \in MailId : d.mail[m] = Drained.mail[m] \/ Drained.mail[m] = NULL
    BY <1>1, <1>8
<1>10. /\ GoldIn(Drained) \in Int /\ GoldIn(d) \in Int
       /\ GoldIn(d) >= GoldIn(Drained)
    BY <1>1, <1>5, <1>8, <1>9, GoldOnlyAdded
<1>11. Returned(txs[j + 1]) \in Nat
  <2>1. /\ j + 1 \in 1..Len(txs) /\ L \in Nat
        /\ L + (j + 1) \in 1..(L + Len(txs))
      BY <1>1
  <2>2. IsTransaction(queue'[L + (j + 1)])
      BY <2>1 DEF Queued, Typed, L
  <2>3. queue'[L + (j + 1)] = txs[j + 1]
      BY <2>1 DEF Queued, L
  <2> QED
      BY <2>2, <2>3, ReturnedIs
<1>12. GoldIn(d) + Returned(txs[j + 1]) >= GoldIn(Drained)
    BY <1>10, <1>11
<1>13. /\ \A m \in MailId, i \in Item : InMail(Drained, m, i) => InMail(d, m, i)
       /\ \A a \in AuctionId, i \in Item :
            InAuction(Drained, a, i) => InAuction(d, a, i)
    BY <1>1, <1>8 DEF InMail, InAuction
<1>14. \A i \in Item \ mail.items : ~Nowhere(Drained, i) => ~Nowhere(d, i)
    BY <1>8, <1>13 DEF Nowhere
<1>15. ASSUME NEW i \in mail.items, j = N + 1 PROVE ~Nowhere(d, i)
  <2>1. d.mail[n] = mail
    <3>1. Written(txs[j], "mail", n) /\ txs[j]["mail"][n] = mail
        BY <1>4, <1>15
    <3> QED
        BY <1>1, <1>2, <1>5, <3>1
  <2> QED
      BY <1>1, <2>1 DEF Nowhere, InMail
<1>16. ASSUME NEW i \in mail.items, j \in 1..N
       PROVE  Carried(queue', L + j, i)
  <2> DEFINE z == L + (N + 1)
  <2>1. /\ Len(queue') = L + (N + 2)
        /\ \A k \in 1..(N + 2) : queue'[L + k] = txs[k]
      BY DEF Queued, L
  <2>2. /\ z \in 1..Len(queue') /\ L + j < z /\ N + 1 \in 1..(N + 2)
        /\ L + j \in Nat
      BY <1>1, <1>16, <2>1
  <2>3. Carries(queue'[z], i)
    <3>1. queue'[z] = txs[N + 1]
        BY <2>1, <2>2
    <3>2. /\ DOMAIN txs[N + 1] = {"mail"} /\ DOMAIN txs[N + 1].mail = {n}
          /\ txs[N + 1].mail[n] = mail
        BY DEF Inserts
    <3> QED
        BY <1>1, <3>1, <3>2 DEF Carries
  <2>4. ASSUME NEW x \in 1..Len(queue'), L + j < x, x < z
        PROVE  DOMAIN queue'[x] = {"inv"}
    <3>1. x - L \in 1..N /\ x - L \in 1..(N + 2) /\ L + (x - L) = x
        BY <1>1, <1>16, <2>4
    <3>2. queue'[x] = txs[x - L]
        BY <2>1, <3>1
    <3> QED
        BY <3>1, <3>2
  <2> HIDE DEF z
  <2> QED
      BY <2>2, <2>3, <2>4 DEF Carried
<1>17. \A i \in Item : ~Nowhere(Drained, i) =>
          ~Nowhere(d, i) \/ Carried(queue', L + j, i)
    BY <1>6, <1>14, <1>15, <1>16
<1> QED
    BY <1>12, <1>17 DEF d

\* The postage is no gain.
LEMMA CostIsPaid == ASSUME NEW items \in SUBSET Item PROVE Cost(items) \in Nat
<1> DEFINE n == Cardinality(items)
           S == {1, n}
<1>1. n \in Nat /\ 1 \in Nat
    BY TakeOutIs
<1> HIDE DEF n
<1>2. \E x \in S : \A y \in S : x >= y
  <2>1. CASE n >= 1
      BY <1>1, <2>1
  <2>2. CASE ~(n >= 1)
      BY <1>1, <2>2
  <2> QED
      BY <2>1, <2>2
<1>3. S \subseteq Nat
    BY <1>1
<1>4. Max(S) \in Nat
  <2> HIDE DEF S
  <2>1. Max(S) \in S
      BY <1>2 DEF Max
  <2> QED
      BY <1>3, <2>1
<1> HIDE DEF S
<1>5. Postage * Max(S) \in Nat
    BY <1>4, MailAssumption DEF MailAssumption
<1> QED
    BY <1>5 DEF Cost, S, n

\* A mail is sent.
LEMMA MailSentMoves ==
    ASSUME EconomyInv, EconomyInv', CrashInv, NEW c \in Character,
           NEW to \in Character, NEW items \in SUBSET Item,
           NEW amount \in MailGold, NEW cod \in MailGold,
           HandleSendMail(c, to, items, amount, cod), UNCHANGED auctions,
           NEW mail, SentBy(mail, c, to, items, amount, cod), MailSent(mail)
    PROVE  CrashInv'
<1> DEFINE f == MailGoldOf(Drained)
           g == MailGoldOf(Drained')
           left == (money[c] - Cost(items)) - amount
<1>1. /\ mail.kind = "normal" /\ mail.gold = amount
    BY DEF SentBy, NewMail
<1>2. PICK txs, n, N :
        /\ n \in FreshMails /\ Drained'.mail[n] = mail /\ mail \in MailRow
        /\ N \in Nat /\ Len(txs) = N + 2 /\ Delays(txs, {n})
        /\ \A k \in 1..N :
              /\ DOMAIN txs[k] = {"inv"}
              /\ \A id : Written(txs[k], "inv", id) => id \in mail.items
        /\ Inserts(txs[N + 1], n, mail)
    BY DEF MailSent
<1>3. /\ c \in online /\ online' = online /\ Gone' = Gone
      /\ money' = [money EXCEPT ![c] = left]
      /\ spent' = spent + Cost(items)
  <2>1. /\ c \in online /\ online' = online /\ Gone' = Gone
        /\ money' = [money EXCEPT ![c] = money[c] - Required(items, amount)]
        /\ spent' = spent + Cost(items)
      BY DEF HandleSendMail, Gone
  <2>2. money[c] \in Int
      BY <2>1 DEF EconomyInv, StateTyped
  <2>3. left = money[c] - Required(items, amount)
      BY <2>2, RequiredIs
  <2> HIDE DEF left
  <2> QED
      BY <2>1, <2>3
<1>4. /\ money \in [Character -> Int] /\ Cost(items) \in Nat /\ left \in Int
      /\ amount \in Int
  <2>1. /\ money \in [Character -> Int] /\ Cost(items) \in Nat
        /\ amount \in Int
      BY CostIsPaid, MailAssumption DEF EconomyInv, StateTyped, MailAssumption
  <2> QED
      BY <2>1
<1> HIDE DEF left
<1>5. /\ money'[c] = left /\ \A x \in Character \ {c} : money'[x] = money[x]
    BY <1>3, <1>4
<1>6. n \in MailId /\ Drained.mail[n] = NULL
    BY <1>2, FreshIs DEF EconomyInv
<1>7. /\ f \in [MailId -> Int] /\ g \in [MailId -> Int] /\ IsFiniteSet(MailId)
      /\ \A k \in MailId : f[k] = InMailRow(Drained.mail[k])
      /\ \A k \in MailId : g[k] = InMailRow(Drained'.mail[k])
      /\ \A x \in online : Drained.gold[x] = money[x]
      /\ \A x \in online' : Drained'.gold[x] = money'[x]
      /\ \A a \in AuctionId : Drained.auction[a] = auctions[a]
      /\ \A a \in AuctionId : Drained'.auction[a] = auctions'[a]
    BY DrainedGold, DrainedGoldNext
<1>8. f[n] = 0 /\ g[n] = amount
    BY <1>1, <1>2, <1>6, <1>7, NullIs DEF InMailRow
<1>9. /\ Drained'.gold[c] = left /\ Drained.gold[c] = money[c]
      /\ \A x \in Character \ {c} : Drained'.gold[x] = Drained.gold[x]
      /\ \A k \in MailId \ {n} : Drained'.mail[k] = Drained.mail[k]
      /\ \A a \in AuctionId : Drained'.auction[a] = Drained.auction[a]
    BY <1>2, <1>3, <1>5, <1>7 DEF Delays
<1>10. {n} \in SUBSET MailId
    BY <1>6
<1>11. /\ GoldIn(Drained) \in Int /\ GoldIn(Drained') \in Int
       /\ GoldIn(Drained') - GoldIn(Drained) =
            (Drained'.gold[c] - Drained.gold[c])
              + (Total(On(g, {n})) - Total(On(f, {n})))
    BY <1>9, <1>10, GoldOfMails
<1> HIDE DEF f, g
<1>12. Total(On(f, {n})) = 0 /\ Total(On(g, {n})) = amount
    BY <1>6, <1>7, <1>8, TotalOfFew
<1>13. GoldIn(Drained') - GoldIn(Drained) = (left - money[c]) + (amount - 0)
    BY <1>9, <1>11, <1>12
<1>14. left = (money[c] - Cost(items)) - amount /\ money[c] \in Int
    BY <1>4 DEF left
<1>15. GoldIn(Drained') - GoldIn(Drained) = 0 - Cost(items)
    BY <1>4, <1>13, <1>14
<1>16. spent \in Int /\ spent' \in Int /\ spent' >= spent
    BY <1>3, <1>4 DEF CrashInv
<1>17. GoldIn(Drained') + spent' = GoldIn(Drained) + spent
    BY <1>3, <1>4, <1>11, <1>15, <1>16
<1>18. Queued(txs) /\ Len(txs) \in Nat /\ UnbidIsFree'
    BY <1>2 DEF Delays, CrashInv, UnbidIsFree
<1>19. Halfway(txs)
    BY <1>1, <1>2, <1>18, SendingIsHalfway
<1>20. GoldStep(txs)
    BY <1>3, <1>16, <1>17, <1>18, <1>19 DEF GoldStep
<1> QED
    BY <1>20, GoldMoved

----------------------------------------------------------------------------
(* The auction house.                                                      *)

\* The gold in mails that the house sends.
IsPost(mails) ==
    IsSequence(mails) /\ \A k \in 1..Len(mails) : mails[k].gold \in Int
GoldsOf(mails) == [k \in 1..Len(mails) |-> mails[k].gold]
InPost(mails) == Total(GoldsOf(mails))

\* In no mail, and in one.
LEMMA PostOfOne ==
    /\ IsPost(<<>>) /\ InPost(<<>>) = 0
    /\ \A mail : mail.gold \in Int =>
         IsPost(<<mail>>) /\ InPost(<<mail>>) = mail.gold
<1>1. IsSequence(<<>>) /\ Len(<<>>) = 0 /\ 1..0 = {}
    BY OneOrTwo
<1>2. IsPost(<<>>)
    BY <1>1 DEF IsPost
<1>3. InPost(<<>>) = 0
  <2> DEFINE f == GoldsOf(<<>>)
             S == 1..Len(<<>>)
  <2>1. f \in [S -> Int] /\ S = {}
      BY <1>1 DEF GoldsOf
  <2> HIDE DEF f, S
  <2>2. Total(f) = 0
      BY <2>1, TotalFew
  <2> QED
      BY <2>2 DEF InPost, f
<1>4. ASSUME NEW mail, mail.gold \in Int
      PROVE  IsPost(<<mail>>) /\ InPost(<<mail>>) = mail.gold
  <2> DEFINE s == <<mail>>
             f == GoldsOf(s)
             S == 1..Len(s)
  <2>1. IsSequence(s) /\ Len(s) = 1 /\ s[1] = mail /\ \A k \in 1..1 : k = 1
      BY OneOrTwo
  <2> HIDE DEF s
  <2>2. S = {1} /\ \A k \in S : s[k].gold = mail.gold
      BY <2>1
  <2>3. f \in [S -> Int] /\ f[1] = mail.gold
      BY <1>4, <2>2 DEF GoldsOf
  <2>4. IsPost(s)
      BY <1>4, <2>1, <2>2 DEF IsPost
  <2> HIDE DEF f, S
  <2>5. Total(f) = mail.gold
      BY <2>2, <2>3, TotalFew
  <2> QED
      BY <2>4, <2>5 DEF InPost, f, s
<1> QED
    BY <1>2, <1>3, <1>4

\* In the mails of two sequences.
LEMMA PostJoined ==
    ASSUME NEW s, NEW t, IsPost(s), IsPost(t)
    PROVE  /\ IsPost(s \o t) /\ InPost(s) \in Int /\ InPost(t) \in Int
           /\ InPost(s \o t) = InPost(s) + InPost(t)
<1> DEFINE r == s \o t
           n == Len(s)
           m == Len(t)
           S == 1..(n + m)
           K == 1..n
           J == (n + 1)..(n + m)
           B == 1..m
           f == GoldsOf(r)
           e == [k \in J |-> k - n]
<1>1. /\ IsSequence(r) /\ Len(r) = n + m /\ n \in Nat /\ m \in Nat
      /\ \A k \in K : r[k] = s[k]
      /\ \A k \in B : r[n + k] = t[k]
    BY Concatenated, SequenceLength DEF IsPost
<1> HIDE DEF r, n, m
<1>2. /\ \A k \in J : k - n \in B /\ n + (k - n) = k
      /\ \A k \in B : n + k \in J /\ (n + k) - n = k
      /\ \A k, l \in J : k - n = l - n => k = l
      /\ K \in SUBSET S /\ S \ K = J
    BY <1>1
<1>3. \A k \in J : r[k] = t[k - n]
    BY <1>1, <1>2
<1>4. /\ \A k \in K : r[k].gold = s[k].gold /\ s[k].gold \in Int
      /\ \A k \in J : r[k].gold = t[k - n].gold /\ t[k - n].gold \in Int
      /\ \A k \in S : k \in K \/ k \in J
    BY <1>1, <1>2, <1>3 DEF IsPost, n, m
<1>5. IsPost(r)
    BY <1>1, <1>4 DEF IsPost
<1>6. /\ f \in [S -> Int] /\ \A k \in S : f[k] = r[k].gold
    BY <1>1, <1>4 DEF GoldsOf
<1>7. GoldsOf(s) \in [K -> Int] /\ \A k \in K : GoldsOf(s)[k] = s[k].gold
    BY <1>4 DEF GoldsOf, n
<1>8. /\ GoldsOf(t) \in [B -> Int] /\ \A k \in B : GoldsOf(t)[k] = t[k].gold
    BY DEF GoldsOf, m, IsPost
<1>9. IsFiniteSet(S) /\ IsFiniteSet(K) /\ IsFiniteSet(J) /\ IsFiniteSet(B)
    BY <1>1, FS_Interval
<1>10. On(f, K) = GoldsOf(s)
    BY <1>2, <1>4, <1>6, <1>7 DEF On
<1>11. /\ On(f, J) \in [J -> Int] /\ \A k \in J : On(f, J)[k] = t[k - n].gold
    BY <1>2, <1>4, <1>6 DEF On
<1>12. /\ e \in [J -> B] /\ \A k \in J : e[k] = k - n
    BY <1>2
<1> HIDE DEF S, K, J, B, f, e
<1>13. Total(f) = Total(On(f, K)) + Total(On(f, J))
    BY <1>2, <1>6, <1>9, TotalParts
<1>14. Total(On(f, J)) = Total(GoldsOf(t))
  <2> DEFINE g == On(f, J)
             h == GoldsOf(t)
  <2>1. /\ \A a, b \in J : e[a] = e[b] => a = b
        /\ \A x \in B : \E a \in J : e[a] = x
      BY <1>2, <1>12
  <2>2. /\ h \in [B -> Int] /\ g \in [J -> Int]
        /\ \A a \in J : g[a] = h[e[a]]
      BY <1>8, <1>11, <1>12
  <2> HIDE DEF g, h
  <2>3. Total(g) = Total(h)
      BY ONLY <1>9, <1>12, <2>1, <2>2, TotalMoved
  <2> QED
      BY <2>3 DEF g, h
<1>15. Total(GoldsOf(s)) \in Int /\ Total(GoldsOf(t)) \in Int
    BY <1>7, <1>8, <1>9, TotalSteps
<1> QED
    BY <1>5, <1>10, <1>13, <1>14, <1>15 DEF InPost, f, r

\* In the mails of the house.
LEMMA HousePost ==
    /\ \A to, gold : gold \in Nat =>
         /\ IsPost(MailGoldTo(to, gold)) /\ InPost(MailGoldTo(to, gold)) = gold
    /\ \A to, i :
         IsPost(MailItemTo(to, i)) /\ InPost(MailItemTo(to, i)) = 0
<1>1. \A to, items, gold : NewMail(NULL, to, "auction", items, gold).gold = gold
    BY DEF NewMail
<1>2. ASSUME NEW to, NEW gold \in Nat
      PROVE  /\ IsPost(MailGoldTo(to, gold))
             /\ InPost(MailGoldTo(to, gold)) = gold
  <2>1. CASE gold = 0
    <3>1. MailGoldTo(to, gold) = <<>>
        BY <2>1 DEF MailGoldTo
    <3> QED
        BY <2>1, <3>1, PostOfOne
  <2>2. CASE gold # 0
    <3>1. MailGoldTo(to, gold) = <<NewMail(NULL, to, "auction", {}, gold)>>
        BY <2>2 DEF MailGoldTo
    <3> QED
        BY <1>1, <3>1, PostOfOne
  <2> QED
      BY <2>1, <2>2
<1>3. ASSUME NEW to, NEW i
      PROVE  IsPost(MailItemTo(to, i)) /\ InPost(MailItemTo(to, i)) = 0
    BY <1>1, PostOfOne DEF MailItemTo
<1> QED
    BY <1>2, <1>3

\* In the mails that the handlers send.
LEMMA HandlerPost ==
    ASSUME NEW auc \in AuctionRow, NEW c
    PROVE  /\ IsPost(OutbiddedMail(c, auc))
           /\ InPost(OutbiddedMail(c, auc)) =
                IF auc.bidder \in {NULL, c} THEN 0 ELSE auc.bid
           /\ IsPost(SaleMails(auc))
           /\ InPost(SaleMails(auc)) =
                (auc.bid + auc.deposit) - AuctionCut(auc.bid)
           /\ IsPost(RemovalMails(c, auc))
           /\ InPost(RemovalMails(c, auc)) =
                IF auc.bidder = NULL THEN 0 ELSE auc.bid
           /\ IsPost(ExpiredMail(auc)) /\ InPost(ExpiredMail(auc)) = 0
           /\ AuctionCut(auc.bid) \in Nat
<1>1. /\ auc.bid \in Nat /\ auc.deposit \in Nat
    BY DEF AuctionRow
<1>2. /\ (auc.bid + auc.deposit) - AuctionCut(auc.bid) \in Nat
      /\ AuctionCut(auc.bid) \in Nat
  <2>1. AuctionCut(auc.bid) \in {0, auc.bid}
      BY <1>1, AuctionAssumption DEF AuctionAssumption, AuctionCut
  <2> QED
      BY <1>1, <2>1
<1>3. /\ IsPost(OutbiddedMail(c, auc))
      /\ InPost(OutbiddedMail(c, auc)) =
           IF auc.bidder \in {NULL, c} THEN 0 ELSE auc.bid
    BY <1>1, HousePost, PostOfOne DEF OutbiddedMail
<1>4. IsPost(WonMail(auc)) /\ InPost(WonMail(auc)) = 0
    BY HousePost, PostOfOne DEF WonMail
<1>5. /\ IsPost(SuccessfulMail(auc))
      /\ InPost(SuccessfulMail(auc)) =
           (auc.bid + auc.deposit) - AuctionCut(auc.bid)
    BY <1>2, HousePost DEF SuccessfulMail
<1>6. /\ IsPost(SaleMails(auc))
      /\ InPost(SaleMails(auc)) =
           (auc.bid + auc.deposit) - AuctionCut(auc.bid)
  <2> DEFINE n == (auc.bid + auc.deposit) - AuctionCut(auc.bid)
             s == SuccessfulMail(auc)
             w == WonMail(auc)
  <2>1. /\ IsPost(s) /\ IsPost(w) /\ InPost(s) = n /\ InPost(w) = 0 /\ n \in Nat
      BY <1>2, <1>4, <1>5
  <2> HIDE DEF n, s, w
  <2>2. IsPost(s \o w) /\ InPost(s \o w) = n
      BY <2>1, PostJoined
  <2> QED
      BY <2>2 DEF SaleMails, n, s, w
<1>7. /\ IsPost(RemovalMails(c, auc))
      /\ InPost(RemovalMails(c, auc)) =
           IF auc.bidder = NULL THEN 0 ELSE auc.bid
  <2> DEFINE n == IF auc.bidder = NULL THEN 0 ELSE auc.bid
             s == IF auc.bidder = NULL THEN <<>>
                  ELSE MailGoldTo(auc.bidder, auc.bid)
             w == MailItemTo(c, auc.item)
  <2>1. /\ IsPost(s) /\ IsPost(w) /\ InPost(s) = n /\ InPost(w) = 0 /\ n \in Nat
      BY <1>1, HousePost, PostOfOne
  <2> HIDE DEF n, s, w
  <2>2. IsPost(s \o w) /\ InPost(s \o w) = n
      BY <2>1, PostJoined
  <2> QED
      BY <2>2 DEF RemovalMails, n, s, w
<1>8. IsPost(ExpiredMail(auc)) /\ InPost(ExpiredMail(auc)) = 0
    BY HousePost DEF ExpiredMail
<1> QED
    BY <1>2, <1>3, <1>6, <1>7, <1>8

\* What c pays is what the mails, the auction and the game get more.
Balanced(c, paid, mails, a) ==
    /\ paid \in Int /\ (c \notin online => paid = 0)
    /\ InPost(mails) + HeldByRow(auctions'[a]) + spent'
         = HeldByRow(auctions[a]) + spent + paid

\* A step of the house moves the gold that c pays, that the mails carry, that
\* the auction holds, and that is spent.
LEMMA HouseMoves ==
    ASSUME EconomyInv, EconomyInv', CrashInv, NEW c \in Character,
           NEW a \in AuctionId, NEW mails, IsPost(mails), HouseSent(mails),
           NEW paid, Balanced(c, paid, mails, a), online' = online,
           \A x \in online : money'[x] = IF x = c THEN money[x] - paid
                                         ELSE money[x],
           \A b \in AuctionId \ {a} : auctions'[b] = auctions[b],
           UnbidIsFree', spent' \in Int, spent' >= spent,
           Gone \subseteq Gone'
    PROVE  CrashInv'
<1> DEFINE d == Drained
           e == Drained'
           G == {c}
           A == {a}
           f == MailGoldOf(d)
           g == MailGoldOf(e)
           h == HeldGoldOf(d)
           k == HeldGoldOf(e)
           S == 1..Len(mails)
<1>1. PICK ids, txs :
        /\ Delays(txs, {ids[j] : j \in 1..Len(mails)})
        /\ InsertsFirst(txs) /\ Numbered(mails, ids)
        /\ \A j \in 1..Len(mails) : /\ Drained'.mail[ids[j]] = mails[j]
                                    /\ mails[j] \in MailRow
    BY DEF HouseSent
<1> DEFINE K == {ids[j] : j \in 1..Len(mails)}
<1>2. /\ Len(mails) \in Nat /\ IsFiniteSet(S)
    BY SequenceLength, FS_Interval DEF IsPost
<1>3. \A j \in S : /\ ids[j] \in MailId /\ ids[j] \in K
                   /\ d.mail[ids[j]] = NULL /\ e.mail[ids[j]] = mails[j]
                   /\ mails[j] \in MailRow
  <2>1. \A j \in S : ids[j] \in FreshMails
      BY <1>1 DEF Numbered
  <2>2. \A m \in FreshMails : m \in MailId /\ d.mail[m] = NULL
      BY FreshIs DEF EconomyInv
  <2> QED
      BY <1>1, <2>1, <2>2
<1>4. K \in SUBSET MailId /\ \A m \in K : \E j \in S : m = ids[j]
    BY <1>3
<1>5. /\ IsDatabase(d) /\ IsDatabase(e) /\ IsFiniteSet(MailId)
      /\ f \in [MailId -> Int] /\ g \in [MailId -> Int]
      /\ \A m \in MailId : f[m] = InMailRow(d.mail[m])
      /\ \A m \in MailId : g[m] = InMailRow(e.mail[m])
      /\ \A x \in online : d.gold[x] = money[x] /\ e.gold[x] = money'[x]
      /\ \A b \in AuctionId : d.auction[b] = auctions[b]
      /\ \A b \in AuctionId : e.auction[b] = auctions'[b]
    BY DrainedGold, DrainedGoldNext
<1>6. /\ d.gold \in [Character -> Int] /\ e.gold \in [Character -> Int]
      /\ h \in [AuctionId -> Nat] /\ k \in [AuctionId -> Nat]
      /\ IsFiniteSet(Character) /\ IsFiniteSet(AuctionId)
    BY <1>5, GoldInIs, CharacterDBAssumption DEF CharacterDBAssumption
<1>7. /\ h \in [AuctionId -> Int] /\ k \in [AuctionId -> Int]
      /\ h[a] = HeldByRow(auctions[a]) /\ k[a] = HeldByRow(auctions'[a])
      /\ h[a] \in Int /\ k[a] \in Int
    BY <1>5, <1>6 DEF HeldGoldOf
<1>8. /\ \A x \in Character \ {c} : e.gold[x] = d.gold[x]
      /\ paid \in Int /\ d.gold[c] \in Int /\ e.gold[c] \in Int
      /\ e.gold[c] - d.gold[c] = 0 - paid
  <2>1. \A x \in Character \ online : e.gold[x] = d.gold[x]
      BY <1>1 DEF Delays
  <2>2. \A x \in Character \ {c} : e.gold[x] = d.gold[x]
      BY <1>5, <2>1
  <2>3. paid \in Int /\ d.gold[c] \in Int /\ e.gold[c] \in Int
      BY <1>6 DEF Balanced
  <2>4. CASE c \in online
    <3>1. /\ d.gold[c] = money[c] /\ e.gold[c] = money'[c]
          /\ money'[c] = money[c] - paid
        BY <1>5, <2>4
    <3>2. e.gold[c] = d.gold[c] - paid
        BY <3>1
    <3> HIDE DEF d, e
    <3>3. e.gold[c] - d.gold[c] = 0 - paid
        BY <2>3, <3>2
    <3> QED
        BY <2>2, <2>3, <3>3
  <2>5. CASE c \notin online
    <3>1. e.gold[c] = d.gold[c] /\ paid = 0
        BY <2>1, <2>5 DEF Balanced
    <3> HIDE DEF d, e
    <3>2. e.gold[c] - d.gold[c] = 0 - paid
        BY <2>3, <3>1
    <3> QED
        BY <2>2, <2>3, <3>2
  <2> QED
      BY <2>2, <2>3, <2>4, <2>5
<1>9. /\ G \in SUBSET Character /\ A \in SUBSET AuctionId
      /\ \A x \in Character \ G : e.gold[x] = d.gold[x]
      /\ \A b \in AuctionId \ A : e.auction[b] = d.auction[b]
      /\ \A m \in MailId \ K : e.mail[m] = d.mail[m]
    BY <1>1, <1>5, <1>8 DEF Delays
<1>10. /\ Total(On(d.gold, G)) = d.gold[c] /\ Total(On(e.gold, G)) = e.gold[c]
    BY <1>6, TotalOfFew
<1>11. /\ Total(On(h, A)) = h[a] /\ Total(On(k, A)) = k[a]
  <2> HIDE DEF h, k
  <2> QED
      BY <1>6, <1>7, TotalOfFew
<1>12. Total(On(f, K)) = 0
  <2>1. \A m \in K : f[m] = 0
      BY <1>3, <1>4, <1>5 DEF InMailRow
  <2> HIDE DEF f, K
  <2> QED
      BY <1>4, <1>5, <2>1, TotalOfFew
<1>13. Total(On(g, K)) = InPost(mails) /\ InPost(mails) \in Int
  <2> DEFINE p == On(g, K)
             q == GoldsOf(mails)
  <2>1. ids \in [S -> K] /\ \A i, j \in S : ids[i] = ids[j] => i = j
      BY <1>1 DEF Numbered
  <2>2. /\ q \in [S -> Int] /\ \A j \in S : q[j] = mails[j].gold
      BY DEF GoldsOf, IsPost
  <2>3. p \in [K -> Int] /\ \A m \in K : p[m] = g[m]
      BY <1>4, <1>5 DEF On
  <2>4. \A j \in S : q[j] = p[ids[j]]
    <3> SUFFICES ASSUME NEW j \in S PROVE q[j] = p[ids[j]]
        OBVIOUS
    <3>1. /\ ids[j] \in MailId /\ ids[j] \in K
          /\ e.mail[ids[j]] = mails[j] /\ mails[j] # NULL
        BY <1>3, NullIs
    <3>2. InMailRow(e.mail[ids[j]]) = mails[j].gold
        BY <3>1 DEF InMailRow
    <3>3. g[ids[j]] = mails[j].gold
        BY <1>5, <3>1, <3>2
    <3>4. p[ids[j]] = g[ids[j]]
        BY <2>3, <3>1
    <3> QED
        BY <2>2, <3>3, <3>4
  <2>5. \A m \in K : \E j \in S : ids[j] = m
      BY <1>4
  <2>6. IsFiniteSet(K)
      BY <1>4, <1>5, FS_Subset
  <2> HIDE DEF p, q, K, S
  <2>7. Total(q) = Total(p)
      BY ONLY <1>2, <2>1, <2>2, <2>3, <2>4, <2>5, <2>6, TotalMoved
  <2>8. Total(q) \in Int
      BY <1>2, <2>2, TotalSteps
  <2> QED
      BY <2>7, <2>8 DEF p, q, InPost
<1> HIDE DEF d, e, G, A, K, f, g, h, k
<1>14. /\ GoldIn(d) \in Int /\ GoldIn(e) \in Int
       /\ GoldIn(e) - GoldIn(d) =
            (Total(On(e.gold, G)) - Total(On(d.gold, G)))
            + (Total(On(g, K)) - Total(On(f, K)))
            + (Total(On(k, A)) - Total(On(h, A)))
    BY <1>4, <1>5, <1>9, GoldShift DEF f, g, h, k
<1>15. GoldIn(e) - GoldIn(d) = (0 - paid) + InPost(mails) + (k[a] - h[a])
    BY <1>7, <1>8, <1>10, <1>11, <1>12, <1>13, <1>14
<1>16. InPost(mails) + k[a] + spent' = h[a] + spent + paid
    BY <1>7 DEF Balanced
<1>17. spent \in Int
    BY DEF CrashInv
<1>18. GoldIn(Drained') + spent' = GoldIn(Drained) + spent
  <2>1. GoldIn(e) + spent' = GoldIn(d) + spent
    <3>1. /\ GoldIn(d) \in Int /\ GoldIn(e) \in Int /\ paid \in Int
          /\ InPost(mails) \in Int /\ k[a] \in Int /\ h[a] \in Int
          /\ spent \in Int /\ spent' \in Int
        BY <1>7, <1>8, <1>13, <1>14, <1>17
    <3>2. GoldIn(e) = GoldIn(d) + ((0 - paid) + InPost(mails) + (k[a] - h[a]))
        BY ONLY <3>1, <1>15
    <3>3. InPost(mails) + k[a] = (h[a] + spent + paid) - spent'
        BY ONLY <3>1, <1>16
    <3>4. (0 - paid) + InPost(mails) + (k[a] - h[a])
             = ((h[a] + spent + paid) - spent') - paid - h[a]
        BY ONLY <3>1, <3>3
    <3> QED
        BY ONLY <3>1, <3>2, <3>4
  <2> QED
      BY <2>1 DEF d, e
<1>19. Len(txs) \in Nat /\ Queued(txs)
    BY <1>1 DEF Delays
<1>20. Halfway(txs)
    BY <1>1, <1>19, InsertsAreHalfway
<1>21. GoldStep(txs)
    BY <1>18, <1>19, <1>20 DEF GoldStep
<1> QED
    BY <1>21, GoldMoved

\* What an auction that is listed holds.
LEMMA HeldIs ==
    ASSUME EconomyInv, CrashInv, NEW a \in AuctionId, auctions[a] # NULL
    PROVE  LET auc == auctions[a] IN
           /\ auc \in AuctionRow /\ auc.bid \in Nat /\ auc.deposit \in Nat
           /\ HeldByRow(auc) = auc.bid + auc.deposit
           /\ auc.bidder = NULL => auc.bid = 0
           /\ HeldByRow(NULL) = 0
<1>1. auctions[a] \in AuctionRow
    BY DEF EconomyInv, StateTyped
<1>2. auctions[a].bid \in Nat /\ auctions[a].deposit \in Nat
    BY <1>1 DEF AuctionRow
<1>3. auctions[a].bidder = NULL => auctions[a].bid = 0
    BY DEF CrashInv, UnbidIsFree
<1> QED
    BY <1>1, <1>2, <1>3 DEF HeldByRow

\* What is kept of an auction.
LEMMA KeptIs ==
    ASSUME NEW auc, NEW mails, NEW cut, IsPost(mails), Kept(auc, mails, cut)
    PROVE  spent' = spent + cut + auc.bid + auc.deposit - InPost(mails)
<1>1. DOMAIN mails = 1..Len(mails)
    BY DEF IsPost, IsSequence
<1>2. [k \in DOMAIN mails |-> mails[k].gold] = GoldsOf(mails)
    BY <1>1 DEF GoldsOf
<1> QED
    BY <1>2 DEF Kept, InPost

\* A bid: the gold goes into the auction, that of the last bidder to him.
LEMMA PlaceBidMoves ==
    ASSUME EconomyInv, EconomyInv', CrashInv, NEW c \in Character,
           NEW a \in AuctionId, NEW price \in Prices, PlaceBid(c, a, price),
           HouseSent(OutbiddedMail(c, auctions[a]))
    PROVE  CrashInv'
<1> DEFINE auc == auctions[a]
           mails == OutbiddedMail(c, auc)
           paid == Added(c, auc, price)
           row == [auc EXCEPT !.bidder = c, !.bid = price]
           left == money[c] - paid
<1>1. /\ c \in online /\ auc # NULL
      /\ money' = [money EXCEPT ![c] = left]
      /\ auctions' = [auctions EXCEPT ![a] = row]
      /\ UNCHANGED <<online, Gone, spent>>
    BY DEF PlaceBid, GoodBid, historyVars, Gone
<1>2. /\ auc \in AuctionRow /\ auc.bid \in Nat /\ auc.deposit \in Nat
      /\ HeldByRow(auc) = auc.bid + auc.deposit
      /\ auc.bidder = NULL => auc.bid = 0
    BY <1>1, HeldIs
<1>3. /\ IsPost(mails)
      /\ InPost(mails) = IF auc.bidder \in {NULL, c} THEN 0 ELSE auc.bid
    BY <1>2, HandlerPost
<1>4. /\ row.bidder = c /\ row.bid = price /\ row.deposit = auc.deposit
      /\ row # NULL /\ price \in Nat
  <2>1. price \in Nat
      BY AuctionAssumption DEF AuctionAssumption
  <2>2. row \in AuctionRow
      BY <1>2, <2>1 DEF AuctionRow
  <2> QED
      BY <1>2, <2>1, <2>2, NullIs DEF AuctionRow
<1>5. paid = (IF auc.bidder = c THEN price - auc.bid ELSE price) /\ c # NULL
    BY NullIs DEF Added
<1>6. /\ auctions'[a] = row
      /\ \A b \in AuctionId \ {a} : auctions'[b] = auctions[b]
      /\ \A x \in online : money'[x] = IF x = c THEN money[x] - paid
                                       ELSE money[x]
    BY <1>1 DEF EconomyInv, StateTyped
<1>7. HeldByRow(auctions'[a]) = price + auc.deposit
    BY <1>4, <1>6 DEF HeldByRow
<1>8. spent \in Int /\ spent' = spent
    BY <1>1 DEF CrashInv
<1>9. UnbidIsFree'
    BY <1>4, <1>5, <1>6 DEF CrashInv, UnbidIsFree
<1> HIDE DEF auc, mails, paid, row, left
<1>10. InPost(mails) + price = auc.bid + paid
  <2>1. CASE auc.bidder = c
      BY <1>2, <1>3, <1>4, <1>5, <2>1
  <2>2. CASE auc.bidder = NULL
      BY <1>2, <1>3, <1>4, <1>5, <2>2
  <2>3. CASE auc.bidder \notin {NULL, c}
      BY <1>2, <1>3, <1>4, <1>5, <2>3
  <2> QED
      BY <2>1, <2>2, <2>3
<1>11. paid \in Int /\ InPost(mails) \in Int
    BY <1>2, <1>3, <1>4, <1>5
<1>12. InPost(mails) + HeldByRow(auctions'[a]) + spent'
         = HeldByRow(auc) + spent + paid
    BY <1>2, <1>4, <1>7, <1>8, <1>10, <1>11
<1>13. Balanced(c, paid, mails, a)
    BY <1>1, <1>11, <1>12 DEF Balanced, auc
<1>14. spent' \in Int /\ spent' >= spent
    BY <1>8
<1>15. HouseSent(mails)
    BY DEF mails, auc
<1> QED
    BY <1>1, <1>3, <1>6, <1>9, <1>13, <1>14, <1>15, HouseMoves

\* An auction that is over holds nothing.
LEMMA EndIsUnbid ==
    ASSUME CrashInv, NEW a \in AuctionId, auctions' = [auctions EXCEPT ![a] = NULL],
           EconomyInv
    PROVE  /\ UnbidIsFree' /\ auctions'[a] = NULL
           /\ \A b \in AuctionId \ {a} : auctions'[b] = auctions[b]
<1>1. /\ auctions'[a] = NULL
      /\ \A b \in AuctionId \ {a} : auctions'[b] = auctions[b]
    BY DEF EconomyInv, StateTyped
<1> QED
    BY <1>1 DEF CrashInv, UnbidIsFree

\* A buyout: the price goes to the seller, but for the cut.
LEMMA BuyoutMoves ==
    ASSUME EconomyInv, EconomyInv', CrashInv, NEW c \in Character,
           NEW a \in AuctionId, NEW price \in Prices, Buyout(c, a, price),
           HouseSent(OutbiddedMail(c, auctions[a]) \o SaleMails(BoughtOut(c, a)))
    PROVE  CrashInv'
<1> DEFINE auc == auctions[a]
           sold == BoughtOut(c, a)
           outbid == OutbiddedMail(c, auc)
           ended == SaleMails(sold)
           mails == outbid \o ended
           paid == Added(c, auc, auc.buyout)
           left == money[c] - paid
<1>1. /\ c \in online /\ auc # NULL
      /\ money' = [money EXCEPT ![c] = left]
      /\ auctions' = [auctions EXCEPT ![a] = NULL]
      /\ Kept(sold, ended, 0)
      /\ UNCHANGED <<online, Gone>>
    BY DEF Buyout, GoodBid, BoughtOut, SaleMails, Gone
<1>2. /\ auc \in AuctionRow /\ auc.bid \in Nat /\ auc.deposit \in Nat
      /\ HeldByRow(auc) = auc.bid + auc.deposit /\ HeldByRow(NULL) = 0
      /\ auc.bidder = NULL => auc.bid = 0
    BY <1>1, HeldIs
<1>3. /\ sold \in AuctionRow /\ sold.bid = auc.buyout /\ auc.buyout \in Nat
      /\ sold.deposit = auc.deposit
    BY <1>2 DEF BoughtOut, AuctionRow
<1>4. /\ IsPost(outbid)
      /\ InPost(outbid) = IF auc.bidder \in {NULL, c} THEN 0 ELSE auc.bid
    BY <1>2, HandlerPost
<1>5. /\ IsPost(ended) /\ AuctionCut(sold.bid) \in Nat
      /\ InPost(ended) = (sold.bid + sold.deposit) - AuctionCut(sold.bid)
    BY <1>3, HandlerPost
<1>6. paid = (IF auc.bidder = c THEN auc.buyout - auc.bid ELSE auc.buyout)
        /\ c # NULL
    BY NullIs DEF Added
<1>7. /\ UnbidIsFree' /\ auctions'[a] = NULL
      /\ \A b \in AuctionId \ {a} : auctions'[b] = auctions[b]
    BY <1>1, EndIsUnbid
<1>8. \A x \in online : money'[x] = IF x = c THEN money[x] - paid
                                    ELSE money[x]
    BY <1>1 DEF EconomyInv, StateTyped
<1>9. spent \in Int
    BY DEF CrashInv
<1> HIDE DEF auc, sold, outbid, ended, paid, left
<1>10. spent' = spent + 0 + sold.bid + sold.deposit - InPost(ended)
    BY <1>1, <1>5, KeptIs
<1>11. /\ IsPost(mails) /\ InPost(mails) = InPost(outbid) + InPost(ended)
    BY <1>4, <1>5, PostJoined
<1>12. spent' = spent + AuctionCut(sold.bid)
    BY <1>2, <1>3, <1>5, <1>9, <1>10
<1>13. InPost(outbid) + auc.buyout = auc.bid + paid
  <2>1. CASE auc.bidder = c
      BY <1>2, <1>3, <1>4, <1>6, <2>1
  <2>2. CASE auc.bidder = NULL
      BY <1>2, <1>3, <1>4, <1>6, <2>2
  <2>3. CASE auc.bidder \notin {NULL, c}
      BY <1>2, <1>3, <1>4, <1>6, <2>3
  <2> QED
      BY <2>1, <2>2, <2>3
<1>14. paid \in Int /\ InPost(outbid) \in Int
    BY <1>2, <1>3, <1>4, <1>6
<1>15. InPost(mails) + HeldByRow(auctions'[a]) + spent'
         = HeldByRow(auc) + spent + paid
  <2>1. InPost(mails) = InPost(outbid)
           + ((auc.buyout + auc.deposit) - AuctionCut(sold.bid))
      BY <1>3, <1>5, <1>11
  <2>2. HeldByRow(auctions'[a]) = 0
      BY <1>2, <1>7
  <2> QED
      BY <1>2, <1>3, <1>5, <1>9, <1>12, <1>13, <1>14, <2>1, <2>2
<1>16. Balanced(c, paid, mails, a)
    BY <1>1, <1>14, <1>15 DEF Balanced, auc
<1>17. spent' \in Int /\ spent' >= spent
    BY <1>5, <1>9, <1>12
<1>18. HouseSent(mails)
    BY DEF outbid, ended, auc, sold
<1> HIDE DEF mails
<1> QED
    BY <1>1, <1>7, <1>8, <1>11, <1>16, <1>17, <1>18, HouseMoves

\* The owner pays the cut, the bidder has his bid back.
LEMMA RemovalMoves ==
    ASSUME EconomyInv, EconomyInv', CrashInv, NEW c \in Character,
           NEW a \in AuctionId, HandleAuctionRemoveItem(c, a),
           HouseSent(RemovalMails(c, auctions[a]))
    PROVE  CrashInv'
<1> DEFINE auc == auctions[a]
           mails == RemovalMails(c, auc)
           paid == AuctionCut(auc.bid)
           left == money[c] - paid
<1>1. /\ c \in online /\ auc # NULL
      /\ money' = [money EXCEPT ![c] = left]
      /\ auctions' = [auctions EXCEPT ![a] = NULL]
      /\ Kept(auc, mails, paid)
      /\ UNCHANGED <<online, Gone>>
    BY DEF HandleAuctionRemoveItem, RemovalMails, Gone
<1>2. /\ auc \in AuctionRow /\ auc.bid \in Nat /\ auc.deposit \in Nat
      /\ HeldByRow(auc) = auc.bid + auc.deposit /\ HeldByRow(NULL) = 0
      /\ auc.bidder = NULL => auc.bid = 0
    BY <1>1, HeldIs
<1>3. /\ IsPost(mails) /\ paid \in Nat
      /\ InPost(mails) = IF auc.bidder = NULL THEN 0 ELSE auc.bid
    BY <1>2, HandlerPost
<1>4. /\ UnbidIsFree' /\ auctions'[a] = NULL
      /\ \A b \in AuctionId \ {a} : auctions'[b] = auctions[b]
    BY <1>1, EndIsUnbid
<1>5. \A x \in online : money'[x] = IF x = c THEN money[x] - paid
                                    ELSE money[x]
    BY <1>1 DEF EconomyInv, StateTyped
<1>6. spent \in Int
    BY DEF CrashInv
<1> HIDE DEF auc, mails, paid, left
<1>7. spent' = spent + paid + auc.bid + auc.deposit - InPost(mails)
    BY <1>1, <1>3, KeptIs
<1>8. InPost(mails) = auc.bid
    BY <1>2, <1>3
<1>9. spent' = spent + paid + auc.deposit
    BY <1>2, <1>3, <1>6, <1>7, <1>8
<1>10. HeldByRow(auctions'[a]) = 0
    BY <1>2, <1>4
<1>11. InPost(mails) + HeldByRow(auctions'[a]) + spent'
         = HeldByRow(auc) + spent + paid
    BY <1>2, <1>3, <1>6, <1>8, <1>9, <1>10
<1>12. Balanced(c, paid, mails, a)
    BY <1>1, <1>3, <1>11 DEF Balanced, auc
<1>13. spent' \in Int /\ spent' >= spent
    BY <1>2, <1>3, <1>6, <1>9
<1>14. HouseSent(mails)
    BY DEF mails, auc
<1> QED
    BY <1>1, <1>3, <1>4, <1>5, <1>12, <1>13, <1>14, HouseMoves

\* An auction expires: the bid goes to the seller, but for the cut.
LEMMA UpdateMoves ==
    ASSUME EconomyInv, EconomyInv', CrashInv, NEW a \in AuctionId, Update(a),
           HouseSent(EndMails(auctions[a]))
    PROVE  CrashInv'
<1> DEFINE auc == auctions[a]
           mails == EndMails(auc)
           c == auc.owner
<1>1. /\ auc # NULL
      /\ auctions' = [auctions EXCEPT ![a] = NULL]
      /\ Kept(auc, mails, 0)
      /\ UNCHANGED <<online, money, Gone>>
    BY DEF Update, ownVars, EndMails, SaleMails, Gone
<1>2. /\ auc \in AuctionRow /\ auc.bid \in Nat /\ auc.deposit \in Nat
      /\ HeldByRow(auc) = auc.bid + auc.deposit /\ HeldByRow(NULL) = 0
      /\ auc.bidder = NULL => auc.bid = 0
    BY <1>1, HeldIs
<1>3. c \in Character
    BY <1>2 DEF AuctionRow
<1>4. /\ IsPost(mails) /\ AuctionCut(auc.bid) \in Nat
      /\ InPost(mails) = IF auc.bidder = NULL THEN 0
                         ELSE (auc.bid + auc.deposit) - AuctionCut(auc.bid)
    BY <1>2, HandlerPost DEF EndMails
<1>5. /\ UnbidIsFree' /\ auctions'[a] = NULL
      /\ \A b \in AuctionId \ {a} : auctions'[b] = auctions[b]
    BY <1>1, EndIsUnbid
<1>6. \A x \in online : money'[x] = IF x = c THEN money[x] - 0
                                    ELSE money[x]
    BY <1>1 DEF EconomyInv, StateTyped
<1>7. spent \in Int
    BY DEF CrashInv
<1> HIDE DEF auc, mails, c
<1>8. spent' = spent + 0 + auc.bid + auc.deposit - InPost(mails)
    BY <1>1, <1>4, KeptIs
<1>9. InPost(mails) \in Int /\ spent' >= spent /\ spent' \in Int
  <2>1. CASE auc.bidder = NULL
      BY <1>2, <1>4, <1>7, <1>8, <2>1
  <2>2. CASE auc.bidder # NULL
      BY <1>2, <1>4, <1>7, <1>8, <2>2
  <2> QED
      BY <2>1, <2>2
<1>10. HeldByRow(auctions'[a]) = 0
    BY <1>2, <1>5
<1>11. InPost(mails) + HeldByRow(auctions'[a]) + spent'
         = HeldByRow(auc) + spent + 0
    BY <1>2, <1>7, <1>8, <1>9, <1>10
<1>12. Balanced(c, 0, mails, a)
    BY <1>11 DEF Balanced, auc
<1>13. HouseSent(mails)
    BY DEF mails, auc
<1> QED
    BY <1>1, <1>3, <1>4, <1>5, <1>6, <1>9, <1>12, <1>13, HouseMoves

\* A transaction by which no mail is sent.
LEMMA NoneSent ==
    ASSUME NEW txs, Len(txs) = 1, Delays(txs, {}) PROVE HouseSent(<<>>)
<1> DEFINE S == 1..Len(<<>>)
           ids == [k \in S |-> 0]
           K == {ids[k] : k \in S}
<1>1. S = {}
    BY OneOrTwo
<1>2. ids \in [S -> FreshMails] /\ K = {}
    BY <1>1
<1> HIDE DEF ids
<1>3. Numbered(<<>>, ids)
    BY <1>1, <1>2 DEF Numbered
<1>4. InsertsFirst(txs)
    BY OneInserts
<1>5. Delays(txs, K)
    BY <1>2
<1> HIDE DEF S
<1>6. \A k \in S : Drained'.mail[ids[k]] = <<>>[k] /\ <<>>[k] \in MailRow
    BY <1>1
<1> QED
    BY <1>3, <1>4, <1>5, <1>6 DEF HouseSent, S

\* A new auction: the deposit goes into it.
LEMMA SellItemMoves ==
    ASSUME EconomyInv, EconomyInv', CrashInv, NEW c \in Character,
           NEW i \in Item, NEW startbid \in Prices,
           NEW buyout \in Prices \cup {0},
           HandleAuctionSellItem(c, i, startbid, buyout), HouseSent(<<>>)
    PROVE  CrashInv'
<1> DEFINE a == Min(FreshAuctions)
           auc == [owner |-> c, item |-> i, bidder |-> NULL, bid |-> 0,
                   startbid |-> startbid, buyout |-> buyout,
                   deposit |-> Deposit]
           left == money[c] - Deposit
<1>1. /\ c \in online /\ FreshAuctions # {}
      /\ money' = [money EXCEPT ![c] = left]
      /\ auctions' = [auctions EXCEPT ![a] = auc]
      /\ UNCHANGED <<online, Gone, spent>>
    BY DEF HandleAuctionSellItem, historyVars, Gone
<1>2. a \in AuctionId /\ auctions[a] = NULL
  <2>1. FreshAuctions \subseteq Nat
      BY CharacterDBAssumption DEF CharacterDBAssumption, FreshAuctions
  <2>2. a \in FreshAuctions
      BY <1>1, <2>1, LeastOf
  <2> QED
      BY <2>2 DEF FreshAuctions, EconomyInv, SavedAsMade
<1>3. Deposit \in Nat
    BY AuctionAssumption DEF AuctionAssumption
<1>4. auc # NULL /\ auc.bid = 0 /\ auc.deposit = Deposit
  <2>1. auc \in AuctionRow
      BY AuctionAssumption DEF AuctionAssumption, AuctionRow
  <2> QED
      BY <2>1, NullIs
<1> HIDE DEF a, auc
<1>5. /\ auctions'[a] = auc
      /\ \A b \in AuctionId \ {a} : auctions'[b] = auctions[b]
      /\ \A x \in online : money'[x] = IF x = c THEN money[x] - Deposit
                                       ELSE money[x]
    BY <1>1, <1>2 DEF EconomyInv, StateTyped
<1>6. HeldByRow(auctions'[a]) = Deposit /\ HeldByRow(auctions[a]) = 0
    BY <1>2, <1>3, <1>4, <1>5 DEF HeldByRow
<1>7. spent \in Int /\ spent' = spent
    BY <1>1 DEF CrashInv
<1>8. IsPost(<<>>) /\ InPost(<<>>) = 0
    BY PostOfOne
<1>9. UnbidIsFree'
    BY <1>4, <1>5 DEF CrashInv, UnbidIsFree
<1>10. InPost(<<>>) + HeldByRow(auctions'[a]) + spent'
         = HeldByRow(auctions[a]) + spent + Deposit
    BY <1>3, <1>6, <1>7, <1>8
<1>11. Balanced(c, Deposit, <<>>, a)
    BY <1>1, <1>3, <1>10 DEF Balanced
<1>12. spent' \in Int /\ spent' >= spent
    BY <1>7
<1> QED
    BY <1>1, <1>2, <1>5, <1>8, <1>9, <1>11, <1>12, HouseMoves

\* A trade: the gold of the two changes hands.
LEMMA ExchangeMoves ==
    ASSUME EconomyInv, EconomyInv', CrashInv, TradeInv, NEW c \in Character,
           pTrader[c] # NULL, Exchange(c, pTrader[c]),
           UNCHANGED <<online, historyVars, auctions>>,
           NEW txs, Len(txs) = 1, Delays(txs, {})
    PROVE  CrashInv'
<1> DEFINE d == pTrader[c]
           gc == (money[c] - tradeGold[c]) + tradeGold[d]
           gd == (money[d] - tradeGold[d]) + tradeGold[c]
           e0 == Drained
           e1 == Drained'
           G == {c} \cup {d}
<1>1. /\ c \in online /\ d \in online /\ c # d /\ d \in Character
      /\ tradeGold[c] \in Nat /\ tradeGold[d] \in Nat
    BY TwoOfATrade DEF TradeInv, TradeTypeOK
<1>2. money[c] \in Int /\ money[d] \in Int
    BY <1>1 DEF EconomyInv, StateTyped
<1>3. money' = [money EXCEPT ![c] = gc, ![d] = gd]
    BY DEF Exchange
<1>4. UNCHANGED <<online, spent, Gone, auctions>>
    BY DEF historyVars, Gone
<1>5. gc + gd = money[c] + money[d]
    BY <1>1, <1>2
<1> HIDE DEF gc, gd, d
<1>6. money'[c] = gc /\ money'[d] = gd
      /\ \A x \in online \ {c, d} : money'[x] = money[x]
    BY <1>1, <1>3 DEF EconomyInv, StateTyped
<1>7. /\ IsDatabase(e0) /\ IsDatabase(e1)
      /\ \A x \in online : e0.gold[x] = money[x] /\ e1.gold[x] = money'[x]
      /\ \A b \in AuctionId : e1.auction[b] = e0.auction[b]
    BY <1>4, DrainedGold, DrainedGoldNext
<1>8. \A x \in Character \ G : e1.gold[x] = e0.gold[x]
  <2>1. \A x \in Character \ online : e1.gold[x] = e0.gold[x]
      BY DEF Delays
  <2> QED
      BY <1>6, <1>7, <2>1
<1>9. \A m \in MailId : e1.mail[m] = e0.mail[m]
    BY DEF Delays
<1>10. /\ e0.gold \in [Character -> Int] /\ e1.gold \in [Character -> Int]
       /\ IsFiniteSet(Character)
    BY <1>7, GoldInIs, CharacterDBAssumption DEF CharacterDBAssumption
<1>11. /\ e0.gold[c] = money[c] /\ e0.gold[d] = money[d]
       /\ e1.gold[c] = gc /\ e1.gold[d] = gd
    BY <1>1, <1>6, <1>7
<1>12. /\ {c} \in SUBSET Character /\ {d} \in SUBSET Character
       /\ {c} \cap {d} = {} /\ G \in SUBSET Character
    BY <1>1
<1> HIDE DEF e0, e1
<1>13. ASSUME NEW f \in [Character -> Int]
       PROVE  Total(On(f, G)) = f[c] + f[d]
  <2> DEFINE C == {c}
             D == {d}
  <2>1. Total(On(f, C)) = f[c] /\ Total(On(f, D)) = f[d]
      BY <1>1, <1>10, TotalOfFew
  <2>2. C \in SUBSET Character /\ D \in SUBSET Character /\ C \cap D = {}
      BY <1>12
  <2> HIDE DEF C, D
  <2>3. Total(On(f, C \cup D)) = Total(On(f, C)) + Total(On(f, D))
      BY ONLY <1>10, <2>2, f \in [Character -> Int], TotalOfParts
  <2> QED
      BY <2>1, <2>3 DEF C, D
<1>14. /\ Total(On(e0.gold, G)) = money[c] + money[d]
       /\ Total(On(e1.gold, G)) = gc + gd
    BY <1>10, <1>11, <1>13
<1> DEFINE N == {}
<1>15. N \in SUBSET MailId /\ N \in SUBSET AuctionId
    OBVIOUS
<1>16. /\ \A f \in {MailGoldOf(e0), MailGoldOf(e1)} : Total(On(f, N)) = 0
       /\ \A f \in {HeldGoldOf(e0), HeldGoldOf(e1)} : Total(On(f, N)) = 0
  <2>1. \A f : On(f, N) \in [{} -> Int]
      BY DEF On
  <2>2. \A f : Total(On(f, N)) = 0
      BY <2>1, TotalFew
  <2> QED
      BY <2>2
<1>17. /\ \A m \in MailId \ N : e1.mail[m] = e0.mail[m]
       /\ \A b \in AuctionId \ N : e1.auction[b] = e0.auction[b]
    BY <1>7, <1>9
<1> HIDE DEF N, G
<1>18. /\ GoldIn(e0) \in Int /\ GoldIn(e1) \in Int
       /\ GoldIn(e1) - GoldIn(e0) =
            (Total(On(e1.gold, G)) - Total(On(e0.gold, G)))
            + (Total(On(MailGoldOf(e1), N)) - Total(On(MailGoldOf(e0), N)))
            + (Total(On(HeldGoldOf(e1), N)) - Total(On(HeldGoldOf(e0), N)))
  <2>1. /\ IsDatabase(e0) /\ IsDatabase(e1) /\ G \in SUBSET Character
        /\ \A x \in Character \ G : e1.gold[x] = e0.gold[x]
      BY <1>7, <1>8, <1>12
  <2> QED
      BY ONLY <1>15, <1>17, <2>1, GoldShift
<1>19. GoldIn(e1) = GoldIn(e0)
    BY <1>2, <1>5, <1>14, <1>16, <1>18
<1>20. spent \in Int /\ spent' = spent
    BY <1>4 DEF CrashInv
<1>21. Len(txs) \in Nat /\ Queued(txs)
    BY DEF Delays
<1>22. Halfway(txs)
    BY <1>21, OneInserts, InsertsAreHalfway
<1>23. UnbidIsFree'
    BY <1>4 DEF CrashInv, UnbidIsFree
<1>24. GoldIn(Drained') + spent' = GoldIn(Drained) + spent
    BY <1>19, <1>20 DEF e0, e1
<1>25. spent' \in Int /\ spent' >= spent /\ Gone \subseteq Gone'
    BY <1>4, <1>20
<1>26. GoldStep(txs)
    BY <1>21, <1>22, <1>23, <1>24, <1>25 DEF GoldStep
<1> QED
    BY <1>26, GoldMoved

----------------------------------------------------------------------------
(* All steps.                                                              *)

\* Every step of a trade.
LEMMA TradeNextMoves ==
    ASSUME EconomyInv, EconomyInv', CrashInv, TradeInv, TradeNext,
           UNCHANGED <<mailVars, auctions>>
    PROVE  CrashInv'
<1>1. ASSUME UNCHANGED otherVars PROVE CrashInv'
  <2>1. UNCHANGED <<dbVars, historyVars, auctions>>
      BY <1>1 DEF otherVars
  <2> QED
      BY <2>1, NothingLost
<1>2. ASSUME NEW c \in Character, HandleAcceptTrade(c) PROVE CrashInv'
  <2>1. UNCHANGED historyVars /\ pTrader[c] # NULL
      BY <1>2 DEF HandleAcceptTrade, Trading
  <2>2. \/ UNCHANGED acceptFrame
        \/ Exchange(c, pTrader[c]) /\ UNCHANGED online
      BY <1>2 DEF HandleAcceptTrade
  <2>3. CASE UNCHANGED acceptFrame
    <3>1. UNCHANGED otherVars
        BY <2>1, <2>3 DEF acceptFrame, otherVars
    <3> QED
        BY <1>1, <3>1
  <2>4. CASE Exchange(c, pTrader[c]) /\ UNCHANGED online
    <3>1. PICK txs : Len(txs) = 1 /\ Delays(txs, {})
        BY <2>1, <2>4, ExchangeKeeps
    <3> QED
        BY <2>1, <2>4, <3>1, ExchangeMoves
  <2> QED
      BY <2>2, <2>3, <2>4
<1>3. \/ UNCHANGED otherVars
      \/ \E c \in Character : HandleAcceptTrade(c)
    BY DEF TradeNext, HandleInitiateTrade, HandleBeginTrade,
           HandleSetTradeGold, HandleSetTradeItem, HandleClearTradeItem,
           HandleUnacceptTrade, HandleCancelTrade, otherVars
<1> QED
    BY <1>1, <1>2, <1>3

\* Every step of the mail handlers.
LEMMA MailNextMoves ==
    ASSUME EconomyInv, EconomyInv', CrashInv, MailNext, UNCHANGED auctions
    PROVE  CrashInv'
<1>1. PICK c \in Character :
        \/ LoadMail(c)
        \/ \E to \in Character, items \in SUBSET Item,
              gold \in MailGold, cod \in MailGold :
             HandleSendMail(c, to, items, gold, cod)
        \/ \E i \in Item, m \in MailId \cup {NULL} : HandleTakeItem(c, m, i)
        \/ \E m \in MailId :
             \/ HandleMarkAsRead(c, m)
             \/ HandleTakeMoney(c, m)
             \/ HandleMailDelete(c, m)
             \/ HandleReturnToSender(c, m)
    BY DEF MailNext
<1>2. CASE LoadMail(c)
  <2>1. UNCHANGED <<dbVars, historyVars>>
      BY <1>2 DEF LoadMail
  <2> QED
      BY <2>1, NothingLost
<1>3. ASSUME NEW to \in Character, NEW items \in SUBSET Item,
             NEW gold \in MailGold, NEW cod \in MailGold,
             HandleSendMail(c, to, items, gold, cod)
      PROVE  CrashInv'
  <2>1. PICK mail : SentBy(mail, c, to, items, gold, cod) /\ MailSent(mail)
      BY <1>3, HandleSendMailKeeps
  <2> QED
      BY <1>3, <2>1, MailSentMoves
<1>4. ASSUME NEW m \in MailId, HandleTakeMoney(c, m) PROVE CrashInv'
  <2>1. TookMoney(c, m)
      BY <1>4, HandleTakeMoneyKeeps
  <2> QED
      BY <2>1, TookMoneyMoves
<1>5. ASSUME NEW m \in MailId, HandleMailDelete(c, m) PROVE CrashInv'
  <2>1. UNCHANGED <<dbVars, historyVars>>
      BY <1>5 DEF HandleMailDelete
  <2> QED
      BY <2>1, NothingLost
<1>6. ASSUME NEW m \in MailId, HandleReturnToSender(c, m) PROVE CrashInv'
  <2>1. SentBack(c, m)
      BY <1>6, HandleReturnToSenderKeeps
  <2> QED
      BY <2>1, SentBackMoves
<1>7. ASSUME NEW m \in MailId \cup {NULL}, NEW i \in Item,
             HandleTakeItem(c, m, i)
      PROVE  CrashInv'
  <2>1. TookItem(c, m, i)
      BY <1>7, HandleTakeItemKeeps
  <2> QED
      BY <2>1, TookItemMoves
<1>8. ASSUME NEW m \in MailId, HandleMarkAsRead(c, m) PROVE CrashInv'
  <2>1. UNCHANGED <<dbVars, historyVars>>
      BY <1>8 DEF HandleMarkAsRead
  <2> QED
      BY <2>1, NothingLost
<1> QED
    BY <1>1, <1>2, <1>3, <1>4, <1>5, <1>6, <1>7, <1>8

\* Every step of the auction house.
LEMMA AuctionNextMoves ==
    ASSUME EconomyInv, EconomyInv', CrashInv, AuctionNext PROVE CrashInv'
<1>1. ASSUME NEW c \in Character, NEW i \in Item, NEW startbid \in Prices,
             NEW buyout \in Prices \cup {0},
             HandleAuctionSellItem(c, i, startbid, buyout)
      PROVE  CrashInv'
  <2>1. PICK txs : Len(txs) = 1 /\ Delays(txs, {})
      BY <1>1, HandleAuctionSellItemKeeps
  <2>2. HouseSent(<<>>)
      BY <2>1, NoneSent
  <2> QED
      BY <1>1, <2>2, SellItemMoves
<1>2. ASSUME NEW a \in AuctionId, Update(a) PROVE CrashInv'
    BY <1>2, UpdateKeeps, UpdateMoves
<1>3. ASSUME NEW a \in AuctionId, NEW c \in Character,
             HandleAuctionRemoveItem(c, a)
      PROVE  CrashInv'
    BY <1>3, HandleAuctionRemoveItemKeeps, RemovalMoves
<1>4. ASSUME NEW a \in AuctionId, NEW c \in Character, NEW price \in Prices,
             PlaceBid(c, a, price)
      PROVE  CrashInv'
    BY <1>4, PlaceBidKeeps, PlaceBidMoves
<1>5. ASSUME NEW a \in AuctionId, NEW c \in Character, NEW price \in Prices,
             Buyout(c, a, price)
      PROVE  CrashInv'
    BY <1>5, BuyoutKeeps, BuyoutMoves
<1> QED
    BY <1>1, <1>2, <1>3, <1>4, <1>5 DEF AuctionNext

\* Every step.
LEMMA NextMoves ==
    EconomyInv /\ EconomyInv' /\ TradeInv /\ CrashInv /\ [Next]_vars
      => CrashInv'
<1> SUFFICES ASSUME EconomyInv, EconomyInv', TradeInv, CrashInv, [Next]_vars
             PROVE  CrashInv'
    OBVIOUS
<1>1. CASE UNCHANGED vars
  <2>1. UNCHANGED <<dbVars, historyVars, auctions>>
      BY <1>1 DEF vars
  <2> QED
      BY <2>1, NothingLost
<1>2. CASE TradeNext /\ UNCHANGED <<mailVars, auctions>>
    BY <1>2, TradeNextMoves
<1>3. CASE MailNext /\ UNCHANGED auctions
    BY <1>3, MailNextMoves
<1>4. CASE AuctionNext
    BY <1>4, AuctionNextMoves
<1>5. ASSUME NEW c \in Character, LoadFromDB(c) PROVE CrashInv'
  <2>1. UNCHANGED <<dbVars, historyVars, auctions>>
      BY <1>5 DEF LoadFromDB
  <2> QED
      BY <2>1, NothingLost
<1>6. ASSUME NEW c \in Character, LogoutPlayer(c) PROVE CrashInv'
    BY <1>6, LogoutPlayerKeeps, LogoutMoves
<1>7. CASE Commit /\ UNCHANGED <<mailVars, auctions>>
    BY <1>7, CommitLosesNothing
<1>8. \/ UNCHANGED vars
      \/ Handler
      \/ Commit /\ UNCHANGED <<mailVars, auctions>>
    BY DEF Next
<1> QED
    BY <1>1, <1>2, <1>3, <1>4, <1>5, <1>6, <1>7, <1>8 DEF Handler

\* A sum of values that are all the same.
LEMMA TotalConstant ==
    ASSUME NEW S, IsFiniteSet(S), NEW f \in [S -> Int], NEW v \in Nat,
           \A x \in S : f[x] = v
    PROVE  Total(f) = v * Cardinality(S)
<1> DEFINE h == [s \in SUBSET S |-> v * Cardinality(s)]
<1>1. \A s \in SUBSET S : IsFiniteSet(s) /\ Cardinality(s) \in Nat
    BY FS_Subset, FS_CardinalityType
<1>2. \A s \in SUBSET S : h[s] = v * Cardinality(s) /\ h[s] \in Int
    BY <1>1
<1>3. h \in [SUBSET S -> Int]
    BY <1>2
<1> HIDE DEF h
<1>4. h[{}] = 0
  <2>1. {} \in SUBSET S /\ Cardinality({}) = 0
      BY FS_EmptySet
  <2> QED
      BY <1>2, <2>1
<1>5. ASSUME NEW s \in SUBSET S, NEW x \in s PROVE h[s] = f[x] + h[s \ {x}]
  <2> DEFINE n == Cardinality(s)
             t == s \ {x}
             k == Cardinality(t)
  <2>1. t \in SUBSET S /\ k = n - 1 /\ n \in Nat
      BY <1>1, FS_RemoveElement
  <2>2. h[s] = v * n /\ h[t] = v * k /\ f[x] = v
      BY <1>2, <2>1
  <2> HIDE DEF n, k, t
  <2>3. v * n = v + v * (n - 1)
      BY <2>1
  <2>4. h[s] = f[x] + h[t]
      BY <2>1, <2>2, <2>3
  <2> QED
      BY <2>4 DEF t
<1>6. IsSum(S, f, h)
    BY <1>3, <1>4, <1>5 DEF IsSum
<1>7. Total(f) = h[S]
    BY <1>6, TotalIs
<1> QED
    BY <1>2, <1>7

\* The initial states.
LEMMA InitMoves == EconomyInit => CrashInv
<1> SUFFICES ASSUME EconomyInit PROVE CrashInv
    OBVIOUS
<1>1. PICK f \in OwnedAtStart :
        db = [gold |-> [c \in Character |-> InitialGold], inv |-> f,
              mail |-> [m \in MailId |-> NULL],
              auction |-> [a \in AuctionId |-> NULL]]
    BY DEF EconomyInit, Init
<1>2. /\ queue = <<>> /\ spent = 0 /\ Gone = {}
      /\ auctions = [a \in AuctionId |-> NULL]
    BY DEF EconomyInit, Init, MailInit, AuctionInit, Gone
<1>3. /\ InitialGold \in Nat /\ IsFiniteSet(Character)
      /\ IsFiniteSet(MailId) /\ IsFiniteSet(AuctionId)
    BY CharacterDBAssumption DEF CharacterDBAssumption
<1>4. /\ db.gold = [c \in Character |-> InitialGold] /\ db.inv = f
      /\ db.mail = [m \in MailId |-> NULL]
      /\ db.auction = [a \in AuctionId |-> NULL] /\ f \in [Item -> Character]
    BY <1>1 DEF OwnedAtStart
<1>5. EconomyInv
    BY InitKeeps
<1>6. Len(queue) = 0 /\ Committed[0] = db /\ Drained = db
  <2>1. Len(queue) = 0
      BY <1>2, OneOrTwo
  <2>2. IsSequence(queue)
      BY <1>2, OneOrTwo
  <2> QED
      BY <2>1, <2>2, CommittedIs DEF Drained
<1>7. IsDatabase(db)
    BY <1>5, <1>6, DrainedGold
<1>8. Total(db.gold) = AllGold
  <2> DEFINE g == db.gold
  <2>1. g \in [Character -> Int] /\ \A c \in Character : g[c] = InitialGold
      BY <1>3, <1>4
  <2> HIDE DEF g
  <2>2. Total(g) = InitialGold * Cardinality(Character)
      BY <1>3, <2>1, TotalConstant
  <2> QED
      BY <2>2 DEF g, AllGold
<1>9. /\ MailGoldOf(db) \in [MailId -> Int]
      /\ \A m \in MailId : MailGoldOf(db)[m] = 0
    BY <1>4 DEF MailGoldOf, InMailRow
<1>10. /\ HeldGoldOf(db) \in [AuctionId -> Int]
       /\ \A a \in AuctionId : HeldGoldOf(db)[a] = 0
    BY <1>4 DEF HeldGoldOf, HeldByRow
<1>11. ASSUME NEW S, IsFiniteSet(S), NEW g \in [S -> Int],
              \A x \in S : g[x] = 0
       PROVE  Total(g) = 0
  <2>1. {} \in SUBSET S /\ \A x \in S \ {} : g[x] = 0
      BY <1>11
  <2> QED
      BY <1>11, <2>1, TotalZeros, TotalSteps
<1>12. GoldIn(db) = AllGold
  <2>1. Total(MailGoldOf(db)) = 0 /\ Total(HeldGoldOf(db)) = 0
      BY <1>3, <1>9, <1>10, <1>11
  <2>2. GoldIn(db) = Total(db.gold) + Total(MailGoldOf(db))
                       + Total(HeldGoldOf(db))
      BY <1>7, GoldInIs
  <2> QED
      BY <1>8, <2>1, <2>2, AllGoldIs
<1>13. GoldConserved
    BY <1>2, <1>6, <1>12, AllGoldIs DEF GoldConserved
<1>14. UnbidIsFree
    BY <1>2 DEF UnbidIsFree
<1>15. \A k \in 0..Len(queue) : Committed[k] = db /\ ReturnedAfter(k) = 0
    BY <1>6 DEF ReturnedAfter
<1>16. GoldOnTheWay
    BY <1>2, <1>12, <1>15, AllGoldIs DEF GoldOnTheWay
<1>17. ItemsOnTheWay
  <2>1. \A i \in Item : ~Nowhere(db, i)
      BY <1>4, NullIs DEF Nowhere
  <2> QED
      BY <1>15, <2>1 DEF ItemsOnTheWay
<1> QED
    BY <1>2, <1>13, <1>14, <1>16, <1>17 DEF CrashInv

----------------------------------------------------------------------------
(* The theorems.                                                           *)

\* The inductive invariant: at any time the gold of all is accounted for, and
\* so it is in every state that the database passes through until the queue is
\* empty, but for a mail on its way back.
THEOREM CrashInvariant == Spec => []CrashInv
<1>1. Spec => []EconomyInv /\ []TradeInv
    BY EconomyInvariant, TradeInvariant, PTL
<1> QED
    BY <1>1, InitMoves, NextMoves, PTL DEF Spec

\* No trade, mail, bid, buyout, removal, expiry or logout makes gold or loses
\* it, whoever is in the world and whatever the delay thread has committed.
THEOREM GoldIsConserved == Spec => []GoldConserved
<1>1. CrashInv => GoldConserved
    BY DEF CrashInv
<1> QED
    BY <1>1, CrashInvariant, PTL

\* What is somewhere is counted.
LEMMA SomewhereIs ==
    ASSUME NEW d, NEW i, ~Nowhere(d, i) PROVE Places(d, i) > 0
<1> DEFINE M == MailsWith(d, i)
           A == AuctionsOf(d, i)
           n == IF d.inv[i] = NULL THEN 0 ELSE 1
<1>1. /\ M = {m \in MailId : InMail(d, m, i)}
      /\ A = {a \in AuctionId : InAuction(d, a, i)}
    BY DEF MailsWith, AuctionsOf, InMail, InAuction
<1>2. IsFiniteSet(M) /\ IsFiniteSet(A)
    BY <1>1, FS_Subset, CharacterDBAssumption DEF CharacterDBAssumption
<1>3. Places(d, i) = n + Cardinality(M) + Cardinality(A)
    BY DEF Places
<1>4. d.inv[i] # NULL \/ M # {} \/ A # {}
    BY <1>1 DEF Nowhere
<1>5. n \in Nat /\ (d.inv[i] # NULL => n = 1)
    OBVIOUS
<1> HIDE DEF M, A, n
<1>6. /\ Cardinality(M) \in Nat /\ (Cardinality(M) = 0 <=> M = {})
      /\ Cardinality(A) \in Nat /\ (Cardinality(A) = 0 <=> A = {})
    BY <1>2, FS_CardinalityType, FS_EmptySet
<1> QED
    BY <1>3, <1>4, <1>5, <1>6

\* What the database has now, by the invariant for none of the transactions.
LEMMA CrashNow ==
    ASSUME EconomyInv, CrashInv
    PROVE  CrashLosesNoGold /\ (GmLogTrade = TRUE => CrashLosesNoItem)
<1>1. Typed /\ IsSequence(queue) /\ Len(queue) \in Nat
    BY SequenceLength DEF EconomyInv, StateTyped, Typed
<1>2. Committed[0] = db /\ 0 \in 0..Len(queue)
    BY <1>1, CommittedIs
<1>3. DOMAIN queue = 1..Len(queue)
    BY <1>1 DEF IsSequence
<1>4. ReturnedAfter(0) = ReturnedNext
  <2>1. CASE queue = <<>>
    <3>1. Len(queue) = 0
        BY <2>1, OneOrTwo
    <3> QED
        BY <2>1, <3>1 DEF ReturnedAfter, ReturnedNext
  <2>2. CASE queue # <<>>
    <3>1. 0 < Len(queue) /\ Head(queue) = queue[1]
        BY <1>1, <2>2, Shortened
    <3> QED
        BY <2>2, <3>1 DEF ReturnedAfter, ReturnedNext, Returned
  <2> QED
      BY <2>1, <2>2
<1>5. CrashLosesNoGold
    BY <1>2, <1>4 DEF CrashInv, GoldOnTheWay, CrashLosesNoGold
<1>6. ASSUME GmLogTrade = TRUE, NEW i \in Item \ Gone
      PROVE  \/ Places(db, i) > 0
             \/ \E k \in DOMAIN queue :
                  /\ \A j \in 1..(k - 1) : DOMAIN queue[j] = {"inv"}
                  /\ "mail" \in DOMAIN queue[k]
                  /\ \E m \in DOMAIN queue[k].mail :
                       LET mail == queue[k].mail[m] IN
                       mail # NULL /\ i \in mail.items /\ mail.kind = "normal"
  <2>1. ~Nowhere(db, i) \/ Carried(queue, 0, i)
      BY <1>2, <1>6 DEF CrashInv, ItemsOnTheWay
  <2>2. CASE ~Nowhere(db, i)
      BY <2>2, SomewhereIs
  <2>3. CASE Carried(queue, 0, i)
    <3>1. PICK k \in 1..Len(queue) :
            /\ Carries(queue[k], i)
            /\ \A x \in 1..Len(queue) : 0 < x /\ x < k => DOMAIN queue[x] = {"inv"}
        BY <2>3 DEF Carried
    <3>2. \A j \in 1..(k - 1) : DOMAIN queue[j] = {"inv"}
      <4>1. \A j \in 1..(k - 1) : j \in 1..Len(queue) /\ 0 < j /\ j < k
          BY <1>1
      <4> QED
          BY <3>1, <4>1
    <3> QED
        BY <1>3, <3>1, <3>2 DEF Carries
  <2> QED
      BY <2>1, <2>2, <2>3
<1>7. GmLogTrade = TRUE => CrashLosesNoItem
    BY <1>6 DEF CrashLosesNoItem
<1> QED
    BY <1>5, <1>7

\* A crash at any time loses no gold but that of a mail on its way back to its
\* sender: what is paid and what it is paid for are in one transaction, or the
\* mail that carries it is inserted first.
THEOREM GoldSurvivesCrashes == Spec => []CrashLosesNoGold
<1>1. EconomyInv /\ CrashInv => CrashLosesNoGold
    BY CrashNow
<1> QED
    BY <1>1, EconomyInvariant, CrashInvariant, PTL

\* A crash at any time loses no gold but that of a mail on its way back to its
\* sender, and no item but one that a player sends or sends back: the house
\* inserts its mails before it deletes the auction, and everything else is one
\* transaction. With GM.LogTrade on, as for ItemsInOnePlace.
THEOREM CrashIsHarmless == GmLogTrade = TRUE => (Spec => []CrashLosesNothing)
<1> SUFFICES ASSUME GmLogTrade = TRUE PROVE Spec => []CrashLosesNothing
    OBVIOUS
<1>1. EconomyInv /\ CrashInv => CrashLosesNothing
    BY CrashNow DEF CrashLosesNothing
<1> QED
    BY <1>1, EconomyInvariant, CrashInvariant, PTL
=============================================================================
