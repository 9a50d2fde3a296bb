------------------------------- MODULE Trade --------------------------------
(***************************************************************************)
(* A trade between two characters in the world.  Each has an offer, gold   *)
(* and items in slots of which one is not exchanged, and a flag of         *)
(* acceptance.  Nothing is reserved: what is offered can leave the         *)
(* inventory by other ways before the trade is executed.                   *)
(*                                                                         *)
(* shown is what the last packet told a client of the offer of the other,  *)
(* agreed what that was when he accepted.                                  *)
(* Where characters stand, whether they live or ignore each other, is left *)
(* open: a trade may or may not start.                                     *)
(***************************************************************************)
EXTENDS CharacterDB

CONSTANTS
    TradeSlot,      \* the slots of an offer
    NonTraded,      \* TRADE_SLOT_NONTRADED, one of them
    TradeGold       \* amounts that are offered

ASSUME TradeAssumption == NonTraded \in TradeSlot /\ TradeGold \subseteq Nat

VARIABLES
    pTrader,        \* with whom, or NULL
    acceptTrade, tradeItems, tradeGold,
    shown, agreed   \* history, see above

tradeVars == <<pTrader, acceptTrade, tradeItems, tradeGold, shown>>

NoItems == [s \in TradeSlot |-> NULL]
Nothing == [items |-> NoItems, gold |-> 0]

TradeInit ==
    /\ pTrader = [c \in Character |-> NULL]
    /\ acceptTrade = [c \in Character |-> FALSE]
    /\ tradeItems = [c \in Character |-> NoItems]
    /\ tradeGold = [c \in Character |-> 0]
    /\ shown = [c \in Character |-> Nothing]
    /\ agreed = [c \in Character |-> Nothing]

\* For both of a trade the value v.
ForBoth(f, c, d, v) == [f EXCEPT ![c] = v, ![d] = v]

\* ClearTrade of both.
ClearTrade(c, d) ==
    /\ acceptTrade' = ForBoth(acceptTrade, c, d, FALSE)
    /\ tradeItems' = ForBoth(tradeItems, c, d, NoItems)
    /\ tradeGold' = ForBoth(tradeGold, c, d, 0)
    /\ shown' = ForBoth(shown, c, d, Nothing)

EndTrade(c, d) ==
    /\ ClearTrade(c, d)
    /\ pTrader' = ForBoth(pTrader, c, d, NULL)

\* Player::TradeCancel, also part of a logout.
TradeCancel(c) ==
    IF pTrader[c] = NULL THEN UNCHANGED tradeVars ELSE EndTrade(c, pTrader[c])

\* What the other sees: an item that is not in the inventory is not shown.
Visible(c, offered, gold) ==
    [items |-> [s \in TradeSlot |->
                  IF offered[s] \in bag[c] THEN offered[s] ELSE NULL],
     gold |-> gold]

\* Mutant: only the flag of the one who is shown the offer is reset.
SendUpdateTradeOne(c, offered, gold) ==
    /\ acceptTrade' = [acceptTrade EXCEPT ![c] = FALSE]
    /\ shown' = [shown EXCEPT ![pTrader[c]] = Visible(c, offered, gold)]

\* SendUpdateTrade by the session of the other of c, who has this offer now.
SendUpdateTrade(c, offered, gold) ==
    /\ acceptTrade' = ForBoth(acceptTrade, c, pTrader[c], FALSE)
    /\ shown' = [shown EXCEPT ![pTrader[c]] = Visible(c, offered, gold)]

otherVars == <<ownVars, dbVars, historyVars>>

----------------------------------------------------------------------------
(* The handlers of the trade opcodes.                                      *)

HandleInitiateTrade(c, d) ==
    /\ c \in online /\ d \in online /\ c # d
    /\ pTrader[c] = NULL /\ pTrader[d] = NULL
    /\ pTrader' = [pTrader EXCEPT ![c] = d, ![d] = c]
    /\ UNCHANGED <<acceptTrade, tradeItems, tradeGold, shown, otherVars>>

Trading(c) == pTrader[c] # NULL

HandleBeginTrade(c) ==
    /\ Trading(c) /\ ClearTrade(c, pTrader[c])
    /\ UNCHANGED <<pTrader, otherVars>>

HandleSetTradeGold(c, gold) ==
    /\ Trading(c)
    /\ tradeGold' = [tradeGold EXCEPT ![c] = gold]
    /\ SendUpdateTrade(c, tradeItems[c], gold)
    /\ UNCHANGED <<pTrader, tradeItems, otherVars>>

HandleSetTradeItem(c, s, i) ==
    /\ Trading(c) /\ i \in bag[c]
    /\ \A t \in TradeSlot : tradeItems[c][t] # i
    /\ LET offered == [tradeItems[c] EXCEPT ![s] = i] IN
       /\ tradeItems' = [tradeItems EXCEPT ![c] = offered]
       /\ SendUpdateTrade(c, offered, tradeGold[c])
    /\ UNCHANGED <<pTrader, tradeGold, otherVars>>

HandleClearTradeItem(c, s) ==
    /\ Trading(c)
    /\ LET offered == [tradeItems[c] EXCEPT ![s] = NULL] IN
       /\ tradeItems' = [tradeItems EXCEPT ![c] = offered]
       /\ SendUpdateTrade(c, offered, tradeGold[c])
    /\ UNCHANGED <<pTrader, tradeGold, otherVars>>

HandleUnacceptTrade(c) ==
    /\ Trading(c)
    /\ acceptTrade' = [acceptTrade EXCEPT ![c] = FALSE]
    /\ UNCHANGED <<pTrader, tradeItems, tradeGold, shown, otherVars>>

HandleCancelTrade(c) == c \in online /\ TradeCancel(c) /\ UNCHANGED otherVars

\* The items that c gives: those in a slot that are (still) his.
Given(c) == {tradeItems[c][s] : s \in TradeSlot \ {NonTraded}} \cap bag[c]

HasGold(c) == tradeGold[c] <= money[c]

\* The rest of HandleAcceptTrade when both accept: each gives his offer.
Exchange(c, d) ==
    LET goldOf(x, y) == (money[x] - tradeGold[x]) + tradeGold[y]
        bagOf(x, y) == (bag[x] \ Given(x)) \cup Given(y)
    IN
    /\ money' = [money EXCEPT ![c] = goldOf(c, d), ![d] = goldOf(d, c)]
    /\ bag' = [bag EXCEPT ![c] = bagOf(c, d), ![d] = bagOf(d, c)]
    /\ Delay(<<Both(SaveInventoryAndGoldToDB(c, goldOf(c, d), bagOf(c, d)),
                    SaveInventoryAndGoldToDB(d, goldOf(d, c), bagOf(d, c)))>>)
    /\ EndTrade(c, d)

Accept(c) == acceptTrade' = [acceptTrade EXCEPT ![c] = TRUE]
Refuse(c) == acceptTrade' = [acceptTrade EXCEPT ![c] = FALSE]
acceptFrame == <<pTrader, tradeItems, tradeGold, shown, ownVars, dbVars>>

HandleAcceptTrade(c) ==
    LET d == pTrader[c] IN
    /\ Trading(c)
    /\ \/ ~HasGold(c) /\ Refuse(c) /\ UNCHANGED acceptFrame
       \/ HasGold(c) /\ ~HasGold(d) /\ Refuse(d) /\ UNCHANGED acceptFrame
       \/ /\ HasGold(c) /\ HasGold(d)
          /\ IF /\ acceptTrade[d]
                /\ CanStoreItems(d, Given(c), Given(d))
                /\ CanStoreItems(c, Given(d), Given(c))
             THEN Exchange(c, d) /\ UNCHANGED online
             ELSE Accept(c) /\ UNCHANGED acceptFrame
    /\ UNCHANGED historyVars

TradeNext ==
    \E c \in Character :
        \/ \E d \in Character : HandleInitiateTrade(c, d)
        \/ HandleBeginTrade(c)
        \/ \E gold \in TradeGold : HandleSetTradeGold(c, gold)
        \/ \E s \in TradeSlot :
             \/ HandleClearTradeItem(c, s)
             \/ \E i \in Item : HandleSetTradeItem(c, s, i)
        \/ HandleUnacceptTrade(c) \/ HandleAcceptTrade(c)
        \/ HandleCancelTrade(c)

\* A part of every step of a specification with these actions.
Agree ==
    agreed' = [c \in Character |->
                 IF ~acceptTrade'[c] THEN Nothing
                 ELSE IF acceptTrade[c] THEN agreed[c] ELSE shown[c]]

----------------------------------------------------------------------------
(* Properties of every module that takes these actions as they are.        *)

\* pTrader points to a character in the world who points back, or to none.
TradersPaired ==
    \A c \in Character :
        IF pTrader[c] = NULL THEN ~acceptTrade[c] /\ tradeItems[c] = NoItems
        ELSE /\ pTrader[c] \in online \ {c} /\ c \in online
             /\ pTrader[pTrader[c]] = c
=============================================================================
