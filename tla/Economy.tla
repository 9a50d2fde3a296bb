------------------------------ MODULE Economy -------------------------------
(***************************************************************************)
(* Trade, mail and auction house together, on the same inventories and     *)
(* over the same delayed transactions, with characters who log in and out. *)
(***************************************************************************)
EXTENDS Trade, Auction

CONSTANT MaxHandlers        \* bound on the handlers that run
ASSUME EconomyAssumption == MaxHandlers \in Nat

VARIABLE handled            \* how many have run
vars == <<handled, ownVars, dbVars, historyVars, mailVars, auctions, tradeVars,
          agreed>>

EconomyInit == handled = 0 /\ Init /\ MailInit /\ AuctionInit /\ TradeInit

----------------------------------------------------------------------------
(* What the logins and logouts of WorldSessions do here.                   *)

\* Player::LoadFromDB, with the answers of queries that were delayed after
\* all that the character's last session has written.
LoadFromDB(c) ==
    /\ c \notin online /\ Cardinality(online) < MaxOnline
    /\ ~Writes("gold", c)
    /\ online' = online \cup {c}
    /\ money' = [money EXCEPT ![c] = db.gold[c]]
    /\ bag' = [bag EXCEPT ![c] = {i \in Item : db.inv[i] = c}]
    /\ UNCHANGED <<dbVars, historyVars, mailVars, auctions, tradeVars>>

\* Mutant: the trade goes on.
LogoutTrading(c) ==
    /\ c \in online
    /\ Delay(<<Both(SaveInventoryAndGoldToDB(c, money[c], bag[c]),
                    SaveMail(c, <<>>))>>)
    /\ GiveUp(c, ToDelete(c)) /\ deletedMails' = deletedMails \ ToDelete(c)
    /\ mailbox' = [mailbox EXCEPT ![c] = NULL]
    /\ online' = online \ {c}
    /\ money' = [money EXCEPT ![c] = 0] /\ bag' = [bag EXCEPT ![c] = {}]
    /\ UNCHANGED <<astray, auctions, tradeVars>>

\* WorldSession::LogoutPlayer: SaveToDB, then CleanupsBeforeDelete.
LogoutPlayer(c) ==
    /\ c \in online
    /\ Delay(<<Both(SaveInventoryAndGoldToDB(c, money[c], bag[c]),
                    SaveMail(c, <<>>))>>)
    /\ GiveUp(c, ToDelete(c)) /\ deletedMails' = deletedMails \ ToDelete(c)
    /\ mailbox' = [mailbox EXCEPT ![c] = NULL]
    /\ TradeCancel(c)
    /\ online' = online \ {c}
    /\ money' = [money EXCEPT ![c] = 0] /\ bag' = [bag EXCEPT ![c] = {}]
    /\ UNCHANGED <<astray, auctions>>

----------------------------------------------------------------------------
Handler ==
    \/ TradeNext /\ UNCHANGED <<mailVars, auctions>>
    \/ MailNext /\ UNCHANGED <<auctions, tradeVars>>
    \/ AuctionNext /\ UNCHANGED tradeVars
    \/ \E c \in Character : LoadFromDB(c) \/ LogoutPlayer(c)

Next ==
    /\ \/ handled < MaxHandlers /\ handled' = handled + 1 /\ Handler
       \/ Commit /\ UNCHANGED <<handled, mailVars, auctions, tradeVars>>
    /\ Agree

Spec == EconomyInit /\ [][Next]_vars

----------------------------------------------------------------------------
(* Properties.                                                             *)

\* Every operation saves what it has changed: once the queue is empty, the
\* database has the gold, the items, the loaded mails and the auctions that
\* are in memory.  Items that are astray are in none of them here.
SavedAsMade ==
    LET saved == Drained IN
    /\ \A c \in online :
         /\ saved.gold[c] = money[c]
         /\ {i \in Item : saved.inv[i] = c} = bag[c]
         /\ mailbox[c] # NULL =>
              \A m \in DOMAIN mailbox[c] : saved.mail[m] = mailbox[c][m]
    /\ saved.auction = auctions

\* No operation makes gold or loses it: what the characters had at first is in
\* their hands, in mails, in auctions, or was spent.
GoldConserved == GoldIn(Drained) + spent = AllGold

\* An item is in one place, or was given up.  Nothing is said of those taken by
\* naming a mail that does not hold them.
ItemInOnePlace ==
    LET saved == Drained IN
    \A i \in Item \ astray :
        Places(saved, i) = IF i \in destroyed THEN 0 ELSE 1

\* The ids of the mails on their way back that a transaction inserts.
ReturnedBy(tx) ==
    IF DOMAIN tx = {"mail"}
    THEN {m \in DOMAIN tx.mail : tx.mail[m] # NULL /\ tx.mail[m].returned} ELSE {}

\* The gold that the next transaction puts back.
ReturnedNext ==
    IF queue = <<>> THEN 0
    ELSE Total([m \in ReturnedBy(Head(queue)) |-> Head(queue).mail[m].gold])

\* A crash loses no gold but that of a mail on its way back to the sender: what
\* is taken from one place in the database is in another before or at once.
CrashLosesNoGold == GoldIn(db) + spent + ReturnedNext >= AllGold

\* A crash loses no item but one that a player sends or sends back: the house
\* inserts its mails before it deletes the auction.  Nothing is said of items
\* that were given up or are astray.
CrashLosesNoItem ==
    \A i \in Item \ Gone :
        \/ Places(db, i) > 0
        \/ \E k \in DOMAIN queue :
             /\ \A j \in 1..(k - 1) : DOMAIN queue[j] = {"inv"}
             /\ "mail" \in DOMAIN queue[k]
             /\ \E m \in DOMAIN queue[k].mail :
                    LET mail == queue[k].mail[m] IN
                    mail # NULL /\ i \in mail.items /\ mail.kind = "normal"

CrashLosesNothing == CrashLosesNoGold /\ CrashLosesNoItem

\* What will be exchanged is what both accepted: the gold, and the items that
\* were shown at that time.
AcceptedAsShown ==
    \A c \in Character : acceptTrade[c] =>
        LET d == pTrader[c] IN
        /\ agreed[c].gold = tradeGold[d]
        /\ \A s \in TradeSlot : agreed[c].items[s] \in {tradeItems[d][s], NULL}

=============================================================================
