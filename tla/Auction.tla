------------------------------ MODULE Auction -------------------------------
(***************************************************************************)
(* One auction house: AuctionsMap and the items it holds (mAitems), with   *)
(* their rows.  An auction ends by a buyout, by its owner, or in Update,   *)
(* which asks the database at once for those whose time is over and then   *)
(* looks for them in AuctionsMap.  As in Mail there is no clock.           *)
(*                                                                         *)
(* What is left out: the auction house bot, houses other than one, and the *)
(* mail that only announces a sale.  Characters have accounts of their own,*)
(* so the check on bids of another character of the account finds nothing. *)
(***************************************************************************)
EXTENDS Mail

CONSTANTS
    Prices,         \* that clients name
    Deposit,        \* taken for an auction
    CutFactor,      \* the rate of the cut, as a whole number: see AuctionCut;
                    \* with more than 1 the profit below would wrap
    GmLogTrade      \* GM.LogTrade of the configuration

AuctionRow ==
    [owner : Character, item : Item, bidder : Character \cup {NULL}, bid : Nat,
     startbid : Nat, buyout : Nat, deposit : Nat]

ASSUME AuctionAssumption ==
    /\ NULL \notin AuctionRow
    /\ Prices \subseteq Nat \ {0} /\ Deposit \in Nat /\ CutFactor \in {0, 1}
    /\ GmLogTrade \in BOOLEAN

VARIABLE auctions   \* AuctionsMap by id, NULL: none

AuctionInit == auctions = [a \in AuctionId |-> NULL]

\* GenerateAuctionID: the first id that nobody has.
FreshAuctions ==
    {a \in AuctionId :
        auctions[a] = NULL /\ db.auction[a] = NULL /\ ~Writes("auction", a)}

Listed == {a \in AuctionId : auctions[a] # NULL}
AItems == {auctions[a].item : a \in Listed}

\* The rate times the percentage of the house is cut off to a whole number
\* before it is multiplied with the bid.
AuctionCut(bid) == CutFactor * bid

\* The mails, as sequences of what MailDraft is given.
MailGoldTo(to, gold) ==
    IF gold = 0 THEN <<>> ELSE <<NewMail(NULL, to, "auction", {}, gold)>>
MailItemTo(to, i) == <<NewMail(NULL, to, "auction", {i}, 0)>>

SuccessfulMail(auc) ==
    MailGoldTo(auc.owner, (auc.bid + auc.deposit) - AuctionCut(auc.bid))

\* SendAuctionWonMail finds the account of an offline winner only when trades
\* of game masters are logged, and sends nothing without an account.
WonMail(auc) ==
    IF auc.bidder \in online \/ GmLogTrade
    THEN MailItemTo(auc.bidder, auc.item) ELSE <<>>
ExpiredMail(auc) == MailItemTo(auc.owner, auc.item)

\* Mutant: the transaction first, then the mails.
SendAllLast(mails, tx) ==
    LET ids == MailIds(Len(mails))
        insert == [k \in DOMAIN mails |-> [mail |-> OneRow(ids[k], mails[k])]] IN
    /\ Len(mails) <= Cardinality(FreshMails)
    /\ mailbox' = SendMailsTo(mailbox, ids, mails)
    /\ Delay(<<tx>> \o insert)

\* These mails, each a transaction, and then tx.
SendAll(mails, tx) ==
    LET ids == MailIds(Len(mails))
        insert == [k \in DOMAIN mails |-> [mail |-> OneRow(ids[k], mails[k])]] IN
    /\ Len(mails) <= Cardinality(FreshMails)
    /\ mailbox' = SendMailsTo(mailbox, ids, mails)
    /\ Delay(insert \o <<tx>>)

SaveAuction(a, auc) == [auction |-> OneRow(a, auc)]
DeleteAuction(a) == SaveAuction(a, NULL)

\* Paid but given to nobody: the deposit, and the cut, of an auction that ends
\* with these mails.
Kept(auc, mails, cut) ==
    spent' = spent + cut + auc.bid + auc.deposit
               - Total([k \in DOMAIN mails |-> mails[k].gold])

----------------------------------------------------------------------------
(* The handlers of the auction opcodes.                                    *)

\* Mutant: the inventory is not saved.
SellItemUnsaved(c, i, startbid, buyout) ==
    LET a == Min(FreshAuctions)
        auc == [owner |-> c, item |-> i, bidder |-> NULL, bid |-> 0,
                startbid |-> startbid, buyout |-> buyout, deposit |-> Deposit]
    IN
    /\ c \in online /\ i \in bag[c] /\ FreshAuctions # {}
    /\ i \notin AItems /\ Deposit <= money[c]
    /\ money' = [money EXCEPT ![c] = @ - Deposit]
    /\ bag' = [bag EXCEPT ![c] = @ \ {i}]
    /\ auctions' = [auctions EXCEPT ![a] = auc]
    /\ Delay(<<Both(SaveGoldToDB(c, money[c] - Deposit), SaveAuction(a, auc))>>)
    /\ UNCHANGED <<online, historyVars, mailVars>>

HandleAuctionSellItem(c, i, startbid, buyout) ==
    LET a == Min(FreshAuctions)
        auc == [owner |-> c, item |-> i, bidder |-> NULL, bid |-> 0,
                startbid |-> startbid, buyout |-> buyout, deposit |-> Deposit]
        left == money[c] - Deposit
        inventory == SaveInventoryAndGoldToDB(c, left, bag[c] \ {i})
    IN
    /\ c \in online /\ i \in bag[c] /\ FreshAuctions # {}
    /\ i \notin AItems /\ Deposit <= money[c]
    /\ money' = [money EXCEPT ![c] = left]
    /\ bag' = [bag EXCEPT ![c] = @ \ {i}]
    /\ auctions' = [auctions EXCEPT ![a] = auc]
    /\ Delay(<<Both(Both([inv |-> OneRow(i, NULL)], SaveAuction(a, auc)),
                    inventory)>>)
    /\ UNCHANGED <<online, historyVars, mailVars>>

\* GetAuctionOutBid is one for the small bids of a model.
GoodBid(c, a, price) ==
    /\ c \in online /\ auctions[a] # NULL /\ auctions[a].owner # c
    /\ price > auctions[a].bid /\ price >= auctions[a].startbid
    /\ price <= money[c]
IsBuyout(a, price) == auctions[a].buyout # 0 /\ price >= auctions[a].buyout

\* What a bidder adds to what he has bid already, and the mail to another.
Added(c, auc, price) == IF auc.bidder = c THEN price - auc.bid ELSE price
OutbiddedMail(c, auc) ==
    IF auc.bidder \in {NULL, c} THEN <<>> ELSE MailGoldTo(auc.bidder, auc.bid)

\* Mutant: the last bidder is forgotten.
BidForgets(c, a, price) ==
    /\ GoodBid(c, a, price) /\ ~IsBuyout(a, price)
    /\ LET auc == [auctions[a] EXCEPT !.bidder = c, !.bid = price]
           left == money[c] - Added(c, auctions[a], price) IN
       /\ money' = [money EXCEPT ![c] = left]
       /\ auctions' = [auctions EXCEPT ![a] = auc]
       /\ SendAll(<<>>, Both(SaveAuction(a, auc),
                                  SaveInventoryAndGoldToDB(c, left, bag[c])))
    /\ UNCHANGED <<online, bag, historyVars, deletedMails>>

\* HandleAuctionPlaceBid below the buyout.
PlaceBid(c, a, price) ==
    /\ GoodBid(c, a, price) /\ ~IsBuyout(a, price)
    /\ LET auc == [auctions[a] EXCEPT !.bidder = c, !.bid = price]
           left == money[c] - Added(c, auctions[a], price) IN
       /\ money' = [money EXCEPT ![c] = left]
       /\ auctions' = [auctions EXCEPT ![a] = auc]
       /\ SendAll(OutbiddedMail(c, auctions[a]),
                  Both(SaveAuction(a, auc),
                       SaveInventoryAndGoldToDB(c, left, bag[c])))
    /\ UNCHANGED <<online, bag, historyVars, deletedMails>>

\* HandleAuctionPlaceBid at the buyout: its price is paid, whatever was named.
Buyout(c, a, price) ==
    /\ GoodBid(c, a, price) /\ IsBuyout(a, price)
    /\ LET buyout == auctions[a].buyout
           auc == [auctions[a] EXCEPT !.bidder = c, !.bid = buyout]
           left == money[c] - Added(c, auctions[a], buyout)
           ended == SuccessfulMail(auc) \o WonMail(auc) IN
       /\ money' = [money EXCEPT ![c] = left]
       /\ SendAll(OutbiddedMail(c, auctions[a]) \o ended,
                  Both(DeleteAuction(a),
                       SaveInventoryAndGoldToDB(c, left, bag[c])))
       /\ Kept(auc, ended, 0)
    /\ auctions' = [auctions EXCEPT ![a] = NULL]
    /\ UNCHANGED <<online, bag, destroyed, astray, deletedMails>>

\* HandleAuctionRemoveItem: the owner pays the cut of a bid that is given back.
HandleAuctionRemoveItem(c, a) ==
    /\ c \in online /\ auctions[a] # NULL /\ auctions[a].owner = c
    /\ LET auc == auctions[a]
           cut == AuctionCut(auc.bid)
           left == money[c] - cut
           cancelled == IF auc.bidder = NULL THEN <<>>
                        ELSE MailGoldTo(auc.bidder, auc.bid)
           mails == cancelled \o MailItemTo(c, auc.item) IN
       /\ cut <= money[c]
       /\ money' = [money EXCEPT ![c] = left]
       /\ SendAll(mails, Both(DeleteAuction(a),
                                   SaveInventoryAndGoldToDB(c, left, bag[c])))
       /\ Kept(auc, mails, cut)
    /\ auctions' = [auctions EXCEPT ![a] = NULL]
    /\ UNCHANGED <<online, bag, destroyed, astray, deletedMails>>

\* Mutant: the row of an auction that has ended is enough.
UpdateUnchecked(a) ==
    /\ db.auction[a] # NULL
    /\ LET auc == db.auction[a]
           mails == IF auc.bidder = NULL THEN ExpiredMail(auc)
                    ELSE SuccessfulMail(auc) \o WonMail(auc) IN
       /\ SendAll(mails, DeleteAuction(a))
       /\ Kept(auc, mails, 0)
    /\ auctions' = [auctions EXCEPT ![a] = NULL]
    /\ UNCHANGED <<ownVars, destroyed, astray, deletedMails>>

\* AuctionHouseObject::Update, for one of the ids that the database gives.
Update(a) ==
    /\ db.auction[a] # NULL /\ auctions[a] # NULL
    /\ LET auc == auctions[a]
           mails == IF auc.bidder = NULL THEN ExpiredMail(auc)
                    ELSE SuccessfulMail(auc) \o WonMail(auc) IN
       /\ SendAll(mails, DeleteAuction(a))
       /\ Kept(auc, mails, 0)
    /\ auctions' = [auctions EXCEPT ![a] = NULL]
    /\ UNCHANGED <<ownVars, destroyed, astray, deletedMails>>

AuctionNext ==
    \/ \E c \in Character, i \in Item, startbid \in Prices,
          buyout \in Prices \cup {0} :
         HandleAuctionSellItem(c, i, startbid, buyout)
    \/ \E a \in AuctionId :
         \/ Update(a)
         \/ \E c \in Character :
              \/ HandleAuctionRemoveItem(c, a)
              \/ \E price \in Prices : PlaceBid(c, a, price) \/ Buyout(c, a, price)
=============================================================================
