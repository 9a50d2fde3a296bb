-------------------------------- MODULE Mail --------------------------------
(***************************************************************************)
(* Mails between characters, and from the auction house.  A mail has a row *)
(* in the database, inserted by a transaction of its own, and a copy in    *)
(* the mailbox of a receiver who is online and has had his mails loaded.   *)
(*                                                                         *)
(* There is no clock: an hour may pass between any two steps, so a delayed *)
(* mail may be in time for any of them.  A mail without items and gold     *)
(* that asks for none is no row here; the text of a mail and its end after *)
(* 30 days are left out, and so are the characters' limit of 100 mails and *)
(* mails from creatures and quests.                                        *)
(*                                                                         *)
(* An item can be taken by naming any mail.  When another one holds it,    *)
(* that mail lists it still and loses only the row of mail_items; the item *)
(* is not followed from there: it is astray, and in no place of the model. *)
(***************************************************************************)
EXTENDS CharacterDB

CONSTANTS
    Postage,        \* for a mail with one item or none
    MailGold,       \* amounts that are sent or asked for
    Wrap            \* where a uint32 begins again

MailKind == {"normal", "auction"}
MailRow ==
    [from : Character \cup {NULL}, to : Character, kind : MailKind,
     items : SUBSET Item, gold : Nat, cod : Nat, returned : BOOLEAN]

ASSUME MailAssumption ==
    /\ Postage \in Nat /\ MailGold \subseteq Nat /\ Wrap \in Nat
    /\ NULL \notin MailRow
    /\ \A ids \in SUBSET MailId : NULL \notin [ids -> MailRow]

VARIABLES
    mailbox,        \* the mails of a character by id, NULL: not loaded
    deletedMails    \* those in state MAIL_STATE_DELETED
mailVars == <<mailbox, deletedMails>>

NewMail(from, to, kind, items, gold) ==
    [from |-> from, to |-> to, kind |-> kind, items |-> items, gold |-> gold,
     cod |-> 0, returned |-> FALSE]

MailInit ==
    /\ mailbox = [c \in Character |-> NULL]
    /\ deletedMails = {}

----------------------------------------------------------------------------
(* MailDraft.                                                              *)

\* GenerateMailID: the first id that nobody has.
FreshMails ==
    {m \in MailId :
        /\ db.mail[m] = NULL /\ ~Writes("mail", m)
        /\ \A c \in Character : mailbox[c] # NULL => m \notin DOMAIN mailbox[c]}
NextMail == Min(FreshMails)

\* MailDraft::SendMailTo: a transaction of its own, and the mailbox in memory.
InsertMail(m, mail) == <<[mail |-> OneRow(m, mail)]>>
SendMailTo(box, m, mail) ==
    IF box[mail.to] = NULL THEN box
    ELSE [box EXCEPT ![mail.to] = Over(OneRow(m, mail), @)]

\* Of many mails: the ids in their order, and the mailboxes.
MailIds(n) ==
    CHOOSE ids \in [1..n -> FreshMails] :
        \A j, k \in 1..n : j < k => ids[j] < ids[k]
SendMailsTo(box, ids, mails) ==
    [c \in Character |->
        IF box[c] = NULL THEN NULL
        ELSE LET received == {k \in DOMAIN mails : mails[k].to = c} IN
             Over([m \in {ids[k] : k \in received} |->
                      mails[CHOOSE k \in received : ids[k] = m]], box[c])]

Empty(mail) == mail.items = {} /\ mail.gold = 0 /\ mail.cod = 0
Without(f, keys) == [k \in DOMAIN f \ keys |-> f[k]]

\* What Player::_SaveMail writes: the mail that has changed, and the rows of
\* those that were deleted, which go from the mailbox too.
ToDelete(c) ==
    IF mailbox[c] = NULL THEN {} ELSE deletedMails \cap DOMAIN mailbox[c]
Row(mail) == IF Empty(mail) THEN NULL ELSE mail
SaveMail(c, changes) ==
    [mail |-> Over([m \in DOMAIN changes |-> Row(changes[m])],
                   [m \in ToDelete(c) |-> NULL])]
SavedBox(box, c, changes) ==
    LET gone == ToDelete(c) \cup {m \in DOMAIN changes : Empty(changes[m])}
    IN  [box EXCEPT ![c] = Without(Over(changes, @), gone)]

\* A mail that is deleted takes what is in it with it.
GiveUp(c, ids) ==
    /\ spent' = spent + Total([m \in ids |-> mailbox[c][m].gold])
    /\ destroyed' = destroyed \cup UNION {mailbox[c][m].items : m \in ids}

----------------------------------------------------------------------------
(* The handlers of the mail opcodes.                                       *)

\* The items are deleted from the inventory, one transaction each.
TakeOut(items) ==
    [k \in 1..Cardinality(items) |-> [inv |-> OneRow(SetToSeq(items)[k], NULL)]]

Cost(items) == Postage * Max({1, Cardinality(items)})

\* reqmoney, a sum of two uint32.
Required(items, gold) ==
    LET sum == Cost(items) + gold IN IF sum < Wrap THEN sum ELSE sum - Wrap

\* With an amount that wraps more gold is sent than is paid; none here does.
ASSUME AmountAssumption ==
    \A items \in SUBSET Item, gold \in MailGold : Cost(items) + gold < Wrap

\* The items are taken out one transaction each, then the mail is sent, then
\* the sender is saved.
HandleSendMail(c, to, items, gold, cod) ==
    LET m == NextMail
        mail == [NewMail(c, to, "normal", items, gold) EXCEPT !.cod = cod]
        left == money[c] - Required(items, gold)
    IN
    /\ c \in online /\ to # c /\ FreshMails # {}
    /\ items \subseteq bag[c] /\ ~Empty(mail)
    /\ Required(items, gold) <= money[c]
    /\ money' = [money EXCEPT ![c] = left]
    /\ bag' = [bag EXCEPT ![c] = @ \ items]
    /\ mailbox' = SendMailTo(mailbox, m, mail)
    /\ Delay(TakeOut(items) \o InsertMail(m, mail)
               \o <<SaveInventoryAndGoldToDB(c, left, bag[c] \ items)>>)
    /\ spent' = spent + Cost(items)
    /\ UNCHANGED <<online, destroyed, astray, deletedMails>>

\* HandleGetMail: _LoadMail asks the database at once, past the queue.
LoadMail(c) ==
    /\ c \in online /\ mailbox[c] = NULL
    /\ mailbox' = [mailbox EXCEPT ![c] =
                     [m \in {n \in RowsWith(db, "mail") : db.mail[n].to = c}
                        |-> db.mail[m]]]
    /\ UNCHANGED <<ownVars, dbVars, historyVars, deletedMails>>

HasMail(c, m) ==
    /\ c \in online /\ mailbox[c] # NULL
    /\ m \in DOMAIN mailbox[c] /\ m \notin deletedMails

\* HandleMarkAsRead: the state is MAIL_STATE_CHANGED then, so a mail that was
\* deleted is there again.  With any other it changes nothing here.
HandleMarkAsRead(c, m) ==
    /\ c \in online /\ mailbox[c] # NULL
    /\ m \in DOMAIN mailbox[c] \cap deletedMails
    /\ deletedMails' = deletedMails \ {m}
    /\ UNCHANGED <<ownVars, dbVars, historyVars, mailbox>>

\* Player::GetMItem: what the mails list, and maybe what is gone: the objects
\* stay when a mail is deleted.
GetMItem(c, i) ==
    i \in Gone \/ \E m \in DOMAIN mailbox[c] : i \in mailbox[c][m].items

\* The mail that a client names; NULL is one with nothing in it.
Named(c, m) ==
    IF m = NULL THEN NewMail(c, c, "normal", {}, 0) ELSE mailbox[c][m]

\* The mails of c once i is taken from the mail m: that one, and another that
\* holds i.
Taken(c, m, i) ==
    [h \in {n \in DOMAIN mailbox[c] \ deletedMails :
               n = m \/ i \in mailbox[c][n].items} |->
        [mailbox[c][h] EXCEPT !.items = @ \ {i},
                              !.cod = IF h = m THEN 0 ELSE @]]

\* With the first item of a mail the gold asked for it is paid, by a mail.
HandleTakeItem(c, m, i) ==
    /\ IF m = NULL THEN c \in online /\ mailbox[c] # NULL ELSE HasMail(c, m)
    /\ GetMItem(c, i)
    /\ Named(c, m).cod <= money[c] /\ CanStoreItems(c, {i}, {})
    /\ LET mail == Named(c, m)
           held == {i} \cap mail.items
           left == money[c] - mail.cod
           box == SavedBox(mailbox, c, Taken(c, m, i))
           saved == <<Both(SaveInventoryAndGoldToDB(c, left, bag[c] \cup held),
                           SaveMail(c, Taken(c, m, i)))>>
           payment == NewMail(c, mail.from, "normal", {}, mail.cod)
           n == NextMail
       IN
       /\ money' = [money EXCEPT ![c] = left]
       /\ bag' = [bag EXCEPT ![c] = @ \cup held]
       /\ astray' = astray \cup ({i} \ mail.items)
       /\ IF mail.cod > 0
          THEN /\ FreshMails # {}
               /\ mailbox' = SendMailTo(box, n, payment)
               /\ Delay(InsertMail(n, payment) \o saved)
          ELSE mailbox' = box /\ Delay(saved)
    /\ deletedMails' = deletedMails \ ToDelete(c)
    /\ GiveUp(c, ToDelete(c))
    /\ UNCHANGED online

HandleTakeMoney(c, m) ==
    /\ HasMail(c, m)
    /\ LET taken == OneRow(m, [mailbox[c][m] EXCEPT !.gold = 0])
           sum == money[c] + mailbox[c][m].gold
       IN
       /\ money' = [money EXCEPT ![c] = sum]
       /\ mailbox' = SavedBox(mailbox, c, taken)
       /\ Delay(<<Both(SaveGoldToDB(c, sum), SaveMail(c, taken))>>)
    /\ deletedMails' = deletedMails \ ToDelete(c)
    /\ GiveUp(c, ToDelete(c))
    /\ UNCHANGED <<online, bag, astray>>

\* Nothing is written until the mails are saved.
HandleMailDelete(c, m) ==
    /\ HasMail(c, m) /\ mailbox[c][m].cod = 0
    /\ deletedMails' = deletedMails \cup {m}
    /\ UNCHANGED <<ownVars, dbVars, historyVars, mailbox>>

\* The mail is deleted in one transaction and sent back in another, without
\* what it asked for; a mail of the auction house is dropped.
HandleReturnToSender(c, m) ==
    /\ HasMail(c, m)
    /\ LET mail == mailbox[c][m]
           back == [NewMail(c, mail.from, "normal", mail.items, mail.gold)
                      EXCEPT !.returned = TRUE]
           delete == <<[mail |-> OneRow(m, NULL)]>>
           n == NextMail
           box == [mailbox EXCEPT ![c] = Without(@, {m})]
       IN IF mail.kind = "normal" /\ ~Empty(back)
          THEN /\ FreshMails # {}
               /\ mailbox' = SendMailTo(box, n, back)
               /\ Delay(delete \o InsertMail(n, back))
               /\ UNCHANGED historyVars
          ELSE /\ mailbox' = box /\ Delay(delete)
               /\ GiveUp(c, {m}) /\ UNCHANGED astray
    /\ UNCHANGED <<ownVars, deletedMails>>

MailNext ==
    \E c \in Character :
        \/ LoadMail(c)
        \/ \E to \in Character, items \in SUBSET Item,
              gold \in MailGold, cod \in MailGold :
             HandleSendMail(c, to, items, gold, cod)
        \/ \E i \in Item, m \in MailId \cup {NULL} : HandleTakeItem(c, m, i)
        \/ \E m \in MailId :
             \/ HandleMarkAsRead(c, m)
             \/ HandleTakeMoney(c, m)
             \/ HandleMailDelete(c, m)
             \/ HandleReturnToSender(c, m)
=============================================================================
