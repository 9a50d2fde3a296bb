---------------------------- MODULE CharacterDB ----------------------------
(***************************************************************************)
(* What characters own, in memory and in the character database.  Handlers *)
(* run on the main thread, one at a time; they change the memory at once   *)
(* and delay transactions, which the delay thread commits later, whole and *)
(* in the order of the calls (Atomic and InOrder of SqlDelay).             *)
(*                                                                         *)
(* The database is four tables: the gold of characters, character_inventory*)
(* by item, mail (with mail_items) and auctionhouse.  A transaction writes *)
(* to some rows of some tables; NULL stands for a row that is not there.   *)
(* A crash loses the queue and the memory and leaves db: a restart can     *)
(* meet any state of db, so there is no action for it.                     *)
(***************************************************************************)
EXTENDS Naturals, Sequences, SequencesExt, FiniteSets, FiniteSetsExt, TLC

CONSTANTS
    Character,      \* each of an account of its own
    Item,           \* items that may be traded
    MailId, AuctionId,
    InitialGold,    \* of each character
    BagSize,        \* items a character has room for
    MaxBacklog,     \* bound on the transactions under way when one is added
    MaxOnline,      \* bound on the characters in the world at once
    NULL

ASSUME CharacterDBAssumption ==
    /\ IsFiniteSet(Character) /\ IsFiniteSet(Item)
    /\ MailId \subseteq Nat /\ IsFiniteSet(MailId)
    /\ AuctionId \subseteq Nat /\ IsFiniteSet(AuctionId)
    /\ NULL \notin Character \cup Item \cup MailId \cup AuctionId
    /\ InitialGold \in Nat /\ BagSize \in Nat
    /\ MaxBacklog \in Nat /\ MaxOnline \in Nat

VARIABLES
    db,             \* what is committed
    queue,          \* the transactions that are delayed
    online,         \* the characters in the world
    money, bag,     \* of those; 0 and {} of the others
    spent, destroyed,   \* history: what was paid to the game or given up,
    astray      \* and the items taken by naming a mail that does not hold them

ownVars == <<online, money, bag>>
dbVars == <<db, queue>>
historyVars == <<spent, destroyed, astray>>

\* Neither is followed any more.
Gone == destroyed \cup astray

\* Some characters own one item each at the start.
OwnedAtStart ==
    {f \in [Item -> Character] : \A i, j \in Item : i # j => f[i] # f[j]}

Init ==
    /\ \E f \in OwnedAtStart :
         db = [gold |-> [c \in Character |-> InitialGold], inv |-> f,
               mail |-> [m \in MailId |-> NULL],
               auction |-> [a \in AuctionId |-> NULL]]
    /\ queue = <<>>
    /\ online \in {s \in SUBSET Character : Cardinality(s) <= MaxOnline}
    /\ money = [c \in Character |-> IF c \in online THEN InitialGold ELSE 0]
    /\ bag = [c \in Character |-> {i \in Item : c \in online /\ db.inv[i] = c}]
    /\ spent = 0 /\ destroyed = {} /\ astray = {}

----------------------------------------------------------------------------
(* The delayed transactions.                                               *)

\* A single row, and rows in front of others.
OneRow(id, row) == [k \in {id} |-> row]
Over(rows, others) ==
    [k \in DOMAIN rows \cup DOMAIN others |->
        IF k \in DOMAIN rows THEN rows[k] ELSE others[k]]

Apply(d, tx) ==
    [t \in DOMAIN d |-> IF t \in DOMAIN tx THEN Over(tx[t], d[t]) ELSE d[t]]

\* The database once n more transactions have been committed, and once
\* everything that is delayed has been.
Committed[n \in 0..Len(queue)] ==
    IF n = 0 THEN db ELSE Apply(Committed[n - 1], queue[n])
Drained == Committed[Len(queue)]

Delay(txs) ==
    /\ Len(queue) <= MaxBacklog
    /\ queue' = queue \o txs /\ UNCHANGED db

Commit ==
    /\ queue # <<>>
    /\ db' = Apply(db, Head(queue)) /\ queue' = Tail(queue)
    /\ UNCHANGED <<ownVars, historyVars>>

Writes(table, id) ==
    \E k \in DOMAIN queue :
        table \in DOMAIN queue[k] /\ id \in DOMAIN queue[k][table]

----------------------------------------------------------------------------
(* The inventory.                                                          *)

\* Player::CanStoreItems; what is given in the same trade leaves room.
CanStoreItems(c, incoming, outgoing) ==
    Cardinality((bag[c] \ outgoing) \cup incoming) <= BagSize

\* The statements of SaveInventoryAndGoldToDB, with the new money and bag.
SaveGoldToDB(c, gold) == [gold |-> OneRow(c, gold)]
SaveInventoryAndGoldToDB(c, gold, items) ==
    [gold |-> OneRow(c, gold), inv |-> [i \in items |-> c]]

\* Statements of one transaction; no row is written twice.
Both(tx, ty) ==
    [t \in DOMAIN tx \cup DOMAIN ty |->
        IF t \notin DOMAIN ty THEN tx[t]
        ELSE IF t \notin DOMAIN tx THEN ty[t] ELSE Over(tx[t], ty[t])]

----------------------------------------------------------------------------
(* What is where, in a state d of the database.                            *)

MailsWith(d, i) == {m \in MailId : d.mail[m] # NULL /\ i \in d.mail[m].items}
AuctionsOf(d, i) ==
    {a \in AuctionId : d.auction[a] # NULL /\ d.auction[a].item = i}

\* In how many places an item is.
Places(d, i) ==
    (IF d.inv[i] = NULL THEN 0 ELSE 1)
        + Cardinality(MailsWith(d, i)) + Cardinality(AuctionsOf(d, i))

\* The sum of the values of a function.
Total(f) == FoldFunction(+, 0, f)

RowsWith(d, table) == {k \in DOMAIN d[table] : d[table][k] # NULL}

\* A bid is held by its auction, and so is the deposit.
GoldIn(d) ==
    Total(d.gold)
      + Total([m \in RowsWith(d, "mail") |-> d.mail[m].gold])
      + Total([a \in RowsWith(d, "auction") |->
                 d.auction[a].bid + d.auction[a].deposit])
AllGold == InitialGold * Cardinality(Character)
============================================================================
