------------------------------ MODULE BidDesk ------------------------------
(***************************************************************************)
(* place_bid under the microscope: what Auctions.tla takes as one step,    *)
(* PlaceBid, is here a queue in front of BID_WRITE_LOCK, up to             *)
(* BID_ATTEMPTS transactions that each want SQLite's write lock, a read, a *)
(* decision, a commit, and a mail sent while BID_WRITE_LOCK is still held. *)
(* The lock is a threading.Lock, one per process, so it orders the bids of *)
(* one web process; the bids of another process, cron and the admin meet   *)
(* them only at the database.                                              *)
(*                                                                         *)
(* One lot.  A bid is a request made once; the processes are the blocks    *)
(* of a partition of the bids.  Auctions.tla says who may bid at all.      *)
(***************************************************************************)
EXTENDS Naturals, Sequences

CONSTANTS
    Processes,    \* the web processes, each the set of bids it serves
    Others,       \* other writers: cron and visitors closing the lot
    Prices,       \* the amounts a form can carry
    Start,        \* the starting price
    MaxAttempts,  \* BID_ATTEMPTS
    Nobody, Lot, Owner

Bids == UNION Processes

ASSUME ConstantsAssumption ==
    /\ \A P, Q \in Processes : P # Q => P \cap Q = {}
    /\ Prices \subseteq Nat /\ Start \in Nat
    /\ MaxAttempts \in Nat \ {0}
    /\ Nobody \notin Bids \cup Others
    /\ Bids \cap Others = {}
    /\ Owner \notin Bids

VARIABLES
    rows,      \* the Bid rows committed, in order: [bidder, amount]
    price,     \* Auction.current_price committed
    winner,    \* position of winning_bid once a closing committed, else 0
    isOpen,    \* Auction.is_open committed
    writer,    \* who holds SQLite's write lock
    guard,     \* process -> the bid that holds its BID_WRITE_LOCK
    stage,     \* bid -> where place_bid is
    amount,    \* bid -> its amount, while place_bid runs
    tries,     \* bid -> attempts that ended in an OperationalError so far
    seen,      \* writer -> what it read of the lot in its open transaction
    answer     \* bid -> what its view was told

lot == <<rows, price, winner, isOpen>>
vars == <<lot, writer, guard, stage, amount, tries, seen, answer>>

Stages == {"idle", "queued", "trying", "deciding", "mailing", "done"}
Lots == [price : Nat, count : Nat, isOpen : BOOLEAN]

TypeOK ==
    /\ rows \in Seq([bidder : Bids, amount : Prices])
    /\ price \in Nat
    /\ winner \in Nat
    /\ isOpen \in BOOLEAN
    /\ writer \in Bids \cup Others \cup {Nobody}
    /\ guard \in [Processes -> Bids \cup {Nobody}]
    /\ stage \in [Bids \cup Others -> Stages]
    /\ amount \in [Bids -> Prices \cup {0}]
    /\ tries \in [Bids -> 0..(MaxAttempts - 1)]
    /\ seen \in [Bids \cup Others -> Lots]
    /\ answer \in [Bids -> {"none", "registered", "refused", "busy"}]

Unread == [price |-> 0, count |-> 0, isOpen |-> FALSE]

Init ==
    /\ rows = <<>> /\ price = Start /\ winner = 0 /\ isOpen = TRUE
    /\ writer = Nobody
    /\ guard = [P \in Processes |-> Nobody]
    /\ stage = [w \in Bids \cup Others |-> "idle"]
    /\ amount = [b \in Bids |-> 0]
    /\ tries = [b \in Bids |-> 0]
    /\ seen = [w \in Bids \cup Others |-> Unread]
    /\ answer = [b \in Bids |-> "none"]

-----------------------------------------------------------------------------
(* The web process *)

Submit(b, a) ==
    /\ stage[b] = "idle"
    /\ stage' = [stage EXCEPT ![b] = "queued"]
    /\ amount' = [amount EXCEPT ![b] = a]
    /\ UNCHANGED <<lot, writer, guard, tries, seen, answer>>

\* Mutant: each call makes a lock of its own.
TakeOwnGuard(P, b) ==
    /\ stage[b] = "queued" /\ b \in P
    /\ guard' = [guard EXCEPT ![P] = b]
    /\ stage' = [stage EXCEPT ![b] = "trying"]
    /\ UNCHANGED <<lot, writer, amount, tries, seen, answer>>

\* with BID_WRITE_LOCK.
TakeGuard(P, b) ==
    /\ stage[b] = "queued" /\ b \in P
    /\ guard[P] = Nobody
    /\ guard' = [guard EXCEPT ![P] = b]
    /\ stage' = [stage EXCEPT ![b] = "trying"]
    /\ UNCHANGED <<lot, writer, amount, tries, seen, answer>>

\* The block of the with statement ends, by a return or by an exception.
Leave(P, b, told) ==
    /\ b \in P
    /\ guard' = [guard EXCEPT ![P] = Nobody]
    /\ stage' = [stage EXCEPT ![b] = "done"]
    /\ answer' = [answer EXCEPT ![b] = told]
    /\ amount' = [amount EXCEPT ![b] = 0]
    /\ tries' = [tries EXCEPT ![b] = 0]

\* Mutant: the default mode, which takes the write lock only to write.
BeginDeferred(w) ==
    /\ writer' = writer
    /\ seen' = [seen EXCEPT ![w] = [price |-> price, count |-> Len(rows), isOpen |-> isOpen]]
    /\ stage' = [stage EXCEPT ![w] = "deciding"]

\* BEGIN IMMEDIATE (settings.py:82) and the first statements, which read the
\* lot and its bids.
Begin(w) ==
    /\ writer = Nobody
    /\ writer' = w
    /\ seen' = [seen EXCEPT ![w] = [price |-> price, count |-> Len(rows), isOpen |-> isOpen]]
    /\ stage' = [stage EXCEPT ![w] = "deciding"]

\* COMMIT or ROLLBACK.
End(w) ==
    /\ writer' = IF writer = w THEN Nobody ELSE writer
    /\ seen' = [seen EXCEPT ![w] = Unread]

BeginBid(b) ==
    /\ stage[b] = "trying"
    /\ Begin(b)
    /\ UNCHANGED <<lot, guard, amount, tries, answer>>

\* Mutant: what happens after the commit is retried as well.
MayFailWhileMailing(b) ==
    \/ stage[b] = "trying" /\ writer # Nobody
    \/ stage[b] \in {"deciding", "mailing"}

\* The 20 seconds of waiting for the write lock end, or a statement fails.
MayFail(b) ==
    \/ stage[b] = "trying" /\ writer # Nobody
    \/ stage[b] = "deciding"

\* for attempt in range(BID_ATTEMPTS): another one is left.
MayRetry(b) == tries[b] + 1 < MaxAttempts

\* except OperationalError: the transaction is undone and the call sleeps, its
\* process's lock in its hands, before the next attempt.
Retries(b) ==
    /\ MayFail(b) /\ MayRetry(b)
    /\ End(b)
    /\ tries' = [tries EXCEPT ![b] = @ + 1]
    /\ stage' = [stage EXCEPT ![b] = "trying"]
    /\ UNCHANGED <<lot, guard, amount, answer>>

\* Mutant: the lock is acquired without a with statement.
GivesUpWithGuard(P, b) ==
    /\ MayFail(b) /\ ~MayRetry(b) /\ b \in P
    /\ End(b)
    /\ stage' = [stage EXCEPT ![b] = "done"]
    /\ answer' = [answer EXCEPT ![b] = "busy"]
    /\ UNCHANGED <<lot, guard, amount, tries>>

\* raise BiddingIsBusy, after the last attempt.
GivesUp(P, b) ==
    /\ MayFail(b) /\ ~MayRetry(b)
    /\ End(b)
    /\ Leave(P, b, "busy")
    /\ UNCHANGED lot

-----------------------------------------------------------------------------
(* _register_bid and the other transactions on the lot *)

Beats(b) == seen[b].isOpen /\ amount[b] > seen[b].price

\* AuctionClosed and BidTooLow.
Refuse(P, b) ==
    /\ stage[b] = "deciding" /\ ~Beats(b)
    /\ End(b)
    /\ Leave(P, b, "refused")
    /\ UNCHANGED lot

Commit(b) ==
    /\ stage[b] = "deciding" /\ Beats(b)
    /\ rows' = Append(rows, [bidder |-> b, amount |-> amount[b]])
    /\ price' = amount[b]
    /\ End(b)
    /\ stage' = [stage EXCEPT ![b] = "mailing"]
    /\ UNCHANGED <<winner, isOpen, guard, amount, tries, answer>>

\* on_commit: the mail left, or failed, or its timeout ended (settings.py:165).
Answer(P, b) ==
    /\ stage[b] = "mailing"
    /\ Leave(P, b, "registered")
    /\ UNCHANGED <<lot, writer, seen>>

\* A closing that found the lot open and starts its transaction.
BeginClosing(o) ==
    /\ stage[o] = "idle" /\ isOpen
    /\ Begin(o)
    /\ UNCHANGED <<lot, guard, amount, tries, answer>>

\* close_auction commits, with auction.bids.first() as the winner.
CommitClosing(o) ==
    /\ stage[o] = "deciding"
    /\ isOpen' = FALSE
    /\ winner' = seen[o].count
    /\ End(o)
    /\ stage' = [stage EXCEPT ![o] = "done"]
    /\ UNCHANGED <<rows, price, guard, amount, tries, answer>>

\* A closing that fails leaves nothing, and the next run tries again.
ClosingFails(o) ==
    /\ stage[o] = "deciding"
    /\ End(o)
    /\ stage' = [stage EXCEPT ![o] = "idle"]
    /\ UNCHANGED <<lot, guard, amount, tries, answer>>

\* A web process is killed: its lock goes with it, and its open transaction.
Die(P) ==
    LET lost == {b \in P : stage[b] # "idle"} IN
    /\ \E b \in P : stage[b] \notin {"idle", "done"}
    /\ writer' = IF writer \in P THEN Nobody ELSE writer
    /\ guard' = [guard EXCEPT ![P] = Nobody]
    /\ stage' = [w \in DOMAIN stage |-> IF w \in lost THEN "done" ELSE stage[w]]
    /\ seen' = [w \in DOMAIN seen |-> IF w \in lost THEN Unread ELSE seen[w]]
    /\ amount' = [b \in Bids |-> IF b \in lost THEN 0 ELSE amount[b]]
    /\ tries' = [b \in Bids |-> IF b \in lost THEN 0 ELSE tries[b]]
    /\ UNCHANGED <<lot, answer>>

Bidding(b) ==
    \/ BeginBid(b) \/ Retries(b) \/ Commit(b)
    \/ \E P \in Processes : Refuse(P, b) \/ Answer(P, b) \/ GivesUp(P, b)

Next ==
    \/ \E b \in Bids : Bidding(b) \/ \E a \in Prices : Submit(b, a)
    \/ \E P \in Processes : Die(P) \/ \E b \in P : TakeGuard(P, b)
    \/ \E o \in Others : BeginClosing(o) \/ CommitClosing(o) \/ ClosingFails(o)

Spec == Init /\ [][Next]_vars

\* Threads run, sleeps and mails end (both have timeouts), and no transaction
\* lasts for ever.  A free lock is given to some thread that waits for it.
Fairness ==
    /\ \A b \in Bids : WF_vars(Bidding(b))
    /\ \A P \in Processes : WF_vars(\E b \in P : TakeGuard(P, b))
    /\ \A o \in Others : WF_vars(CommitClosing(o) \/ ClosingFails(o))

FairSpec == Spec /\ Fairness

-----------------------------------------------------------------------------
(* Properties *)

\* Bids of one process never compete for the database: whoever is past the
\* queue holds the lock of its process (README.md:318-323).
OneBidPerProcess ==
    \A P \in Processes : \A b \in P :
        stage[b] \notin {"idle", "queued", "done"} => guard[P] = b

Registered(b) == {i \in DOMAIN rows : rows[i].bidder = b}

\* A bid is stored at most once however often it is retried, it is stored if
\* its bidder was told so, and it is not if the bidder was told otherwise.
AnswersAreTrue ==
    \A b \in Bids :
        /\ \A i, j \in Registered(b) : i = j
        /\ answer[b] = "registered" => Registered(b) # {}
        /\ answer[b] \in {"refused", "busy"} => Registered(b) = {}

\* Every bid submitted is answered or goes down with its process, although the
\* lock is held while the call sleeps and while it writes mails.
BidsAreAnswered ==
    \A b \in Bids : stage[b] = "queued" ~> stage[b] = "done"

\* Interleaved statement by statement, bids and closings are still one
\* ascending sale: no bid is accepted on a price it did not beat, and none
\* slips in between the winner being read and the lot being closed.
Offers == [l \in {Lot} |-> rows]
Sales == IF winner = 0 THEN {}
         ELSE {[auction |-> Lot, seller |-> Owner, buyer |-> rows[winner].bidder,
                amount |-> rows[winner].amount]}
Sale == INSTANCE AscendingSale WITH
            Lots <- {Lot}, Users <- Bids \cup {Owner}, offers <- Offers, sales <- Sales
ImplementsSale == Sale!Spec
=============================================================================
