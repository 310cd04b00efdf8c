------------------------------ MODULE Auctions ------------------------------
(***************************************************************************)
(* The life of the lots of BidHaus: publication request, decision of an    *)
(* administrator, bids, closing, and what closing sets off in the same     *)
(* transaction (escrow's hold_payment) and after it (the mails).           *)
(*                                                                         *)
(* SQLite runs one write transaction at a time (BEGIN IMMEDIATE), so each  *)
(* @transaction.atomic service is one step here.  What is NOT atomic is    *)
(* the request around it: the view, the admin page and the cron command    *)
(* read rows first and hand those objects to the service, which trusts     *)
(* what they say.  A request is therefore two steps: it loads (`job' keeps *)
(* what it saw) and later it writes.  Mails leave after the commit, one    *)
(* step each, and can be lost.                                             *)
(*                                                                         *)
(* A user's role is editable in the admin between any two requests, so any *)
(* user may act as seller, bidder or administrator over time; a request    *)
(* whose user lacks the role changes nothing and is not a step.            *)
(***************************************************************************)
EXTENDS Naturals, Sequences, FiniteSets

CONSTANTS
    NumLots,    \* bound on the number of publication requests ever made
    Users,      \* the accounts
    Prices,     \* the amounts a form can carry, all positive
    Requests,   \* web workers, each serving one request at a time
    Cron,       \* the process that runs the close_auctions command
    Nobody,     \* the seller of a row that does not exist yet
    BadLots     \* lots whose closing always raises (auctions/services.py:179-184)

Lots == 1..NumLots
Procs == Requests \cup {Cron}

ASSUME ConstantsAssumption ==
    /\ NumLots \in Nat
    /\ Prices \subseteq Nat \ {0}
    /\ Nobody \notin Users
    /\ Cron \notin Requests
    /\ BadLots \subseteq Lots

VARIABLES
    state,          \* lot -> "none" before publication, then Auction.state
    seller,         \* lot -> Auction.seller
    startingPrice,  \* lot -> Auction.starting_price, 0 before publication
    currentPrice,   \* lot -> Auction.current_price, 0 before publication
    winningBid,     \* lot -> position of Auction.winning_bid in bids, 0 = null
    bids,           \* lot -> its Bid rows in order of arrival
    passed,         \* the lots whose closing_date is not in the future
    scores,         \* the lots that have a TrustScore row
    payments,       \* the EscrowTransaction rows, as hold_payment creates them
    job,            \* process -> the rows it loaded and has yet to write
    outbox,         \* process -> mails of its last commit not yet handed over
    mailed          \* mail -> how many copies were handed to the mail server

rows == <<state, seller, startingPrice, currentPrice, winningBid, bids,
          scores, payments>>
vars == <<rows, passed, job, outbox, mailed>>

AuctionStates == {"none", "pending", "open", "closed", "rejected"}
Bid == [bidder : Users, amount : Prices]
Payment == [auction : Lots, buyer : Users, seller : Users, amount : Prices]
Mail == [kind : {"won", "result", "outbid"}, lot : Lots, to : Users]
Job == [op : {"idle", "approve", "reject", "close"}, lots : SUBSET Lots]

Idle == [op |-> "idle", lots |-> {}]
Free(p) == job[p] = Idle /\ outbox[p] = <<>>

\* The job once lot l is dealt with.
Rest(j, l) == IF j.lots = {l} THEN Idle ELSE [j EXCEPT !.lots = @ \ {l}]

TypeOK ==
    /\ state \in [Lots -> AuctionStates]
    /\ seller \in [Lots -> Users \cup {Nobody}]
    /\ startingPrice \in [Lots -> Prices \cup {0}]
    /\ currentPrice \in [Lots -> Prices \cup {0}]
    /\ winningBid \in [Lots -> Nat]
    /\ bids \in [Lots -> Seq(Bid)]
    /\ passed \subseteq Lots
    /\ scores \subseteq Lots
    /\ payments \subseteq Payment
    /\ job \in [Procs -> Job]
    /\ outbox \in [Procs -> Seq(Mail)]
    /\ mailed \in [Mail -> Nat]

Init ==
    /\ state = [l \in Lots |-> "none"]
    /\ seller = [l \in Lots |-> Nobody]
    /\ startingPrice = [l \in Lots |-> 0]
    /\ currentPrice = [l \in Lots |-> 0]
    /\ winningBid = [l \in Lots |-> 0]
    /\ bids = [l \in Lots |-> <<>>]
    /\ passed = {}
    /\ scores = {}
    /\ payments = {}
    /\ job = [p \in Procs |-> Idle]
    /\ outbox = [p \in Procs |-> <<>>]
    /\ mailed = [m \in Mail |-> 0]

-----------------------------------------------------------------------------
(* Publication *)

\* publish_auction: rows are numbered in the order they are inserted, and
\* full_clean accepts only a closing date in the future.
Publish(l, u, price) ==
    /\ state[l] = "none"
    /\ \A k \in Lots : k < l => state[k] # "none"
    /\ state' = [state EXCEPT ![l] = "pending"]
    /\ seller' = [seller EXCEPT ![l] = u]
    /\ startingPrice' = [startingPrice EXCEPT ![l] = price]
    /\ currentPrice' = [currentPrice EXCEPT ![l] = price]
    /\ UNCHANGED <<winningBid, bids, passed, scores, payments, job, outbox, mailed>>

\* Time reaches the closing date of a lot, decided or not.
ClosingDatePasses(l) ==
    /\ state[l] # "none"
    /\ l \notin passed
    /\ passed' = passed \cup {l}
    /\ UNCHANGED <<rows, job, outbox, mailed>>

\* Mutant: the is_pending check is gone from both services.
SeenAnyState(S) == S

\* Auction.is_pending of the rows an administrator has on screen.
SeenPending(S) == {l \in S : state[l] = "pending"}

\* The admin page loads the selected rows before it decides on any of them.
\* A row already decided by then only earns a warning, so it leaves no trace.
SelectForDecision(r, decision, S) ==
    /\ Free(r)
    /\ SeenPending(S) # {}
    /\ job' = [job EXCEPT ![r] = [op |-> decision, lots |-> SeenPending(S)]]
    /\ UNCHANGED <<rows, passed, outbox, mailed>>

\* Mutant: a second score replaces the first one.
MayScoreAgain(l) == TRUE

\* calculate_trust_score refuses a second score; inside the approval's
\* transaction that refusal undoes the approval too.
MayScore(l) == l \notin scores

\* approve_auction_publication, with the score its signal computes.
Approve(r, l) ==
    /\ job[r].op = "approve" /\ l \in job[r].lots
    /\ MayScore(l)
    /\ state' = [state EXCEPT ![l] = "open"]
    /\ scores' = scores \cup {l}
    /\ job' = [job EXCEPT ![r] = Rest(@, l)]
    /\ UNCHANGED <<seller, startingPrice, currentPrice, winningBid, bids,
                   passed, payments, outbox, mailed>>

\* ScoreAlreadyCalculated is not an AuctionError: it rolls this approval back,
\* leaves _resolve_each and drops the selected rows behind it.
ApprovalRollsBack(r, l) ==
    /\ job[r].op = "approve" /\ l \in job[r].lots
    /\ ~MayScore(l)
    /\ job' = [job EXCEPT ![r] = Idle]
    /\ UNCHANGED <<rows, passed, outbox, mailed>>

\* reject_auction_publication.
Reject(r, l) ==
    /\ job[r].op = "reject" /\ l \in job[r].lots
    /\ state' = [state EXCEPT ![l] = "rejected"]
    /\ job' = [job EXCEPT ![r] = Rest(@, l)]
    /\ UNCHANGED <<seller, startingPrice, currentPrice, winningBid, bids,
                   passed, scores, payments, outbox, mailed>>

-----------------------------------------------------------------------------
(* Bidding *)

\* Mutant: the bids come in order of arrival.
EarliestBid(s) == IF s = <<>> THEN 0 ELSE 1

\* The ordering ["-amount", "timestamp"] puts position i of s first: the
\* highest amount and, on a tie, the earliest.
ComesFirst(s, i) ==
    \A j \in DOMAIN s : \/ s[j].amount < s[i].amount
                        \/ s[j].amount = s[i].amount /\ i <= j

\* auction.bids.first(), 0 when there is no bid.
FirstBid(s) == IF s = <<>> THEN 0 ELSE CHOOSE i \in DOMAIN s : ComesFirst(s, i)

\* Mutant: a bidder who raises their own bid is written to as well.
OutbidMailsToAnyone(l, u) ==
    LET displaced == FirstBid(bids[l])
    IN IF displaced # 0
       THEN <<[kind |-> "outbid", lot |-> l, to |-> bids[l][displaced].bidder]>>
       ELSE <<>>

\* Whom a bid of u on lot l has to be announced to (FR11).
OutbidMails(l, u) ==
    LET displaced == FirstBid(bids[l])
    IN IF displaced # 0 /\ bids[l][displaced].bidder # u
       THEN <<[kind |-> "outbid", lot |-> l, to |-> bids[l][displaced].bidder]>>
       ELSE <<>>

\* Mutant: an equal amount is enough.
MayBidOnATie(l, u, amount) ==
    /\ seller[l] # u
    /\ state[l] = "open" /\ l \notin passed
    /\ amount >= currentPrice[l]

\* Mutant: the seller is not refused.
MayBidAsSeller(l, u, amount) ==
    /\ state[l] = "open" /\ l \notin passed
    /\ amount > currentPrice[l]

\* The refusals of _register_bid: SellerCannotBid, AuctionClosed, BidTooLow.
MayBid(l, u, amount) ==
    /\ seller[l] # u
    /\ state[l] = "open" /\ l \notin passed
    /\ amount > currentPrice[l]

\* _register_bid: the one service that reads the lot again inside its own
\* transaction, so it needs no earlier load.
PlaceBid(r, l, u, amount) ==
    /\ Free(r)
    /\ MayBid(l, u, amount)
    /\ bids' = [bids EXCEPT ![l] = Append(@, [bidder |-> u, amount |-> amount])]
    /\ currentPrice' = [currentPrice EXCEPT ![l] = amount]
    /\ outbox' = [outbox EXCEPT ![r] = OutbidMails(l, u)]
    /\ UNCHANGED <<state, seller, startingPrice, winningBid, passed, scores,
                   payments, job, mailed>>

-----------------------------------------------------------------------------
(* Closing *)

\* Mutant: a request nobody approved yet expires too.
ExpiredUndecided(l) == state[l] \in {"pending", "open"} /\ l \in passed

\* Mutant: a lot past its date is closed on every visit.
ExpiredForEver(l) == state[l] \in {"open", "closed"} /\ l \in passed

\* AuctionQuerySet.expired, and the test of close_auction_if_expired.
Expired(l) == state[l] = "open" /\ l \in passed

\* auction_detail: the visitor's request finds the lot open past its date.
OpenDetailPage(r, l) ==
    /\ Free(r)
    /\ Expired(l)
    /\ job' = [job EXCEPT ![r] = [op |-> "close", lots |-> {l}]]
    /\ UNCHANGED <<rows, passed, outbox, mailed>>

\* close_expired_auctions: list(Auction.objects.expired()).
StartClosingRun ==
    /\ Free(Cron)
    /\ \E l \in Lots : Expired(l)
    /\ job' = [job EXCEPT ![Cron] = [op |-> "close", lots |-> {l \in Lots : Expired(l)}]]
    /\ UNCHANGED <<rows, passed, outbox, mailed>>

\* The lot the loop comes to: Auction orders by ["-published_at"].  The next
\* one waits until the mails of the previous commit were dealt with.
ClosesNext(p, l) ==
    /\ job[p].op = "close" /\ l \in job[p].lots
    /\ \A k \in job[p].lots : k <= l
    /\ outbox[p] = <<>>

\* find_transaction_for_auction(auction) is not None.
HasPayment(l) == \E t \in payments : t.auction = l

\* Mutant: hold_payment does not look for an earlier transaction.
MayHoldAgain(l, winner) == TRUE

\* hold_payment raises TransactionAlreadyExists for a lot already paid.
MayHold(l, winner) == winner # 0 => ~HasPayment(l)

\* Mutant: escrow's receiver is not connected.
HeldPaymentNever(l, winner) == {}

\* The row hold_payment creates for the winner, none without a winner.
HeldPayment(l, winner) ==
    IF winner = 0 THEN {}
    ELSE {[auction |-> l, buyer |-> bids[l][winner].bidder,
           seller |-> seller[l], amount |-> bids[l][winner].amount]}

\* notify_auction_result.
ResultMails(l, winner) ==
    (IF winner = 0 THEN <<>>
     ELSE <<[kind |-> "won", lot |-> l, to |-> bids[l][winner].bidder]>>)
    \o <<[kind |-> "result", lot |-> l, to |-> seller[l]]>>

\* close_auction: is_open was true of the row as loaded, and only that row is
\* asked; the signal, the receiver and the row it creates commit with it.
CloseAuction(p, l) ==
    LET winner == FirstBid(bids[l]) IN
    /\ ClosesNext(p, l)
    /\ l \notin BadLots
    /\ MayHold(l, winner)
    /\ state' = [state EXCEPT ![l] = "closed"]
    /\ winningBid' = [winningBid EXCEPT ![l] = winner]
    /\ payments' = payments \cup HeldPayment(l, winner)
    /\ outbox' = [outbox EXCEPT ![p] = ResultMails(l, winner)]
    /\ job' = [job EXCEPT ![p] = Rest(@, l)]
    /\ UNCHANGED <<seller, startingPrice, currentPrice, bids, passed, scores,
                   mailed>>

\* Mutant: the first failure ends the command.
ClosingFailureEndsTheRun(p, l) ==
    /\ ClosesNext(p, l)
    /\ job' = [job EXCEPT ![p] = Idle]
    /\ UNCHANGED <<rows, passed, outbox, mailed>>

\* The closing raises and its transaction leaves nothing behind: a receiver
\* failed, the lot is already paid, or the database stayed locked.  The command
\* goes on with the next lot; a detail page answers with an error.
ClosingFails(p, l) ==
    /\ ClosesNext(p, l)
    /\ job' = [job EXCEPT ![p] = Rest(@, l)]
    /\ UNCHANGED <<rows, passed, outbox, mailed>>

-----------------------------------------------------------------------------
(* Mails and failures *)

Send(p) ==
    /\ outbox[p] # <<>>
    /\ mailed' = [mailed EXCEPT ![Head(outbox[p])] = @ + 1]
    /\ outbox' = [outbox EXCEPT ![p] = Tail(@)]
    /\ UNCHANGED <<rows, passed, job>>

\* _send logs an OSError and forgets the message.
SendFails(p) ==
    /\ outbox[p] # <<>>
    /\ outbox' = [outbox EXCEPT ![p] = Tail(@)]
    /\ UNCHANGED <<rows, passed, job, mailed>>

\* The process is killed, or an exception leaves the view: what it loaded and
\* the mails it still had to send are gone, what it committed stays.
Die(p) ==
    /\ ~Free(p)
    /\ job' = [job EXCEPT ![p] = Idle]
    /\ outbox' = [outbox EXCEPT ![p] = <<>>]
    /\ UNCHANGED <<rows, passed, mailed>>

Next ==
    \/ StartClosingRun
    \/ \E l \in Lots :
        \/ ClosingDatePasses(l)
        \/ \E u \in Users, price \in Prices : Publish(l, u, price)
        \/ \E r \in Requests :
            \/ Approve(r, l)
            \/ ApprovalRollsBack(r, l)
            \/ Reject(r, l)
            \/ OpenDetailPage(r, l)
            \/ \E u \in Users, amount \in Prices : PlaceBid(r, l, u, amount)
        \/ \E p \in Procs : CloseAuction(p, l) \/ ClosingFails(p, l)
    \/ \E r \in Requests, S \in SUBSET Lots :
        SelectForDecision(r, "approve", S) \/ SelectForDecision(r, "reject", S)
    \/ \E p \in Procs : Send(p) \/ SendFails(p) \/ Die(p)

Spec == Init /\ [][Next]_vars

\* Cron starts the command every few seconds for ever, and neither a kill nor
\* a locked database hits the same lot in every single run.  Nothing is
\* assumed of administrators, visitors or the mail server's answers.
Fairness ==
    /\ WF_vars(StartClosingRun)
    /\ WF_vars(Send(Cron) \/ SendFails(Cron))
    /\ \A l \in Lots : /\ SF_vars(CloseAuction(Cron, l) \/ ClosingFails(Cron, l))
                       /\ SF_vars(CloseAuction(Cron, l))

FairSpec == Spec /\ Fairness

\* The same program when no two processes hold the same lot at the same time.
Serial == \A p, q \in Procs : p # q => job[p].lots \cap job[q].lots = {}
SerialSpec == Init /\ [][Next /\ Serial']_vars

-----------------------------------------------------------------------------
(* Properties *)

\* The bid history of a lot climbs, starts above the starting price and ends at
\* the current price, which is what lets for_bidder_list call a bid "the
\* highest" by comparing amounts (auctions/models.py:269-272).
PriceFollowsBids ==
    \A l \in Lots :
        /\ \A i, j \in DOMAIN bids[l] : i < j => bids[l][i].amount < bids[l][j].amount
        /\ \A i \in DOMAIN bids[l] : startingPrice[l] < bids[l][i].amount
        /\ currentPrice[l] = IF bids[l] = <<>> THEN startingPrice[l]
                             ELSE bids[l][Len(bids[l])].amount

BacksTheWinner(t, l) ==
    /\ state[l] \in {"closed", "rejected"}
    /\ winningBid[l] = Len(bids[l]) /\ bids[l] # <<>>
    /\ t.buyer = bids[l][Len(bids[l])].bidder
    /\ t.amount = currentPrice[l]
    /\ t.seller = seller[l] /\ t.seller # t.buyer

\* The money retained for a lot is the winner's: one payment, of the highest
\* bid, by its bidder to the lot's seller, on a lot that is no longer open,
\* whichever of cron and visitors closed it and however stale their rows were.
PaymentIsTheWinners ==
    \A t \in payments :
        /\ BacksTheWinner(t, t.auction)
        /\ \A o \in payments : o.auction = t.auction => o = t

\* A lot that received bids is never closed without its payment retained, and
\* the winner is the highest bid: closing and hold_payment commit together.
ClosedSaleIsPaid ==
    \A l \in Lots : state[l] = "closed" /\ bids[l] # <<>> =>
        winningBid[l] = Len(bids[l]) /\ HasPayment(l)

\* Only lots an administrator approved at some time are public, receive bids
\* or are being closed, and each of them was scored; a lot that never was
\* public has no score (calculate_trust_score runs inside the approval).
PublicLotsAreScored ==
    \A l \in Lots :
        /\ state[l] \in {"open", "closed"} => l \in scores
        /\ state[l] \in {"none", "pending"} => l \notin scores
        /\ bids[l] # <<>> \/ HasPayment(l) => l \in scores
        /\ \A p \in Procs : job[p].op = "close" /\ l \in job[p].lots => l \in scores

\* Copies of a mail handed over or still waiting in some process.
Copies(m) ==
    mailed[m] + Cardinality({w \in Procs \X (1..2) :
        w[2] \in DOMAIN outbox[w[1]] /\ outbox[w[1]][w[2]] = m})

\* The end of a sale is told at most once to the winner and once to the
\* seller, even when cron and visitors close the lot at the same time.
SaleToldOnce ==
    \A m \in Mail : m.kind \in {"won", "result"} /\ bids[m.lot] # <<>> => Copies(m) <= 1

\* The same of every lot, sold or not (close_auction's docstring).
ResultToldOnce ==
    \A m \in Mail : m.kind \in {"won", "result"} => Copies(m) <= 1

\* No mail, sent or waiting, announces something the database does not hold
\* (notifications.py:3-6).
MailTellsTheTruth ==
    \A m \in Mail : Copies(m) > 0 =>
        CASE m.kind = "won" -> \E t \in payments : t.auction = m.lot /\ t.buyer = m.to
          [] m.kind = "result" -> state[m.lot] \in {"closed", "rejected"} /\ m.to = seller[m.lot]
          [] m.kind = "outbid" -> \E i \in 1..(Len(bids[m.lot]) - 1) :
                 bids[m.lot][i].bidder = m.to /\ bids[m.lot][i + 1].bidder # m.to

\* Once the payment of a lot is retained its bids, its winner and that payment
\* never change again and the lot never reopens, whatever an administrator, a
\* visitor or a late cron run does with rows loaded earlier.
SoldIsFinal ==
    [][\A l \in Lots : HasPayment(l) =>
          /\ bids'[l] = bids[l] /\ winningBid'[l] = winningBid[l]
          /\ {t \in payments' : t.auction = l} = {t \in payments : t.auction = l}
          /\ state'[l] # "open"]_vars

\* A publication request is decided once and closing is the only way on:
\* pending -> open -> closed, or pending -> rejected.
DecidedOnce ==
    [][\A l \in Lots : state'[l] # state[l] =>
          <<state[l], state'[l]>> \in {<<"none", "pending">>, <<"pending", "open">>,
                                       <<"pending", "rejected">>, <<"open", "closed">>}]_vars

\* Every lot past its date is closed in the end, whatever lot fails before it
\* in the same run (close_expired_auctions).
ExpiredLotsClose == \A l \in Lots \ BadLots : Expired(l) ~> state[l] # "open"

\* The lots and their money behave as the abstract sale promises.
Sale == INSTANCE AscendingSale WITH offers <- bids, sales <- payments
ImplementsSale == Sale!Spec
=============================================================================
