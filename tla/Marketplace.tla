---------------------------- MODULE Marketplace ----------------------------
(***************************************************************************)
(* BidHaus as one program: the lots of Auctions, the payments of Escrow    *)
(* and the scores of Reputation, joined where the code joins them.  The    *)
(* closing of a lot sends auction_closed inside its transaction, escrow's  *)
(* receiver calls hold_payment there, and from then on the payment is      *)
(* escrow's alone; a release stores a commission, at the percentage the    *)
(* settings had when the server started.                                   *)
(***************************************************************************)
EXTENDS Reputation, Commission, FiniteSets

CONSTANTS
    NumLots, Prices, Cron, Nobody, BadLots,  \* as in Auctions
    Percentages  \* the values COMMISSION_PERCENTAGE is ever given

ASSUME MarketAssumption ==
    /\ NumLots \in Nat /\ Sales = 1..NumLots /\ BadLots \subseteq Sales
    /\ Prices \subseteq Nat \ {0}
    /\ Nobody \notin Users /\ Cron \notin Requests
ASSUME PercentagesAssumption == Percentages \subseteq 0..10000

VARIABLES
    lotState, lotSeller,  \* Auction.state and .seller: Auctions' state, seller
    startingPrice, currentPrice, winningBid, bids, passed, scores, payments,
    job, outbox, mailed,  \* as in Auctions
    percentage,  \* settings.COMMISSION_PERCENTAGE
    commission   \* sale -> EscrowTransaction.commission

Lot == INSTANCE Auctions WITH state <- lotState, seller <- lotSeller

rows == <<lotState, lotSeller, startingPrice, currentPrice, winningBid, bids,
          scores, payments>>
lots == <<rows, passed, job, outbox, mailed>>
sale == <<vars, ratings, form>>
market == <<lots, sale, percentage, commission>>

MarketInit ==
    /\ Lot!Init
    /\ RatingInit
    /\ percentage \in Percentages
    /\ commission = [s \in Sales |-> 0]

-----------------------------------------------------------------------------
(* How the parts move together *)

\* What happens to a lot without touching money.
LotStep ==
    /\ Lot!Next
    /\ payments' = payments
    /\ UNCHANGED <<sale, percentage, commission>>

\* close_auction of a lot with a winner: hold_payment commits with it.
SaleStep ==
    /\ \E p \in Lot!Procs, l \in Lot!Lots :
        /\ Lot!CloseAuction(p, l)
        /\ \E t \in payments' \ payments : HoldPayment(t.auction, t.buyer, t.seller)
    /\ UNCHANGED <<ratings, form, percentage, commission>>

\* EscrowTransaction.amount.
Amount(s) == (CHOOSE t \in payments : t.auction = s).amount

\* What the step releases.
Releases(s) == /\ Len(history'[s]) > Len(history[s])
               /\ history'[s][Len(history'[s])].to = "released"

\* What escrow's views and services do once the payment exists, with the
\* figure a release stores.
PaymentStep ==
    /\ Next
    /\ \A s \in Sales : state[s] = "none" => state'[s] = "none"
    /\ commission' = [s \in Sales |-> IF Releases(s) THEN Commission(Amount(s), percentage)
                                                     ELSE commission[s]]
    /\ UNCHANGED <<lots, ratings, form, percentage>>

ScoreStep ==
    /\ \E r \in Raters :
        \/ \E s \in Sales, u \in Users : LoadSale(r, s, u)
        \/ Rate(r)
        \/ AbandonRating(r)
    /\ UNCHANGED <<lots, percentage, commission>>

\* The server is started again with another percentage.  What its processes
\* held is gone.
Restart(p) ==
    /\ percentage' = p /\ p # percentage
    /\ job' = [q \in Lot!Procs |-> Lot!Idle]
    /\ outbox' = [q \in Lot!Procs |-> <<>>]
    /\ task' = [r \in Requests |-> Idle]
    /\ form' = [r \in Raters |-> Idle]
    /\ UNCHANGED <<rows, passed, mailed, payment, claim, ratings, commission>>

MarketNext ==
    \/ LotStep
    \/ SaleStep
    \/ PaymentStep
    \/ ScoreStep
    \/ \E p \in Percentages : Restart(p)

\* A worker serves one request at a time, of a lot or of a payment.
OneRequestEach == \A r \in Requests : Lot!Free(r) \/ task[r] = Idle

MarketSpec == MarketInit /\ [][MarketNext /\ OneRequestEach']_market

\* The same program when no two processes hold the same row at the same time.
SerialMarket == Lot!Serial /\ Serial

SerialMarketSpec == MarketInit /\ [][MarketNext /\ (OneRequestEach /\ SerialMarket)']_market

-----------------------------------------------------------------------------
(* What the pages show *)

\* Mutant: what the percentage of today would take.
CommissionDue_Today(s) == Commission(Amount(s), percentage)

\* EscrowTransaction.commission_due.
CommissionDue(s) == IF Settled(state[s]) THEN commission[s]
                    ELSE Commission(Amount(s), percentage)

\* EscrowTransaction.payout.
Payout(s) == Amount(s) - CommissionDue(s)

\* for_bidder_list: the bids marked as the highest, and as the winner.
TheHighest(l) == {i \in DOMAIN bids[l] : bids[l][i].amount = currentPrice[l]}
TheWinning(l) == {i \in DOMAIN bids[l] : i = winningBid[l]}

\* list_sales_to_rate.
SalesToRate(u) == {s \in Sales : /\ state[s] = "released" /\ u \in {buyer[s], seller[s]}
                                 /\ \A i \in DOMAIN ratings[s] : ratings[s][i].rater # u}

-----------------------------------------------------------------------------
(* Properties *)

\* In serial behaviours, a publication request is decided once.
LotDecidedOnce == Lot!DecidedOnce

\* In serial behaviours, the end of a lot is told once, sold or not.
LotResultToldOnce == Lot!ResultToldOnce

\* What a release keeps is the percentage then in force of the winner's bid, to
\* the nearest cent, half a cent up (escrow/commission.py:11-20).
CutIsNearest ==
    [][\A s \in Sales : Releases(s) =>
          Nearest(commission'[s], bids[s][Len(bids[s])].amount, percentage)]_market

PlaceOf(s) == IF state[s] = "none" THEN "offered" ELSE Place(state[s])

Life == INSTANCE SaleLife WITH
    Lots <- Sales,
    offers <- bids,
    leading <- [s \in Sales |-> TheHighest(s)],
    won <- [s \in Sales |-> TheWinning(s)],
    place <- [s \in Sales |-> PlaceOf(s)],
    paid <- [s \in Sales |-> IF state[s] = "released" THEN Payout(s) ELSE 0],
    owing <- [s \in Sales |-> {u \in Users : s \in SalesToRate(u)}]

\* In serial behaviours, the three apps and the restarts between them do what
\* SaleLife promises, as the pages show it: the marks of the list of bids, the
\* payout of a settled sale, the list of sales to rate.
ImplementsSaleLife == Life!Spec
=============================================================================
