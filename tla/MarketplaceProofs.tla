------------------------- MODULE MarketplaceProofs -------------------------
(***************************************************************************)
(* Proofs about Marketplace, from those about its parts. The invariants of *)
(* Auctions, Escrow and Reputation hold of the composition, and the        *)
(* payment that a closing creates is the one that escrow moves (Joined).   *)
(* From there the commission of a release is that of the winner's bid,     *)
(* and, in serial behaviours, the whole program does what SaleLife         *)
(* promises.                                                               *)
(*                                                                         *)
(* What the parts promise alone they keep promising together: the steps    *)
(* that only the composition has are the restart of the server and the     *)
(* closing that creates a payment, and neither breaks a promise about      *)
(* lots, mails, money or histories.                                        *)
(***************************************************************************)
EXTENDS Marketplace, ReputationProofs

LotProof == INSTANCE AuctionsProofs WITH state <- lotState, seller <- lotSeller

LotInv == LotProof!IInv

\* Escrow has a payment exactly when the lot's closing created it, with its sides.
Joined ==
    /\ \A s \in Sales : state[s] # "none" <=> \E t \in payments : t.auction = s
    /\ \A t \in payments : buyer[t.auction] = t.buyer /\ seller[t.auction] = t.seller

MInv == LotInv /\ RInv /\ Joined /\ percentage \in Percentages

-----------------------------------------------------------------------------
(* The commission *)

\* Rounding half up finds the nearest cent, for every amount and percentage.
LEMMA CommissionNearest ==
    ASSUME NEW a \in Nat, NEW p \in Nat
    PROVE  Commission(a, p) \in Int /\ Nearest(Commission(a, p), a, p)
<1> DEFINE x == a * p
<1>1. x \in Int /\ 2 * a * p = 2 * x
  OBVIOUS
<1>2. Commission(a, p) = (2 * x + 10000) \div 20000
  BY <1>1 DEF Commission
<1> HIDE DEF x
<1>3. PICK c \in Int : c = Commission(a, p) /\ 20000 * c <= 2 * x + 10000 /\ 2 * x + 10000 < 20000 * c + 20000
  BY <1>1, <1>2
<1>4. 10000 * (2 * c - 1) <= 2 * x /\ 2 * x < 10000 * (2 * c + 1)
  BY <1>1, <1>3
<1> QED  BY <1>1, <1>3, <1>4 DEF Nearest

\* A hundred per cent, in hundredths.
Whole == 10000

\* It takes nothing the buyer did not pay, so that the payout is not negative.
LEMMA CommissionFits ==
    ASSUME NEW a \in Nat, NEW p \in 0..Whole
    PROVE  Commission(a, p) \in 0..a
<1> DEFINE x == a * p
<1>1. x \in Int /\ 2 * a * p = 2 * x
  BY DEF Whole
<1>2. 0 <= x /\ x <= a * 10000
  BY DEF Whole
<1>3. Commission(a, p) = (2 * x + 10000) \div 20000
  BY <1>1 DEF Commission, Whole
<1> HIDE DEF x
<1>4. PICK c \in Int : c = Commission(a, p) /\ 20000 * c <= 2 * x + 10000 /\ 2 * x + 10000 < 20000 * c + 20000
  BY <1>1, <1>3
<1> QED  BY <1>1, <1>2, <1>4

-----------------------------------------------------------------------------
(* The lots, as Auctions' proofs see them *)

\* Both instances of Auctions are the same module.
LEMMA SameLots ==
    /\ Lot!Init = LotProof!Init
    /\ Lot!Next = LotProof!Next
    /\ \A p, l : Lot!CloseAuction(p, l) = LotProof!CloseAuction(p, l)
BY DEF Lot!Next, LotProof!Next, Lot!StartClosingRun, LotProof!StartClosingRun,
       Lot!ClosingDatePasses, LotProof!ClosingDatePasses, Lot!Publish, LotProof!Publish,
       Lot!SelectForDecision, LotProof!SelectForDecision, Lot!SeenPending, LotProof!SeenPending,
       Lot!MayScore, LotProof!MayScore, Lot!Approve, LotProof!Approve, Lot!ApprovalRollsBack,
       LotProof!ApprovalRollsBack, Lot!Reject, LotProof!Reject, Lot!ComesFirst,
       LotProof!ComesFirst, Lot!FirstBid, LotProof!FirstBid, Lot!OutbidMails, LotProof!OutbidMails,
       Lot!MayBid, LotProof!MayBid, Lot!PlaceBid, LotProof!PlaceBid, Lot!Expired, LotProof!Expired,
       Lot!OpenDetailPage, LotProof!OpenDetailPage, Lot!ClosesNext, LotProof!ClosesNext,
       Lot!HasPayment, LotProof!HasPayment, Lot!MayHold, LotProof!MayHold, Lot!HeldPayment,
       LotProof!HeldPayment, Lot!ResultMails, LotProof!ResultMails, Lot!CloseAuction,
       LotProof!CloseAuction, Lot!ClosingFails, LotProof!ClosingFails, Lot!Send, LotProof!Send,
       Lot!SendFails, LotProof!SendFails, Lot!Die, LotProof!Die, Lot!Lots, LotProof!Lots,
       Lot!Procs, LotProof!Procs, Lot!rows, LotProof!rows, Lot!Idle, LotProof!Idle, Lot!Free,
       LotProof!Free, Lot!Rest, LotProof!Rest, Lot!Init, LotProof!Init, Lot!Mail, LotProof!Mail

\* The sales of escrow are the lots.
LEMMA SalesAreLots == Sales = LotProof!Lots /\ Sales = Lot!Lots
BY MarketAssumption DEF LotProof!Lots, Lot!Lots

\* The constants are as Auctions wants them.
LEMMA LotConstants ==
    /\ NumLots \in Nat
    /\ Prices \subseteq Nat \ {0}
    /\ Nobody \notin Users
    /\ Cron \notin Requests
    /\ BadLots \subseteq LotProof!Lots
BY MarketAssumption, SalesAreLots

LEMMA LotsStart == Lot!Init => LotInv
BY LotProof!InitIInv, SameLots, LotConstants DEF LotInv

\* Auctions' invariant survives its own steps, and a restart of the server.
LEMMA LotsMove == LotInv /\ Lot!Next => LotInv'
BY LotProof!NextIInv, SameLots, LotConstants DEF LotInv

LEMMA LotsStay ==
    ASSUME LotInv, UNCHANGED lots PROVE LotInv'
BY LotProof!NextIInv, LotConstants DEF LotInv, LotProof!vars, LotProof!rows, lots, rows

LEMMA LotsRestart ==
    ASSUME LotInv, UNCHANGED <<rows, passed, mailed>>,
           job' = [q \in Lot!Procs |-> Lot!Idle], outbox' = [q \in Lot!Procs |-> <<>>]
    PROVE  LotInv'
<1> USE DEF LotInv, LotProof!IInv
<1>1. job' = [q \in LotProof!Procs |-> LotProof!Idle] /\ outbox' = [q \in LotProof!Procs |-> <<>>]
  BY DEF Lot!Procs, Lot!Idle, LotProof!Procs, LotProof!Idle
<1>2. LotProof!Idle \in LotProof!Job /\ LotProof!Idle.lots = {} /\ LotProof!Idle.op # "close"
  BY DEF LotProof!Idle, LotProof!Job
<1>3. LotProof!TypeOK'
  BY <1>1, <1>2 DEF LotProof!TypeOK, rows
<1>4. LotProof!RowsExist'
  BY <1>1, <1>2 DEF LotProof!RowsExist, rows
<1>5. LotProof!PublicLotsAreScored'
  BY <1>1, <1>2 DEF LotProof!PublicLotsAreScored, LotProof!HasPayment, rows
<1>6. LotProof!PriceFollowsBids' /\ LotProof!OwnerNeverBids' /\ LotProof!PaymentIsTheWinners'
      /\ LotProof!ClosedSaleIsPaid'
  BY DEF LotProof!PriceFollowsBids, LotProof!OwnerNeverBids, LotProof!PaymentIsTheWinners,
         LotProof!BacksTheWinner, LotProof!ClosedSaleIsPaid, LotProof!HasPayment, rows
<1> QED  BY <1>3, <1>4, <1>5, <1>6

\* What the invariant says of bids and payments, in the words of Marketplace.
LEMMA LotFacts ==
    ASSUME LotInv, NEW s \in Sales
    PROVE  /\ bids[s] \in Seq([bidder : Users, amount : Prices])
           /\ \A i \in DOMAIN bids[s] : bids[s][i].amount \in Nat
           /\ \A i, j \in DOMAIN bids[s] : i < j => bids[s][i].amount < bids[s][j].amount
           /\ bids[s] # <<>> => currentPrice[s] = bids[s][Len(bids[s])].amount
           /\ winningBid[s] \in Nat
<1>1. s \in LotProof!Lots
  BY SalesAreLots
<1>2. bids[s] \in Seq(LotProof!Bid) /\ winningBid[s] \in Nat
  BY <1>1 DEF LotInv, LotProof!IInv, LotProof!TypeOK
<1>3. \A i \in DOMAIN bids[s] : bids[s][i].amount \in Nat
  <2>1. \A i \in DOMAIN bids[s] : bids[s][i] \in LotProof!Bid
    BY <1>2
  <2> QED  BY <2>1, MarketAssumption DEF LotProof!Bid
<1> QED  BY <1>1, <1>2, <1>3 DEF LotInv, LotProof!IInv, LotProof!PriceFollowsBids, LotProof!Bid

LEMMA PaymentFacts ==
    ASSUME LotInv, NEW t \in payments
    PROVE  /\ t.auction \in Sales /\ t.buyer \in Users /\ t.seller \in Users /\ t.amount \in Nat
           /\ t.buyer # t.seller
           /\ bids[t.auction] # <<>> /\ winningBid[t.auction] = Len(bids[t.auction])
           /\ t.buyer = bids[t.auction][Len(bids[t.auction])].bidder
           /\ t.amount = bids[t.auction][Len(bids[t.auction])].amount
           /\ lotState[t.auction] \in {"closed", "rejected"}
           /\ \A o \in payments : o.auction = t.auction => o = t
<1>1. t \in LotProof!Payment
  BY DEF LotInv, LotProof!IInv, LotProof!TypeOK
<1>2. t.auction \in Sales /\ t.buyer \in Users /\ t.seller \in Users /\ t.amount \in Nat
  <2>1. t.auction \in LotProof!Lots /\ t.buyer \in Users /\ t.seller \in Users /\ t.amount \in Prices
    BY <1>1 DEF LotProof!Payment
  <2> QED  BY <2>1, SalesAreLots, LotConstants
<1>3. /\ LotProof!BacksTheWinner(t, t.auction)
      /\ \A o \in payments : o.auction = t.auction => o = t
  BY DEF LotInv, LotProof!IInv, LotProof!PaymentIsTheWinners
<1> QED  BY <1>2, <1>3, LotFacts DEF LotProof!BacksTheWinner

\* EscrowTransaction.amount is what the winner bid.
LEMMA AmountIs ==
    ASSUME MInv, NEW s \in Sales, state[s] # "none"
    PROVE  /\ bids[s] # <<>> /\ Amount(s) = bids[s][Len(bids[s])].amount /\ Amount(s) \in Nat
           /\ buyer[s] = bids[s][Len(bids[s])].bidder
           /\ buyer[s] \in Users /\ seller[s] \in Users /\ buyer[s] # seller[s]
<1>1. PICK t \in payments : t.auction = s
  BY DEF MInv, Joined
<1>2. /\ bids[s] # <<>> /\ t.amount = bids[s][Len(bids[s])].amount /\ t.amount \in Nat
      /\ t.buyer = bids[s][Len(bids[s])].bidder
      /\ t.buyer \in Users /\ t.seller \in Users /\ t.buyer # t.seller
      /\ \A o \in payments : o.auction = s => o = t
  BY <1>1, PaymentFacts DEF MInv
<1>3. Amount(s) = t.amount
  BY <1>1, <1>2 DEF Amount
<1>4. buyer[s] = t.buyer /\ seller[s] = t.seller
  BY <1>1 DEF MInv, Joined
<1> QED  BY <1>2, <1>3, <1>4

-----------------------------------------------------------------------------
(* The invariant of the composition *)

\* What a closing with a winner does.
LEMMA SaleShape ==
    ASSUME LotInv, SaleStep
    PROVE  \E l \in Sales, t \in payments' :
              /\ t.auction = l /\ payments' = payments \cup {t}
              /\ \A o \in payments : o.auction # l
              /\ HoldPayment(l, t.buyer, t.seller)
              /\ winningBid' = [winningBid EXCEPT ![l] = Len(bids[l])] /\ bids[l] # <<>>
              /\ UNCHANGED <<bids, currentPrice>>
<1>1. PICK p \in Lot!Procs, l \in Lot!Lots :
        /\ Lot!CloseAuction(p, l)
        /\ \E t \in payments' \ payments : HoldPayment(t.auction, t.buyer, t.seller)
  BY DEF SaleStep
<1>2. PICK t \in payments' \ payments : HoldPayment(t.auction, t.buyer, t.seller)
  BY <1>1
<1>3. l \in Sales /\ l \in LotProof!Lots /\ p \in LotProof!Procs /\ LotProof!CloseAuction(p, l)
  BY <1>1, SalesAreLots, SameLots DEF Lot!Procs, LotProof!Procs
<1> DEFINE new == [auction |-> l, buyer |-> bids[l][Len(bids[l])].bidder,
                   seller |-> lotSeller[l], amount |-> bids[l][Len(bids[l])].amount]
<1>4. /\ winningBid' = [winningBid EXCEPT ![l] = Len(bids[l])]
      /\ UNCHANGED <<bids, currentPrice>>
      /\ bids[l] = <<>> => payments' = payments
      /\ bids[l] # <<>> => /\ ~LotProof!HasPayment(l)
                           /\ payments' = payments \cup {new}
  BY <1>3, LotProof!ClosingStores, LotConstants DEF LotInv, LotProof!IInv
<1>5. t = new /\ bids[l] # <<>> /\ new.auction = l
  BY <1>2, <1>4
<1> HIDE DEF new
<1> QED  BY <1>2, <1>3, <1>4, <1>5 DEF LotProof!HasPayment

\* Once it exists, a payment keeps its sides and does not go away.
LEMMA PartiesStay ==
    ASSUME IInv, Next, \A s \in Sales : state[s] = "none" => state'[s] = "none"
    PROVE  UNCHANGED <<buyer, seller>> /\ \A s \in Sales : state[s] = "none" <=> state'[s] = "none"
<1>0. TypeOK /\ TypeOK' /\ HistoryEndsInState /\ HistoryEndsInState'
  BY NextIInv DEF IInv
<1>1. ASSUME NEW s \in Sales, state[s] # "none" PROVE state'[s] # "none"
  <2>1. history[s] \in Seq(Change) /\ history'[s] \in Seq(Change) /\ history[s] # <<>>
    BY <1>0, <1>1 DEF TypeOK, HistoryEndsInState
  <2>2. CASE UNCHANGED <<payment, dispute>>
    BY <1>1, <2>2 DEF payment
  <2>3. ASSUME NEW g \in Sales, NEW from \in States, NEW to \in States \ {"none"},
               NEW actor \in Users \cup {NoUser}, Gains(g, from, to, actor)
        PROVE  state'[s] # "none"
    <3>1. Len(history'[s]) >= Len(history[s])
      BY <1>0, <2>3, GrowStep
    <3>2. history'[s] # <<>>
      BY <2>1, <3>1
    <3> QED  BY <1>0, <3>2 DEF HistoryEndsInState
  <2> QED  BY <2>2, <2>3, GainsOrStays DEF IInv
<1>2. UNCHANGED <<buyer, seller>>
  <2>1. CASE UNCHANGED <<payment, claim>>
    BY <2>1 DEF payment
  <2>2. ASSUME NEW t \in Sales, NEW b \in Users, NEW v \in Users, HoldPayment(t, b, v) PROVE FALSE
    BY <1>0, <2>2 DEF HoldPayment, Record, TypeOK
  <2>3. ASSUME NEW r \in Requests,
               \/ ConfirmReception(r) \/ OpenDispute(r)
               \/ \E n \in 1..MaxEvidence : AttachEvidence(r, n)
               \/ \E outcome \in Outcomes : ResolveDispute(r, outcome)
        PROVE  UNCHANGED <<buyer, seller>>
    BY <2>3 DEF ConfirmReception, OpenDispute, AttachEvidence, ResolveDispute, payment
  <2> QED  BY <1>0, <2>1, <2>2, <2>3, Steps
<1> QED  BY <1>1, <1>2

\* What a restart forgets, no invariant of Escrow or Reputation needs.
LEMMA SalesRestart ==
    ASSUME RInv, UNCHANGED <<payment, claim, ratings>>,
           task' = [r \in Requests |-> Idle], form' = [r \in Raters |-> Idle]
    PROVE  RInv'
<1> USE DEF RInv, IInv, payment, claim
<1>1. TypeOK' /\ RatingTypeOK'
  BY DEF TypeOK, RatingTypeOK
<1>2. TasksFit' /\ FormsFit'
  BY DEF TasksFit, FormsFit
<1>3. HistoryEndsInState' /\ ArguedOnce' /\ DisputedMoneyIsQueued'
  BY DEF HistoryEndsInState, ArguedOnce, DisputedMoneyIsQueued, Reached
<1>4. OthersDecideOnlyClaims' /\ CommissionComesFromReleases' /\ EvidenceIsBounded'
  BY DEF OthersDecideOnlyClaims, CommissionComesFromReleases, EvidenceIsBounded, Reached
<1>5. RatedOnce' /\ RatedAfterRelease'
  BY ZenonT(30) DEF RatedOnce, RatedAfterRelease, Reached
<1> QED  BY <1>1, <1>2, <1>3, <1>4, <1>5

LEMMA MarketInitHolds == MarketInit => MInv
<1> SUFFICES ASSUME MarketInit PROVE MInv
  OBVIOUS
<1>1. LotInv /\ RInv /\ percentage \in Percentages
  BY LotsStart, RatingInitHolds DEF MarketInit
<1>2. payments = {} /\ \A s \in Sales : state[s] = "none"
  BY DEF MarketInit, RatingInit, Init, Lot!Init
<1> QED  BY <1>1, <1>2 DEF MInv, Joined

LEMMA MarketNextHolds == MInv /\ [MarketNext]_market => MInv'
<1> SUFFICES ASSUME MInv, [MarketNext]_market PROVE MInv'
  OBVIOUS
<1>0. LotInv /\ RInv /\ IInv /\ Joined /\ percentage \in Percentages
  BY DEF MInv, RInv
<1>1. ASSUME UNCHANGED <<payments, state, buyer, seller>> PROVE Joined'
  BY <1>0, <1>1 DEF Joined
<1>2. CASE UNCHANGED market
  <2>1. UNCHANGED lots /\ UNCHANGED <<vars, ratings, form>> /\ UNCHANGED percentage
        /\ UNCHANGED <<payments, state, buyer, seller>>
    BY <1>2 DEF market, lots, rows, sale, vars, payment
  <2> QED  BY <1>0, <1>1, <2>1, LotsStay, RatingNextHolds DEF MInv
<1>3. CASE LotStep
  <2>1. UNCHANGED <<vars, ratings, form>> /\ UNCHANGED percentage
        /\ UNCHANGED <<payments, state, buyer, seller>>
    BY <1>3 DEF LotStep, sale, vars, payment
  <2> QED  BY <1>0, <1>1, <1>3, <2>1, LotsMove, RatingNextHolds DEF MInv, LotStep
<1>4. CASE SaleStep
  <2>1. PICK l \in Sales, t \in payments' :
           /\ t.auction = l /\ payments' = payments \cup {t}
           /\ HoldPayment(l, t.buyer, t.seller)
    BY <1>0, <1>4, SaleShape
  <2>2. Lot!Next
    BY <1>4 DEF SaleStep, Lot!Next
  <2>3. LotInv'
    BY <1>0, <2>2, LotsMove
  <2>4. t.buyer \in Users /\ t.seller \in Users
    <3>1. \A o \in payments' : o.buyer \in Users /\ o.seller \in Users
      <4>1. payments' \subseteq LotProof!Payment
        BY <2>3 DEF LotInv, LotProof!IInv, LotProof!TypeOK
      <4> QED  BY <4>1 DEF LotProof!Payment
    <3> QED  BY <3>1
  <2>5. RatingNext /\ UNCHANGED percentage
    BY <1>4, <2>1, <2>4 DEF RatingNext, Next, SaleStep
  <2>6. RInv'
    BY <1>0, <2>5, RatingNextHolds
  <2>7. /\ state' = [state EXCEPT ![l] = "held"] /\ state[l] = "none"
        /\ buyer' = [buyer EXCEPT ![l] = t.buyer] /\ seller' = [seller EXCEPT ![l] = t.seller]
        /\ TypeOK
    BY <1>0, <2>1 DEF HoldPayment, Record, IInv
  <2>8. Joined'
    <3>1. \A o \in payments : o.auction \in Sales /\ o.auction # l
      BY <1>0, <2>7, PaymentFacts DEF Joined
    <3>2. \A s \in Sales : state'[s] # "none" <=> \E o \in payments' : o.auction = s
      BY <1>0, <2>1, <2>7, <3>1 DEF Joined, TypeOK
    <3>3. ASSUME NEW o \in payments'
          PROVE  buyer'[o.auction] = o.buyer /\ seller'[o.auction] = o.seller
      BY <1>0, <2>1, <2>7, <3>1, <3>3 DEF Joined, TypeOK
    <3> QED  BY <3>2, <3>3 DEF Joined
  <2> QED  BY <1>0, <2>3, <2>5, <2>6, <2>8 DEF MInv
<1>5. CASE PaymentStep
  <2>1. UNCHANGED <<buyer, seller>> /\ \A s \in Sales : state[s] = "none" <=> state'[s] = "none"
    BY <1>0, <1>5, PartiesStay DEF PaymentStep
  <2>2. UNCHANGED lots /\ UNCHANGED percentage /\ payments' = payments
    BY <1>5 DEF PaymentStep, lots, rows
  <2>3. RatingNext
    BY <1>5 DEF PaymentStep, RatingNext
  <2>4. Joined'
    BY <1>0, <2>1, <2>2 DEF Joined
  <2> QED  BY <1>0, <2>2, <2>3, <2>4, LotsStay, RatingNextHolds DEF MInv
<1>6. CASE ScoreStep
  <2>1. UNCHANGED lots /\ UNCHANGED percentage /\ payments' = payments
    BY <1>6 DEF ScoreStep, lots, rows
  <2>2. RatingNext /\ UNCHANGED vars
    BY <1>6 DEF ScoreStep, RatingNext, LoadSale, Loads, Rate, AbandonRating
  <2> QED  BY <1>0, <1>1, <2>1, <2>2, LotsStay, RatingNextHolds DEF MInv, vars, payment
<1>7. ASSUME NEW p \in Percentages, Restart(p) PROVE MInv'
  <2>1. UNCHANGED <<payments, state, buyer, seller>> /\ percentage' \in Percentages
    BY <1>7 DEF Restart, rows, payment
  <2> QED  BY <1>0, <1>1, <1>7, <2>1, LotsRestart, SalesRestart DEF MInv, Restart
<1> QED  BY <1>2, <1>3, <1>4, <1>5, <1>6, <1>7 DEF MarketNext

\* The three apps keep their invariants, and agree on whose money it is.
THEOREM MarketInvariance == MarketSpec => []MInv
<1>1. MInv /\ [MarketNext /\ OneRequestEach']_market => MInv'
  BY MarketNextHolds
<1> QED  BY <1>1, MarketInitHolds, PTL DEF MarketSpec

\* What a release keeps is the percentage in force of the winner's bid, to the
\* nearest cent (close_auction, hold_payment, release_funds, commission.py).
THEOREM CutCorrect == MarketSpec => CutIsNearest
<1> DEFINE Cut == \A s \in Sales : Releases(s) =>
              Nearest(commission'[s], bids[s][Len(bids[s])].amount, percentage)
<1>1. ASSUME MInv, MarketNext PROVE Cut
  <2> SUFFICES ASSUME NEW s \in Sales, Releases(s)
               PROVE  Nearest(commission'[s], bids[s][Len(bids[s])].amount, percentage)
    OBVIOUS
  <2>1. CASE UNCHANGED history
    <3>1. Len(history[s]) \in Nat
      BY <1>1 DEF MInv, RInv, IInv, TypeOK
    <3> QED  BY <2>1, <3>1 DEF Releases
  <2>2. CASE SaleStep
    <3>1. PICK l \in Sales, t \in payments' : HoldPayment(l, t.buyer, t.seller)
      BY <1>1, <2>2, SaleShape DEF MInv
    <3>2. TypeOK /\ "none" \in States /\ "held" \in States
      BY <1>1 DEF MInv, RInv, IInv, States
    <3>3. Record(l, "none", "held", NoUser)
      BY <3>1 DEF HoldPayment
    <3>4. s = l /\ history'[l][Len(history'[l])].to = "held"
      <4>1. /\ history'[l][Len(history[l]) + 1].to = "held"
            /\ Len(history'[l]) = Len(history[l]) + 1
            /\ \A o \in Sales \ {l} : history'[o] = history[o]
        BY <3>2, <3>3, Recorded
      <4>2. Len(history[s]) \in Nat
        BY <3>2 DEF TypeOK
      <4> QED  BY <4>1, <4>2 DEF Releases
    <3> QED  BY <3>4 DEF Releases
  <2>3. CASE PaymentStep
    <3>1. commission'[s] = Commission(Amount(s), percentage)
      BY <2>3 DEF PaymentStep
    <3>2. state[s] # "none"
      <4>1. state'[s] = "released"
        <5>1. HistoryEndsInState'
          BY <1>1, <2>3, MarketNextHolds DEF MInv, RInv, IInv
        <5>2. history'[s] # <<>>
          <6>1. Len(history[s]) \in Nat
            BY <1>1 DEF MInv, RInv, IInv, TypeOK
          <6> QED  BY <6>1 DEF Releases
        <5> QED  BY <5>1, <5>2 DEF HistoryEndsInState, Releases
      <4> QED  BY <2>3, <4>1 DEF PaymentStep
    <3>3. Amount(s) = bids[s][Len(bids[s])].amount /\ Amount(s) \in Nat
      BY <1>1, <3>2, AmountIs
    <3>4. percentage \in Nat
      BY <1>1, PercentagesAssumption, SMTT(30) DEF MInv
    <3> QED  BY <3>1, <3>3, <3>4, CommissionNearest
  <2>4. LotStep \/ ScoreStep \/ (\E p \in Percentages : Restart(p)) => UNCHANGED history
    BY DEF LotStep, ScoreStep, Restart, LoadSale, Loads, Rate, AbandonRating, sale, vars, payment
  <2> QED  BY <1>1, <2>1, <2>2, <2>3, <2>4 DEF MarketNext
<1>2. MInv /\ [MarketNext /\ OneRequestEach']_market => [Cut]_market
  BY <1>1
<1> QED  BY <1>2, MarketInvariance, PTL DEF MarketSpec, CutIsNearest

-----------------------------------------------------------------------------
(* The lots, however requests overlap *)

\* What a step of the market is to the lots.
LEMMA LotsMarch ==
    ASSUME [MarketNext]_market
    PROVE  [LotProof!Next]_(LotProof!vars) \/ \E p \in Percentages : Restart(p)
<1>1. CASE UNCHANGED market
  BY <1>1 DEF market, lots, rows, LotProof!vars, LotProof!rows
<1>2. CASE LotStep
  BY <1>2, SameLots DEF LotStep
<1>3. CASE SaleStep
  <2>1. Lot!Next
    BY <1>3 DEF SaleStep, Lot!Next
  <2> QED  BY <2>1, SameLots
<1>4. CASE PaymentStep \/ ScoreStep
  BY <1>4 DEF PaymentStep, ScoreStep, lots, rows, LotProof!vars, LotProof!rows
<1> QED  BY <1>1, <1>2, <1>3, <1>4 DEF MarketNext

\* Neither escrow nor a restart of the server touches bids and payments: the
\* market is still an ascending sale, however its requests overlap.
THEOREM SaleCorrect == MarketSpec => Lot!ImplementsSale
<1>1. Lot!Sale!Init = LotProof!Sale!Init /\ Lot!Sale!Next = LotProof!Sale!Next
  BY DEF Lot!Sale!Init, LotProof!Sale!Init, Lot!Sale!Next, LotProof!Sale!Next,
         Lot!Sale!KnockDown, LotProof!Sale!KnockDown, Lot!Sale!Raise, LotProof!Sale!Raise,
         Lot!Sale!Sold, LotProof!Sale!Sold, Lot!Sale!Last, LotProof!Sale!Last,
         Lot!Lots, LotProof!Lots
<1>2. MarketInit => Lot!Sale!Init
  BY <1>1, SameLots, LotConstants, LotProof!SaleInit DEF MarketInit
<1>3. ASSUME MInv, [MarketNext]_market PROVE [Lot!Sale!Next]_<<bids, payments>>
  <2>1. CASE [LotProof!Next]_(LotProof!vars)
    BY <1>1, <1>3, <2>1, LotConstants, LotProof!SaleStep DEF MInv, LotInv
  <2>2. ASSUME NEW p \in Percentages, Restart(p) PROVE UNCHANGED <<bids, payments>>
    BY <2>2 DEF Restart, rows
  <2> QED  BY <1>3, <2>1, <2>2, LotsMarch
<1>4. MInv /\ [MarketNext /\ OneRequestEach']_market => [Lot!Sale!Next]_<<bids, payments>>
  BY <1>3
<1> QED  BY <1>2, <1>4, MarketInvariance, PTL DEF MarketSpec, Lot!ImplementsSale, Lot!Sale!Spec

\* What was sold stays sold, to the same bid for the same payment, through
\* disputes, releases, refunds and restarts of the server.
THEOREM SoldStaysSold == MarketSpec => Lot!SoldIsFinal
<1> DEFINE Final(l) == Lot!HasPayment(l) =>
              /\ bids'[l] = bids[l] /\ winningBid'[l] = winningBid[l]
              /\ {t \in payments' : t.auction = l} = {t \in payments : t.auction = l}
              /\ lotState'[l] # "open"
<1>1. ASSUME MInv, [MarketNext]_market, NEW l \in Lot!Lots, Lot!HasPayment(l)
      PROVE  Final(l)
  <2>1. l \in LotProof!Lots /\ LotProof!HasPayment(l) /\ LotInv
    BY <1>1, SalesAreLots DEF Lot!HasPayment, LotProof!HasPayment, MInv
  <2>2. CASE [LotProof!Next]_(LotProof!vars)
    BY <2>1, <2>2, LotConstants, LotProof!SoldStep DEF LotInv
  <2>3. ASSUME NEW p \in Percentages, Restart(p) PROVE Final(l)
    <3>1. lotState[l] # "open"
      BY <2>1, PaymentFacts DEF LotProof!HasPayment
    <3> QED  BY <2>3, <3>1 DEF Restart, rows
  <2> QED  BY <1>1, <2>2, <2>3, LotsMarch
<1>2. MInv /\ [MarketNext /\ OneRequestEach']_market => [\A l \in Lot!Lots : Final(l)]_(Lot!vars)
  BY <1>1
<1> QED  BY <1>2, MarketInvariance, PTL DEF MarketSpec, Lot!SoldIsFinal

\* A restart forgets the mails that waited: what was sent stays true, and one
\* copy at most stays one copy at most.
LEMMA MailsRestart ==
    ASSUME UNCHANGED <<rows, passed, mailed>>, outbox' = [q \in Lot!Procs |-> <<>>]
    PROVE  /\ LotProof!MailsAreTrue => LotProof!MailsAreTrue'
           /\ \A m : LotProof!OnlyOne(m) => LotProof!OnlyOne(m)'
<1>1. \A p \in LotProof!Procs : outbox'[p] = <<>>
  BY DEF Lot!Procs, LotProof!Procs
<1>2. \A m : ~LotProof!Waits(m)'
  BY <1>1 DEF LotProof!Waits
<1>3. ASSUME LotProof!MailsAreTrue PROVE LotProof!MailsAreTrue'
  <2>1. \A m \in LotProof!Mail : LotProof!Announced(m)' => LotProof!Announced(m)
    BY <1>2 DEF LotProof!Announced
  <2>2. \A m \in LotProof!Mail : LotProof!TrueMail(m)' = LotProof!TrueMail(m)
    BY DEF LotProof!TrueMail, LotProof!HasPayment, rows
  <2> QED  BY <1>3, <2>1, <2>2 DEF LotProof!MailsAreTrue, LotProof!Mail, LotProof!Lots
<1>4. \A m : LotProof!OnlyOne(m) => LotProof!OnlyOne(m)'
  BY <1>1, <1>2 DEF LotProof!OnlyOne
<1> QED  BY <1>3, <1>4

LEMMA MarketMails == MarketSpec => [](LotProof!MailsAreTrue /\ LotProof!SaleTold)
<1>1. MarketInit => LotProof!MailsAreTrue /\ LotProof!SaleTold
  BY SameLots, LotConstants, LotProof!TrueInit, LotProof!SaleToldInit DEF MarketInit
<1>2. ASSUME MInv, LotProof!MailsAreTrue, LotProof!SaleTold, [MarketNext]_market
      PROVE  LotProof!MailsAreTrue' /\ LotProof!SaleTold'
  <2>1. CASE [LotProof!Next]_(LotProof!vars)
    BY <1>2, <2>1, LotConstants, LotProof!TrueStep, LotProof!SaleToldStep DEF MInv, LotInv
  <2>2. ASSUME NEW p \in Percentages, Restart(p)
        PROVE  LotProof!MailsAreTrue' /\ LotProof!SaleTold'
    <3>1. UNCHANGED bids /\ LotProof!MailsAreTrue'
          /\ \A m : LotProof!OnlyOne(m) => LotProof!OnlyOne(m)'
      BY <1>2, <2>2, MailsRestart DEF Restart, rows
    <3> QED  BY <1>2, <3>1 DEF LotProof!SaleTold, LotProof!Mail, LotProof!Lots
  <2> QED  BY <1>2, <2>1, <2>2, LotsMarch
<1>3. MInv /\ LotProof!MailsAreTrue /\ LotProof!SaleTold /\ [MarketNext /\ OneRequestEach']_market
        => LotProof!MailsAreTrue' /\ LotProof!SaleTold'
  BY <1>2
<1> QED  BY <1>1, <1>3, MarketInvariance, PTL DEF MarketSpec

\* A restart may lose mails.  It never makes one false, and never tells the end
\* of a sale twice.
THEOREM MailsSurvive == MarketSpec => [](Lot!MailTellsTheTruth /\ Lot!SaleToldOnce)
<1>1. Lot!Mail = LotProof!Mail /\ \A m : Lot!Copies(m) = LotProof!Copies(m)
  BY DEF Lot!Copies, LotProof!Copies, Lot!Procs, LotProof!Procs, Lot!Cardinality,
         LotProof!Cardinality, Lot!Mail, LotProof!Mail, Lot!Lots, LotProof!Lots
<1>2. Lot!MailTellsTheTruth = LotProof!MailTellsTheTruth
  BY <1>1 DEF Lot!MailTellsTheTruth, LotProof!MailTellsTheTruth
<1>3. Lot!SaleToldOnce = LotProof!SaleToldOnce
  BY <1>1 DEF Lot!SaleToldOnce, LotProof!SaleToldOnce
<1>4. MInv /\ LotProof!MailsAreTrue /\ LotProof!SaleTold
        => Lot!MailTellsTheTruth /\ Lot!SaleToldOnce
  BY <1>2, <1>3, LotConstants, LotProof!TruthTold, LotProof!SaleTells DEF MInv, LotInv
<1> QED  BY <1>4, MarketInvariance, MarketMails, PTL

-----------------------------------------------------------------------------
(* Serial behaviours *)

\* A lot without a payment has no winner.
UnpaidIsUnwon == \A s \in Sales : state[s] = "none" => winningBid[s] = 0

SMInv == MInv /\ SInv /\ ReleasedStands /\ UnpaidIsUnwon

\* What a step of the lots does to bids, winners and prices.
LEMMA LotShape ==
    ASSUME MInv, LotStep
    PROVE  \/ UNCHANGED <<bids, winningBid>>
           \/ \E l \in Sales : /\ winningBid' = [winningBid EXCEPT ![l] = 0]
                               /\ UNCHANGED bids
           \/ \E l \in Sales, u \in Users, a \in Prices :
                /\ state[l] = "none"
                /\ \A i \in DOMAIN bids[l] : bids[l][i].amount < a
                /\ bids' = [bids EXCEPT ![l] = Append(@, [bidder |-> u, amount |-> a])]
                /\ UNCHANGED winningBid
<1>0. LotInv /\ Joined
  BY DEF MInv
<1>1. LotProof!Next /\ payments' = payments
  BY SameLots DEF LotStep
<1>2. ASSUME UNCHANGED LotProof!rows PROVE UNCHANGED <<bids, winningBid>>
  BY <1>2 DEF LotProof!rows
<1>3. ASSUME NEW l \in LotProof!Lots,
             \/ \E u \in Users, price \in Prices : LotProof!Publish(l, u, price)
             \/ \E r \in Requests : LotProof!Approve(r, l) \/ LotProof!Reject(r, l)
      PROVE  UNCHANGED <<bids, winningBid>>
  BY <1>3 DEF LotProof!Publish, LotProof!Approve, LotProof!Reject
<1>4. ASSUME NEW l \in LotProof!Lots, NEW p \in LotProof!Procs, LotProof!CloseAuction(p, l)
      PROVE  winningBid' = [winningBid EXCEPT ![l] = 0] /\ UNCHANGED bids
  <2> DEFINE new == [auction |-> l, buyer |-> bids[l][Len(bids[l])].bidder,
                     seller |-> lotSeller[l], amount |-> bids[l][Len(bids[l])].amount]
  <2>1. /\ winningBid' = [winningBid EXCEPT ![l] = Len(bids[l])]
        /\ UNCHANGED bids
        /\ bids[l] # <<>> => /\ ~LotProof!HasPayment(l)
                             /\ payments' = payments \cup {new}
    BY <1>0, <1>4, LotProof!ClosingStores, LotConstants DEF LotInv, LotProof!IInv
  <2>2. new.auction = l
    OBVIOUS
  <2> HIDE DEF new
  <2>3. bids[l] = <<>>
    BY <1>1, <2>1, <2>2 DEF LotProof!HasPayment
  <2> QED  BY <2>1, <2>3
<1>5. ASSUME NEW l \in LotProof!Lots, NEW r \in Requests, NEW u \in Users, NEW a \in Prices,
             LotProof!PlaceBid(r, l, u, a)
      PROVE  /\ state[l] = "none"
             /\ \A i \in DOMAIN bids[l] : bids[l][i].amount < a
             /\ bids' = [bids EXCEPT ![l] = Append(@, [bidder |-> u, amount |-> a])]
             /\ UNCHANGED winningBid
  <2>0. l \in Sales
    BY SalesAreLots
  <2>1. state[l] = "none"
    <3>1. lotState[l] = "open"
      BY <1>5 DEF LotProof!PlaceBid, LotProof!MayBid
    <3> QED  BY <1>0, <2>0, <3>1, PaymentFacts DEF Joined
  <2>2. ASSUME NEW i \in DOMAIN bids[l] PROVE bids[l][i].amount < a
    <3>1. /\ bids[l] \in Seq([bidder : Users, amount : Prices])
          /\ bids[l][i].amount \in Nat
          /\ \A j, k \in DOMAIN bids[l] : j < k => bids[l][j].amount < bids[l][k].amount
          /\ bids[l] # <<>> => currentPrice[l] = bids[l][Len(bids[l])].amount
      BY <1>0, <2>0, <2>2, LotFacts
    <3>2. Len(bids[l]) \in DOMAIN bids[l] /\ bids[l] # <<>> /\ i \in 1..Len(bids[l])
          /\ DOMAIN bids[l] = 1..Len(bids[l])
      BY <2>2, <3>1
    <3>3. bids[l][Len(bids[l])].amount < a
      BY <1>5, <3>1, <3>2 DEF LotProof!PlaceBid, LotProof!MayBid
    <3>4. bids[l][i].amount < bids[l][Len(bids[l])].amount \/ i = Len(bids[l])
      BY <3>1, <3>2
    <3>5. bids[l][Len(bids[l])].amount \in Nat /\ a \in Nat
      BY <1>0, <2>0, <3>2, LotFacts, MarketAssumption
    <3> QED  BY <3>1, <3>3, <3>4, <3>5
  <2> QED  BY <1>5, <2>1, <2>2 DEF LotProof!PlaceBid
<1>6. \/ UNCHANGED LotProof!rows
      \/ \E l \in LotProof!Lots, u \in Users, price \in Prices : LotProof!Publish(l, u, price)
      \/ \E l \in LotProof!Lots, r \in Requests : LotProof!Approve(r, l) \/ LotProof!Reject(r, l)
      \/ \E l \in LotProof!Lots, r \in Requests, u \in Users, a \in Prices :
             LotProof!PlaceBid(r, l, u, a)
      \/ \E l \in LotProof!Lots, p \in LotProof!Procs : LotProof!CloseAuction(p, l)
  BY <1>1, LotProof!RowSteps, LotConstants
<1>7. CASE \E l \in LotProof!Lots, r \in Requests, u \in Users, a \in Prices :
             LotProof!PlaceBid(r, l, u, a)
  <2>1. PICK l \in LotProof!Lots, r \in Requests, u \in Users, a \in Prices :
          LotProof!PlaceBid(r, l, u, a)
    BY <1>7
  <2>2. l \in Sales
    BY SalesAreLots
  <2> QED  BY <1>5, <2>1, <2>2
<1>8. CASE \E l \in LotProof!Lots, p \in LotProof!Procs : LotProof!CloseAuction(p, l)
  <2>1. PICK l \in LotProof!Lots, p \in LotProof!Procs : LotProof!CloseAuction(p, l)
    BY <1>8
  <2>2. l \in Sales
    BY SalesAreLots
  <2> QED  BY <1>4, <2>1, <2>2
<1> QED
  BY <1>2, <1>3, <1>6, <1>7, <1>8

\* For escrow and reputation every step but a restart is one of theirs.
LEMMA AsRating ==
    ASSUME MInv, [MarketNext]_market
    PROVE  [RatingNext]_<<vars, ratings, form>> \/ \E p \in Percentages : Restart(p)
<1>1. CASE UNCHANGED market
  BY <1>1 DEF market, sale
<1>2. CASE LotStep
  BY <1>2 DEF LotStep, sale
<1>3. CASE SaleStep
  <2>1. PICK l \in Sales, t \in payments' : HoldPayment(l, t.buyer, t.seller)
    BY <1>3, SaleShape DEF MInv
  <2>2. t.buyer \in Users /\ t.seller \in Users
    <3>1. payments' \subseteq LotProof!Payment
      BY MarketNextHolds DEF MInv, LotInv, LotProof!IInv, LotProof!TypeOK
    <3> QED  BY <3>1 DEF LotProof!Payment
  <2> QED  BY <1>3, <2>1, <2>2 DEF SaleStep, RatingNext, Next
<1>4. CASE PaymentStep
  BY <1>4 DEF PaymentStep, RatingNext
<1>5. CASE ScoreStep
  BY <1>5 DEF ScoreStep, RatingNext
<1> QED  BY <1>1, <1>2, <1>3, <1>4, <1>5 DEF MarketNext

LEMMA WinStep ==
    ASSUME MInv, MInv', UnpaidIsUnwon, [MarketNext]_market
    PROVE  UnpaidIsUnwon'
<1>0. winningBid \in [Sales -> Nat] /\ state \in [Sales -> States]
  BY SalesAreLots DEF MInv, LotInv, LotProof!IInv, LotProof!TypeOK, RInv, IInv, TypeOK
<1>1. CASE UNCHANGED <<winningBid, state>>
  BY <1>1 DEF UnpaidIsUnwon
<1>2. CASE LotStep
  <2>1. UNCHANGED state
    BY <1>2 DEF LotStep, sale, vars, payment
  <2> QED  BY <1>0, <1>2, <2>1, LotShape DEF UnpaidIsUnwon
<1>3. CASE SaleStep
  <2>1. PICK l \in Sales, t \in payments' :
             /\ HoldPayment(l, t.buyer, t.seller)
             /\ winningBid' = [winningBid EXCEPT ![l] = Len(bids[l])]
    BY <1>3, SaleShape DEF MInv
  <2>2. state' = [state EXCEPT ![l] = "held"]
    BY <2>1 DEF HoldPayment, Record
  <2> QED  BY <1>0, <2>1, <2>2 DEF UnpaidIsUnwon
<1>4. CASE PaymentStep
  <2>1. \A s \in Sales : state[s] = "none" <=> state'[s] = "none"
    BY <1>4, PartiesStay DEF PaymentStep, MInv, RInv
  <2>2. UNCHANGED winningBid
    BY <1>4 DEF PaymentStep, lots, rows
  <2> QED  BY <2>1, <2>2 DEF UnpaidIsUnwon
<1>5. ScoreStep \/ (\E p \in Percentages : Restart(p)) \/ UNCHANGED market
      => UNCHANGED <<winningBid, state>>
  BY DEF ScoreStep, Restart, LoadSale, Loads, Rate, AbandonRating, market, sale, lots, rows,
         vars, payment
<1> QED  BY <1>1, <1>2, <1>3, <1>4, <1>5 DEF MarketNext

\* The invariant of the composition in serial behaviours.
LEMMA SerialStep == SMInv /\ [MarketNext /\ (OneRequestEach /\ SerialMarket)']_market => SMInv'
<1> SUFFICES ASSUME SMInv, [MarketNext /\ (OneRequestEach /\ SerialMarket)']_market PROVE SMInv'
  OBVIOUS
<1>1. MInv /\ SInv /\ ReleasedStands /\ UnpaidIsUnwon /\ [MarketNext]_market
  BY DEF SMInv
<1>2. MInv' /\ UnpaidIsUnwon'
  BY <1>1, MarketNextHolds, WinStep
<1>3. Serial'
  <2>1. CASE UNCHANGED market
    BY <1>1, <2>1 DEF market, sale, vars, SInv, Serial
  <2> QED  BY <2>1 DEF SerialMarket
<1>4. CASE [RatingNext]_<<vars, ratings, form>>
  <2>1. [Next]_vars
    BY <1>4 DEF RatingNext, LoadSale, Loads, Rate, AbandonRating
  <2>2. SInv'
    BY <1>1, <1>2, <1>3, <2>1, FreshStep, BooksStep DEF SInv, MInv, RInv, IInv
  <2>3. ReleasedStands'
    BY <1>1, <1>4, StandsStep DEF MInv
  <2> QED  BY <1>2, <2>2, <2>3 DEF SMInv
<1>5. ASSUME NEW p \in Percentages, Restart(p) PROVE SMInv'
  <2>1. SInv'
    BY <1>1, <1>2, <1>3, <1>5
    DEF SInv, MInv, RInv, IInv, Restart, FreshTasks, Books, payment, claim
  <2>2. ReleasedStands'
    BY <1>1, <1>5 DEF Restart, ReleasedStands, RatedSalesStand, payment
  <2> QED  BY <1>2, <2>1, <2>2 DEF SMInv
<1> QED  BY <1>1, <1>4, <1>5, AsRating

LEMMA SerialStart == MarketInit => SMInv
<1> SUFFICES ASSUME MarketInit PROVE SMInv
  OBVIOUS
<1>1. MInv
  BY MarketInitHolds
<1>2. SInv
  BY <1>1 DEF MarketInit, RatingInit, Init, SInv, Serial, FreshTasks, Books, MInv, RInv, IInv
<1>3. ReleasedStands
  BY DEF MarketInit, RatingInit, ReleasedStands, RatedSalesStand
<1>4. UnpaidIsUnwon
  BY SalesAreLots DEF MarketInit, Lot!Init, UnpaidIsUnwon
<1> QED  BY <1>1, <1>2, <1>3, <1>4 DEF SMInv

THEOREM SerialMarketInvariance == SerialMarketSpec => []SMInv
BY SerialStart, SerialStep, PTL DEF SerialMarketSpec

-----------------------------------------------------------------------------
(* The money *)

\* For escrow every step but a restart is one of its own.
LEMMA SalesTurn ==
    ASSUME MInv, [MarketNext]_market
    PROVE  [Next]_vars \/ \E p \in Percentages : Restart(p)
<1>1. [RatingNext]_<<vars, ratings, form>> => [Next]_vars
  BY DEF RatingNext, LoadSale, Loads, Rate, AbandonRating
<1> QED  BY <1>1, AsRating

\* However requests overlap, and whatever the lots and the restarts of the server
\* do: the history of a payment tells its state, each sale is argued once and
\* decided with its claim, is charged when released and by nothing else, and is
\* scored once by each side, after the release.
THEOREM MoneyIsTold ==
    MarketSpec => [](/\ HistoryEndsInState /\ ArguedOnce /\ DisputedMoneyIsQueued
                     /\ OthersDecideOnlyClaims /\ CommissionComesFromReleases
                     /\ EvidenceIsBounded /\ RatedOnce /\ RatedAfterRelease)
<1>1. MInv => /\ HistoryEndsInState /\ ArguedOnce /\ DisputedMoneyIsQueued
              /\ OthersDecideOnlyClaims /\ CommissionComesFromReleases
              /\ EvidenceIsBounded /\ RatedOnce /\ RatedAfterRelease
  BY DEF MInv, RInv, IInv
<1> QED  BY <1>1, MarketInvariance, PTL

LEMMA HistoriesGrow ==
    ASSUME MInv, [MarketNext]_market
    PROVE  \A s \in Sales : /\ Len(history'[s]) >= Len(history[s])
                            /\ \A i \in DOMAIN history[s] : history'[s][i] = history[s][i]
                            /\ state'[s] # state[s] => Len(history'[s]) = Len(history[s]) + 1
<1>0. TypeOK /\ IInv
  BY DEF MInv, RInv, IInv
<1>1. ASSUME UNCHANGED payment
      PROVE  \A s \in Sales : /\ Len(history'[s]) >= Len(history[s])
                              /\ history'[s] = history[s] /\ state'[s] = state[s]
  <2>1. \A s \in Sales : Len(history[s]) \in Nat
    BY <1>0 DEF TypeOK
  <2> QED  BY <1>1, <2>1 DEF payment
<1>2. CASE Next /\ ~UNCHANGED <<payment, dispute>>
  <2>1. PICK g \in Sales, from \in States, to \in States \ {"none"},
             actor \in Users \cup {NoUser} : Gains(g, from, to, actor)
    BY <1>0, <1>2, GainsOrStays DEF IInv
  <2> QED  BY <1>0, <2>1, GrowStep
<1>3. ASSUME NEW p \in Percentages, Restart(p) PROVE UNCHANGED payment
  BY <1>3 DEF Restart
<1>4. UNCHANGED vars => UNCHANGED payment
  BY DEF vars
<1> QED  BY <1>1, <1>2, <1>3, <1>4, SalesTurn

\* The rows of a payment's history are never taken back, restarts included, and no
\* state changes without one (record_state_change).
THEOREM HistoriesOnlyGrow == MarketSpec => HistoryOnlyGrows
<1>1. MInv /\ [MarketNext /\ OneRequestEach']_market
      => [\A s \in Sales : /\ Len(history'[s]) >= Len(history[s])
                           /\ \A i \in DOMAIN history[s] : history'[s][i] = history[s][i]
                           /\ state'[s] # state[s] => Len(history'[s]) = Len(history[s]) + 1]_vars
  BY HistoriesGrow
<1> QED  BY <1>1, MarketInvariance, PTL DEF MarketSpec, HistoryOnlyGrows

\* What was charged fits what was paid, and is there only after a release.
CutFits ==
    \A s \in Sales :
        /\ state[s] = "none" => commission[s] = 0
        /\ state[s] # "none" => commission[s] \in 0..bids[s][Len(bids[s])].amount
        /\ commission[s] # 0 => Reached(s, "released")

\* Bids of a sale that has its payment do not change any more.
LEMMA SoldBidsStay ==
    ASSUME MInv, [MarketNext]_market, NEW s \in Sales, state[s] # "none"
    PROVE  bids'[s] = bids[s] /\ state'[s] # "none"
<1>1. s \in LotProof!Lots /\ LotProof!HasPayment(s) /\ LotInv
  BY SalesAreLots DEF MInv, Joined, LotProof!HasPayment
<1>2. CASE [LotProof!Next]_(LotProof!vars)
  <2>1. /\ bids'[s] = bids[s]
        /\ {t \in payments' : t.auction = s} = {t \in payments : t.auction = s}
    BY <1>1, <1>2, LotConstants, LotProof!SoldStep DEF LotInv
  <2>2. \E t \in payments' : t.auction = s
    BY <1>1, <2>1 DEF LotProof!HasPayment
  <2>3. state'[s] # "none"
    BY <2>2, MarketNextHolds DEF MInv, Joined
  <2> QED  BY <2>1, <2>3
<1>3. ASSUME NEW p \in Percentages, Restart(p) PROVE bids'[s] = bids[s] /\ state'[s] # "none"
  BY <1>3 DEF Restart, rows, payment
<1> QED  BY <1>2, <1>3, LotsMarch

PaidForBids ==
    \A s \in Sales : state[s] # "none" =>
        bids[s] # <<>> /\ bids[s][Len(bids[s])].amount \in Nat

LEMMA PaidForHolds == MInv => PaidForBids
BY AmountIs DEF PaidForBids

LEMMA CutFitsStep ==
    ASSUME MInv, CutFits, [MarketNext]_market
    PROVE  CutFits'
<1>0. MInv' /\ TypeOK /\ TypeOK' /\ HistoryEndsInState'
  BY MarketNextHolds DEF MInv, RInv, IInv
<1> SUFFICES ASSUME NEW s \in Sales
    PROVE  /\ state'[s] = "none" => commission'[s] = 0
           /\ state'[s] # "none" => commission'[s] \in 0..bids'[s][Len(bids'[s])].amount
           /\ commission'[s] # 0 => Reached(s, "released")'
  BY DEF CutFits
<1>1. Reached(s, "released") => Reached(s, "released")'
  <2>1. /\ Len(history[s]) \in Nat /\ Len(history'[s]) \in Nat
        /\ DOMAIN history[s] = 1..Len(history[s]) /\ DOMAIN history'[s] = 1..Len(history'[s])
    BY <1>0 DEF TypeOK
  <2>2. Len(history'[s]) >= Len(history[s]) /\ \A i \in DOMAIN history[s] : history'[s][i] = history[s][i]
    BY HistoriesGrow
  <2>3. DOMAIN history[s] \subseteq DOMAIN history'[s]
    BY <2>1, <2>2
  <2> QED  BY <2>2, <2>3 DEF Reached
<1>2. state'[s] # "none" => bids'[s] # <<>> /\ bids'[s][Len(bids'[s])].amount \in Nat
  <2>1. (MInv => PaidForBids)'
    BY PaidForHolds, PTL
  <2> QED  BY <1>0, <2>1 DEF PaidForBids
<1>3. CASE commission'[s] = commission[s]
  <2>1. CASE state[s] = "none"
    BY <1>2, <1>3, <2>1 DEF CutFits
  <2>2. CASE state[s] # "none"
    BY <1>1, <1>3, <2>2, SoldBidsStay DEF CutFits
  <2> QED  BY <2>1, <2>2
<1>4. CASE PaymentStep /\ Releases(s)
  <2>1. /\ commission'[s] = Commission(Amount(s), percentage)
        /\ UNCHANGED bids
    BY <1>4 DEF PaymentStep, lots, rows
  <2>2. history'[s] # <<>> /\ Len(history'[s]) \in DOMAIN history'[s]
    <3>1. Len(history[s]) \in Nat /\ history'[s] \in Seq(Change)
      BY <1>0 DEF TypeOK
    <3> QED  BY <1>4, <3>1 DEF Releases
  <2>3. Reached(s, "released")' /\ state'[s] = "released"
    BY <1>0, <1>4, <2>2 DEF Releases, Reached, HistoryEndsInState
  <2>4. state[s] # "none"
    BY <1>4, <2>3 DEF PaymentStep
  <2>5. Amount(s) = bids[s][Len(bids[s])].amount /\ Amount(s) \in Nat
    BY <2>4, AmountIs
  <2>6. percentage \in 0..Whole
    BY PercentagesAssumption, SMTT(30) DEF MInv, Whole
  <2>7. Commission(Amount(s), percentage) \in 0..Amount(s)
    BY <2>5, <2>6, CommissionFits
  <2> QED  BY <2>1, <2>3, <2>5, <2>7
<1>5. CASE PaymentStep /\ ~Releases(s)
  BY <1>3, <1>5 DEF PaymentStep
<1>6. LotStep \/ SaleStep \/ ScoreStep \/ (\E p \in Percentages : Restart(p)) \/ UNCHANGED market
      => UNCHANGED commission
  BY DEF LotStep, SaleStep, ScoreStep, Restart, market
<1> QED  BY <1>3, <1>4, <1>5, <1>6 DEF MarketNext

LEMMA CutsFit == MarketSpec => []CutFits
<1>1. MarketInit => CutFits
  BY DEF MarketInit, RatingInit, Init, CutFits
<1>2. MInv /\ CutFits /\ [MarketNext /\ OneRequestEach']_market => CutFits'
  BY CutFitsStep
<1> QED  BY <1>1, <1>2, MarketInvariance, PTL DEF MarketSpec

\* What the pages show of a payment adds up at every moment, before and after a
\* release and whatever the percentage becomes: no commission is more than the
\* buyer paid, and no payout is negative (commission_due, payout, models.py).
THEOREM PayoutFits ==
    MarketSpec => [](\A s \in Sales : state[s] # "none" =>
                        CommissionDue(s) \in 0..Amount(s) /\ Payout(s) \in 0..Amount(s))
<1>1. ASSUME MInv, CutFits, NEW s \in Sales, state[s] # "none"
      PROVE  CommissionDue(s) \in 0..Amount(s) /\ Payout(s) \in 0..Amount(s)
  <2>1. Amount(s) = bids[s][Len(bids[s])].amount /\ Amount(s) \in Nat
    BY <1>1, AmountIs
  <2>2. percentage \in 0..Whole
    BY <1>1, PercentagesAssumption, SMTT(30) DEF MInv, Whole
  <2>3. Commission(Amount(s), percentage) \in 0..Amount(s)
    BY <2>1, <2>2, CommissionFits
  <2>4. commission[s] \in 0..Amount(s)
    BY <1>1, <2>1 DEF CutFits
  <2>5. CommissionDue(s) \in 0..Amount(s)
    BY <2>3, <2>4 DEF CommissionDue
  <2> QED  BY <2>1, <2>5 DEF Payout
<1>2. MInv /\ CutFits => \A s \in Sales : state[s] # "none" =>
          CommissionDue(s) \in 0..Amount(s) /\ Payout(s) \in 0..Amount(s)
  BY <1>1
<1> QED  BY <1>2, MarketInvariance, CutsFit, PTL

\* In serial behaviours, a refund gives back all the buyer paid.
THEOREM RefundIsAll ==
    SerialMarketSpec => [](\A s \in Sales : state[s] = "refunded" => Payout(s) = Amount(s))
<1>1. ASSUME SMInv, CutFits, NEW s \in Sales, state[s] = "refunded"
      PROVE  Payout(s) = Amount(s)
  <2>1. s \notin charged
    BY <1>1 DEF SMInv, SInv, Books
  <2>2. commission[s] = 0
    BY <1>1, <2>1 DEF CutFits, SMInv, MInv, RInv, IInv, CommissionComesFromReleases
  <2>3. Amount(s) \in Nat
    BY <1>1, AmountIs DEF SMInv
  <2> QED  BY <1>1, <2>2, <2>3 DEF Payout, CommissionDue, Settled, Outcomes
<1>2. SMInv /\ CutFits => \A s \in Sales : state[s] = "refunded" => Payout(s) = Amount(s)
  BY <1>1
<1>3. SerialMarketSpec => MarketSpec
  BY PTL DEF SerialMarketSpec, MarketSpec
<1> QED  BY <1>2, <1>3, SerialMarketInvariance, CutsFit, PTL

\* In serial behaviours, restarts between them: the history is a chain, a claim
\* holds the money until it is decided and says where it went, a refund is whole,
\* and only released sales are scored.
THEOREM MoneyStands ==
    SerialMarketSpec => [](/\ HistoryIsAChain /\ ClaimHoldsTheMoney
                           /\ RefundIsWhole /\ RatedSalesStand)
<1>1. MarketInit => HistoryIsAChain
  BY DEF MarketInit, RatingInit, Init, HistoryIsAChain
<1>2. ASSUME SMInv, HistoryIsAChain, [MarketNext]_market PROVE HistoryIsAChain'
  <2>1. MInv /\ SInv /\ IInv
    BY <1>2 DEF SMInv, MInv, RInv
  <2>2. CASE [Next]_vars
    BY <1>2, <2>1, <2>2, ChainStep
  <2>3. ASSUME NEW p \in Percentages, Restart(p) PROVE HistoryIsAChain'
    BY <1>2, <2>3 DEF Restart, payment, HistoryIsAChain
  <2> QED  BY <1>2, <2>1, <2>2, <2>3, SalesTurn
<1>3. SMInv /\ HistoryIsAChain /\ [MarketNext /\ (OneRequestEach /\ SerialMarket)']_market
      => HistoryIsAChain'
  BY <1>2
<1>4. SMInv => ClaimHoldsTheMoney /\ RefundIsWhole /\ RatedSalesStand
  BY DEF SMInv, SInv, Books, ReleasedStands, ClaimHoldsTheMoney, RefundIsWhole
<1> QED  BY <1>1, <1>3, <1>4, SerialMarketInvariance, PTL DEF SerialMarketSpec

\* In serial behaviours, money that moved stays where it is and files are only
\* attached to open claims, restarts of the server included.
THEOREM MoneyStays == SerialMarketSpec => SettledForGood /\ EvidencePrecedesDecision
<1> DEFINE Stays == \A s \in Sales : Settled(state[s]) => state'[s] = state[s]
                                                          /\ history'[s] = history[s]
           InTime == \A s \in Sales : evidence'[s] # evidence[s] => dispute[s] = "open"
<1>1. ASSUME SMInv, [MarketNext]_market PROVE Stays /\ InTime
  <2>1. MInv /\ SInv
    BY <1>1 DEF SMInv
  <2>2. CASE [Next]_vars
    BY <2>1, <2>2, StayStep, FilesStep
  <2>3. ASSUME NEW p \in Percentages, Restart(p) PROVE Stays /\ InTime
    BY <2>3 DEF Restart, payment, claim
  <2> QED  BY <1>1, <2>1, <2>2, <2>3, SalesTurn
<1>2. SMInv /\ [MarketNext /\ (OneRequestEach /\ SerialMarket)']_market
      => [Stays]_vars /\ [InTime]_vars
  BY <1>1
<1> QED
  BY <1>2, SerialMarketInvariance, PTL
  DEF SerialMarketSpec, SettledForGood, EvidencePrecedesDecision

\* In serial behaviours, the payments of the whole program do what SaleMoney
\* promises: retained, argued over at most once, then paid or given back whole.
THEOREM MoneyCorrect == SerialMarketSpec => ImplementsMoney
<1>1. ASSUME SMInv, [MarketNext]_market PROVE [Money!Next]_<<Where, charged>>
  <2>1. MInv /\ SInv
    BY <1>1 DEF SMInv
  <2>2. CASE [Next]_vars
    BY <2>1, <2>2, MoneyStep
  <2>3. ASSUME NEW p \in Percentages, Restart(p) PROVE UNCHANGED <<Where, charged>>
    BY <2>3 DEF Restart, payment, Where
  <2> QED  BY <1>1, <2>1, <2>2, <2>3, SalesTurn
<1>2. SMInv /\ [MarketNext /\ (OneRequestEach /\ SerialMarket)']_market
      => [Money!Next]_<<Where, charged>>
  BY <1>1
<1>3. MarketInit => Money!Init
  BY MoneyInit DEF MarketInit, RatingInit
<1> QED
  BY <1>2, <1>3, SerialMarketInvariance, PTL DEF SerialMarketSpec, ImplementsMoney, Money!Spec

-----------------------------------------------------------------------------
(* The lots, in serial behaviours *)

\* What the two instances of Auctions say of serial steps is the same.
LEMMA SameSerial ==
    /\ Lot!Serial = LotProof!Serial
    /\ Lot!Serial' = LotProof!Serial'
    /\ Lot!vars = LotProof!vars
    /\ Lot!ResultToldOnce = LotProof!ResultToldOnce
<1>1. Lot!Procs = LotProof!Procs /\ Lot!Idle = LotProof!Idle /\ Lot!Mail = LotProof!Mail
  BY DEF Lot!Procs, LotProof!Procs, Lot!Idle, LotProof!Idle, Lot!Mail, LotProof!Mail,
         Lot!Lots, LotProof!Lots
<1>2. Lot!Serial = LotProof!Serial
  BY <1>1 DEF Lot!Serial, LotProof!Serial
<1>3. Lot!Serial' = LotProof!Serial'
  BY <1>1 DEF Lot!Serial, LotProof!Serial
<1>4. Lot!vars = LotProof!vars
  BY DEF Lot!vars, LotProof!vars, Lot!rows, LotProof!rows
<1>5. \A m : Lot!Copies(m) = LotProof!Copies(m)
  BY DEF Lot!Copies, LotProof!Copies, Lot!Procs, LotProof!Procs, Lot!Cardinality,
         LotProof!Cardinality
<1>6. Lot!ResultToldOnce = LotProof!ResultToldOnce
  BY <1>1, <1>5 DEF Lot!ResultToldOnce, LotProof!ResultToldOnce
<1> QED  BY <1>2, <1>3, <1>4, <1>6

\* A restart forgets the mails that waited and the rows that were loaded.
LEMMA SerialLotsRestart ==
    ASSUME LotProof!SerialInv, UNCHANGED <<rows, passed, mailed>>,
           job' = [q \in Lot!Procs |-> Lot!Idle], outbox' = [q \in Lot!Procs |-> <<>>]
    PROVE  LotProof!SerialInv'
<1>0. LotInv /\ LotProof!MailsAreTrue /\ LotProof!AllTold
  BY DEF LotInv, LotProof!SerialInv
<1>1. LotProof!IInv'
  BY <1>0, LotsRestart DEF LotInv
<1>2. LotProof!MailsAreTrue'
  BY <1>0, MailsRestart
<1>3. LotProof!FreshJobs'
  <2>1. \A p \in LotProof!Procs : job'[p] = LotProof!Idle
    BY DEF Lot!Procs, Lot!Idle, LotProof!Procs, LotProof!Idle
  <2> QED  BY <2>1 DEF LotProof!FreshJobs, LotProof!Serial, LotProof!Idle
<1>4. LotProof!AllTold'
  BY <1>0, MailsRestart DEF LotProof!AllTold, LotProof!Mail, LotProof!Lots
<1> QED  BY <1>1, <1>2, <1>3, <1>4 DEF LotProof!SerialInv

\* What a step of the market is to the lots.
LEMMA LotsTurn ==
    ASSUME [MarketNext /\ (OneRequestEach /\ SerialMarket)']_market
    PROVE  \/ [LotProof!Next /\ LotProof!Serial']_(LotProof!vars)
           \/ \E p \in Percentages : Restart(p)
<1>1. CASE UNCHANGED market
  BY <1>1 DEF market, lots, rows, LotProof!vars, LotProof!rows
<1>2. CASE LotStep /\ SerialMarket'
  BY <1>2, SameLots, SameSerial DEF LotStep, SerialMarket
<1>3. CASE SaleStep /\ SerialMarket'
  <2>1. Lot!Next
    BY <1>3 DEF SaleStep, Lot!Next
  <2> QED  BY <1>3, <2>1, SameLots, SameSerial DEF SerialMarket
<1>4. CASE PaymentStep \/ ScoreStep
  BY <1>4 DEF PaymentStep, ScoreStep, lots, rows, LotProof!vars, LotProof!rows
<1> QED  BY <1>1, <1>2, <1>3, <1>4 DEF MarketNext

LEMMA SerialLotsStep ==
    LotProof!SerialInv /\ [MarketNext /\ (OneRequestEach /\ SerialMarket)']_market
        => LotProof!SerialInv'
<1> SUFFICES ASSUME LotProof!SerialInv, [MarketNext /\ (OneRequestEach /\ SerialMarket)']_market
             PROVE  LotProof!SerialInv'
  OBVIOUS
<1>1. CASE [LotProof!Next /\ LotProof!Serial']_(LotProof!vars)
  BY <1>1, LotProof!SerialHolds, LotConstants
<1>2. ASSUME NEW p \in Percentages, Restart(p) PROVE LotProof!SerialInv'
  BY <1>2, SerialLotsRestart DEF Restart
<1> QED  BY <1>1, <1>2, LotsTurn

LEMMA SerialLotsHold == SerialMarketSpec => []LotProof!SerialInv
<1>1. MarketInit => LotProof!SerialInv
  BY LotProof!SerialInit, SameLots, LotConstants DEF MarketInit
<1> QED  BY <1>1, SerialLotsStep, PTL DEF SerialMarketSpec

\* In serial behaviours, the end of a lot is told once, sold or not, through
\* releases, ratings and restarts of the server.
THEOREM LotsTold == SerialMarketSpec => []LotResultToldOnce
<1>1. LotProof!SerialInv => LotResultToldOnce
  BY LotProof!SerialTells, SameSerial, LotConstants DEF LotResultToldOnce
<1> QED  BY <1>1, SerialLotsHold, PTL

\* In serial behaviours, a publication request is decided once, whatever the
\* payments, the ratings and the restarts of the server do in between.
THEOREM LotsDecided == SerialMarketSpec => LotDecidedOnce
<1> DEFINE Onwards == \A l \in Lot!Lots : lotState'[l] # lotState[l] =>
               <<lotState[l], lotState'[l]>> \in
                   {<<"none", "pending">>, <<"pending", "open">>,
                    <<"pending", "rejected">>, <<"open", "closed">>}
<1>1. LotProof!SerialInv /\ [MarketNext /\ (OneRequestEach /\ SerialMarket)']_market
      => [Onwards]_(Lot!vars)
  <2> SUFFICES ASSUME LotProof!SerialInv,
                      [MarketNext /\ (OneRequestEach /\ SerialMarket)']_market,
                      NEW l \in Sales, lotState'[l] # lotState[l]
               PROVE  <<lotState[l], lotState'[l]>> \in
                          {<<"none", "pending">>, <<"pending", "open">>,
                           <<"pending", "rejected">>, <<"open", "closed">>}
    BY SalesAreLots
  <2>1. \A p \in Percentages : ~Restart(p)
    BY DEF Restart, rows
  <2>2. [LotProof!Next]_(LotProof!vars)
    BY <2>1, LotsTurn
  <2> QED  BY <2>2, LotProof!DecisionStep, LotConstants, SalesAreLots
<1> QED  BY <1>1, SerialLotsHold, PTL DEF SerialMarketSpec, LotDecidedOnce, Lot!DecidedOnce

-----------------------------------------------------------------------------
(* What the pages show *)

\* The position of the last offer, and of the marks.
Final(q) == IF q = <<>> THEN {} ELSE {Len(q)}

\* Who has yet to score, told from the rows of a sale.
Due(st, b, v, q) ==
    IF st = "released" THEN {u \in {b, v} : \A i \in DOMAIN q : q[i].rater # u} ELSE {}

Owing(s) == {u \in Users : s \in SalesToRate(u)}
PaidOut(s) == IF state[s] = "released" THEN Payout(s) ELSE 0

\* What SaleLife sees of a sale depends on its rows alone.
View ==
    \A s \in Sales :
        /\ TheHighest(s) = Final(bids[s])
        /\ TheWinning(s) = IF state[s] = "none" THEN {} ELSE Final(bids[s])
        /\ PaidOut(s) = IF state[s] = "released"
                        THEN bids[s][Len(bids[s])].amount - commission[s] ELSE 0
        /\ Owing(s) = Due(state[s], buyer[s], seller[s], ratings[s])

LEMMA ViewHolds == SMInv => View
<1> SUFFICES ASSUME SMInv, NEW s \in Sales
    PROVE  /\ TheHighest(s) = Final(bids[s])
           /\ TheWinning(s) = IF state[s] = "none" THEN {} ELSE Final(bids[s])
           /\ PaidOut(s) = IF state[s] = "released"
                           THEN bids[s][Len(bids[s])].amount - commission[s] ELSE 0
           /\ Owing(s) = Due(state[s], buyer[s], seller[s], ratings[s])
  BY DEF View
<1>0. MInv /\ LotInv
  BY DEF SMInv, MInv
<1>1. /\ bids[s] \in Seq([bidder : Users, amount : Prices])
      /\ \A i \in DOMAIN bids[s] : bids[s][i].amount \in Nat
      /\ \A i, j \in DOMAIN bids[s] : i < j => bids[s][i].amount < bids[s][j].amount
      /\ bids[s] # <<>> => currentPrice[s] = bids[s][Len(bids[s])].amount
  BY <1>0, LotFacts
<1>2. DOMAIN bids[s] = 1..Len(bids[s]) /\ Len(bids[s]) \in Nat
      /\ (bids[s] = <<>> <=> Len(bids[s]) = 0)
  BY <1>1
<1>3. TheHighest(s) = Final(bids[s])
  <2>1. CASE bids[s] = <<>>
    BY <2>1 DEF TheHighest, Final
  <2>2. CASE bids[s] # <<>>
    <3>1. Len(bids[s]) \in DOMAIN bids[s]
      BY <1>2, <2>2
    <3>2. \A i \in DOMAIN bids[s] : i # Len(bids[s]) => bids[s][i].amount # currentPrice[s]
      BY <1>1, <1>2, <2>2, <3>1
    <3> QED  BY <1>1, <2>2, <3>1, <3>2 DEF TheHighest, Final
  <2> QED  BY <2>1, <2>2
<1>4. TheWinning(s) = IF state[s] = "none" THEN {} ELSE Final(bids[s])
  <2>1. CASE state[s] = "none"
    BY <1>2, <2>1 DEF SMInv, UnpaidIsUnwon, TheWinning
  <2>2. CASE state[s] # "none"
    <3>1. PICK t \in payments : t.auction = s
      BY <1>0, <2>2 DEF MInv, Joined
    <3>2. bids[s] # <<>> /\ winningBid[s] = Len(bids[s])
      BY <1>0, <3>1, PaymentFacts
    <3> QED  BY <1>2, <2>2, <3>2 DEF TheWinning, Final
  <2> QED  BY <2>1, <2>2
<1>5. PaidOut(s) = IF state[s] = "released"
                   THEN bids[s][Len(bids[s])].amount - commission[s] ELSE 0
  <2>1. state[s] = "released" => Payout(s) = bids[s][Len(bids[s])].amount - commission[s]
    BY <1>0, AmountIs DEF Payout, CommissionDue, Settled, Outcomes
  <2> QED  BY <2>1 DEF PaidOut
<1>6. Owing(s) = Due(state[s], buyer[s], seller[s], ratings[s])
  <2>1. state[s] = "released" => buyer[s] \in Users /\ seller[s] \in Users
    BY <1>0, AmountIs
  <2> QED  BY <2>1 DEF Owing, SalesToRate, Due
<1> QED  BY <1>3, <1>4, <1>5, <1>6

\* Steps that leave these rows alone are invisible in SaleLife.
LEMMA ViewStays ==
    ASSUME View, View', UNCHANGED <<bids, state, buyer, seller, ratings>>,
           \A s \in Sales : state[s] = "released" => commission'[s] = commission[s]
    PROVE  UNCHANGED Life!life
<1>1. \A s \in Sales : /\ TheHighest(s)' = TheHighest(s) /\ TheWinning(s)' = TheWinning(s)
                       /\ PlaceOf(s)' = PlaceOf(s)
                       /\ PaidOut(s)' = PaidOut(s) /\ Owing(s)' = Owing(s)
  BY DEF View, PlaceOf
<1> QED  BY <1>1 DEF Life!life, PaidOut, Owing

\* A bid is a raise.
LEMMA BidRaises ==
    ASSUME View, View', NEW l \in Sales, NEW u \in Users, NEW a \in Prices,
           bids \in [Sales -> Seq([bidder : Users, amount : Prices])],
           state[l] = "none", \A i \in DOMAIN bids[l] : bids[l][i].amount < a,
           bids' = [bids EXCEPT ![l] = Append(@, [bidder |-> u, amount |-> a])],
           UNCHANGED <<state, buyer, seller, ratings, commission>>
    PROVE  Life!Raise(l, u, a)
<1>1. \A s \in Sales \ {l} : bids'[s] = bids[s]
  OBVIOUS
<1>2. bids'[l] # <<>> /\ Len(bids'[l]) = Len(bids[l]) + 1
  OBVIOUS
<1>3. TheHighest(l)' = {Len(bids[l]) + 1}
  BY <1>2 DEF View, Final
<1>4. \A s \in Sales \ {l} : TheHighest(s)' = TheHighest(s)
  BY <1>1 DEF View
<1>5. \A s \in Sales : TheWinning(s)' = TheWinning(s)
  BY <1>1 DEF View
<1>6. \A s \in Sales : /\ PlaceOf(s)' = PlaceOf(s) /\ Owing(s)' = Owing(s)
  BY DEF View, PlaceOf
<1>7. \A s \in Sales : PaidOut(s)' = PaidOut(s)
  BY <1>1 DEF View
<1>8. PlaceOf(l) = "offered"
  BY DEF PlaceOf
<1> QED  BY <1>3, <1>4, <1>5, <1>6, <1>7, <1>8 DEF Life!Raise, PaidOut, Owing

\* A closing with a winner is a knock-down.
LEMMA ClosingKnocksDown ==
    ASSUME SMInv, View, View', SaleStep
    PROVE  \E l \in Sales : Life!KnockDown(l)
<1>1. PICK l \in Sales, t \in payments' :
         HoldPayment(l, t.buyer, t.seller) /\ bids[l] # <<>> /\ UNCHANGED bids
  BY SaleShape DEF SMInv, MInv
<1>2. state \in [Sales -> States] /\ buyer \in [Sales -> Users \cup {NoUser}]
      /\ seller \in [Sales -> Users \cup {NoUser}]
  BY DEF SMInv, SInv, TypeOK
<1>3. state[l] = "none" /\ state' = [state EXCEPT ![l] = "held"]
  BY <1>1 DEF HoldPayment, Record
<1>4. \A s \in Sales \ {l} : state'[s] = state[s] /\ buyer'[s] = buyer[s] /\ seller'[s] = seller[s]
  BY <1>1, <1>2, <1>3 DEF HoldPayment
<1>5. state'[l] = "held"
  BY <1>2, <1>3
<1>6. UNCHANGED <<ratings, commission>>
  BY DEF SaleStep
<1>7. \A s \in Sales : TheHighest(s)' = TheHighest(s)
  BY <1>1 DEF View
<1>8. TheWinning(l)' = TheHighest(l) /\ \A s \in Sales \ {l} : TheWinning(s)' = TheWinning(s)
  BY <1>1, <1>4, <1>5 DEF View
<1>9. \A s \in Sales : PaidOut(s)' = PaidOut(s) /\ Owing(s)' = Owing(s)
  <2>1. PaidOut(l)' = PaidOut(l) /\ Owing(l)' = Owing(l)
    BY <1>3, <1>5 DEF View, Due
  <2>2. ASSUME NEW s \in Sales \ {l} PROVE PaidOut(s)' = PaidOut(s) /\ Owing(s)' = Owing(s)
    BY <1>1, <1>4, <1>6 DEF View
  <2> QED  BY <2>1, <2>2
<1>10. PlaceOf(l) = "offered" /\ PlaceOf(l)' = "retained"
       /\ \A s \in Sales \ {l} : PlaceOf(s)' = PlaceOf(s)
  BY <1>3, <1>4, <1>5, Places DEF PlaceOf
<1> QED  BY <1>1, <1>7, <1>8, <1>9, <1>10 DEF Life!KnockDown, Life!Move, PaidOut, Owing

\* A request about a payment argues, pays or pays back, or is invisible.
LEMMA PaymentMoves ==
    ASSUME SMInv, SMInv', View, View', PaymentStep
    PROVE  UNCHANGED Life!life \/ Life!Next
<1>0. MInv /\ SInv /\ IInv /\ TypeOK /\ TypeOK' /\ HistoryEndsInState /\ HistoryEndsInState'
      /\ RatedSalesStand /\ state \in [Sales -> States]
  BY DEF SMInv, MInv, RInv, IInv, ReleasedStands, TypeOK
<1>1. Next /\ UNCHANGED <<bids, ratings>>
  BY DEF PaymentStep, lots, rows
<1>2. UNCHANGED <<buyer, seller>> /\ \A s \in Sales : state[s] = "none" <=> state'[s] = "none"
  BY <1>0, <1>1, PartiesStay DEF PaymentStep
<1>3. \A s \in Sales : ~Releases(s) => commission'[s] = commission[s]
  BY DEF PaymentStep
<1>4. \A s \in Sales : history'[s] = history[s] => ~Releases(s)
  BY <1>0 DEF Releases, TypeOK
<1>5. CASE UNCHANGED money
  <2>1. \A s \in Sales : commission'[s] = commission[s]
    BY <1>3, <1>4, <1>5 DEF money
  <2> QED  BY <1>1, <1>2, <1>5, <2>1, ViewStays DEF money
<1>6. ASSUME NEW l \in Sales, NEW to \in States, Moves(l, to) PROVE Life!Next
  <2>1. /\ state'[l] = to /\ state[l] # "none"
        /\ \A s \in Sales \ {l} : state'[s] = state[s] /\ commission'[s] = commission[s]
    BY <1>0, <1>2, <1>3, <1>4, <1>6 DEF Moves
  <2>2. /\ bids[l] # <<>> /\ Amount(l) = bids[l][Len(bids[l])].amount /\ Amount(l) \in Nat
        /\ buyer[l] = bids[l][Len(bids[l])].bidder
        /\ seller[l] \in Users /\ buyer[l] # seller[l]
    BY <1>0, <2>1, AmountIs
  <2>3. /\ \A s \in Sales : TheHighest(s)' = TheHighest(s) /\ TheWinning(s)' = TheWinning(s)
        /\ \A s \in Sales \ {l} : PaidOut(s)' = PaidOut(s) /\ Owing(s)' = Owing(s)
                                  /\ PlaceOf(s)' = PlaceOf(s)
    <3>1. \A s \in Sales : TheHighest(s)' = TheHighest(s)
      BY <1>1 DEF View
    <3>2. \A s \in Sales : TheWinning(s)' = TheWinning(s)
      BY <1>1, <1>2 DEF View
    <3>3. ASSUME NEW s \in Sales \ {l}
          PROVE  PaidOut(s)' = PaidOut(s) /\ Owing(s)' = Owing(s) /\ PlaceOf(s)' = PlaceOf(s)
      BY <1>1, <1>2, <2>1 DEF View, PlaceOf
    <3> QED  BY <3>1, <3>2, <3>3
  <2>4. CASE to # "released" /\ state[l] # "released"
    <3>1. PaidOut(l)' = PaidOut(l) /\ Owing(l)' = Owing(l)
      BY <2>1, <2>4 DEF View, Due
    <3>2. \/ PlaceOf(l) = "retained" /\ PlaceOf(l)' = "argued"
          \/ PlaceOf(l) = "argued" /\ PlaceOf(l)' = "returned"
      BY <1>6, <2>1, <2>4, Places DEF Moves, PlaceOf, Outcomes
    <3>3. Life!Argue(l) \/ Life!PayBack(l)
      BY <1>1, <2>3, <3>1, <3>2 DEF Life!Argue, Life!PayBack, Life!Move, PaidOut, Owing
    <3> QED  BY <3>3 DEF Life!Next
  <2>5. CASE to = "released" /\ state[l] \in {"held", "in_dispute"}
    <3>1. Releases(l)
      <4>1. Len(history'[l]) = Len(history[l]) + 1
        <5>1. state'[l] # state[l]
          BY <2>1, <2>5
        <5>2. ~UNCHANGED <<payment, dispute>>
          BY <5>1 DEF payment
        <5>3. PICK g \in Sales, from \in States, t \in States \ {"none"},
                   actor \in Users \cup {NoUser} : Gains(g, from, t, actor)
          BY <1>0, <1>1, <5>2, GainsOrStays DEF IInv
        <5> QED  BY <1>0, <5>1, <5>3, GrowStep
      <4>2. Len(history[l]) \in Nat /\ history'[l] # <<>>
        BY <1>0, <2>1, <2>5 DEF TypeOK, HistoryEndsInState
      <4>3. history'[l][Len(history'[l])].to = "released"
        BY <1>0, <2>1, <2>5, <4>2 DEF HistoryEndsInState
      <4> QED  BY <4>1, <4>2, <4>3 DEF Releases
    <3>2. commission'[l] = Commission(Amount(l), percentage)
      BY <3>1 DEF PaymentStep
    <3>3. percentage \in 0..Whole
      BY <1>0, PercentagesAssumption, SMTT(30) DEF MInv, Whole
    <3>4. commission'[l] \in 0..bids[l][Len(bids[l])].amount
      <4>1. Commission(Amount(l), percentage) \in 0..Amount(l)
        BY <2>2, <3>3, CommissionFits
      <4> QED  BY <2>2, <3>2, <4>1
    <3>5. PaidOut(l)' = bids[l][Len(bids[l])].amount - commission'[l]
      BY <1>1, <2>1, <2>5 DEF View
    <3>6. Owing(l)' = {seller[l], buyer[l]}
      <4>1. ratings[l] = <<>>
        BY <1>0, <2>5 DEF RatedSalesStand
      <4> QED  BY <1>1, <1>2, <2>1, <2>5, <4>1 DEF View, Due
    <3>7. PlaceOf(l) \in {"retained", "argued"} /\ PlaceOf(l)' = "paid"
      BY <2>1, <2>5, Places DEF PlaceOf
    <3>8. ASSUME NEW v \in Users, v = seller[l] PROVE Life!PaySeller(l, v)
      <4>1. v # Life!Last(bids[l]).bidder
        BY <2>2, <3>8 DEF Life!Last
      <4>2. \E cut \in 0..Life!Last(bids[l]).amount :
              PaidOut(l)' = Life!Last(bids[l]).amount - cut
        BY <3>4, <3>5 DEF Life!Last
      <4>3. Owing(l)' = {v, Life!Last(bids[l]).bidder}
        BY <2>2, <3>6, <3>8 DEF Life!Last
      <4> QED  BY <1>1, <2>3, <3>7, <4>1, <4>2, <4>3
               DEF Life!PaySeller, Life!Move, PaidOut, Owing
    <3> QED  BY <2>2, <3>8 DEF Life!Next
  <2> QED  BY <1>6, <2>1, <2>4, <2>5 DEF Moves, Outcomes
<1> QED  BY <1>0, <1>1, <1>5, <1>6, MovesOrStays

\* A score is a judgement its author owed.
LEMMA ScoreJudges ==
    ASSUME SMInv, View, View', ScoreStep
    PROVE  UNCHANGED Life!life \/ Life!Next
<1>0. /\ form \in [Raters -> Form \cup {Idle}] /\ ratings \in [Sales -> Seq(Rating)]
      /\ FormsFit /\ ReleasedStands /\ MInv
  BY DEF SMInv, MInv, RInv, RatingTypeOK
<1>1. UNCHANGED <<bids, commission, state, buyer, seller>>
  BY DEF ScoreStep, LoadSale, Loads, Rate, AbandonRating, lots, rows, vars, payment
<1>2. CASE UNCHANGED ratings
  BY <1>1, <1>2, ViewStays
<1>3. ASSUME NEW r \in Raters, Rate(r) PROVE Life!Next
  <2>1. PICK l \in Sales, u \in Users : l = form[r].sale /\ u = form[r].user /\ form[r] # Idle
    BY <1>0, <1>3 DEF Rate, Form
  <2>2. state[l] = "released"
    BY <1>0, <2>1 DEF ReleasedStands
  <2>3. u \in {buyer[l], seller[l]}
    BY <1>0, <2>1 DEF FormsFit, Counterpart
  <2>4. \A i \in DOMAIN ratings[l] : ratings[l][i].rater # u
    BY <1>3, <2>1 DEF Rate, MayRate
  <2>5. PICK rated : ratings' = [ratings EXCEPT ![l] = Append(@, [rater |-> u, rated |-> rated])]
    BY <1>3, <2>1 DEF Rate
  <2>6. u \in Owing(l)
    BY <2>2, <2>3, <2>4 DEF View, Due
  <2>7. Owing(l)' = Owing(l) \ {u}
    <3> DEFINE q == ratings[l]
               new == [rater |-> u, rated |-> rated]
    <3>1. ratings[l] \in Seq(Rating) /\ ratings'[l] = Append(q, new)
      BY <1>0, <2>5
    <3>2. /\ DOMAIN Append(q, new) = DOMAIN q \cup {Len(q) + 1}
          /\ \A i \in DOMAIN q : Append(q, new)[i] = q[i]
          /\ Append(q, new)[Len(q) + 1].rater = u
      BY <3>1
    <3>3. \A v : (\A i \in DOMAIN ratings'[l] : ratings'[l][i].rater # v)
                 <=> (\A i \in DOMAIN ratings[l] : ratings[l][i].rater # v) /\ v # u
      BY <3>1, <3>2
    <3> QED  BY <1>1, <2>2, <3>3, ZenonT(30) DEF View, Due
  <2>8. \A s \in Sales \ {l} : Owing(s)' = Owing(s)
    <3>1. \A s \in Sales \ {l} : ratings'[s] = ratings[s]
      BY <1>0, <2>5
    <3> QED  BY <1>1, <3>1 DEF View
  <2>9. \A s \in Sales : /\ TheHighest(s)' = TheHighest(s) /\ TheWinning(s)' = TheWinning(s)
                         /\ PlaceOf(s)' = PlaceOf(s) /\ PaidOut(s)' = PaidOut(s)
    BY <1>1 DEF View, PlaceOf
  <2>10. Life!Judge(l, u)
    BY <1>1, <2>6, <2>7, <2>8, <2>9, ZenonT(30) DEF Life!Judge, PaidOut, Owing
  <2> QED  BY <2>10 DEF Life!Next
<1> QED  BY <1>2, <1>3 DEF ScoreStep, LoadSale, Loads, AbandonRating

LEMMA LifeInit == MarketInit => Life!Init
<1> SUFFICES ASSUME MarketInit PROVE Life!Init
  OBVIOUS
<1>1. /\ bids = [s \in Sales |-> <<>>] /\ winningBid = [s \in Sales |-> 0]
      /\ \A s \in Sales : state[s] = "none"
  BY SalesAreLots DEF MarketInit, Lot!Init, RatingInit, Init
<1> QED  BY <1>1 DEF Life!Init, TheHighest, TheWinning, PlaceOf, SalesToRate

LEMMA LifeStep ==
    ASSUME SMInv, SMInv', View, View', [MarketNext]_market
    PROVE  [Life!Next]_(Life!life)
<1>1. CASE UNCHANGED market
  <2>1. UNCHANGED <<bids, state, buyer, seller, ratings, commission>>
    BY <1>1 DEF market, sale, lots, rows, vars, payment
  <2> QED  BY <2>1, ViewStays
<1>2. CASE LotStep
  <2>1. UNCHANGED <<state, buyer, seller, ratings, commission>>
    BY <1>2 DEF LotStep, sale, vars, payment
  <2>2. CASE UNCHANGED bids
    BY <2>1, <2>2, ViewStays
  <2>3. ASSUME NEW l \in Sales, NEW u \in Users, NEW a \in Prices, state[l] = "none",
               \A i \in DOMAIN bids[l] : bids[l][i].amount < a,
               bids' = [bids EXCEPT ![l] = Append(@, [bidder |-> u, amount |-> a])]
        PROVE  Life!Next
    <3>1. bids \in [Sales -> Seq([bidder : Users, amount : Prices])]
      BY SalesAreLots DEF SMInv, MInv, LotInv, LotProof!IInv, LotProof!TypeOK, LotProof!Bid
    <3>2. Life!Raise(l, u, a)
      BY <2>1, <2>3, <3>1, BidRaises
    <3> QED  BY <3>2 DEF Life!Next
  <2> QED  BY <1>2, <2>2, <2>3, LotShape DEF SMInv
<1>3. CASE SaleStep
  BY <1>3, ClosingKnocksDown DEF Life!Next
<1>4. CASE PaymentStep
  BY <1>4, PaymentMoves
<1>5. CASE ScoreStep
  BY <1>5, ScoreJudges
<1>6. ASSUME NEW p \in Percentages, Restart(p) PROVE UNCHANGED Life!life
  <2>1. UNCHANGED <<bids, state, buyer, seller, ratings, commission>>
    BY <1>6 DEF Restart, rows, payment
  <2> QED  BY <2>1, ViewStays
<1> QED  BY <1>1, <1>2, <1>3, <1>4, <1>5, <1>6 DEF MarketNext

\* In serial behaviours, the three apps and the restarts of the server do what
\* SaleLife promises, for every number of lots, users, workers and percentages.
THEOREM LifeCorrect == SerialMarketSpec => ImplementsSaleLife
<1>1. SMInv /\ SMInv' /\ View /\ View' /\ [MarketNext /\ (OneRequestEach /\ SerialMarket)']_market
      => [Life!Next]_(Life!life)
  BY LifeStep
<1> QED  BY <1>1, LifeInit, SerialMarketInvariance, ViewHolds, PTL
         DEF SerialMarketSpec, ImplementsSaleLife, Life!Spec
=============================================================================
