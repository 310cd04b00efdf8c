--------------------------- MODULE AuctionsProofs ---------------------------
(***************************************************************************)
(* Proofs about Auctions, for every number of lots, accounts, prices and   *)
(* web workers. TypeOK is not inductive by itself: the bid auction.bids    *)
(* .first() returns exists because amounts climb (PriceFollowsBids), a new *)
(* row has no bids because bids need an approval (PublicLotsAreScored),    *)
(* and so on. All of it is proved together, as the invariant IInv.         *)
(*                                                                         *)
(* The end of the module is the safety half of ExpiredLotsClose: a closing *)
(* run that has lots left always has a next one to close, and none of its  *)
(* steps gives it more lots.                                               *)
(***************************************************************************)
EXTENDS Auctions, FiniteSetTheorems, SequenceTheorems, WellFoundedInduction, TLAPS

\* The seller of a lot is never among its bidders.
OwnerNeverBids ==
    \A l \in Lots : \A i \in DOMAIN bids[l] : bids[l][i].bidder # seller[l]

\* A row that exists has a seller, and processes hold only rows that exist.
RowsExist ==
    /\ \A l \in Lots : state[l] = "none" \/ seller[l] \in Users
    /\ \A p \in Procs : \A l \in job[p].lots : state[l] # "none"

IInv == /\ TypeOK
        /\ RowsExist
        /\ PriceFollowsBids
        /\ OwnerNeverBids
        /\ PublicLotsAreScored
        /\ PaymentIsTheWinners
        /\ ClosedSaleIsPaid

-----------------------------------------------------------------------------
(* Lemmas about the operators *)

\* Amounts climb along the sequence.
Climbs(s) == \A i, j \in DOMAIN s : i < j => s[i].amount < s[j].amount

\* Amounts, and the 0 of a row that does not exist, are numbers.
LEMMA PricesAreNumbers == \A x \in Prices \cup {0} : x \in Nat
BY ConstantsAssumption

\* The bids of a history are bids, and their amounts are numbers.
LEMMA AmountsAreNumbers ==
    ASSUME NEW s \in Seq(Bid)
    PROVE  \A i \in DOMAIN s : s[i] \in Bid /\ s[i].amount \in Nat
<1>1. \A i \in DOMAIN s : s[i] \in Bid
  OBVIOUS
<1>2. \A b \in Bid : b.amount \in Nat
  BY ConstantsAssumption DEF Bid
<1> QED
  BY <1>1, <1>2

\* Under the ordering ["-amount", "timestamp"] the first bid of a history that
\* climbs is its last one, and 0 (null) if there is none.
LEMMA FirstBidIsLast ==
    ASSUME NEW s \in Seq(Bid), Climbs(s)
    PROVE  FirstBid(s) = Len(s)
<1>1. CASE s = <<>>
  BY <1>1 DEF FirstBid
<1>2. CASE s # <<>>
  <2>1. Len(s) \in Nat \ {0} /\ DOMAIN s = 1..Len(s)
    BY <1>2
  <2>2. \A i \in DOMAIN s : s[i].amount \in Nat
    BY AmountsAreNumbers
  <2>3. ComesFirst(s, Len(s)) /\ Len(s) \in DOMAIN s
    <3>1. Len(s) \in DOMAIN s
      BY <2>1
    <3>2. ASSUME NEW j \in DOMAIN s, j # Len(s) PROVE s[j].amount < s[Len(s)].amount
      <4>1. j < Len(s)
        BY <2>1, <3>2
      <4> QED
        BY <3>1, <4>1 DEF Climbs
    <3>3. Len(s) <= Len(s)
      BY <2>1
    <3>4. ASSUME NEW j \in DOMAIN s
          PROVE  \/ s[j].amount < s[Len(s)].amount
                 \/ s[j].amount = s[Len(s)].amount /\ Len(s) <= j
      BY <3>2, <3>3
    <3> QED
      BY <3>1, <3>4, Zenon DEF ComesFirst
  <2>4. \A i \in DOMAIN s : ComesFirst(s, i) => i = Len(s)
    BY <2>1, <2>2 DEF Climbs, ComesFirst
  <2>5. FirstBid(s) = CHOOSE i \in DOMAIN s : ComesFirst(s, i)
    BY <1>2, Zenon DEF FirstBid
  <2> QED
    BY <2>3, <2>4, <2>5
<1> QED
  BY <1>1, <1>2

\* A bid at the end that beats the price keeps the history climbing.
LEMMA AppendClimbs ==
    ASSUME NEW s \in Seq(Bid), Climbs(s), NEW b \in Bid,
           s # <<>> => s[Len(s)].amount < b.amount
    PROVE  /\ Append(s, b) \in Seq(Bid) /\ Climbs(Append(s, b))
           /\ Len(Append(s, b)) = Len(s) + 1 /\ Append(s, b)[Len(s) + 1] = b
           /\ \A i \in DOMAIN s : Append(s, b)[i] = s[i]
           /\ Append(s, b) # <<>>
<1>1. /\ Len(s) \in Nat /\ DOMAIN s = 1..Len(s)
      /\ \A i \in DOMAIN s : s[i] \in Bid /\ s[i].amount \in Nat
      /\ b.amount \in Nat
  <2>1. b.amount \in Nat
    BY ConstantsAssumption DEF Bid
  <2> QED
    BY <2>1, AmountsAreNumbers
<1>2. /\ Append(s, b) \in Seq(Bid) /\ DOMAIN Append(s, b) = 1..(Len(s) + 1)
      /\ Len(Append(s, b)) = Len(s) + 1 /\ Append(s, b)[Len(s) + 1] = b
      /\ \A i \in DOMAIN s : Append(s, b)[i] = s[i]
  BY <1>1
<1>3. ASSUME NEW i \in DOMAIN Append(s, b), NEW j \in DOMAIN Append(s, b), i < j
      PROVE  Append(s, b)[i].amount < Append(s, b)[j].amount
  <2>1. CASE j = Len(s) + 1
    <3>1. i \in DOMAIN s /\ s # <<>> /\ Len(s) \in DOMAIN s
      BY <1>1, <1>2, <1>3, <2>1
    <3>2. i = Len(s) \/ s[i].amount < s[Len(s)].amount
      BY <3>1, <1>1 DEF Climbs
    <3> QED
      BY <3>1, <3>2, <1>1, <1>2, <2>1
  <2>2. CASE j # Len(s) + 1
    <3>1. i \in DOMAIN s /\ j \in DOMAIN s
      BY <1>1, <1>2, <1>3, <2>2
    <3> QED
      BY <3>1, <1>2, <1>3 DEF Climbs
  <2> QED
    BY <2>1, <2>2
<1> QED
  BY <1>2, <1>3, <1>1 DEF Climbs

\* Whoever holds the highest bid is a user, and it is the last bid.
LEMMA WinnerIsLast ==
    ASSUME TypeOK, PriceFollowsBids, NEW l \in Lots
    PROVE  /\ FirstBid(bids[l]) = Len(bids[l])
           /\ Len(bids[l]) \in Nat
           /\ Len(bids[l]) = 0 <=> bids[l] = <<>>
           /\ bids[l] # <<>> => bids[l][Len(bids[l])] \in Bid
<1>1. bids[l] \in Seq(Bid) /\ Climbs(bids[l])
  BY DEF TypeOK, PriceFollowsBids, Climbs
<1> QED
  BY <1>1, FirstBidIsLast

\* The steps that write rows, and what each writes.
LEMMA RowSteps ==
    ASSUME [Next]_vars
    PROVE  \/ UNCHANGED rows
           \/ \E l \in Lots, u \in Users, price \in Prices : Publish(l, u, price)
           \/ \E l \in Lots, r \in Requests : Approve(r, l) \/ Reject(r, l)
           \/ \E l \in Lots, r \in Requests, u \in Users, amount \in Prices :
                  PlaceBid(r, l, u, amount)
           \/ \E l \in Lots, p \in Procs : CloseAuction(p, l)
<1>1. CASE UNCHANGED vars
  BY <1>1 DEF vars
<1>2. CASE Next
  BY <1>2 DEF Next, StartClosingRun, ClosingDatePasses, ApprovalRollsBack, OpenDetailPage,
         ClosingFails, SelectForDecision, Send, SendFails, Die
<1> QED
  BY <1>1, <1>2

-----------------------------------------------------------------------------
(* Type correctness *)

\* Every step keeps the types; close_auction's winner needs climbing bids.
LEMMA TypeStep ==
    ASSUME TypeOK, RowsExist, PriceFollowsBids, PublicLotsAreScored, [Next]_vars
    PROVE  TypeOK'
<1> USE DEF TypeOK
<1>a. Idle \in Job
  BY DEF Idle, Job
<1>b. ASSUME NEW j \in Job, NEW l \in Lots PROVE Rest(j, l) \in Job
  BY <1>a DEF Rest, Job
<1>c. ASSUME NEW op \in {"approve", "reject", "close"}, NEW S \in SUBSET Lots
      PROVE  [op |-> op, lots |-> S] \in Job
  BY DEF Job
<1>d. Requests \subseteq Procs /\ Cron \in Procs
  BY DEF Procs
<1>1. CASE StartClosingRun
  BY <1>1, <1>c, <1>d DEF StartClosingRun, rows
<1>2. ASSUME NEW l \in Lots, ClosingDatePasses(l) PROVE TypeOK'
  BY <1>2 DEF ClosingDatePasses, rows
<1>3. ASSUME NEW l \in Lots, NEW u \in Users, NEW price \in Prices, Publish(l, u, price)
      PROVE  TypeOK'
  BY <1>3 DEF Publish, AuctionStates
<1>4. ASSUME NEW l \in Lots, NEW r \in Requests, Approve(r, l) PROVE TypeOK'
  BY <1>4, <1>b, <1>d DEF Approve, AuctionStates
<1>5. ASSUME NEW l \in Lots, NEW r \in Requests, ApprovalRollsBack(r, l) PROVE TypeOK'
  BY <1>5, <1>a, <1>d DEF ApprovalRollsBack, rows
<1>6. ASSUME NEW l \in Lots, NEW r \in Requests, Reject(r, l) PROVE TypeOK'
  BY <1>6, <1>b, <1>d DEF Reject, AuctionStates
<1>7. ASSUME NEW l \in Lots, NEW r \in Requests, OpenDetailPage(r, l) PROVE TypeOK'
  BY <1>7, <1>c, <1>d DEF OpenDetailPage, rows
<1>8. ASSUME NEW l \in Lots, NEW r \in Requests, NEW u \in Users, NEW amount \in Prices,
             PlaceBid(r, l, u, amount)
      PROVE  TypeOK'
  <2>1. OutbidMails(l, u) \in Seq(Mail)
    <3> DEFINE w == FirstBid(bids[l])
               m == [kind |-> "outbid", lot |-> l, to |-> bids[l][w].bidder]
    <3>1. w # 0 => bids[l][w] \in Bid
      BY WinnerIsLast
    <3>2. w # 0 => m \in Mail
      BY <3>1 DEF Mail, Bid
    <3>3. <<>> \in Seq(Mail) /\ (m \in Mail => <<m>> \in Seq(Mail))
      OBVIOUS
    <3>4. OutbidMails(l, u) = <<>> \/ (w # 0 /\ OutbidMails(l, u) = <<m>>)
      BY DEF OutbidMails
    <3> QED
      BY <3>2, <3>3, <3>4
  <2>2. [bidder |-> u, amount |-> amount] \in Bid
    BY DEF Bid
  <2> QED
    BY <1>8, <1>d, <2>1, <2>2 DEF PlaceBid
<1>9. ASSUME NEW l \in Lots, NEW p \in Procs, CloseAuction(p, l)
      PROVE  TypeOK'
  <2> DEFINE w == FirstBid(bids[l])
  <2>1. w \in Nat /\ (w # 0 => bids[l][w] \in Bid)
    BY WinnerIsLast
  <2> HIDE DEF w
  <2>0. seller[l] \in Users
    BY <1>9 DEF CloseAuction, ClosesNext, RowsExist, PublicLotsAreScored
  <2>2. HeldPayment(l, w) \subseteq Payment
    BY <2>0, <2>1 DEF HeldPayment, Payment, Bid
  <2>3. ResultMails(l, w) \in Seq(Mail)
    <3> DEFINE won == [kind |-> "won", lot |-> l, to |-> bids[l][w].bidder]
               result == [kind |-> "result", lot |-> l, to |-> seller[l]]
    <3>1. result \in Mail /\ (w # 0 => won \in Mail)
      BY <2>0, <2>1 DEF Mail, Bid
    <3>2. CASE w = 0
      <4>1. ResultMails(l, w) = <<>> \o <<result>>
        BY <3>2 DEF ResultMails
      <4> HIDE DEF result
      <4> QED
        BY <3>1, <4>1
    <3>3. CASE w # 0
      <4>1. ResultMails(l, w) = <<won>> \o <<result>>
        BY <3>3 DEF ResultMails
      <4> HIDE DEF won, result
      <4> QED
        BY <3>1, <3>3, <4>1
    <3> QED
      BY <3>2, <3>3
  <2> QED
    BY <1>9, <1>b, <2>1, <2>2, <2>3 DEF CloseAuction, AuctionStates, w
<1>10. ASSUME NEW l \in Lots, NEW p \in Procs, ClosingFails(p, l) PROVE TypeOK'
  BY <1>10, <1>b DEF ClosingFails, rows
<1>11. ASSUME NEW r \in Requests, NEW S \in SUBSET Lots, NEW d \in {"approve", "reject"},
              SelectForDecision(r, d, S)
       PROVE  TypeOK'
  BY <1>11, <1>c, <1>d DEF SelectForDecision, SeenPending, rows
<1>12. ASSUME NEW p \in Procs, Send(p) PROVE TypeOK'
  BY <1>12 DEF Send, rows
<1>13. ASSUME NEW p \in Procs, SendFails(p) PROVE TypeOK'
  BY <1>13 DEF SendFails, rows
<1>14. ASSUME NEW p \in Procs, Die(p) PROVE TypeOK'
  BY <1>14, <1>a DEF Die, rows
<1>15. CASE UNCHANGED vars
  BY <1>15 DEF vars, rows
<1> QED
  BY <1>1, <1>2, <1>3, <1>4, <1>5, <1>6, <1>7, <1>8, <1>9, <1>10, <1>11, <1>12,
     <1>13, <1>14, <1>15 DEF Next

-----------------------------------------------------------------------------
(* One lemma per part of the invariant: every step preserves it *)

\* A lot nobody approved has no bids and no payment.
LEMMA UnscoredIsBlank ==
    ASSUME TypeOK, PublicLotsAreScored, NEW l \in Lots, l \notin scores
    PROVE  bids[l] = <<>> /\ ~HasPayment(l) /\ state[l] \in {"none", "pending", "rejected"}
BY DEF PublicLotsAreScored, TypeOK, AuctionStates

\* What a step does to the rows a process holds: it drops some, or it loads
\* open lots to close, or pending lots to decide on.
LEMMA JobSteps ==
    ASSUME TypeOK, [Next]_vars, NEW p \in Procs
    PROVE  \/ /\ job'[p].lots \subseteq job[p].lots
              /\ job'[p].lots # {} => job'[p].op = job[p].op
           \/ /\ \A l \in job'[p].lots : l \in Lots /\ state[l] = "open"
              /\ UNCHANGED rows /\ job[p] = Idle
           \/ /\ job'[p].op # "close"
              /\ \A l \in job'[p].lots : l \in Lots /\ state[l] = "pending"
              /\ UNCHANGED rows /\ job[p] = Idle
<1> DEFINE Keeps(j, k) == k.lots \subseteq j.lots /\ (k.lots # {} => k.op = j.op)
<1>0. job \in [Procs -> Job] /\ job[p] \in Job /\ Requests \subseteq Procs /\ Cron \in Procs
  BY DEF TypeOK, Procs
<1>a. \A j \in Job : Keeps(j, Idle) /\ Keeps(j, j) /\ \A l \in Lots : Keeps(j, Rest(j, l))
  BY DEF Job, Idle, Rest
<1>b. SUFFICES ASSUME ~Keeps(job[p], job'[p])
               PROVE  \/ /\ \A l \in job'[p].lots : l \in Lots /\ state[l] = "open"
                         /\ UNCHANGED rows /\ job[p] = Idle
                      \/ /\ job'[p].op # "close"
                         /\ \A l \in job'[p].lots : l \in Lots /\ state[l] = "pending"
                         /\ UNCHANGED rows /\ job[p] = Idle
  OBVIOUS
<1> HIDE DEF Keeps
<1>1. CASE StartClosingRun
  BY <1>0, <1>1, <1>a, <1>b DEF StartClosingRun, Expired, Free
<1>2. ASSUME NEW r \in Requests, NEW l \in Lots, OpenDetailPage(r, l)
      PROVE  (\A k \in job'[p].lots : k \in Lots /\ state[k] = "open") /\ UNCHANGED rows /\ job[p] = Idle
  BY <1>0, <1>2, <1>a, <1>b DEF OpenDetailPage, Expired, Free
<1>3. ASSUME NEW r \in Requests, NEW S \in SUBSET Lots, NEW d \in {"approve", "reject"},
             SelectForDecision(r, d, S)
      PROVE  /\ job'[p].op # "close"
             /\ \A l \in job'[p].lots : l \in Lots /\ state[l] = "pending"
             /\ UNCHANGED rows /\ job[p] = Idle
  BY <1>0, <1>3, <1>a, <1>b DEF SelectForDecision, SeenPending, Free
<1>4. ASSUME NEW l \in Lots, NEW r \in Requests,
             Approve(r, l) \/ ApprovalRollsBack(r, l) \/ Reject(r, l)
      PROVE  FALSE
  BY <1>0, <1>4, <1>a, <1>b DEF Approve, ApprovalRollsBack, Reject
<1>5. ASSUME NEW l \in Lots, NEW q \in Procs, CloseAuction(q, l) \/ ClosingFails(q, l)
      PROVE  FALSE
  BY <1>0, <1>5, <1>a, <1>b DEF CloseAuction, ClosingFails
<1>6. ASSUME NEW q \in Procs, Send(q) \/ SendFails(q) \/ Die(q) PROVE FALSE
  BY <1>0, <1>6, <1>a, <1>b DEF Send, SendFails, Die
<1>7. ASSUME NEW l \in Lots,
             \/ ClosingDatePasses(l)
             \/ \E u \in Users, price \in Prices : Publish(l, u, price)
             \/ \E r \in Requests, u \in Users, amount \in Prices : PlaceBid(r, l, u, amount)
      PROVE  FALSE
  <2>1. job' = job
    BY <1>7 DEF ClosingDatePasses, Publish, PlaceBid
  <2> QED
    BY <1>0, <1>a, <1>b, <2>1
<1>8. CASE UNCHANGED vars
  BY <1>8, <1>b DEF vars, Keeps
<1> QED
  BY <1>1, <1>2, <1>3, <1>4, <1>5, <1>6, <1>7, <1>8 DEF Next

\* Rows are never deleted, and neither is a score.
LEMMA RowsStay ==
    ASSUME TypeOK, [Next]_vars, NEW l \in Lots
    PROVE  (state'[l] = "none" => state[l] = "none") /\ (l \in scores => l \in scores')
<1> USE DEF TypeOK
<1>1. CASE UNCHANGED rows
  BY <1>1 DEF rows
<1>2. CASE \E k \in Lots, u \in Users, price \in Prices : Publish(k, u, price)
  BY <1>2 DEF Publish
<1>3. CASE \E k \in Lots, r \in Requests : Approve(r, k) \/ Reject(r, k)
  BY <1>3 DEF Approve, Reject
<1>4. CASE \E k \in Lots, r \in Requests, u \in Users, amount \in Prices :
              PlaceBid(r, k, u, amount)
  BY <1>4 DEF PlaceBid
<1>5. CASE \E k \in Lots, p \in Procs : CloseAuction(p, k)
  BY <1>5 DEF CloseAuction
<1> QED
  BY <1>1, <1>2, <1>3, <1>4, <1>5, RowSteps

\* Publication creates a row with its seller, no step deletes one, and requests
\* load only rows that exist.
LEMMA RowsExistStep ==
    ASSUME TypeOK, RowsExist, [Next]_vars
    PROVE  RowsExist'
<1> USE DEF TypeOK
<1>1. \A l \in Lots : state'[l] = "none" \/ seller'[l] \in Users
  <2>1. CASE UNCHANGED rows
    BY <2>1 DEF rows, RowsExist
  <2>2. ASSUME NEW k \in Lots, NEW u \in Users, NEW price \in Prices, Publish(k, u, price)
        PROVE  \A l \in Lots : state'[l] = "none" \/ seller'[l] \in Users
    BY <2>2 DEF Publish, RowsExist
  <2>3. ASSUME NEW k \in Lots, NEW r \in Requests, Approve(r, k) \/ Reject(r, k)
        PROVE  \A l \in Lots : state'[l] = "none" \/ seller'[l] \in Users
    BY <2>3 DEF Approve, Reject, RowsExist, Procs
  <2>4. ASSUME NEW k \in Lots, NEW r \in Requests, NEW u \in Users, NEW amount \in Prices,
               PlaceBid(r, k, u, amount)
        PROVE  \A l \in Lots : state'[l] = "none" \/ seller'[l] \in Users
    BY <2>4 DEF PlaceBid, RowsExist
  <2>5. ASSUME NEW k \in Lots, NEW p \in Procs, CloseAuction(p, k)
        PROVE  \A l \in Lots : state'[l] = "none" \/ seller'[l] \in Users
    BY <2>5 DEF CloseAuction, ClosesNext, RowsExist
  <2> QED
    BY <2>1, <2>2, <2>3, <2>4, <2>5, RowSteps
<1>2. ASSUME NEW p \in Procs, NEW l \in job'[p].lots PROVE state'[l] # "none"
  <2>1. l \in Lots /\ state[l] # "none"
    <3>1. job[p].lots \subseteq Lots
      BY DEF Job
    <3> QED
      BY <1>2, <3>1, JobSteps DEF RowsExist
  <2> QED
    BY <2>1, RowsStay
<1> QED
  BY <1>1, <1>2 DEF RowsExist

\* Publication leaves the lot unscored, an approval scores it, and whoever
\* closes a lot saw it open.
LEMMA ScoredStep ==
    ASSUME TypeOK, RowsExist, PublicLotsAreScored, [Next]_vars
    PROVE  PublicLotsAreScored'
<1> USE DEF TypeOK
<1>1. ASSUME NEW l \in Lots
      PROVE  /\ state'[l] \in {"open", "closed"} => l \in scores'
             /\ state'[l] \in {"none", "pending"} => l \notin scores'
             /\ bids'[l] # <<>> \/ HasPayment(l)' => l \in scores'
  <2> DEFINE Goal == /\ state'[l] \in {"open", "closed"} => l \in scores'
                     /\ state'[l] \in {"none", "pending"} => l \notin scores'
                     /\ bids'[l] # <<>> \/ HasPayment(l)' => l \in scores'
  <2> USE DEF PublicLotsAreScored, HasPayment
  <2>1. CASE UNCHANGED rows
    BY <2>1 DEF rows
  <2>2. ASSUME NEW k \in Lots, NEW u \in Users, NEW price \in Prices, Publish(k, u, price)
        PROVE  Goal
    BY <2>2 DEF Publish
  <2>3. ASSUME NEW k \in Lots, NEW r \in Requests, Approve(r, k) PROVE Goal
    BY <2>3 DEF Approve
  <2>4. ASSUME NEW k \in Lots, NEW r \in Requests, Reject(r, k) PROVE Goal
    BY <2>4 DEF Reject
  <2>5. ASSUME NEW k \in Lots, NEW r \in Requests, NEW u \in Users, NEW amount \in Prices,
               PlaceBid(r, k, u, amount)
        PROVE  Goal
    BY <2>5 DEF PlaceBid, MayBid
  <2>6. ASSUME NEW k \in Lots, NEW p \in Procs, CloseAuction(p, k) PROVE Goal
    BY <2>6 DEF CloseAuction, ClosesNext, HeldPayment
  <2> QED
    BY <2>1, <2>2, <2>3, <2>4, <2>5, <2>6, RowSteps
<1>2. ASSUME NEW p \in Procs, job'[p].op = "close", NEW l \in Lots, l \in job'[p].lots
      PROVE  l \in scores'
  <2>1. l \in scores
    BY <1>2, JobSteps DEF PublicLotsAreScored
  <2> QED
    BY <2>1, RowsStay
<1> QED
  BY <1>1, <1>2 DEF PublicLotsAreScored

\* A bid is accepted above the current price, which is the last bid.
LEMMA PriceStep ==
    ASSUME TypeOK, PublicLotsAreScored, PriceFollowsBids, [Next]_vars
    PROVE  PriceFollowsBids'
<1> USE DEF TypeOK
<1>1. CASE UNCHANGED <<bids, startingPrice, currentPrice>>
  BY <1>1 DEF PriceFollowsBids
<1>2. ASSUME NEW l \in Lots, NEW u \in Users, NEW price \in Prices, Publish(l, u, price)
      PROVE  PriceFollowsBids'
  <2>1. bids[l] = <<>>
    BY <1>2 DEF Publish, PublicLotsAreScored
  <2> QED
    BY <1>2, <2>1 DEF Publish, PriceFollowsBids
<1>3. ASSUME NEW l \in Lots, NEW r \in Requests, NEW u \in Users, NEW amount \in Prices,
             PlaceBid(r, l, u, amount)
      PROVE  PriceFollowsBids'
  <2> DEFINE b == [bidder |-> u, amount |-> amount]
  <2>1. bids[l] \in Seq(Bid) /\ Climbs(bids[l]) /\ b \in Bid
    BY DEF PriceFollowsBids, Climbs, Bid
  <2>2. amount > currentPrice[l] /\ amount \in Nat
        /\ currentPrice[l] \in Nat /\ startingPrice[l] \in Nat
    <3>1. amount > currentPrice[l]
      BY <1>3 DEF PlaceBid, MayBid
    <3>2. currentPrice[l] \in Prices \cup {0} /\ startingPrice[l] \in Prices \cup {0}
      OBVIOUS
    <3> QED
      BY <3>1, <3>2, PricesAreNumbers
  <2>3. bids[l] # <<>> => bids[l][Len(bids[l])].amount < b.amount
    BY <2>2 DEF PriceFollowsBids
  <2>4. startingPrice[l] < amount
    <3>1. CASE bids[l] = <<>>
      BY <2>2, <3>1 DEF PriceFollowsBids
    <3>2. CASE bids[l] # <<>>
      <4>1. Len(bids[l]) \in DOMAIN bids[l]
        BY <2>1, <3>2
      <4>2. bids[l][Len(bids[l])].amount \in Nat
        BY <2>1, <4>1, AmountsAreNumbers
      <4> QED
        BY <2>2, <2>3, <3>2, <4>1, <4>2 DEF PriceFollowsBids
    <3> QED
      BY <3>1, <3>2
  <2>5. bids' = [bids EXCEPT ![l] = Append(bids[l], b)]
        /\ currentPrice' = [currentPrice EXCEPT ![l] = amount]
        /\ startingPrice' = startingPrice
    BY <1>3 DEF PlaceBid
  <2> HIDE DEF b
  <2>6. /\ Climbs(bids'[l]) /\ bids'[l] # <<>>
        /\ Len(bids'[l]) = Len(bids[l]) + 1 /\ bids'[l][Len(bids[l]) + 1] = b
        /\ \A i \in DOMAIN bids[l] : bids'[l][i] = bids[l][i]
        /\ DOMAIN bids'[l] = DOMAIN bids[l] \cup {Len(bids[l]) + 1}
    BY <2>1, <2>3, <2>5, AppendClimbs
  <2>7. b.amount = amount
    BY DEF b
  <2>8. /\ \A i \in DOMAIN bids'[l] : startingPrice'[l] < bids'[l][i].amount
        /\ currentPrice'[l] = bids'[l][Len(bids'[l])].amount
    BY <2>4, <2>5, <2>6, <2>7 DEF PriceFollowsBids
  <2>9. \A k \in Lots : k # l => /\ bids'[k] = bids[k] /\ currentPrice'[k] = currentPrice[k]
                                 /\ startingPrice'[k] = startingPrice[k]
    BY <2>5
  <2> QED
    BY <2>6, <2>8, <2>9 DEF PriceFollowsBids, Climbs
<1> QED
  BY <1>1, <1>2, <1>3, RowSteps DEF rows, Approve, Reject, CloseAuction

\* The owner is refused as a bidder, and the owner of a lot with bids is fixed.
LEMMA OwnerStep ==
    ASSUME TypeOK, PublicLotsAreScored, OwnerNeverBids, [Next]_vars
    PROVE  OwnerNeverBids'
<1> USE DEF TypeOK
<1>1. CASE UNCHANGED <<bids, seller>>
  BY <1>1 DEF OwnerNeverBids
<1>2. ASSUME NEW l \in Lots, NEW u \in Users, NEW price \in Prices, Publish(l, u, price)
      PROVE  OwnerNeverBids'
  <2>1. bids[l] = <<>>
    BY <1>2 DEF Publish, PublicLotsAreScored
  <2> QED
    BY <1>2, <2>1 DEF Publish, OwnerNeverBids
<1>3. ASSUME NEW l \in Lots, NEW r \in Requests, NEW u \in Users, NEW amount \in Prices,
             PlaceBid(r, l, u, amount)
      PROVE  OwnerNeverBids'
  <2> DEFINE b == [bidder |-> u, amount |-> amount]
  <2>1. bids[l] \in Seq(Bid) /\ b \in Bid /\ b.bidder # seller[l]
    BY <1>3 DEF Bid, PlaceBid, MayBid
  <2>2. bids' = [bids EXCEPT ![l] = Append(bids[l], b)] /\ seller' = seller
    BY <1>3 DEF PlaceBid
  <2> HIDE DEF b
  <2>3. \A i \in DOMAIN bids'[l] : bids'[l][i].bidder # seller[l]
    BY <2>1, <2>2 DEF OwnerNeverBids
  <2> QED
    BY <2>2, <2>3 DEF OwnerNeverBids
<1> QED
  BY <1>1, <1>2, <1>3, RowSteps DEF rows, Approve, Reject, CloseAuction

\* What a closing stores about the winner.
LEMMA ClosingStores ==
    ASSUME TypeOK, PriceFollowsBids, NEW l \in Lots, NEW p \in Procs, CloseAuction(p, l)
    PROVE  /\ state' = [state EXCEPT ![l] = "closed"]
           /\ winningBid' = [winningBid EXCEPT ![l] = Len(bids[l])]
           /\ UNCHANGED <<seller, bids, currentPrice>>
           /\ bids[l] = <<>> => payments' = payments
           /\ bids[l] # <<>> =>
                /\ ~HasPayment(l)
                /\ payments' = payments \cup
                      {[auction |-> l, buyer |-> bids[l][Len(bids[l])].bidder,
                        seller |-> seller[l], amount |-> bids[l][Len(bids[l])].amount]}
<1>1. /\ FirstBid(bids[l]) = Len(bids[l])
      /\ Len(bids[l]) = 0 <=> bids[l] = <<>>
  BY WinnerIsLast
<1> QED
  BY <1>1 DEF CloseAuction, MayHold, HeldPayment

\* A lot with a payment is not open (it has no more bids), cannot be approved
\* (it has a score) and cannot be closed with a payment again.
LEMMA PaymentStep ==
    ASSUME TypeOK, PriceFollowsBids, OwnerNeverBids, PublicLotsAreScored,
           PaymentIsTheWinners, [Next]_vars
    PROVE  PaymentIsTheWinners'
<1> USE DEF TypeOK
<1>0. \A t \in payments : t.auction \in Lots /\ HasPayment(t.auction)
  BY DEF Payment, HasPayment
<1>1. CASE UNCHANGED rows
  BY <1>1 DEF rows, PaymentIsTheWinners, BacksTheWinner
<1>2. ASSUME NEW l \in Lots,
             \/ \E u \in Users, price \in Prices : Publish(l, u, price)
             \/ \E r \in Requests : Approve(r, l)
             \/ \E r \in Requests, u \in Users, amount \in Prices : PlaceBid(r, l, u, amount)
      PROVE  PaymentIsTheWinners'
  <2>1. ~HasPayment(l)
    BY <1>2, UnscoredIsBlank DEF Publish, Approve, PlaceBid, MayBid, MayScore, HasPayment,
           PaymentIsTheWinners, BacksTheWinner
  <2>2. payments' = payments
    BY <1>2 DEF Publish, Approve, PlaceBid
  <2>3. \A k \in Lots \ {l} : /\ state'[k] = state[k] /\ winningBid'[k] = winningBid[k]
                              /\ bids'[k] = bids[k] /\ seller'[k] = seller[k]
                              /\ currentPrice'[k] = currentPrice[k]
    BY <1>2 DEF Publish, Approve, PlaceBid
  <2> QED
    BY <1>0, <2>1, <2>2, <2>3 DEF PaymentIsTheWinners, BacksTheWinner
<1>3. ASSUME NEW l \in Lots, NEW r \in Requests, Reject(r, l) PROVE PaymentIsTheWinners'
  BY <1>0, <1>3 DEF Reject, PaymentIsTheWinners, BacksTheWinner
<1>4. ASSUME NEW l \in Lots, NEW p \in Procs, CloseAuction(p, l) PROVE PaymentIsTheWinners'
  <2>1. CASE bids[l] = <<>>
    <3>1. \A t \in payments : t.auction # l
      BY <2>1 DEF PaymentIsTheWinners, BacksTheWinner
    <3>2. /\ payments' = payments
          /\ seller' = seller /\ bids' = bids /\ currentPrice' = currentPrice
          /\ \A k \in Lots \ {l} : state'[k] = state[k] /\ winningBid'[k] = winningBid[k]
      BY <1>4, <2>1, ClosingStores
    <3> QED
      BY <1>0, <3>1, <3>2 DEF PaymentIsTheWinners, BacksTheWinner
  <2>2. CASE bids[l] # <<>>
    <3> DEFINE last == bids[l][Len(bids[l])]
    <3>0. PICK new : new = [auction |-> l, buyer |-> last.bidder, seller |-> seller[l],
                            amount |-> last.amount]
      OBVIOUS
    <3>1. Len(bids[l]) \in DOMAIN bids[l]
      BY <2>2
    <3>2. last.bidder # seller[l] /\ last.amount = currentPrice[l]
      BY <2>2, <3>1 DEF OwnerNeverBids, PriceFollowsBids
    <3>3. payments' = payments \cup {new} /\ ~HasPayment(l)
      BY <1>4, <2>2, <3>0, ClosingStores
    <3>4. /\ new.auction = l /\ new.buyer = last.bidder /\ new.seller = seller[l]
          /\ new.amount = last.amount
      BY <3>0
    <3>5. /\ state'[l] = "closed" /\ winningBid'[l] = Len(bids[l])
          /\ UNCHANGED <<seller, bids, currentPrice>>
          /\ \A k \in Lots \ {l} : state'[k] = state[k] /\ winningBid'[k] = winningBid[k]
      BY <1>4, ClosingStores
    <3>6. BacksTheWinner(new, l)'
      BY <2>2, <3>2, <3>4, <3>5 DEF BacksTheWinner
    <3>7. ASSUME NEW t \in payments
          PROVE  t.auction # l /\ BacksTheWinner(t, t.auction)'
      <4>1. t.auction \in Lots \ {l} /\ BacksTheWinner(t, t.auction)
        BY <1>0, <3>3 DEF PaymentIsTheWinners
      <4> QED
        BY <4>1, <3>5 DEF BacksTheWinner
    <3>8. ASSUME NEW t \in payments', NEW o \in payments', o.auction = t.auction
          PROVE  o = t
      BY <3>3, <3>4, <3>7, <3>8 DEF PaymentIsTheWinners
    <3> QED
      BY <3>3, <3>4, <3>6, <3>7, <3>8 DEF PaymentIsTheWinners
  <2> QED
    BY <2>1, <2>2
<1> QED
  BY <1>1, <1>2, <1>3, <1>4, RowSteps

\* A lot becomes closed only together with its payment, and bids arrive only
\* while it is open.
LEMMA ClosedStep ==
    ASSUME TypeOK, PriceFollowsBids, PublicLotsAreScored, ClosedSaleIsPaid, [Next]_vars
    PROVE  ClosedSaleIsPaid'
<1> USE DEF TypeOK, HasPayment
<1>1. CASE UNCHANGED rows
  BY <1>1 DEF rows, ClosedSaleIsPaid
<1>2. ASSUME NEW l \in Lots, NEW u \in Users, NEW price \in Prices, Publish(l, u, price)
      PROVE  ClosedSaleIsPaid'
  BY <1>2 DEF Publish, ClosedSaleIsPaid
<1>3. ASSUME NEW l \in Lots, NEW r \in Requests, Approve(r, l) \/ Reject(r, l)
      PROVE  ClosedSaleIsPaid'
  BY <1>3 DEF Approve, Reject, ClosedSaleIsPaid
<1>4. ASSUME NEW l \in Lots, NEW r \in Requests, NEW u \in Users, NEW amount \in Prices,
             PlaceBid(r, l, u, amount)
      PROVE  ClosedSaleIsPaid'
  BY <1>4 DEF PlaceBid, MayBid, ClosedSaleIsPaid
<1>5. ASSUME NEW l \in Lots, NEW p \in Procs, CloseAuction(p, l)
      PROVE  ClosedSaleIsPaid'
  <2>1. \A k \in Lots : HasPayment(k) => HasPayment(k)'
    BY <1>5 DEF CloseAuction
  <2>2. bids[l] # <<>> => HasPayment(l)'
    <3>1. SUFFICES ASSUME bids[l] # <<>> PROVE HasPayment(l)'
      OBVIOUS
    <3> DEFINE new == [auction |-> l, buyer |-> bids[l][Len(bids[l])].bidder,
                       seller |-> seller[l], amount |-> bids[l][Len(bids[l])].amount]
    <3>2. payments' = payments \cup {new}
      BY <1>5, <3>1, ClosingStores
    <3>3. new.auction = l
      OBVIOUS
    <3> HIDE DEF new
    <3> QED
      BY <3>2, <3>3
  <2> QED
    BY <1>5, <2>1, <2>2, ClosingStores, SMTT(30) DEF ClosedSaleIsPaid
<1> QED
  BY <1>1, <1>2, <1>3, <1>4, <1>5, RowSteps

-----------------------------------------------------------------------------
(* The theorems *)

\* The invariant holds of an empty database.
LEMMA InitIInv == Init => IInv
<1> SUFFICES ASSUME Init PROVE IInv
  OBVIOUS
<1>1. Idle \in Job
  BY DEF Idle, Job
<1>2. TypeOK
  BY <1>1 DEF Init, TypeOK, AuctionStates
<1>3. RowsExist
  BY DEF Init, RowsExist, Idle
<1>4. PriceFollowsBids /\ OwnerNeverBids
  BY DEF Init, PriceFollowsBids, OwnerNeverBids
<1>5. PublicLotsAreScored
  BY DEF Init, PublicLotsAreScored, HasPayment, Idle
<1>6. PaymentIsTheWinners /\ ClosedSaleIsPaid
  BY DEF Init, PaymentIsTheWinners, ClosedSaleIsPaid
<1> QED
  BY <1>2, <1>3, <1>4, <1>5, <1>6 DEF IInv

\* The invariant is kept by every step.
LEMMA NextIInv == IInv /\ [Next]_vars => IInv'
BY TypeStep, RowsExistStep, PriceStep, OwnerStep, ScoredStep, PaymentStep, ClosedStep DEF IInv

\* The inductive invariant holds of every behaviour.
THEOREM Invariance == Spec => []IInv
BY InitIInv, NextIInv, PTL DEF Spec

\* Every variable keeps its type.
THEOREM TypeCorrect == Spec => []TypeOK
<1>1. IInv => TypeOK
  BY DEF IInv
<1> QED
  BY <1>1, Invariance, PTL

\* Bids climb from above the starting price to the current price.
THEOREM PriceCorrect == Spec => []PriceFollowsBids
<1>1. IInv => PriceFollowsBids
  BY DEF IInv
<1> QED
  BY <1>1, Invariance, PTL

\* Every payment retained is the highest bidder's, once per lot.
THEOREM PaymentCorrect == Spec => []PaymentIsTheWinners
<1>1. IInv => PaymentIsTheWinners
  BY DEF IInv
<1> QED
  BY <1>1, Invariance, PTL

\* A lot with bids never counts as closed without its payment.
THEOREM ClosingCorrect == Spec => []ClosedSaleIsPaid
<1>1. IInv => ClosedSaleIsPaid
  BY DEF IInv
<1> QED
  BY <1>1, Invariance, PTL

\* Whatever is public or sold was approved and scored.
THEOREM ScoreCorrect == Spec => []PublicLotsAreScored
<1>1. IInv => PublicLotsAreScored
  BY DEF IInv
<1> QED
  BY <1>1, Invariance, PTL

\* What no step does to a lot whose payment is retained.
LEMMA SoldStep ==
    ASSUME IInv, [Next]_vars, NEW l \in Lots, HasPayment(l)
    PROVE  /\ bids'[l] = bids[l] /\ winningBid'[l] = winningBid[l]
           /\ {t \in payments' : t.auction = l} = {t \in payments : t.auction = l}
           /\ state'[l] # "open"
<1> USE DEF IInv, TypeOK
<1>0. /\ state[l] \in {"closed", "rejected"} /\ bids[l] # <<>> /\ l \in scores
      /\ winningBid[l] = Len(bids[l])
  BY DEF HasPayment, PaymentIsTheWinners, BacksTheWinner, PublicLotsAreScored
<1>1. CASE UNCHANGED rows
  BY <1>0, <1>1 DEF rows
<1>2. CASE \E k \in Lots, u \in Users, price \in Prices : Publish(k, u, price)
  BY <1>0, <1>2 DEF Publish
<1>3. CASE \E k \in Lots, r \in Requests : Approve(r, k) \/ Reject(r, k)
  BY <1>0, <1>3 DEF Approve, MayScore, Reject
<1>4. CASE \E k \in Lots, r \in Requests, u \in Users, amount \in Prices :
              PlaceBid(r, k, u, amount)
  BY <1>0, <1>4 DEF PlaceBid, MayBid
<1>5. ASSUME NEW k \in Lots, NEW p \in Procs, CloseAuction(p, k)
      PROVE  /\ bids'[l] = bids[l] /\ winningBid'[l] = winningBid[l]
             /\ {t \in payments' : t.auction = l} = {t \in payments : t.auction = l}
             /\ state'[l] # "open"
  <2>1. /\ bids' = bids /\ (k # l => state'[l] = state[l]) /\ (k = l => state'[l] = "closed")
        /\ winningBid'[l] = winningBid[l]
    BY <1>0, <1>5, ClosingStores
  <2>2. payments' = payments \/ (k # l /\ \E t : t.auction = k /\ payments' = payments \cup {t})
    <3>1. CASE bids[k] = <<>>
      BY <1>5, <3>1, ClosingStores
    <3>2. CASE bids[k] # <<>>
      <4>1. PICK new : new = [auction |-> k, buyer |-> bids[k][Len(bids[k])].bidder,
                              seller |-> seller[k], amount |-> bids[k][Len(bids[k])].amount]
        OBVIOUS
      <4>2. payments' = payments \cup {new} /\ ~HasPayment(k)
        BY <1>5, <3>2, <4>1, ClosingStores
      <4>3. new.auction = k
        BY <4>1
      <4> QED
        BY <4>2, <4>3
    <3> QED
      BY <3>1, <3>2
  <2>3. {t \in payments' : t.auction = l} = {t \in payments : t.auction = l}
    BY <2>2
  <2> QED
    BY <1>0, <2>1, <2>3
<1> QED
  BY <1>1, <1>2, <1>3, <1>4, <1>5, RowSteps

\* A sold lot is final: its bids, winner and payment stay, and it never
\* reopens, however stale the rows a request or a cron run holds.
THEOREM SoldForGood == Spec => SoldIsFinal
<1>1. IInv /\ [Next]_vars =>
        [\A l \in Lots : HasPayment(l) =>
          /\ bids'[l] = bids[l] /\ winningBid'[l] = winningBid[l]
          /\ {t \in payments' : t.auction = l} = {t \in payments : t.auction = l}
          /\ state'[l] # "open"]_vars
  BY SoldStep
<1> QED
  BY <1>1, Invariance, PTL DEF Spec, SoldIsFinal

-----------------------------------------------------------------------------
(* Refinement of the abstract sale *)

\* An empty database has no offers and no sales.
LEMMA SaleInit == Init => Sale!Init
BY DEF Init, Sale!Init

\* A bid raises, a closing with a winner knocks down, the rest is invisible.
LEMMA SaleStep == IInv /\ [Next]_vars => [Sale!Next]_<<bids, payments>>
<1> SUFFICES ASSUME IInv, [Next]_vars PROVE [Sale!Next]_<<bids, payments>>
  OBVIOUS
<1> USE DEF IInv, TypeOK
<1>1. CASE UNCHANGED <<bids, payments>>
  BY <1>1
<1>2. ASSUME NEW l \in Lots, NEW r \in Requests, NEW u \in Users, NEW amount \in Prices,
             PlaceBid(r, l, u, amount)
      PROVE  Sale!Raise(l, u, amount)
  <2>1. ~Sale!Sold(l)
    BY <1>2 DEF PlaceBid, MayBid, Sale!Sold, PaymentIsTheWinners, BacksTheWinner
  <2>2. ASSUME NEW i \in DOMAIN bids[l] PROVE bids[l][i].amount < amount
    <3>1. bids[l] \in Seq(Bid) /\ Len(bids[l]) \in DOMAIN bids[l] /\ bids[l] # <<>>
      BY <2>2
    <3>2. bids[l][Len(bids[l])].amount < amount
      BY <1>2, <3>1 DEF PlaceBid, MayBid, PriceFollowsBids
    <3>3. bids[l][i].amount < bids[l][Len(bids[l])].amount \/ i = Len(bids[l])
      BY <3>1, <2>2 DEF PriceFollowsBids
    <3>4. bids[l][i].amount \in Nat /\ bids[l][Len(bids[l])].amount \in Nat /\ amount \in Nat
      BY <3>1, <2>2, AmountsAreNumbers, PricesAreNumbers
    <3> QED
      BY <3>2, <3>3, <3>4
  <2> QED
    BY <1>2, <2>1, <2>2 DEF PlaceBid, Sale!Raise
<1>3. ASSUME NEW l \in Lots, NEW p \in Procs, CloseAuction(p, l), bids[l] # <<>>
      PROVE  Sale!KnockDown(l, seller[l]) /\ seller[l] \in Users
  <2>1. seller[l] \in Users
    BY <1>3 DEF RowsExist, CloseAuction, ClosesNext
  <2>2. ~Sale!Sold(l)
    BY <1>3, ClosingStores DEF Sale!Sold, HasPayment
  <2>3. bids[l][Len(bids[l])].bidder # seller[l]
    BY <1>3 DEF OwnerNeverBids
  <2> QED
    BY <1>3, <2>1, <2>2, <2>3, ClosingStores DEF Sale!KnockDown, Sale!Last
<1>4. ASSUME NEW l \in Lots, NEW p \in Procs, CloseAuction(p, l), bids[l] = <<>>
      PROVE  UNCHANGED <<bids, payments>>
  BY <1>4, ClosingStores
<1> QED
  BY <1>1, <1>2, <1>3, <1>4, RowSteps DEF Sale!Next, rows, Publish, Approve, Reject

\* The lots and payments of the system are an ascending sale: offers rise, and
\* a lot is knocked down at most once, to its last offer.
THEOREM Refinement == Spec => ImplementsSale
BY SaleInit, SaleStep, Invariance, PTL DEF Spec, ImplementsSale, Sale!Spec

-----------------------------------------------------------------------------
(* The mails *)

\* A mail some process has yet to hand over, and one that was or will be.
Waits(m) == \E p \in Procs : \E i \in DOMAIN outbox[p] : outbox[p][i] = m
Announced(m) == mailed[m] # 0 \/ Waits(m)

\* What makes a mail true, for good.  The score of a lot that was closed is
\* what keeps it from reopening.
TrueMail(m) ==
    /\ m.kind = "won" => \E t \in payments : t.auction = m.lot /\ t.buyer = m.to
    /\ m.kind = "result" => /\ state[m.lot] \in {"closed", "rejected"}
                            /\ m.to = seller[m.lot]
                            /\ m.lot \in scores
                            /\ bids[m.lot] # <<>> => HasPayment(m.lot)
    /\ m.kind = "outbid" => \E i \in 1..(Len(bids[m.lot]) - 1) :
           bids[m.lot][i].bidder = m.to /\ bids[m.lot][i + 1].bidder # m.to

MailsAreTrue == \A m \in Mail : Announced(m) => TrueMail(m)

\* A mail that is true stays true.
LEMMA TruthStays ==
    ASSUME IInv, [Next]_vars, NEW m \in Mail, TrueMail(m)
    PROVE  TrueMail(m)'
<1> USE DEF IInv, TypeOK, TrueMail, HasPayment
<1>0. m.lot \in Lots /\ Len(bids[m.lot]) \in Nat
  BY DEF Mail
<1>1. CASE UNCHANGED rows
  BY <1>1 DEF rows
<1>2. ASSUME NEW l \in Lots, NEW u \in Users, NEW price \in Prices, Publish(l, u, price)
      PROVE  TrueMail(m)'
  <2>1. m.kind = "result" => m.lot # l
    BY <1>2 DEF Publish
  <2> QED  BY <1>0, <1>2, <2>1 DEF Publish
<1>3. ASSUME NEW l \in Lots, NEW r \in Requests, Approve(r, l) \/ Reject(r, l)
      PROVE  TrueMail(m)'
  <2>1. CASE Approve(r, l)
    <3>1. m.kind = "result" => m.lot # l
      BY <2>1 DEF Approve, MayScore
    <3> QED  BY <1>0, <2>1, <3>1 DEF Approve
  <2>2. CASE Reject(r, l)
    BY <1>0, <2>2 DEF Reject
  <2> QED  BY <1>3, <2>1, <2>2
<1>4. ASSUME NEW l \in Lots, NEW r \in Requests, NEW u \in Users, NEW amount \in Prices,
             PlaceBid(r, l, u, amount)
      PROVE  TrueMail(m)'
  <2>1. m.kind = "result" => m.lot # l
    BY <1>4 DEF PlaceBid, MayBid
  <2>2. /\ Len(bids'[m.lot]) \in Nat /\ Len(bids[m.lot]) <= Len(bids'[m.lot])
        /\ \A i \in 1..Len(bids[m.lot]) : bids'[m.lot][i] = bids[m.lot][i]
        /\ m.lot # l => bids'[m.lot] = bids[m.lot]
    BY <1>0, <1>4 DEF PlaceBid
  <2>3. UNCHANGED <<state, seller, scores, payments>>
    BY <1>4 DEF PlaceBid
  <2>4. ASSUME m.kind = "outbid"
        PROVE  \E i \in 1..(Len(bids'[m.lot]) - 1) :
                   bids'[m.lot][i].bidder = m.to /\ bids'[m.lot][i + 1].bidder # m.to
    <3>1. PICK i \in 1..(Len(bids[m.lot]) - 1) :
             bids[m.lot][i].bidder = m.to /\ bids[m.lot][i + 1].bidder # m.to
      BY <2>4
    <3>2. /\ i \in 1..Len(bids[m.lot]) /\ i + 1 \in 1..Len(bids[m.lot])
          /\ i \in 1..(Len(bids'[m.lot]) - 1)
      BY <1>0, <2>2
    <3> QED  BY <2>2, <3>1, <3>2
  <2> QED  BY <2>1, <2>2, <2>3, <2>4
<1>5. ASSUME NEW l \in Lots, NEW p \in Procs, CloseAuction(p, l) PROVE TrueMail(m)'
  BY <1>0, <1>5 DEF CloseAuction
<1> QED  BY <1>1, <1>2, <1>3, <1>4, <1>5, RowSteps

\* What the tail of an outbox holds, the outbox held one place further on.
LEMMA TailHolds ==
    ASSUME TypeOK, NEW p \in Procs, outbox[p] # <<>>
    PROVE  /\ 1 \in DOMAIN outbox[p] /\ Head(outbox[p]) = outbox[p][1] /\ outbox[p][1] \in Mail
           /\ \A i \in DOMAIN Tail(outbox[p]) :
                 i \in Nat \ {0} /\ i + 1 \in DOMAIN outbox[p] /\ Tail(outbox[p])[i] = outbox[p][i + 1]
BY DEF TypeOK

\* The steps that touch mails: who writes to whom, and what leaves.
LEMMA MailSteps ==
    ASSUME [Next]_vars
    PROVE  \/ UNCHANGED <<outbox, mailed>>
           \/ \E l \in Lots, r \in Requests, u \in Users, amount \in Prices :
                  PlaceBid(r, l, u, amount)
           \/ \E l \in Lots, p \in Procs : CloseAuction(p, l)
           \/ \E p \in Procs : Send(p) \/ SendFails(p) \/ Die(p)
<1>1. CASE UNCHANGED vars
  BY <1>1 DEF vars
<1>2. CASE Next
  BY <1>2 DEF Next, StartClosingRun, ClosingDatePasses, ApprovalRollsBack, OpenDetailPage,
         ClosingFails, SelectForDecision, Publish, Approve, Reject
<1> QED
  BY <1>1, <1>2

\* A bid is announced to the bidder it displaced.
LEMMA OutbidIsTrue ==
    ASSUME IInv, NEW l \in Lots, NEW r \in Requests, NEW u \in Users, NEW amount \in Prices,
           PlaceBid(r, l, u, amount), NEW m, NEW i \in DOMAIN OutbidMails(l, u),
           m = OutbidMails(l, u)[i]
    PROVE  m.kind = "outbid" /\ TrueMail(m)'
<1> DEFINE n == Len(bids[l])
           new == [kind |-> "outbid", lot |-> l, to |-> bids[l][n].bidder]
<1>1. TypeOK /\ PriceFollowsBids
  BY DEF IInv
<1>2. n \in Nat /\ FirstBid(bids[l]) = n
  BY <1>1, WinnerIsLast
<1>3. n # 0 /\ bids[l][n].bidder # u /\ m = new
  <2> DEFINE one == <<new>>
  <2> HIDE DEF new
  <2>1. DOMAIN <<>> = {} /\ \A j \in DOMAIN one : one[j] = new
    OBVIOUS
  <2> USE DEF new
  <2> HIDE DEF one
  <2>2. \/ OutbidMails(l, u) = <<>>
        \/ n # 0 /\ bids[l][n].bidder # u /\ OutbidMails(l, u) = one
    BY <1>2 DEF OutbidMails, one
  <2> HIDE DEF new
  <2> QED  BY <2>1, <2>2
<1>4. /\ Len(bids'[l]) = n + 1 /\ bids'[l][n] = bids[l][n] /\ bids'[l][n + 1].bidder = u
  BY <1>1, <1>2, <1>3 DEF PlaceBid, TypeOK
<1>5. n \in 1..(Len(bids'[l]) - 1)
  BY <1>2, <1>3, <1>4
<1>6. m.kind = "outbid" /\ m.lot = l /\ m.to = bids[l][n].bidder
  BY <1>3
<1> HIDE DEF new, n
<1> QED  BY <1>3, <1>4, <1>5, <1>6 DEF TrueMail

\* What a closing announces, and where in the outbox.
LEMMA ResultIs ==
    ASSUME NEW l, NEW winner, NEW i \in DOMAIN ResultMails(l, winner)
    PROVE  LET m == ResultMails(l, winner)[i] IN
           \/ /\ m = [kind |-> "won", lot |-> l, to |-> bids[l][winner].bidder]
              /\ winner # 0 /\ i = 1
           \/ /\ m = [kind |-> "result", lot |-> l, to |-> seller[l]]
              /\ i = IF winner = 0 THEN 1 ELSE 2
<1> DEFINE won == [kind |-> "won", lot |-> l, to |-> bids[l][winner].bidder]
           result == [kind |-> "result", lot |-> l, to |-> seller[l]]
<1>1. ResultMails(l, winner) = (IF winner = 0 THEN <<>> ELSE <<won>>) \o <<result>>
  BY DEF ResultMails
<1> HIDE DEF won, result
<1>2. CASE winner = 0
  BY <1>1, <1>2 DEF won, result
<1>3. CASE winner # 0
  <2> DEFINE first == <<won>>
             second == <<result>>
  <2>1. /\ first \in Seq({won, result}) /\ second \in Seq({won, result})
        /\ Len(first) = 1 /\ first[1] = won /\ Len(second) = 1 /\ second[1] = result
    OBVIOUS
  <2>2. ResultMails(l, winner) = first \o second
    BY <1>1, <1>3
  <2> HIDE DEF first, second
  <2>3. /\ Len(first \o second) = 2 /\ first \o second \in Seq({won, result})
        /\ \A k \in 1..2 : (first \o second)[k] = IF k <= 1 THEN first[k] ELSE second[k - 1]
    BY <2>1, ConcatProperties
  <2>4. i \in 1..2
    BY <2>2, <2>3
  <2>5. i \in {1, 2} /\ (i = 1 => ResultMails(l, winner)[i] = won)
        /\ (i = 2 => ResultMails(l, winner)[i] = result)
    BY <2>1, <2>2, <2>3, <2>4
  <2> QED  BY <1>3, <2>5 DEF won, result
<1> QED  BY <1>2, <1>3

\* A closing announces what it did.
LEMMA ResultIsTrue ==
    ASSUME IInv, NEW l \in Lots, NEW p \in Procs, CloseAuction(p, l),
           NEW m, NEW i \in DOMAIN outbox'[p], m = outbox'[p][i]
    PROVE  /\ m.kind \in {"won", "result"} /\ m.lot = l
           /\ TrueMail(m)'
<1> DEFINE winner == FirstBid(bids[l])
<1>1. outbox'[p] = ResultMails(l, winner)
  BY DEF CloseAuction, IInv, TypeOK
<1>2. TypeOK /\ PriceFollowsBids /\ l \in scores
  BY DEF IInv, CloseAuction, ClosesNext, PublicLotsAreScored
<1>3. winner \in Nat /\ (winner = 0 <=> bids[l] = <<>>)
  BY <1>2, WinnerIsLast
<1>4. /\ state'[l] = "closed" /\ UNCHANGED <<seller, bids, scores>>
      /\ payments' = payments \cup HeldPayment(l, winner)
  BY <1>2 DEF CloseAuction, TypeOK
<1> HIDE DEF winner
<1>5. ASSUME winner # 0
      PROVE  \E t \in payments' : t.auction = l /\ t.buyer = bids[l][winner].bidder
  <2> DEFINE held == [auction |-> l, buyer |-> bids[l][winner].bidder,
                      seller |-> seller[l], amount |-> bids[l][winner].amount]
  <2>1. held \in payments'
    BY <1>4, <1>5 DEF HeldPayment
  <2>2. held.auction = l /\ held.buyer = bids[l][winner].bidder
    OBVIOUS
  <2> QED  BY <2>1, <2>2
<1>6. \/ m = [kind |-> "won", lot |-> l, to |-> bids[l][winner].bidder] /\ winner # 0
      \/ m = [kind |-> "result", lot |-> l, to |-> seller[l]]
  BY <1>1, ResultIs
<1> QED  BY <1>2, <1>3, <1>4, <1>5, <1>6 DEF TrueMail, HasPayment

\* Every mail is true when it is scheduled, and mails that leave were waiting.
LEMMA TrueStep ==
    ASSUME IInv, MailsAreTrue, [Next]_vars
    PROVE  MailsAreTrue'
<1> SUFFICES ASSUME NEW m \in Mail, Announced(m)' PROVE TrueMail(m)'
  BY DEF MailsAreTrue, Mail
<1>0. TypeOK /\ Requests \subseteq Procs
  BY DEF IInv, Procs
<1>1. ASSUME Announced(m) PROVE TrueMail(m)'
  BY <1>1, TruthStays DEF MailsAreTrue
<1>2. CASE UNCHANGED <<outbox, mailed>>
  BY <1>1, <1>2 DEF Announced, Waits
<1>3. ASSUME NEW l \in Lots, NEW r \in Requests, NEW u \in Users, NEW amount \in Prices,
             PlaceBid(r, l, u, amount)
      PROVE  TrueMail(m)'
  <2>1. mailed' = mailed /\ outbox' = [outbox EXCEPT ![r] = OutbidMails(l, u)]
    BY <1>3 DEF PlaceBid
  <2>2. CASE \E i \in DOMAIN OutbidMails(l, u) : OutbidMails(l, u)[i] = m
    BY <1>3, <2>2, OutbidIsTrue
  <2>3. CASE ~\E i \in DOMAIN OutbidMails(l, u) : OutbidMails(l, u)[i] = m
    BY <1>0, <1>1, <2>1, <2>3 DEF Announced, Waits, TypeOK
  <2> QED  BY <2>2, <2>3
<1>4. ASSUME NEW l \in Lots, NEW p \in Procs, CloseAuction(p, l) PROVE TrueMail(m)'
  <2>1. mailed' = mailed /\ \A q \in Procs : q # p => outbox'[q] = outbox[q]
    BY <1>0, <1>4 DEF CloseAuction, TypeOK
  <2>2. CASE \E i \in DOMAIN outbox'[p] : outbox'[p][i] = m
    BY <1>4, <2>2, ResultIsTrue
  <2>3. CASE ~\E i \in DOMAIN outbox'[p] : outbox'[p][i] = m
    BY <1>1, <2>1, <2>3 DEF Announced, Waits
  <2> QED  BY <2>2, <2>3
<1>5. ASSUME NEW p \in Procs, Send(p) \/ SendFails(p) \/ Die(p) PROVE Announced(m)
  <2>1. CASE Send(p) \/ SendFails(p)
    <3>1. outbox[p] # <<>> /\ outbox' = [outbox EXCEPT ![p] = Tail(@)]
      BY <2>1 DEF Send, SendFails
    <3>2. Waits(m)' => Waits(m)
      BY <1>0, <3>1, TailHolds DEF Waits, TypeOK
    <3>3. mailed'[m] # mailed[m] => m = outbox[p][1]
      BY <1>0, <2>1, <3>1, TailHolds DEF Send, SendFails, TypeOK
    <3>4. mailed'[m] # mailed[m] => Waits(m)
      BY <1>0, <3>1, <3>3, TailHolds DEF Waits
    <3> QED  BY <3>2, <3>4 DEF Announced
  <2>2. CASE Die(p)
    <3>1. mailed' = mailed /\ outbox' = [outbox EXCEPT ![p] = <<>>] /\ DOMAIN <<>> = {}
      BY <2>2 DEF Die
    <3> QED  BY <1>0, <3>1 DEF Announced, Waits, TypeOK
  <2> QED  BY <1>5, <2>1, <2>2
<1> QED  BY <1>1, <1>2, <1>3, <1>4, <1>5, MailSteps
\* Every mail is true, in every behaviour.
LEMMA TrueInit == Init => MailsAreTrue
BY DEF Init, MailsAreTrue, Announced, Waits

LEMMA MailsStayTrue == Spec => []MailsAreTrue
<1>1. IInv /\ MailsAreTrue /\ [Next]_vars => MailsAreTrue'
  BY TrueStep
<1> QED  BY <1>1, TrueInit, Invariance, PTL DEF Spec

\* The places a mail waits at, as Copies counts them.
Places(m) == {w \in Procs \X (1..2) :
                 w[2] \in DOMAIN outbox[w[1]] /\ outbox[w[1]][w[2]] = m}

\* A mail of which there are copies was announced.
LEMMA CopiesAreAnnounced ==
    ASSUME TypeOK, NEW m \in Mail, Copies(m) > 0
    PROVE  Announced(m)
<1> SUFFICES ASSUME ~Announced(m) PROVE FALSE
  OBVIOUS
<1>1. Places(m) = {}
  BY DEF Announced, Waits, Places
<1>2. Cardinality(Places(m)) = 0
  BY <1>1, FS_EmptySet
<1>3. mailed[m] = 0 /\ Copies(m) = mailed[m] + Cardinality(Places(m))
  BY DEF Announced, Copies, Places
<1> QED  BY <1>2, <1>3

\* What the copies of a mail say, when the mails announced are true.
LEMMA TruthTold ==
    ASSUME IInv, MailsAreTrue
    PROVE  MailTellsTheTruth
<1>1. TypeOK
  BY DEF IInv
<1>2. ASSUME NEW m \in Mail, Copies(m) > 0
      PROVE  TrueMail(m) /\ m.kind \in {"won", "result", "outbid"}
  BY <1>1, <1>2, CopiesAreAnnounced DEF MailsAreTrue, Mail
<1> QED  BY <1>2 DEF MailTellsTheTruth, TrueMail

\* No mail, sent or waiting, announces something the database does not hold.
THEOREM MailsCorrect == Spec => []MailTellsTheTruth
<1>1. IInv /\ MailsAreTrue => MailTellsTheTruth
  BY TruthTold
<1> QED  BY <1>1, MailsStayTrue, Invariance, PTL

-----------------------------------------------------------------------------
(* The end of a sale is told once *)

\* A mail is in one outbox, at one place, or it was handed over once.
OnlyOne(m) ==
    /\ \A p, q \in Procs : \A i \in DOMAIN outbox[p], j \in DOMAIN outbox[q] :
           outbox[p][i] = m /\ outbox[q][j] = m => p = q /\ i = j
    /\ Waits(m) => mailed[m] = 0
    /\ mailed[m] <= 1

SaleTold ==
    \A m \in Mail : m.kind \in {"won", "result"} /\ bids[m.lot] # <<>> => OnlyOne(m)

\* One place at most is one copy at most.
LEMMA OneIsOnce ==
    ASSUME TypeOK, NEW m \in Mail, OnlyOne(m)
    PROVE  Copies(m) <= 1
<1>0. Copies(m) = mailed[m] + Cardinality(Places(m)) /\ mailed[m] \in Nat
  BY DEF Copies, Places, TypeOK
<1>1. CASE Places(m) = {}
  <2>1. Cardinality(Places(m)) = 0
    BY <1>1, FS_EmptySet
  <2> QED  BY <1>0, <2>1 DEF OnlyOne
<1>2. CASE Places(m) # {}
  <2>1. PICK w \in Places(m) : TRUE
    BY <1>2
  <2>2. \A v \in Places(m) : v = w
    <3> TAKE v \in Places(m)
    <3>1. /\ v \in Procs \X (1..2) /\ w \in Procs \X (1..2)
          /\ v[2] \in DOMAIN outbox[v[1]] /\ outbox[v[1]][v[2]] = m
          /\ w[2] \in DOMAIN outbox[w[1]] /\ outbox[w[1]][w[2]] = m
      BY <2>1 DEF Places
    <3>2. v[1] = w[1] /\ v[2] = w[2]
      BY <3>1 DEF OnlyOne
    <3> QED  BY <3>1, <3>2
  <2>3. Places(m) = {w}
    BY <2>1, <2>2
  <2>4. Cardinality(Places(m)) = 1
    BY <2>3, FS_Singleton
  <2>5. Waits(m)
    BY <2>1 DEF Places, Waits
  <2> QED  BY <1>0, <2>4, <2>5 DEF OnlyOne
<1> QED  BY <1>1, <1>2

\* Only a closing writes to the winner or the seller, so a mail to them stays
\* alone unless their lot is closed once more after it.
LEMMA OneStep ==
    ASSUME TypeOK, [Next]_vars, NEW m \in Mail, m.kind \in {"won", "result"}, OnlyOne(m),
           \A p \in Procs : CloseAuction(p, m.lot) => ~Announced(m)
    PROVE  OnlyOne(m)'
<1>0. Requests \subseteq Procs
  BY DEF Procs
<1>1. CASE UNCHANGED <<outbox, mailed>>
  BY <1>1 DEF OnlyOne, Waits
<1>2. ASSUME NEW l \in Lots, NEW r \in Requests, NEW u \in Users, NEW amount \in Prices,
             PlaceBid(r, l, u, amount)
      PROVE  OnlyOne(m)'
  <2>1. \A i \in DOMAIN OutbidMails(l, u) : OutbidMails(l, u)[i].kind = "outbid"
    <3> DEFINE new == [kind |-> "outbid", lot |-> l, to |-> bids[l][FirstBid(bids[l])].bidder]
    <3>1. OutbidMails(l, u) = <<>> \/ OutbidMails(l, u) = <<new>>
      BY DEF OutbidMails
    <3>2. new.kind = "outbid"
      OBVIOUS
    <3> HIDE DEF new
    <3> QED  BY <3>1, <3>2
  <2>2. /\ mailed' = mailed /\ outbox'[r] = OutbidMails(l, u)
        /\ \A q \in Procs : q # r => outbox'[q] = outbox[q]
    BY <1>0, <1>2 DEF PlaceBid, TypeOK
  <2>3. \A i \in DOMAIN outbox'[r] : outbox'[r][i] # m
    BY <2>1, <2>2
  <2>4. \A q \in Procs : \A i \in DOMAIN outbox'[q] : outbox'[q][i] = m =>
            q # r /\ i \in DOMAIN outbox[q] /\ outbox[q][i] = m
    BY <2>2, <2>3
  <2> QED  BY <2>2, <2>4 DEF OnlyOne, Waits
<1>3. ASSUME NEW l \in Lots, NEW p \in Procs, CloseAuction(p, l) PROVE OnlyOne(m)'
  <2> DEFINE winner == FirstBid(bids[l])
  <2>1. /\ mailed' = mailed /\ outbox'[p] = ResultMails(l, winner)
        /\ \A q \in Procs : q # p => outbox'[q] = outbox[q]
    BY <1>3 DEF CloseAuction, TypeOK
  <2>2. \A i \in DOMAIN outbox'[p] : outbox'[p][i].lot = l
    BY <2>1, ResultIs
  <2>3. CASE m.lot # l
    <3>1. \A i \in DOMAIN outbox'[p] : outbox'[p][i] # m
      BY <2>2, <2>3
    <3>2. \A q \in Procs : \A i \in DOMAIN outbox'[q] : outbox'[q][i] = m =>
              q # p /\ i \in DOMAIN outbox[q] /\ outbox[q][i] = m
      BY <2>1, <3>1
    <3> QED  BY <2>1, <3>2 DEF OnlyOne, Waits
  <2>4. CASE m.lot = l
    <3>1. ~Announced(m)
      BY <1>3, <2>4
    <3>2. mailed[m] = 0 /\ \A q \in Procs : \A i \in DOMAIN outbox[q] : outbox[q][i] # m
      BY <3>1 DEF Announced, Waits
    <3>3. \A i, j \in DOMAIN outbox'[p] : outbox'[p][i] = m /\ outbox'[p][j] = m => i = j
      <4> TAKE i, j \in DOMAIN outbox'[p]
      <4> HAVE outbox'[p][i] = m /\ outbox'[p][j] = m
      <4> HIDE DEF winner
      <4>1. CASE m.kind = "won"
        <5>1. i = 1 /\ j = 1
          BY <2>1, <4>1, ResultIs
        <5> QED  BY <5>1
      <4>2. CASE m.kind = "result"
        <5>1. i = (IF winner = 0 THEN 1 ELSE 2) /\ j = (IF winner = 0 THEN 1 ELSE 2)
          BY <2>1, <4>2, ResultIs
        <5> QED  BY <5>1
      <4> QED  BY <4>1, <4>2
    <3>4. \A q \in Procs : \A i \in DOMAIN outbox'[q] : outbox'[q][i] = m => q = p
      BY <2>1, <3>2
    <3> QED  BY <2>1, <3>2, <3>3, <3>4 DEF OnlyOne, Waits
  <2> QED  BY <2>3, <2>4
<1>4. ASSUME NEW p \in Procs, Send(p) \/ SendFails(p) PROVE OnlyOne(m)'
  <2>1. outbox[p] # <<>> /\ outbox' = [outbox EXCEPT ![p] = Tail(@)]
    BY <1>4 DEF Send, SendFails
  <2>2. \A q \in Procs : outbox'[q] = IF q = p THEN Tail(outbox[p]) ELSE outbox[q]
    BY <2>1 DEF TypeOK
  <2>3. /\ 1 \in DOMAIN outbox[p] /\ Head(outbox[p]) = outbox[p][1]
        /\ \A i \in DOMAIN Tail(outbox[p]) :
               i \in Nat \ {0} /\ i + 1 \in DOMAIN outbox[p] /\ Tail(outbox[p])[i] = outbox[p][i + 1]
    BY <2>1, TailHolds
  <2>4. \A q \in Procs : \A i \in DOMAIN outbox'[q] : outbox'[q][i] = m =>
            IF q = p THEN i \in Nat \ {0} /\ i + 1 \in DOMAIN outbox[p] /\ outbox[p][i + 1] = m
            ELSE i \in DOMAIN outbox[q] /\ outbox[q][i] = m
    BY <2>2, <2>3
  <2>5. \A q, s \in Procs : \A i \in DOMAIN outbox'[q], j \in DOMAIN outbox'[s] :
            outbox'[q][i] = m /\ outbox'[s][j] = m => q = s /\ i = j
    <3> TAKE q \in Procs, s \in Procs
    <3> TAKE i \in DOMAIN outbox'[q], j \in DOMAIN outbox'[s]
    <3> HAVE outbox'[q][i] = m /\ outbox'[s][j] = m
    <3>1. q = s
      BY <2>4 DEF OnlyOne
    <3>2. CASE q = p
      <4>1. /\ i \in Nat /\ j \in Nat
            /\ i + 1 \in DOMAIN outbox[p] /\ outbox[p][i + 1] = m
            /\ j + 1 \in DOMAIN outbox[p] /\ outbox[p][j + 1] = m
        BY <2>4, <3>1, <3>2
      <4>2. i + 1 = j + 1
        BY <4>1 DEF OnlyOne
      <4> QED  BY <3>1, <4>1, <4>2
    <3>3. CASE q # p
      BY <2>4, <3>1, <3>3 DEF OnlyOne
    <3> QED  BY <3>2, <3>3
  <2>6. Waits(m)' => Waits(m)
    BY <2>4 DEF Waits
  <2>7. CASE mailed' = mailed
    BY <2>5, <2>6, <2>7 DEF OnlyOne
  <2>8. CASE mailed' = [mailed EXCEPT ![Head(outbox[p])] = @ + 1]
    <3>1. CASE outbox[p][1] # m
      <4>1. mailed'[m] = mailed[m]
        BY <2>1, <2>3, <2>8, <3>1, TailHolds DEF TypeOK
      <4> QED  BY <2>5, <2>6, <4>1 DEF OnlyOne
    <3>2. CASE outbox[p][1] = m
      <4>1. Waits(m) /\ mailed[m] = 0
        BY <2>3, <3>2 DEF OnlyOne, Waits
      <4>2. mailed'[m] = 1
        BY <2>3, <2>8, <3>2, <4>1 DEF TypeOK
      <4>3. ~Waits(m)'
        <5> SUFFICES ASSUME NEW q \in Procs, NEW i \in DOMAIN outbox'[q], outbox'[q][i] = m
                     PROVE  FALSE
          BY DEF Waits
        <5>1. CASE q = p
          <6>1. i \in Nat \ {0} /\ i + 1 \in DOMAIN outbox[p] /\ outbox[p][i + 1] = m
            BY <2>4, <5>1
          <6>2. i + 1 = 1
            BY <2>3, <3>2, <6>1 DEF OnlyOne
          <6> QED  BY <6>1, <6>2
        <5>2. CASE q # p
          BY <2>3, <2>4, <3>2, <5>2 DEF OnlyOne
        <5> QED  BY <5>1, <5>2
      <4> QED  BY <2>5, <4>2, <4>3 DEF OnlyOne
    <3> QED  BY <3>1, <3>2
  <2> QED  BY <1>4, <2>7, <2>8 DEF Send, SendFails
<1>5. ASSUME NEW p \in Procs, Die(p) PROVE OnlyOne(m)'
  <2>1. mailed' = mailed /\ \A q \in Procs : outbox'[q] = IF q = p THEN <<>> ELSE outbox[q]
    BY <1>5 DEF Die, TypeOK
  <2>2. \A q \in Procs : \A i \in DOMAIN outbox'[q] : outbox'[q][i] = m =>
            i \in DOMAIN outbox[q] /\ outbox[q][i] = m
    BY <2>1
  <2> QED  BY <2>1, <2>2 DEF OnlyOne, Waits
<1> QED  BY <1>1, <1>2, <1>3, <1>4, <1>5, MailSteps

\* A lot that is open, and a lot with bids that may still be closed, was not
\* announced as ended.
LEMMA NotAnnounced ==
    ASSUME IInv, MailsAreTrue, NEW m \in Mail, m.kind \in {"won", "result"},
           \/ state[m.lot] = "open"
           \/ bids[m.lot] # <<>> /\ ~HasPayment(m.lot)
    PROVE  ~Announced(m)
<1>1. \A t \in payments : t.auction = m.lot => state[m.lot] \in {"closed", "rejected"}
  BY DEF IInv, PaymentIsTheWinners, BacksTheWinner
<1> QED  BY <1>1 DEF MailsAreTrue, TrueMail, HasPayment

\* A step keeps what is said of the ends of the sales.
LEMMA SaleToldStep ==
    ASSUME IInv, MailsAreTrue, SaleTold, [Next]_vars
    PROVE  SaleTold'
<1> SUFFICES ASSUME NEW m \in Mail, m.kind \in {"won", "result"}, bids'[m.lot] # <<>>
             PROVE  OnlyOne(m)'
  BY DEF SaleTold
<1>0. TypeOK /\ PriceFollowsBids /\ m.lot \in Lots
  BY DEF IInv, Mail
<1>1. ASSUME NEW p \in Procs, CloseAuction(p, m.lot) PROVE bids[m.lot] # <<>> /\ ~Announced(m)
  <2>1. bids' = bids
    BY <1>1 DEF CloseAuction
  <2>2. FirstBid(bids[m.lot]) # 0
    BY <1>0, <2>1, WinnerIsLast
  <2>3. ~HasPayment(m.lot)
    BY <1>1, <2>2 DEF CloseAuction, MayHold
  <2> QED  BY <2>1, <2>3, NotAnnounced
<1>2. CASE bids[m.lot] # <<>>
  BY <1>0, <1>1, <1>2, OneStep DEF SaleTold
<1>3. CASE bids[m.lot] = <<>>
  <2>1. PICK r \in Requests, u \in Users, amount \in Prices : PlaceBid(r, m.lot, u, amount)
    <3>1. bids' # bids /\ bids'[m.lot] # bids[m.lot]
      BY <1>3
    <3>2. PICK l \in Lots, r \in Requests, u \in Users, amount \in Prices : PlaceBid(r, l, u, amount)
      BY <3>1, RowSteps DEF rows, Publish, Approve, Reject, CloseAuction
    <3>3. l = m.lot
      BY <1>0, <3>1, <3>2 DEF PlaceBid, TypeOK
    <3> QED  BY <3>2, <3>3
  <2>2. state[m.lot] = "open" /\ outbox[r] = <<>>
    BY <2>1 DEF PlaceBid, MayBid, Free
  <2>3. ~Announced(m)
    BY <2>2, NotAnnounced
  <2>4. OnlyOne(m)
    BY <1>0, <2>3 DEF OnlyOne, Announced, Waits
  <2> QED  BY <1>0, <1>1, <2>4, OneStep
<1> QED  BY <1>2, <1>3

\* Before anything happens nothing was told; then one copy at most exists.
LEMMA SaleToldInit == Init => SaleTold
BY DEF Init, SaleTold, Mail

LEMMA SaleTells == IInv /\ SaleTold => SaleToldOnce
BY OneIsOnce DEF IInv, SaleTold, SaleToldOnce

\* The end of a sale is told at most once to the winner and once to the
\* seller, even when cron and visitors close the lot at the same time.
THEOREM ToldCorrect == Spec => []SaleToldOnce
<1>1. IInv /\ MailsAreTrue /\ SaleTold /\ [Next]_vars => SaleTold'
  BY SaleToldStep
<1> QED  BY <1>1, SaleToldInit, SaleTells, Invariance, MailsStayTrue, PTL DEF Spec

-----------------------------------------------------------------------------
(* Serial behaviours *)

\* While nobody else holds the same lot, what a process loaded is what is stored.
FreshJobs ==
    /\ Serial
    /\ \A p \in Procs : \A l \in job[p].lots :
          /\ job[p].op \in {"approve", "reject"} => state[l] = "pending"
          /\ job[p].op = "close" => state[l] = "open"

\* A job that moves on keeps its operation and loses a lot, or is over.
LEMMA RestShape ==
    ASSUME NEW j \in Job, NEW l \in j.lots
    PROVE  /\ l \notin Rest(j, l).lots /\ Rest(j, l).lots \subseteq j.lots
           /\ Rest(j, l).lots # {} => Rest(j, l).op = j.op
BY DEF Rest, Idle, Job

\* A decision or a closing of a lot that was loaded fresh.
LEMMA FreshDecision ==
    ASSUME TypeOK, FreshJobs, Serial', NEW p \in Procs, NEW l \in Lots, l \in job[p].lots,
           job[p].op # "idle", job' = [job EXCEPT ![p] = Rest(@, l)],
           \A k \in Lots : k # l => state'[k] = state[k]
    PROVE  FreshJobs'
<1>1. job[p] # Idle /\ job[p] \in Job
  BY DEF Idle, TypeOK
<1>2. \A q \in Procs : q # p => job'[q] = job[q] /\ l \notin job[q].lots
                                /\ job[q].lots \subseteq Lots
  <2>1. \A q \in Procs : job[q] \in Job /\ (q # p => job[p].lots \cap job[q].lots = {})
    BY DEF FreshJobs, Serial, TypeOK
  <2> QED  BY <2>1 DEF TypeOK, Job
<1>3. job'[p] = Rest(job[p], l)
  BY DEF TypeOK
<1>4. /\ l \notin job'[p].lots /\ job'[p].lots \subseteq job[p].lots
      /\ job'[p].lots # {} => job'[p].op = job[p].op
  BY <1>1, <1>3, RestShape
<1>5. \A k \in job'[p].lots : k \in Lots /\ state'[k] = state[k]
  BY <1>1, <1>4 DEF Job
<1>6. ASSUME NEW q \in Procs, q # p, NEW k \in job'[q].lots
      PROVE  k \in job[q].lots /\ job'[q].op = job[q].op /\ state'[k] = state[k]
  BY <1>2, <1>6
<1> QED  BY <1>4, <1>5, <1>6 DEF FreshJobs

\* A serial step keeps what was loaded fresh.
LEMMA FreshStep ==
    ASSUME TypeOK, FreshJobs, [Next /\ Serial']_vars
    PROVE  FreshJobs'
<1>0. Requests \subseteq Procs /\ Cron \in Procs /\ Idle.lots = {}
  BY DEF Procs, Idle
<1>1. CASE UNCHANGED vars
  BY <1>1 DEF vars, rows, FreshJobs, Serial
<1> SUFFICES ASSUME Next, Serial' PROVE FreshJobs'
  BY <1>1
<1>2. CASE job' = job /\ state' = state
  BY <1>2 DEF FreshJobs
<1>3. ASSUME NEW l \in Lots, NEW u \in Users, NEW price \in Prices, Publish(l, u, price)
      PROVE  FreshJobs'
  <2>1. job' = job /\ state[l] = "none" /\ \A k \in Lots : k # l => state'[k] = state[k]
    BY <1>3 DEF Publish, TypeOK
  <2>2. \A p \in Procs : \A k \in job[p].lots : k \in Lots /\ (job[p].op # "idle" => k # l)
    BY <2>1 DEF FreshJobs, TypeOK, Job
  <2> QED  BY <2>1, <2>2 DEF FreshJobs
<1>4. ASSUME NEW l \in Lots, NEW p \in Procs,
             \/ p \in Requests /\ (Approve(p, l) \/ Reject(p, l))
             \/ CloseAuction(p, l) \/ ClosingFails(p, l)
      PROVE  FreshJobs'
  <2>1. /\ l \in job[p].lots /\ job[p].op # "idle" /\ job' = [job EXCEPT ![p] = Rest(@, l)]
        /\ \A k \in Lots : k # l => state'[k] = state[k]
    BY <1>4 DEF Approve, Reject, CloseAuction, ClosingFails, ClosesNext, rows, TypeOK
  <2> QED  BY <2>1, FreshDecision
<1>5. ASSUME NEW p \in Procs, NEW j, state' = state, job' = [job EXCEPT ![p] = j],
             \A l \in j.lots : /\ j.op \in {"approve", "reject"} => state[l] = "pending"
                               /\ j.op = "close" => state[l] = "open"
      PROVE  FreshJobs'
  <2>1. \A q \in Procs : job'[q] = IF q = p THEN j ELSE job[q]
    BY <1>5 DEF TypeOK
  <2> QED  BY <1>5, <2>1 DEF FreshJobs
<1>6. CASE StartClosingRun
  <2> DEFINE j == [op |-> "close", lots |-> {l \in Lots : Expired(l)}]
  <2>1. state' = state /\ job' = [job EXCEPT ![Cron] = j]
    BY <1>6 DEF StartClosingRun, rows
  <2>2. j.op = "close" /\ \A l \in j.lots : state[l] = "open"
    BY DEF Expired
  <2> HIDE DEF j
  <2> QED  BY <1>0, <1>5, <2>1, <2>2
<1>7. ASSUME NEW r \in Requests, NEW l \in Lots, OpenDetailPage(r, l) PROVE FreshJobs'
  <2> DEFINE j == [op |-> "close", lots |-> {l}]
  <2>1. state' = state /\ job' = [job EXCEPT ![r] = j]
    BY <1>7 DEF OpenDetailPage, rows
  <2>2. j.op = "close" /\ \A k \in j.lots : state[k] = "open"
    BY <1>7 DEF OpenDetailPage, Expired
  <2> HIDE DEF j
  <2> QED  BY <1>0, <1>5, <2>1, <2>2
<1>8. ASSUME NEW r \in Requests, NEW S \in SUBSET Lots, NEW d \in {"approve", "reject"},
             SelectForDecision(r, d, S)
      PROVE  FreshJobs'
  <2> DEFINE j == [op |-> d, lots |-> SeenPending(S)]
  <2>1. state' = state /\ job' = [job EXCEPT ![r] = j]
    BY <1>8 DEF SelectForDecision, rows
  <2>2. j.op = d /\ \A k \in j.lots : state[k] = "pending"
    BY DEF SeenPending
  <2> HIDE DEF j
  <2> QED  BY <1>0, <1>5, <2>1, <2>2
<1>9. ASSUME NEW r \in Requests, NEW l \in Lots, ApprovalRollsBack(r, l) PROVE FreshJobs'
  <2>1. state' = state /\ job' = [job EXCEPT ![r] = Idle]
    BY <1>9 DEF ApprovalRollsBack, rows
  <2> QED  BY <1>0, <1>5, <2>1
<1>10. ASSUME NEW p \in Procs, Die(p) PROVE FreshJobs'
  <2>1. state' = state /\ job' = [job EXCEPT ![p] = Idle]
    BY <1>10 DEF Die, rows
  <2> QED  BY <1>0, <1>5, <2>1
<1>11. ASSUME NEW p \in Procs, Send(p) \/ SendFails(p) PROVE FreshJobs'
  BY <1>2, <1>11 DEF Send, SendFails, rows
<1>12. ASSUME NEW l \in Lots, NEW r \in Requests, NEW u \in Users, NEW amount \in Prices,
              PlaceBid(r, l, u, amount)
       PROVE  FreshJobs'
  BY <1>2, <1>12 DEF PlaceBid
<1>13. ASSUME NEW l \in Lots, ClosingDatePasses(l) PROVE FreshJobs'
  BY <1>2, <1>13 DEF ClosingDatePasses, rows
<1> QED  BY <1>0, <1>3, <1>4, <1>6, <1>7, <1>8, <1>9, <1>10, <1>11, <1>12, <1>13 DEF Next

\* The end of every lot is told once at most.
AllTold == \A m \in Mail : m.kind \in {"won", "result"} => OnlyOne(m)

\* The invariant of the serial behaviours.
SerialInv == IInv /\ MailsAreTrue /\ FreshJobs /\ AllTold

LEMMA SerialInit == Init => SerialInv
<1> SUFFICES ASSUME Init PROVE SerialInv
  OBVIOUS
<1>1. IInv
  BY InitIInv
<1>2. MailsAreTrue /\ FreshJobs
  BY DEF Init, MailsAreTrue, Announced, Waits, FreshJobs, Serial, Idle
<1>3. ASSUME NEW m \in Mail PROVE OnlyOne(m)
  BY DEF Init, OnlyOne, Waits
<1> QED  BY <1>1, <1>2, <1>3 DEF SerialInv, AllTold

LEMMA SerialHolds == SerialInv /\ [Next /\ Serial']_vars => SerialInv'
<1> SUFFICES ASSUME SerialInv, [Next /\ Serial']_vars PROVE SerialInv'
  OBVIOUS
<1>1. IInv /\ MailsAreTrue /\ FreshJobs /\ AllTold /\ [Next]_vars /\ TypeOK
  BY DEF SerialInv, IInv
<1>2. IInv' /\ MailsAreTrue' /\ FreshJobs'
  BY <1>1, NextIInv, TrueStep, FreshStep
<1>3. ASSUME NEW m \in Mail, m.kind \in {"won", "result"} PROVE OnlyOne(m)'
  <2>1. ASSUME NEW p \in Procs, CloseAuction(p, m.lot) PROVE ~Announced(m)
    <3>1. state[m.lot] = "open"
      BY <1>1, <2>1 DEF CloseAuction, ClosesNext, FreshJobs
    <3> QED  BY <1>1, <1>3, <3>1, NotAnnounced
  <2> QED  BY <1>1, <1>3, <2>1, OneStep DEF AllTold
<1> QED  BY <1>2, <1>3 DEF SerialInv, AllTold

LEMMA SerialTells == SerialInv => ResultToldOnce
BY OneIsOnce DEF SerialInv, IInv, AllTold, ResultToldOnce

\* A state changes as the model of Auction.state says.
LEMMA DecisionStep ==
    ASSUME SerialInv, [Next]_vars, NEW l \in Lots, state'[l] # state[l]
    PROVE  <<state[l], state'[l]>> \in {<<"none", "pending">>, <<"pending", "open">>,
                                        <<"pending", "rejected">>, <<"open", "closed">>}
<1>0. TypeOK /\ FreshJobs /\ Requests \subseteq Procs
  BY DEF SerialInv, IInv, Procs
<1>1. ASSUME NEW k \in Lots, NEW u \in Users, NEW price \in Prices, Publish(k, u, price)
      PROVE  state[l] = "none" /\ state'[l] = "pending"
  BY <1>0, <1>1 DEF Publish, TypeOK
<1>2. ASSUME NEW k \in Lots, NEW r \in Requests, Approve(r, k)
      PROVE  state[l] = "pending" /\ state'[l] = "open"
  BY <1>0, <1>2 DEF Approve, TypeOK, FreshJobs
<1>3. ASSUME NEW k \in Lots, NEW r \in Requests, Reject(r, k)
      PROVE  state[l] = "pending" /\ state'[l] = "rejected"
  BY <1>0, <1>3 DEF Reject, TypeOK, FreshJobs
<1>4. ASSUME NEW k \in Lots, NEW p \in Procs, CloseAuction(p, k)
      PROVE  state[l] = "open" /\ state'[l] = "closed"
  BY <1>0, <1>4 DEF CloseAuction, ClosesNext, TypeOK, FreshJobs
<1>5. ~UNCHANGED rows /\ \A k \in Lots, r \in Requests, u \in Users, amount \in Prices :
                            ~PlaceBid(r, k, u, amount)
  BY DEF rows, PlaceBid
<1> QED  BY <1>1, <1>2, <1>3, <1>4, <1>5, RowSteps

\* What was loaded is fresh in every serial behaviour, and the rest holds too.
THEOREM SerialInvariance == SerialSpec => []SerialInv
BY SerialInit, SerialHolds, PTL DEF SerialSpec

\* While no two processes hold the same lot, a publication request is
\* decided once and closing is the only way on.
THEOREM DecisionsCorrect == SerialSpec => DecidedOnce
<1> DEFINE Onwards == \A l \in Lots : state'[l] # state[l] =>
               <<state[l], state'[l]>> \in {<<"none", "pending">>, <<"pending", "open">>,
                                            <<"pending", "rejected">>, <<"open", "closed">>}
<1>1. SerialInv /\ [Next /\ Serial']_vars => [Onwards]_vars
  BY DecisionStep
<1> QED  BY <1>1, SerialInvariance, PTL DEF SerialSpec, DecidedOnce

\* While no two processes hold the same lot, the end of every lot,
\* sold or not, is told once.
THEOREM ResultToldCorrect == SerialSpec => []ResultToldOnce
BY SerialInvariance, SerialTells, PTL

-----------------------------------------------------------------------------
(* A closing run goes on *)

\* A process that is busy has rows left, so that none is busy for ever over nothing.
Busy == \A p \in Procs : job[p].op # "idle" => job[p].lots # {}

LEMMA BusyStep == TypeOK /\ Busy /\ [Next]_vars => Busy'
<1> SUFFICES ASSUME TypeOK, Busy, [Next]_vars, NEW p \in Procs, job'[p].op # "idle"
             PROVE  job'[p].lots # {}
  BY DEF Busy
<1>0. job \in [Procs -> Job] /\ Requests \subseteq Procs /\ Cron \in Procs
      /\ Idle.op = "idle"
  BY DEF TypeOK, Procs, Idle
<1>1. job[p].op # "idle" => job[p].lots # {}
  BY DEF Busy
<1>2. ASSUME NEW q \in Procs, NEW l \in job[q].lots, job' = [job EXCEPT ![q] = Rest(@, l)]
      PROVE  job'[p].lots # {}
  <2>1. CASE q # p
    BY <1>0, <1>1, <1>2, <2>1
  <2>2. CASE q = p
    <3>1. job'[p] = Rest(job[p], l) /\ job[p] \in Job /\ l \in job[p].lots
      BY <1>0, <1>2, <2>2
    <3>2. job[p].lots # {l}
      BY <1>0, <3>1 DEF Rest
    <3>3. job'[p].lots = job[p].lots \ {l}
      BY <3>1, <3>2 DEF Rest, Job
    <3> QED  BY <3>1, <3>2, <3>3
  <2> QED  BY <2>1, <2>2
<1>3. ASSUME NEW q \in Procs, job' = [job EXCEPT ![q] = Idle] PROVE job'[p].lots # {}
  BY <1>0, <1>1, <1>3
<1>4. CASE StartClosingRun
  BY <1>0, <1>1, <1>4 DEF StartClosingRun
<1>5. ASSUME NEW r \in Requests, NEW l \in Lots, OpenDetailPage(r, l) PROVE job'[p].lots # {}
  BY <1>0, <1>1, <1>5 DEF OpenDetailPage
<1>6. ASSUME NEW r \in Requests, NEW S \in SUBSET Lots, NEW d, SelectForDecision(r, d, S)
      PROVE  job'[p].lots # {}
  BY <1>0, <1>1, <1>6 DEF SelectForDecision
<1>7. ASSUME NEW r \in Requests, NEW l \in Lots, Approve(r, l) \/ Reject(r, l)
      PROVE  job'[p].lots # {}
  <2>1. r \in Procs /\ l \in job[r].lots /\ job' = [job EXCEPT ![r] = Rest(@, l)]
    BY <1>0, <1>7 DEF Approve, Reject
  <2> QED  BY <1>2, <2>1
<1>8. ASSUME NEW q \in Procs, NEW l \in Lots, CloseAuction(q, l) \/ ClosingFails(q, l)
      PROVE  job'[p].lots # {}
  <2>1. l \in job[q].lots /\ job' = [job EXCEPT ![q] = Rest(@, l)]
    BY <1>8 DEF CloseAuction, ClosingFails, ClosesNext
  <2> QED  BY <1>2, <2>1
<1>9. ASSUME \/ \E r \in Requests, l \in Lots : ApprovalRollsBack(r, l)
             \/ \E q \in Procs : Die(q)
      PROVE  job'[p].lots # {}
  BY <1>0, <1>3, <1>9 DEF ApprovalRollsBack, Die
<1>10. ASSUME \/ \E l \in Lots : \/ ClosingDatePasses(l)
                                 \/ \E u \in Users, price \in Prices : Publish(l, u, price)
                                 \/ \E r \in Requests, u \in Users, a \in Prices :
                                       PlaceBid(r, l, u, a)
              \/ \E q \in Procs : Send(q) \/ SendFails(q)
              \/ UNCHANGED vars
       PROVE  job'[p].lots # {}
  <2>1. job' = job
    BY <1>10 DEF ClosingDatePasses, Publish, PlaceBid, Send, SendFails, vars
  <2> QED  BY <1>1, <2>1
<1> QED
  BY <1>4, <1>5, <1>6, <1>7, <1>8, <1>9, <1>10 DEF Next

\* Of the lots of a job one has the highest number: below NumLots numbers have a
\* least distance to it.
LEMMA NewestExists ==
    ASSUME NEW S \in SUBSET Lots, S # {}
    PROVE  \E l \in S : \A k \in S : k <= l
<1> DEFINE T == {NumLots - l : l \in S}
<1>0. NumLots \in Nat /\ \A l \in S : l \in Nat /\ l <= NumLots
  BY ConstantsAssumption DEF Lots
<1>1. T \subseteq Nat /\ T # {}
  <2>1. \A l \in S : NumLots - l \in Nat
    BY <1>0
  <2> QED  BY <2>1
<1>2. PICK x \in T : \A y \in T : ~ (<<y, x>> \in OpToRel(<, Nat))
  BY <1>1, NatLessThanWellFounded, WFMin
<1>3. \A y \in T : ~ (y < x)
  BY <1>1, <1>2 DEF OpToRel
<1>4. PICK l \in S : x = NumLots - l
  OBVIOUS
<1>5. ASSUME NEW k \in S PROVE k <= l
  <2>1. ~ (NumLots - k < x)
    BY <1>3
  <2> QED  BY <1>0, <1>4, <2>1
<1> QED  BY <1>5

\* Somebody who closes lots, and waits for no mail, has a lot to come to; and if
\* that one is still open, hold_payment will not refuse it.
RunsGoOn ==
    \A p \in Procs : job[p].op = "close" /\ outbox[p] = <<>> =>
        \E l \in job[p].lots : /\ ClosesNext(p, l)
                               /\ state[l] = "open" => MayHold(l, FirstBid(bids[l]))

\* A closing run never gets stuck: whatever it loaded and whoever closed lots in
\* the meantime, it comes to the next lot, and a lot still open is never one that
\* is already paid (close_expired_auctions, hold_payment).
THEOREM RunsNeverStall == Spec => []RunsGoOn
<1>1. Init => Busy
  BY DEF Init, Busy, Idle
<1>2. ASSUME IInv, Busy, NEW p \in Procs, job[p].op = "close", outbox[p] = <<>>
      PROVE  \E l \in job[p].lots : /\ ClosesNext(p, l)
                                    /\ state[l] = "open" => MayHold(l, FirstBid(bids[l]))
  <2>1. job[p].lots # {} /\ job[p].lots \in SUBSET Lots
    BY <1>2 DEF Busy, IInv, TypeOK, Job
  <2>2. PICK l \in job[p].lots : \A k \in job[p].lots : k <= l
    BY <2>1, NewestExists
  <2>3. state[l] = "open" => ~HasPayment(l)
    BY <1>2 DEF IInv, PaymentIsTheWinners, BacksTheWinner, HasPayment
  <2> QED  BY <1>2, <2>2, <2>3 DEF ClosesNext, MayHold
<1>3. IInv /\ Busy => RunsGoOn
  BY <1>2 DEF RunsGoOn
<1>4. IInv => TypeOK
  BY DEF IInv
<1> QED  BY <1>1, <1>3, <1>4, BusyStep, Invariance, PTL DEF Spec

\* A run closes nothing it did not list, and comes to no lot twice.
RunsShrink ==
    [][\A p \in Procs : job[p].op = "close" =>
          /\ job'[p].lots \subseteq job[p].lots
          /\ job'[p].lots # {} => job'[p].op = "close"
          /\ \A l \in Lots : CloseAuction(p, l) \/ ClosingFails(p, l) => l \notin job'[p].lots]_vars

\* With RunsNeverStall: after as many commits or failures as lots were expired when
\* it started, a run is over, whatever expires meanwhile.
THEOREM RunsEnd == Spec => RunsShrink
<1>1. ASSUME IInv, [Next]_vars, NEW p \in Procs, job[p].op = "close"
      PROVE  /\ job'[p].lots \subseteq job[p].lots
             /\ job'[p].lots # {} => job'[p].op = "close"
             /\ \A l \in Lots : CloseAuction(p, l) \/ ClosingFails(p, l) => l \notin job'[p].lots
  <2>0. TypeOK /\ job \in [Procs -> Job] /\ Requests \subseteq Procs /\ Cron \in Procs /\ job[p] # Idle
    BY <1>1 DEF IInv, TypeOK, Procs, Idle
  <2>1. ASSUME NEW l \in Lots, CloseAuction(p, l) \/ ClosingFails(p, l)
        PROVE  l \notin job'[p].lots
    <3>1. l \in job[p].lots /\ job'[p] = Rest(job[p], l) /\ job[p] \in Job
      BY <2>0, <2>1 DEF CloseAuction, ClosingFails, ClosesNext
    <3> QED  BY <3>1, RestShape
  <2>2. /\ job'[p].lots \subseteq job[p].lots
        /\ job'[p].lots # {} => job'[p].op = "close"
    BY <1>1, <2>0, JobSteps
  <2> QED  BY <2>1, <2>2
<1>2. IInv /\ [Next]_vars =>
        [\A p \in Procs : job[p].op = "close" =>
          /\ job'[p].lots \subseteq job[p].lots
          /\ job'[p].lots # {} => job'[p].op = "close"
          /\ \A l \in Lots : CloseAuction(p, l) \/ ClosingFails(p, l) => l \notin job'[p].lots]_vars
  BY <1>1
<1> QED  BY <1>2, Invariance, PTL DEF Spec, RunsShrink
=============================================================================
