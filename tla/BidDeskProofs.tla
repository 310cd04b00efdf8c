--------------------------- MODULE BidDeskProofs ---------------------------
(***************************************************************************)
(* Proofs about BidDesk, for every number of processes, bids, closings and *)
(* attempts. What holds it together is that a transaction owns SQLite's    *)
(* write lock from its first read to its commit (OneTransaction), so that  *)
(* what it read is still what is stored (FreshRead).                       *)
(*                                                                         *)
(* The end of the module is the safety half of BidsAreAnswered: who holds  *)
(* a lock that others wait for can always take its next step, and every    *)
(* step of a bid takes it closer to an answer, whatever the others do.     *)
(***************************************************************************)
EXTENDS BidDesk, TLAPS

Writers == Bids \cup Others

\* Whoever decides holds the write lock, and nobody else does.
OneTransaction ==
    /\ \A w \in Writers : stage[w] = "deciding" <=> writer = w
    /\ \A o \in Others : stage[o] \in {"idle", "deciding", "done"}

\* The open transaction decides on the lot as it is stored.
FreshRead ==
    \A w \in Writers : writer = w =>
        /\ seen[w] = [price |-> price, count |-> Len(rows), isOpen |-> isOpen]
        /\ w \in Others => isOpen

\* No bid is above the price, and the winner is the last bid.
PriceOnTop ==
    /\ \A i \in DOMAIN rows : rows[i].amount <= price
    /\ winner = IF isOpen THEN 0 ELSE Len(rows)

\* Where place_bid is tells whether the bid is stored.
StoredOnCommit ==
    \A b \in Bids :
        /\ stage[b] # "done" => answer[b] = "none"
        /\ stage[b] \in {"idle", "queued", "trying", "deciding"} => Registered(b) = {}
        /\ stage[b] = "mailing" => Registered(b) # {}

IInv ==
    /\ TypeOK
    /\ OneTransaction
    /\ FreshRead
    /\ PriceOnTop
    /\ StoredOnCommit
    /\ OneBidPerProcess
    /\ AnswersAreTrue

-----------------------------------------------------------------------------
(* Every step preserves IInv *)

\* A stored bid has a bidder and an amount (Bid.bidder, Bid.amount).
LEMMA RowShape ==
    ASSUME TypeOK, NEW i \in DOMAIN rows
    PROVE  rows[i].bidder \in Bids /\ rows[i].amount \in Prices
<1>1. rows \in Seq([bidder : Bids, amount : Prices])
  BY DEF TypeOK
<1>2. DEFINE Row == [bidder : Bids, amount : Prices]
<1>3. rows \in Seq(Row)
  BY <1>1
<1> HIDE DEF Row
<1>4. rows[i] \in Row
  BY <1>3
<1> QED  BY <1>4 DEF Row

\* A form is posted: the bid joins the queue.
LEMMA SubmitStep ==
    ASSUME IInv, NEW b \in Bids, NEW a \in Prices, Submit(b, a)
    PROVE  IInv'
<1> USE ConstantsAssumption DEF IInv, Bids, Writers, lot, Unread, Submit
<1>1. TypeOK'
  BY DEF TypeOK, Stages, Lots
<1>2. OneTransaction'
  BY DEF TypeOK, Stages, OneTransaction
<1>3. FreshRead'
  BY DEF TypeOK, Stages, Lots, OneTransaction, FreshRead
<1>4. PriceOnTop'
  BY DEF TypeOK, Stages, Lots, OneTransaction, FreshRead, PriceOnTop
<1>5. OneBidPerProcess'
  BY DEF TypeOK, Stages, OneTransaction, OneBidPerProcess
<1>6. \A c \in Bids : Registered(c)' = Registered(c)
  BY DEF Registered
<1>7. StoredOnCommit'
  BY <1>6, ZenonT(30) DEF TypeOK, Stages, OneTransaction, StoredOnCommit
<1>8. AnswersAreTrue'
  <2> SUFFICES ASSUME NEW c \in Bids
               PROVE  /\ \A i, j \in Registered(c)' : i = j
                      /\ answer'[c] = "registered" => Registered(c)' # {}
                      /\ answer'[c] \in {"refused", "busy"} => Registered(c)' = {}
    BY DEF AnswersAreTrue
  <2>1. Registered(c)' = Registered(c)
    BY <1>6
  <2>2. \A i, j \in Registered(c) : i = j
    BY DEF AnswersAreTrue
  <2>3. /\ answer'[c] = "registered" => Registered(c) # {}
        /\ answer'[c] \in {"refused", "busy"} => Registered(c) = {}
    BY DEF TypeOK, Stages, OneTransaction, StoredOnCommit, AnswersAreTrue
  <2> QED  BY <2>1, <2>2, <2>3
<1> QED  BY <1>1, <1>2, <1>3, <1>4, <1>5, <1>7, <1>8

\* A bid takes BID_WRITE_LOCK.
LEMMA TakeGuardStep ==
    ASSUME IInv, NEW P \in Processes, NEW b \in P, TakeGuard(P, b)
    PROVE  IInv'
<1> USE ConstantsAssumption DEF IInv, Bids, Writers, lot, Unread, TakeGuard
<1>1. TypeOK'
  BY DEF TypeOK, Stages, Lots
<1>2. OneTransaction'
  BY DEF TypeOK, Stages, OneTransaction
<1>3. FreshRead'
  BY DEF TypeOK, Stages, Lots, OneTransaction, FreshRead
<1>4. PriceOnTop'
  BY DEF TypeOK, Stages, Lots, OneTransaction, FreshRead, PriceOnTop
<1>5. OneBidPerProcess'
  BY DEF TypeOK, Stages, OneTransaction, OneBidPerProcess
<1>6. \A c \in Bids : Registered(c)' = Registered(c)
  BY DEF Registered
<1>7. StoredOnCommit'
  BY <1>6, ZenonT(30) DEF TypeOK, Stages, OneTransaction, StoredOnCommit
<1>8. AnswersAreTrue'
  <2> SUFFICES ASSUME NEW c \in Bids
               PROVE  /\ \A i, j \in Registered(c)' : i = j
                      /\ answer'[c] = "registered" => Registered(c)' # {}
                      /\ answer'[c] \in {"refused", "busy"} => Registered(c)' = {}
    BY DEF AnswersAreTrue
  <2>1. Registered(c)' = Registered(c)
    BY <1>6
  <2>2. \A i, j \in Registered(c) : i = j
    BY DEF AnswersAreTrue
  <2>3. /\ answer'[c] = "registered" => Registered(c) # {}
        /\ answer'[c] \in {"refused", "busy"} => Registered(c) = {}
    BY DEF TypeOK, Stages, OneTransaction, StoredOnCommit, AnswersAreTrue
  <2> QED  BY <2>1, <2>2, <2>3
<1> QED  BY <1>1, <1>2, <1>3, <1>4, <1>5, <1>7, <1>8

\* A bid begins its transaction and reads the lot.
LEMMA BeginBidStep ==
    ASSUME IInv, NEW b \in Bids, BeginBid(b)
    PROVE  IInv'
<1> USE ConstantsAssumption DEF IInv, Bids, Writers, lot, Unread, BeginBid, Begin
<1>1. TypeOK'
  BY DEF TypeOK, Stages, Lots
<1>2. OneTransaction'
  BY DEF TypeOK, Stages, OneTransaction
<1>3. FreshRead'
  BY DEF TypeOK, Stages, Lots, OneTransaction, FreshRead
<1>4. PriceOnTop'
  BY DEF TypeOK, Stages, Lots, OneTransaction, FreshRead, PriceOnTop
<1>5. OneBidPerProcess'
  BY DEF TypeOK, Stages, OneTransaction, OneBidPerProcess
<1>6. \A c \in Bids : Registered(c)' = Registered(c)
  BY DEF Registered
<1>7. StoredOnCommit'
  BY <1>6, SMTT(30) DEF TypeOK, Stages, OneTransaction, StoredOnCommit
<1>8. AnswersAreTrue'
  <2> SUFFICES ASSUME NEW c \in Bids
               PROVE  /\ \A i, j \in Registered(c)' : i = j
                      /\ answer'[c] = "registered" => Registered(c)' # {}
                      /\ answer'[c] \in {"refused", "busy"} => Registered(c)' = {}
    BY DEF AnswersAreTrue
  <2>1. Registered(c)' = Registered(c)
    BY <1>6
  <2>2. \A i, j \in Registered(c) : i = j
    BY DEF AnswersAreTrue
  <2>3. /\ answer'[c] = "registered" => Registered(c) # {}
        /\ answer'[c] \in {"refused", "busy"} => Registered(c) = {}
    BY DEF TypeOK, Stages, OneTransaction, StoredOnCommit, AnswersAreTrue
  <2> QED  BY <2>1, <2>2, <2>3
<1> QED  BY <1>1, <1>2, <1>3, <1>4, <1>5, <1>7, <1>8

\* An attempt fails and another one follows.
LEMMA RetriesStep ==
    ASSUME IInv, NEW b \in Bids, Retries(b)
    PROVE  IInv'
<1> USE ConstantsAssumption DEF IInv, Bids, Writers, lot, Unread, Retries, MayFail, MayRetry, End
<1>1. TypeOK'
  BY SMTT(30) DEF TypeOK, Stages, Lots
<1>2. OneTransaction'
  BY DEF TypeOK, Stages, OneTransaction
<1>3. FreshRead'
  BY DEF TypeOK, Stages, Lots, OneTransaction, FreshRead
<1>4. PriceOnTop'
  BY DEF TypeOK, Stages, Lots, OneTransaction, FreshRead, PriceOnTop
<1>5. OneBidPerProcess'
  BY DEF TypeOK, Stages, OneTransaction, OneBidPerProcess
<1>6. \A c \in Bids : Registered(c)' = Registered(c)
  BY DEF Registered
<1>7. StoredOnCommit'
  BY <1>6 DEF TypeOK, Stages, OneTransaction, StoredOnCommit
<1>8. AnswersAreTrue'
  <2> SUFFICES ASSUME NEW c \in Bids
               PROVE  /\ \A i, j \in Registered(c)' : i = j
                      /\ answer'[c] = "registered" => Registered(c)' # {}
                      /\ answer'[c] \in {"refused", "busy"} => Registered(c)' = {}
    BY DEF AnswersAreTrue
  <2>1. Registered(c)' = Registered(c)
    BY <1>6
  <2>2. \A i, j \in Registered(c) : i = j
    BY DEF AnswersAreTrue
  <2>3. /\ answer'[c] = "registered" => Registered(c) # {}
        /\ answer'[c] \in {"refused", "busy"} => Registered(c) = {}
    BY DEF TypeOK, Stages, OneTransaction, StoredOnCommit, AnswersAreTrue
  <2> QED  BY <2>1, <2>2, <2>3
<1> QED  BY <1>1, <1>2, <1>3, <1>4, <1>5, <1>7, <1>8

\* The last attempt fails.
LEMMA GivesUpStep ==
    ASSUME IInv, NEW P \in Processes, NEW b \in P, GivesUp(P, b)
    PROVE  IInv'
<1> USE ConstantsAssumption DEF IInv, Bids, Writers, lot, Unread, GivesUp, Leave, MayFail, End
<1>1. TypeOK'
  BY DEF TypeOK, Stages, Lots
<1>2. OneTransaction'
  BY DEF TypeOK, Stages, OneTransaction
<1>3. FreshRead'
  BY DEF TypeOK, Stages, Lots, OneTransaction, FreshRead
<1>4. PriceOnTop'
  BY DEF TypeOK, Stages, Lots, OneTransaction, FreshRead, PriceOnTop
<1>5. OneBidPerProcess'
  BY DEF TypeOK, Stages, OneTransaction, OneBidPerProcess
<1>6. \A c \in Bids : Registered(c)' = Registered(c)
  BY DEF Registered
<1>7. StoredOnCommit'
  BY <1>6, ZenonT(30) DEF TypeOK, Stages, OneTransaction, StoredOnCommit
<1>8. AnswersAreTrue'
  <2> SUFFICES ASSUME NEW c \in Bids
               PROVE  /\ \A i, j \in Registered(c)' : i = j
                      /\ answer'[c] = "registered" => Registered(c)' # {}
                      /\ answer'[c] \in {"refused", "busy"} => Registered(c)' = {}
    BY DEF AnswersAreTrue
  <2>1. Registered(c)' = Registered(c)
    BY <1>6
  <2>2. \A i, j \in Registered(c) : i = j
    BY DEF AnswersAreTrue
  <2>3. /\ answer'[c] = "registered" => Registered(c) # {}
        /\ answer'[c] \in {"refused", "busy"} => Registered(c) = {}
    BY DEF TypeOK, Stages, OneTransaction, StoredOnCommit, AnswersAreTrue
  <2> QED  BY <2>1, <2>2, <2>3
<1> QED  BY <1>1, <1>2, <1>3, <1>4, <1>5, <1>7, <1>8

\* A bid does not beat the lot it read.
LEMMA RefuseStep ==
    ASSUME IInv, NEW P \in Processes, NEW b \in P, Refuse(P, b)
    PROVE  IInv'
<1> USE ConstantsAssumption DEF IInv, Bids, Writers, lot, Unread, Refuse, Leave, End
<1>1. TypeOK'
  BY DEF TypeOK, Stages, Lots
<1>2. OneTransaction'
  BY DEF TypeOK, Stages, OneTransaction
<1>3. FreshRead'
  BY DEF TypeOK, Stages, Lots, OneTransaction, FreshRead
<1>4. PriceOnTop'
  BY DEF TypeOK, Stages, Lots, OneTransaction, FreshRead, PriceOnTop
<1>5. OneBidPerProcess'
  BY DEF TypeOK, Stages, OneTransaction, OneBidPerProcess
<1>6. \A c \in Bids : Registered(c)' = Registered(c)
  BY DEF Registered
<1>7. StoredOnCommit'
  BY <1>6, ZenonT(30) DEF TypeOK, Stages, OneTransaction, StoredOnCommit
<1>8. AnswersAreTrue'
  <2> SUFFICES ASSUME NEW c \in Bids
               PROVE  /\ \A i, j \in Registered(c)' : i = j
                      /\ answer'[c] = "registered" => Registered(c)' # {}
                      /\ answer'[c] \in {"refused", "busy"} => Registered(c)' = {}
    BY DEF AnswersAreTrue
  <2>1. Registered(c)' = Registered(c)
    BY <1>6
  <2>2. \A i, j \in Registered(c) : i = j
    BY DEF AnswersAreTrue
  <2>3. /\ answer'[c] = "registered" => Registered(c) # {}
        /\ answer'[c] \in {"refused", "busy"} => Registered(c) = {}
    BY DEF TypeOK, Stages, OneTransaction, StoredOnCommit, AnswersAreTrue
  <2> QED  BY <2>1, <2>2, <2>3
<1> QED  BY <1>1, <1>2, <1>3, <1>4, <1>5, <1>7, <1>8

\* The bid that commits beats the price stored at that moment.
LEMMA AcceptedBid ==
    ASSUME IInv, NEW b \in Bids, Commit(b)
    PROVE  /\ isOpen /\ winner = 0
           /\ price \in Nat /\ Prices \subseteq Nat
           /\ amount[b] \in Prices /\ price < amount[b]
           /\ writer = b
<1> USE ConstantsAssumption DEF IInv, Writers, Commit, Beats
<1>1. writer = b
  BY DEF OneTransaction
<1>2. seen[b] = [price |-> price, count |-> Len(rows), isOpen |-> isOpen]
  BY <1>1, Zenon DEF FreshRead
<1>3. price \in Nat /\ amount[b] \in Prices \cup {0} /\ Prices \subseteq Nat
  BY DEF TypeOK
<1>4. isOpen
  <2>1. seen[b].isOpen
    OBVIOUS
  <2>2. isOpen \in BOOLEAN
    BY DEF TypeOK
  <2>3. seen[b].isOpen = isOpen
    BY <1>2, <2>2
  <2> QED  BY <2>1, <2>3
<1>5. amount[b] > price
  BY <1>2
<1>6. amount[b] # 0
  BY <1>3, <1>5
<1>7. winner = 0
  BY <1>4 DEF PriceOnTop
<1> QED  BY <1>1, <1>3, <1>4, <1>5, <1>6, <1>7

\* A bid is stored; it is the last one and sits on the price.
LEMMA CommitStep ==
    ASSUME IInv, NEW b \in Bids, Commit(b)
    PROVE  IInv'
<1> USE ConstantsAssumption DEF IInv, Bids, Writers, lot, Unread, Commit, Beats, End
<1>1. /\ isOpen /\ price < amount[b] /\ amount[b] \in Prices
      /\ price \in Nat /\ Prices \subseteq Nat
      /\ writer = b
  BY AcceptedBid
<1>2. /\ rows \in Seq([bidder : Bids, amount : Prices])
      /\ DOMAIN rows' = 1..(Len(rows) + 1)
      /\ \A i \in DOMAIN rows : rows'[i] = rows[i]
      /\ rows'[Len(rows) + 1] = [bidder |-> b, amount |-> amount[b]]
  BY <1>1 DEF TypeOK
<1>3. TypeOK'
  <2>1. rows' \in Seq([bidder : Bids, amount : Prices])
    BY <1>1, <1>2
  <2>2. price' \in Nat
    BY <1>1
  <2>3. stage' \in [Bids \cup Others -> Stages] /\ seen' \in [Bids \cup Others -> Lots]
    BY DEF TypeOK, Stages, Lots
  <2> QED  BY <2>1, <2>2, <2>3 DEF TypeOK
<1>4. OneTransaction'
  BY DEF TypeOK, Stages, OneTransaction
<1>5. FreshRead'
  BY DEF TypeOK, OneTransaction, FreshRead
<1>6. PriceOnTop'
  <2>1. \A i \in DOMAIN rows : rows[i].amount \in Nat /\ rows[i].amount <= price
    <3> SUFFICES ASSUME NEW i \in DOMAIN rows
                 PROVE  rows[i].amount \in Nat /\ rows[i].amount <= price
      OBVIOUS
    <3> QED  BY <1>1, RowShape DEF PriceOnTop
  <2>2. \A i \in DOMAIN rows' : rows'[i].amount <= price'
    <3> SUFFICES ASSUME NEW i \in DOMAIN rows' PROVE rows'[i].amount <= price'
      OBVIOUS
    <3>1. CASE i \in DOMAIN rows
      <4>1. rows'[i] = rows[i] /\ rows[i].amount \in Nat /\ rows[i].amount <= price
        BY <3>1, <1>2, <2>1
      <4>2. price' = amount[b] /\ amount[b] \in Nat
        BY <1>1
      <4> QED  BY <4>1, <4>2, <1>1
    <3>2. CASE i = Len(rows) + 1
      <4>1. rows'[i].amount = amount[b]
        BY <3>2, <1>2
      <4>2. price' = amount[b] /\ amount[b] \in Nat
        BY <1>1
      <4> QED  BY <4>1, <4>2
    <3>3. DOMAIN rows = 1..Len(rows) /\ Len(rows) \in Nat
      BY <1>2
    <3> QED  BY <3>1, <3>2, <3>3, <1>2
  <2> QED  BY <1>1, <2>2 DEF PriceOnTop
<1>7. OneBidPerProcess'
  BY DEF TypeOK, Stages, OneTransaction, OneBidPerProcess
<1>8. Registered(b) = {} /\ Registered(b)' = {Len(rows) + 1}
  <2>1. Registered(b) = {}
    BY DEF StoredOnCommit
  <2> QED  BY <1>2, <2>1 DEF Registered
<1>9. \A c \in Bids \ {b} : Registered(c)' = Registered(c)
  BY <1>2 DEF Registered
<1>10. StoredOnCommit'
  <2> SUFFICES ASSUME NEW c \in Bids
               PROVE  /\ stage'[c] # "done" => answer'[c] = "none"
                      /\ stage'[c] \in {"idle", "queued", "trying", "deciding"} => Registered(c)' = {}
                      /\ stage'[c] = "mailing" => Registered(c)' # {}
    BY DEF StoredOnCommit
  <2>1. CASE c = b
    BY <2>1, <1>8 DEF TypeOK, StoredOnCommit
  <2>2. CASE c # b
    <3>1. stage'[c] = stage[c] /\ Registered(c)' = Registered(c)
      BY <2>2, <1>9 DEF TypeOK
    <3> QED  BY <3>1 DEF StoredOnCommit
  <2> QED  BY <2>1, <2>2
<1>11. AnswersAreTrue'
  <2> SUFFICES ASSUME NEW c \in Bids
               PROVE  /\ \A i, j \in Registered(c)' : i = j
                      /\ answer'[c] = "registered" => Registered(c)' # {}
                      /\ answer'[c] \in {"refused", "busy"} => Registered(c)' = {}
    BY DEF AnswersAreTrue
  <2>1. CASE c = b
    BY <2>1, <1>8 DEF TypeOK, StoredOnCommit
  <2>2. CASE c # b
    <3>1. Registered(c)' = Registered(c)
      BY <2>2, <1>9
    <3>2. \A i, j \in Registered(c) : i = j
      BY DEF AnswersAreTrue
    <3>3. /\ answer'[c] = "registered" => Registered(c) # {}
          /\ answer'[c] \in {"refused", "busy"} => Registered(c) = {}
      BY DEF AnswersAreTrue
    <3> QED  BY <3>1, <3>2, <3>3
  <2> QED  BY <2>1, <2>2
<1> QED  BY <1>3, <1>4, <1>5, <1>6, <1>7, <1>10, <1>11

\* The view is told that the bid is registered.
LEMMA AnswerStep ==
    ASSUME IInv, NEW P \in Processes, NEW b \in P, Answer(P, b)
    PROVE  IInv'
<1> USE ConstantsAssumption DEF IInv, Bids, Writers, lot, Unread, Answer, Leave
<1>1. TypeOK'
  BY DEF TypeOK, Stages, Lots
<1>2. OneTransaction'
  BY DEF TypeOK, Stages, OneTransaction
<1>3. FreshRead'
  BY DEF TypeOK, Stages, Lots, OneTransaction, FreshRead
<1>4. PriceOnTop'
  BY DEF TypeOK, Stages, Lots, OneTransaction, FreshRead, PriceOnTop
<1>5. OneBidPerProcess'
  BY DEF TypeOK, Stages, OneTransaction, OneBidPerProcess
<1>6. \A c \in Bids : Registered(c)' = Registered(c)
  BY DEF Registered
<1>7. StoredOnCommit'
  BY <1>6 DEF TypeOK, Stages, OneTransaction, StoredOnCommit
<1>8. AnswersAreTrue'
  <2> SUFFICES ASSUME NEW c \in Bids
               PROVE  /\ \A i, j \in Registered(c)' : i = j
                      /\ answer'[c] = "registered" => Registered(c)' # {}
                      /\ answer'[c] \in {"refused", "busy"} => Registered(c)' = {}
    BY DEF AnswersAreTrue
  <2>1. Registered(c)' = Registered(c)
    BY <1>6
  <2>2. \A i, j \in Registered(c) : i = j
    BY DEF AnswersAreTrue
  <2>3. /\ answer'[c] = "registered" => Registered(c) # {}
        /\ answer'[c] \in {"refused", "busy"} => Registered(c) = {}
    BY DEF TypeOK, Stages, OneTransaction, StoredOnCommit, AnswersAreTrue
  <2> QED  BY <2>1, <2>2, <2>3
<1> QED  BY <1>1, <1>2, <1>3, <1>4, <1>5, <1>7, <1>8

\* A closing begins its transaction and reads the bids.
LEMMA BeginClosingStep ==
    ASSUME IInv, NEW o \in Others, BeginClosing(o)
    PROVE  IInv'
<1> USE ConstantsAssumption DEF IInv, Bids, Writers, lot, Unread, BeginClosing, Begin
<1>1. TypeOK'
  BY DEF TypeOK, Stages, Lots
<1>2. OneTransaction'
  BY DEF TypeOK, Stages, OneTransaction
<1>3. FreshRead'
  BY DEF TypeOK, Stages, Lots, OneTransaction, FreshRead
<1>4. PriceOnTop'
  BY DEF TypeOK, Stages, Lots, OneTransaction, FreshRead, PriceOnTop
<1>5. OneBidPerProcess'
  BY DEF TypeOK, Stages, OneTransaction, OneBidPerProcess
<1>6. \A c \in Bids : Registered(c)' = Registered(c)
  BY DEF Registered
<1>7. StoredOnCommit'
  BY <1>6, SMTT(30) DEF TypeOK, Stages, OneTransaction, StoredOnCommit
<1>8. AnswersAreTrue'
  <2> SUFFICES ASSUME NEW c \in Bids
               PROVE  /\ \A i, j \in Registered(c)' : i = j
                      /\ answer'[c] = "registered" => Registered(c)' # {}
                      /\ answer'[c] \in {"refused", "busy"} => Registered(c)' = {}
    BY DEF AnswersAreTrue
  <2>1. Registered(c)' = Registered(c)
    BY <1>6
  <2>2. \A i, j \in Registered(c) : i = j
    BY DEF AnswersAreTrue
  <2>3. /\ answer'[c] = "registered" => Registered(c) # {}
        /\ answer'[c] \in {"refused", "busy"} => Registered(c) = {}
    BY DEF TypeOK, Stages, OneTransaction, StoredOnCommit, AnswersAreTrue
  <2> QED  BY <2>1, <2>2, <2>3
<1> QED  BY <1>1, <1>2, <1>3, <1>4, <1>5, <1>7, <1>8

\* A closing is stored.
LEMMA CommitClosingStep ==
    ASSUME IInv, NEW o \in Others, CommitClosing(o)
    PROVE  IInv'
<1> USE ConstantsAssumption DEF IInv, Bids, Writers, lot, Unread, CommitClosing, End
<1>1. TypeOK'
  BY DEF TypeOK, Stages, Lots
<1>2. OneTransaction'
  BY DEF TypeOK, Stages, OneTransaction
<1>3. FreshRead'
  BY DEF TypeOK, Stages, Lots, OneTransaction, FreshRead
<1>4. PriceOnTop'
  BY DEF TypeOK, Stages, Lots, OneTransaction, FreshRead, PriceOnTop
<1>5. OneBidPerProcess'
  BY DEF TypeOK, Stages, OneTransaction, OneBidPerProcess
<1>6. \A c \in Bids : Registered(c)' = Registered(c)
  BY DEF Registered
<1>7. StoredOnCommit'
  BY <1>6 DEF TypeOK, Stages, OneTransaction, StoredOnCommit
<1>8. AnswersAreTrue'
  <2> SUFFICES ASSUME NEW c \in Bids
               PROVE  /\ \A i, j \in Registered(c)' : i = j
                      /\ answer'[c] = "registered" => Registered(c)' # {}
                      /\ answer'[c] \in {"refused", "busy"} => Registered(c)' = {}
    BY DEF AnswersAreTrue
  <2>1. Registered(c)' = Registered(c)
    BY <1>6
  <2>2. \A i, j \in Registered(c) : i = j
    BY DEF AnswersAreTrue
  <2>3. /\ answer'[c] = "registered" => Registered(c) # {}
        /\ answer'[c] \in {"refused", "busy"} => Registered(c) = {}
    BY DEF TypeOK, Stages, OneTransaction, StoredOnCommit, AnswersAreTrue
  <2> QED  BY <2>1, <2>2, <2>3
<1> QED  BY <1>1, <1>2, <1>3, <1>4, <1>5, <1>7, <1>8

\* A closing is undone.
LEMMA ClosingFailsStep ==
    ASSUME IInv, NEW o \in Others, ClosingFails(o)
    PROVE  IInv'
<1> USE ConstantsAssumption DEF IInv, Bids, Writers, lot, Unread, ClosingFails, End
<1>1. TypeOK'
  BY DEF TypeOK, Stages, Lots
<1>2. OneTransaction'
  BY DEF TypeOK, Stages, OneTransaction
<1>3. FreshRead'
  BY DEF TypeOK, Stages, Lots, OneTransaction, FreshRead
<1>4. PriceOnTop'
  BY DEF TypeOK, Stages, Lots, OneTransaction, FreshRead, PriceOnTop
<1>5. OneBidPerProcess'
  BY DEF TypeOK, Stages, OneTransaction, OneBidPerProcess
<1>6. \A c \in Bids : Registered(c)' = Registered(c)
  BY DEF Registered
<1>7. StoredOnCommit'
  BY <1>6 DEF TypeOK, Stages, OneTransaction, StoredOnCommit
<1>8. AnswersAreTrue'
  <2> SUFFICES ASSUME NEW c \in Bids
               PROVE  /\ \A i, j \in Registered(c)' : i = j
                      /\ answer'[c] = "registered" => Registered(c)' # {}
                      /\ answer'[c] \in {"refused", "busy"} => Registered(c)' = {}
    BY DEF AnswersAreTrue
  <2>1. Registered(c)' = Registered(c)
    BY <1>6
  <2>2. \A i, j \in Registered(c) : i = j
    BY DEF AnswersAreTrue
  <2>3. /\ answer'[c] = "registered" => Registered(c) # {}
        /\ answer'[c] \in {"refused", "busy"} => Registered(c) = {}
    BY DEF TypeOK, Stages, OneTransaction, StoredOnCommit, AnswersAreTrue
  <2> QED  BY <2>1, <2>2, <2>3
<1> QED  BY <1>1, <1>2, <1>3, <1>4, <1>5, <1>7, <1>8

\* A web process goes with its bids, its lock and its transaction.
LEMMA DieStep ==
    ASSUME IInv, NEW P \in Processes, Die(P)
    PROVE  IInv'
<1> USE ConstantsAssumption DEF IInv, Bids, Writers, lot, Unread, Die
<1>1. TypeOK'
  BY DEF TypeOK, Stages, Lots
<1>2. OneTransaction'
  <2>1. ASSUME NEW w \in Writers
        PROVE  stage'[w] = "deciding" <=> writer' = w
    <3>1. CASE w \in P
      BY <3>1 DEF TypeOK, Stages, OneTransaction
    <3>2. CASE w \notin P
      BY <3>2 DEF TypeOK, Stages, OneTransaction
    <3> QED  BY <3>1, <3>2
  <2>2. \A o \in Others : stage'[o] = stage[o]
    BY DEF TypeOK
  <2> QED  BY <2>1, <2>2 DEF OneTransaction
<1>3. FreshRead'
  BY DEF TypeOK, Stages, Lots, OneTransaction, FreshRead
<1>4. PriceOnTop'
  BY DEF TypeOK, Stages, Lots, OneTransaction, FreshRead, PriceOnTop
<1>5. OneBidPerProcess'
  BY DEF TypeOK, Stages, OneTransaction, OneBidPerProcess
<1>6. \A c \in Bids : Registered(c)' = Registered(c)
  BY DEF Registered
<1>7. StoredOnCommit'
  BY <1>6 DEF TypeOK, Stages, OneTransaction, StoredOnCommit
<1>8. AnswersAreTrue'
  <2> SUFFICES ASSUME NEW c \in Bids
               PROVE  /\ \A i, j \in Registered(c)' : i = j
                      /\ answer'[c] = "registered" => Registered(c)' # {}
                      /\ answer'[c] \in {"refused", "busy"} => Registered(c)' = {}
    BY DEF AnswersAreTrue
  <2>1. Registered(c)' = Registered(c)
    BY <1>6
  <2>2. \A i, j \in Registered(c) : i = j
    BY DEF AnswersAreTrue
  <2>3. /\ answer'[c] = "registered" => Registered(c) # {}
        /\ answer'[c] \in {"refused", "busy"} => Registered(c) = {}
    BY DEF TypeOK, Stages, OneTransaction, StoredOnCommit, AnswersAreTrue
  <2> QED  BY <2>1, <2>2, <2>3
<1> QED  BY <1>1, <1>2, <1>3, <1>4, <1>5, <1>7, <1>8

\* Nothing changes.
LEMMA StutterStep ==
    ASSUME IInv, UNCHANGED vars
    PROVE  IInv'
<1> USE DEF IInv, vars, lot
<1>1. TypeOK' /\ OneTransaction' /\ FreshRead' /\ PriceOnTop' /\ OneBidPerProcess'
  BY DEF TypeOK, OneTransaction, FreshRead, PriceOnTop, OneBidPerProcess
<1>2. StoredOnCommit' /\ AnswersAreTrue'
  BY DEF StoredOnCommit, AnswersAreTrue, Registered
<1> QED  BY <1>1, <1>2

\* An open lot without bids satisfies IInv.
LEMMA InitIInv == Init => IInv
<1> SUFFICES ASSUME Init PROVE IInv
  OBVIOUS
<1> USE ConstantsAssumption DEF Init
<1>1. TypeOK /\ OneTransaction /\ FreshRead /\ PriceOnTop /\ OneBidPerProcess
  BY DEF TypeOK, Stages, Lots, Unread, Writers, Bids, OneTransaction, FreshRead, PriceOnTop,
         OneBidPerProcess
<1>2. StoredOnCommit /\ AnswersAreTrue
  BY DEF StoredOnCommit, AnswersAreTrue, Registered
<1> QED  BY <1>1, <1>2 DEF IInv

\* Every step preserves IInv.
LEMMA NextIInv == IInv /\ [Next]_vars => IInv'
<1> SUFFICES ASSUME IInv, [Next]_vars PROVE IInv'
  OBVIOUS
<1>1. ASSUME NEW b \in Bids, Bidding(b) PROVE IInv'
  <2>1. CASE BeginBid(b) \/ Retries(b) \/ Commit(b)
    BY <2>1, BeginBidStep, RetriesStep, CommitStep
  <2>2. ASSUME NEW P \in Processes, Refuse(P, b) \/ Answer(P, b) \/ GivesUp(P, b)
        PROVE  IInv'
    <3>1. b \in P
      BY <2>2 DEF Refuse, Answer, GivesUp, Leave
    <3> QED  BY <2>2, <3>1, RefuseStep, AnswerStep, GivesUpStep
  <2> QED  BY <1>1, <2>1, <2>2 DEF Bidding
<1>2. ASSUME NEW b \in Bids, NEW a \in Prices, Submit(b, a) PROVE IInv'
  BY <1>2, SubmitStep
<1>3. ASSUME NEW P \in Processes, Die(P) \/ \E b \in P : TakeGuard(P, b) PROVE IInv'
  BY <1>3, DieStep, TakeGuardStep
<1>4. ASSUME NEW o \in Others, BeginClosing(o) \/ CommitClosing(o) \/ ClosingFails(o)
      PROVE  IInv'
  BY <1>4, BeginClosingStep, CommitClosingStep, ClosingFailsStep
<1>5. CASE UNCHANGED vars
  BY <1>5, StutterStep
<1> QED  BY <1>1, <1>2, <1>3, <1>4, <1>5 DEF Next

-----------------------------------------------------------------------------
(* The theorems *)

\* The inductive invariant holds of place_bid and of the closings.
THEOREM Invariance == Spec => []IInv
BY InitIInv, NextIInv, PTL DEF Spec

\* Every variable keeps its type; in particular no bid is tried more than
\* BID_ATTEMPTS times (auctions/services.py:260).
THEOREM TypeCorrect == Spec => []TypeOK
<1>1. IInv => TypeOK
  BY DEF IInv
<1> QED  BY <1>1, Invariance, PTL

\* Past the queue there is one bid of each process (auctions/services.py:259).
THEOREM GuardCorrect == Spec => []OneBidPerProcess
<1>1. IInv => OneBidPerProcess
  BY DEF IInv
<1> QED  BY <1>1, Invariance, PTL

\* What the bidder is told is what the database holds (auctions/services.py:261-265).
THEOREM AnswerCorrect == Spec => []AnswersAreTrue
<1>1. IInv => AnswersAreTrue
  BY DEF IInv
<1> QED  BY <1>1, Invariance, PTL

-----------------------------------------------------------------------------
(* Refinement of AscendingSale *)

\* An open lot without bids is an ascending sale that has not begun.
LEMMA DeskInit == Init => Sale!Init
BY DEF Init, Sale!Init, Offers, Sales

\* A bid that commits raises the sale.
LEMMA CommitRaises ==
    ASSUME IInv, NEW b \in Bids, Commit(b)
    PROVE  Sale!Next
<1> USE ConstantsAssumption DEF IInv
<1>1. /\ isOpen /\ winner = 0 /\ price < amount[b] /\ amount[b] \in Prices
      /\ price \in Nat /\ Prices \subseteq Nat
  BY AcceptedBid
<1>2. ~Sale!Sold(Lot)
  BY <1>1 DEF Sale!Sold, Sales
<1>3. \A i \in DOMAIN rows : rows[i].amount < amount[b]
  <2>1. ASSUME NEW i \in DOMAIN rows PROVE rows[i].amount < amount[b]
    <3>1. rows[i].amount \in Nat
      BY RowShape
    <3>2. rows[i].amount <= price /\ amount[b] \in Nat
      BY <1>1 DEF PriceOnTop
    <3> QED  BY <3>1, <3>2, <1>1
  <2> QED  BY <2>1
<1>4. Offers[Lot] = rows
  BY DEF Offers
<1>5. Offers' = [Offers EXCEPT ![Lot] = Append(@, [bidder |-> b, amount |-> amount[b]])]
  BY <1>4 DEF Commit, Offers
<1>6. Sales' = Sales
  BY <1>1 DEF Commit, Sales
<1>7. Sale!Raise(Lot, b, amount[b])
  BY <1>2, <1>3, <1>4, <1>5, <1>6 DEF Sale!Raise
<1> QED  BY <1>1, <1>7 DEF Sale!Next

\* A closing that commits knocks the lot down to the last bid, if any.
LEMMA ClosingKnocksDown ==
    ASSUME IInv, NEW o \in Others, CommitClosing(o)
    PROVE  [Sale!Next]_<<Offers, Sales>>
<1> USE ConstantsAssumption DEF IInv
<1>1. winner = 0 /\ winner' = Len(rows) /\ rows' = rows
  <2>1. writer = o /\ o \in Writers
    BY DEF CommitClosing, OneTransaction, Writers
  <2>2. isOpen
    BY <2>1 DEF FreshRead
  <2>3. seen[o] = [price |-> price, count |-> Len(rows), isOpen |-> isOpen]
    BY <2>1, Zenon DEF FreshRead
  <2>4. winner = 0
    BY <2>2 DEF PriceOnTop
  <2>5. seen[o].count = Len(rows)
    BY <2>3
  <2> QED  BY <2>4, <2>5 DEF CommitClosing
<1>2. Offers' = Offers /\ Offers[Lot] = rows /\ Sales = {}
  BY <1>1 DEF Offers, Sales
<1>3. CASE Len(rows) = 0
  BY <1>1, <1>2, <1>3 DEF Sales
<1>4. CASE Len(rows) # 0
  <2>1. rows # <<>> /\ Len(rows) \in DOMAIN rows
    BY <1>4 DEF TypeOK
  <2>2. rows[Len(rows)].bidder # Owner
    BY <2>1, RowShape
  <2>3. ~Sale!Sold(Lot)
    BY <1>2 DEF Sale!Sold
  <2>4. Sales' = Sales \cup {[auction |-> Lot, seller |-> Owner,
                              buyer |-> rows[Len(rows)].bidder,
                              amount |-> rows[Len(rows)].amount]}
    BY <1>1, <1>2, <1>4 DEF Sales
  <2>5. Sale!KnockDown(Lot, Owner)
    BY <1>2, <2>1, <2>2, <2>3, <2>4 DEF Sale!KnockDown, Sale!Last
  <2> QED  BY <2>5 DEF Sale!Next
<1> QED  BY <1>3, <1>4

\* Everything else leaves bids and winner alone.
LEMMA DeskStep == IInv /\ [Next]_vars => [Sale!Next]_<<Offers, Sales>>
<1> SUFFICES ASSUME IInv, [Next]_vars PROVE [Sale!Next]_<<Offers, Sales>>
  OBVIOUS
<1>1. ASSUME rows' = rows, winner' = winner PROVE Offers' = Offers /\ Sales' = Sales
  BY <1>1 DEF Offers, Sales
<1>2. ASSUME NEW b \in Bids, Bidding(b) PROVE [Sale!Next]_<<Offers, Sales>>
  <2>1. CASE Commit(b)
    BY <2>1, CommitRaises
  <2>2. CASE ~Commit(b)
    <3>1. rows' = rows /\ winner' = winner
      BY <1>2, <2>2 DEF Bidding, BeginBid, Retries, Refuse, Answer, GivesUp, lot
    <3> QED  BY <3>1, <1>1
  <2> QED  BY <2>1, <2>2
<1>3. ASSUME NEW o \in Others, BeginClosing(o) \/ CommitClosing(o) \/ ClosingFails(o)
      PROVE  [Sale!Next]_<<Offers, Sales>>
  <2>1. CASE CommitClosing(o)
    BY <2>1, ClosingKnocksDown
  <2>2. CASE BeginClosing(o) \/ ClosingFails(o)
    <3>1. rows' = rows /\ winner' = winner
      BY <2>2 DEF BeginClosing, ClosingFails, lot
    <3> QED  BY <3>1, <1>1
  <2> QED  BY <1>3, <2>1, <2>2
<1>4. CASE \/ \E b \in Bids, a \in Prices : Submit(b, a)
           \/ \E P \in Processes : Die(P) \/ \E b \in P : TakeGuard(P, b)
           \/ UNCHANGED vars
  <2>1. rows' = rows /\ winner' = winner
    BY <1>4 DEF Submit, Die, TakeGuard, vars, lot
  <2> QED  BY <2>1, <1>1
<1> QED  BY <1>2, <1>3, <1>4 DEF Next

\* Statement by statement, bids and closings implement one ascending sale: this
\* is what lets Auctions.tla take place_bid as one step.
THEOREM Refinement == Spec => ImplementsSale
BY DeskInit, DeskStep, Invariance, PTL DEF Spec, ImplementsSale, Sale!Spec

-----------------------------------------------------------------------------
(* Nobody waits for ever for a lock nobody will leave *)

\* The lock of a process is in the hands of one of its bids, which is past the
\* queue and not yet answered: no path of place_bid leaves it behind.
GuardIsHeld ==
    \A P \in Processes : guard[P] # Nobody =>
        guard[P] \in P /\ stage[guard[P]] \in {"trying", "deciding", "mailing"}

\* Moving a bid within the stages that hold the lock changes nothing here.
LEMMA HolderStays ==
    ASSUME IInv, GuardIsHeld, UNCHANGED guard, NEW w \in Writers,
           NEW st \in {"trying", "deciding", "mailing"},
           stage' = [stage EXCEPT ![w] = st]
    PROVE  GuardIsHeld'
BY DEF IInv, TypeOK, GuardIsHeld

\* A bid that ends gives its process's lock back, and no other.
LEMMA LeaverLeaves ==
    ASSUME IInv, GuardIsHeld, NEW P \in Processes, NEW b \in P, NEW told, Leave(P, b, told)
    PROVE  GuardIsHeld'
<1> SUFFICES ASSUME NEW Q \in Processes, guard'[Q] # Nobody
             PROVE  guard'[Q] \in Q /\ stage'[guard'[Q]] \in {"trying", "deciding", "mailing"}
  BY DEF GuardIsHeld
<1>1. Q # P /\ guard'[Q] = guard[Q]
  BY DEF Leave, IInv, TypeOK
<1>2. guard[Q] \in Q /\ stage[guard[Q]] \in {"trying", "deciding", "mailing"}
  BY <1>1 DEF GuardIsHeld
<1>3. guard[Q] # b
  BY <1>1, <1>2, ConstantsAssumption
<1> QED  BY <1>1, <1>2, <1>3 DEF Leave, IInv, TypeOK, Bids

LEMMA HolderStep == IInv /\ GuardIsHeld /\ [Next]_vars => GuardIsHeld'
<1> SUFFICES ASSUME IInv, GuardIsHeld, [Next]_vars PROVE GuardIsHeld'
  OBVIOUS
<1>0. TypeOK
  BY DEF IInv
<1>1. ASSUME NEW b \in Bids, Bidding(b) PROVE GuardIsHeld'
  <2>1. CASE BeginBid(b) \/ Retries(b) \/ Commit(b)
    BY <2>1, HolderStays DEF Writers, BeginBid, Begin, Retries, Commit
  <2>2. ASSUME NEW P \in Processes, Refuse(P, b) \/ Answer(P, b) \/ GivesUp(P, b)
        PROVE  GuardIsHeld'
    <3>1. PICK told : Leave(P, b, told)
      BY <2>2 DEF Refuse, Answer, GivesUp
    <3>2. b \in P
      BY <3>1 DEF Leave
    <3> QED  BY <3>1, <3>2, LeaverLeaves
  <2> QED  BY <1>1, <2>1, <2>2 DEF Bidding
<1>2. ASSUME NEW b \in Bids, NEW a \in Prices, Submit(b, a) PROVE GuardIsHeld'
  BY <1>0, <1>2 DEF Submit, GuardIsHeld, TypeOK
<1>3. ASSUME NEW P \in Processes, NEW b \in P, TakeGuard(P, b) PROVE GuardIsHeld'
  <2>1. b \in Bids /\ stage[b] = "queued"
    BY <1>3 DEF Bids, TakeGuard
  <2>2. stage' = [stage EXCEPT ![b] = "trying"] /\ guard' = [guard EXCEPT ![P] = b]
    BY <1>3 DEF TakeGuard
  <2> QED  BY <1>0, <2>1, <2>2 DEF GuardIsHeld, TypeOK
<1>4. ASSUME NEW P \in Processes, Die(P) PROVE GuardIsHeld'
  <2> SUFFICES ASSUME NEW Q \in Processes, guard'[Q] # Nobody
               PROVE  guard'[Q] \in Q /\ stage'[guard'[Q]] \in {"trying", "deciding", "mailing"}
    BY DEF GuardIsHeld
  <2>1. Q # P /\ guard'[Q] = guard[Q]
    BY <1>0, <1>4 DEF Die, TypeOK
  <2>2. guard[Q] \in Q /\ stage[guard[Q]] \in {"trying", "deciding", "mailing"}
    BY <2>1 DEF GuardIsHeld
  <2>3. guard[Q] \notin P /\ guard[Q] \in Bids
    BY <2>1, <2>2, ConstantsAssumption DEF Bids
  <2> QED  BY <1>0, <1>4, <2>1, <2>2, <2>3 DEF Die, TypeOK
<1>5. ASSUME NEW o \in Others, BeginClosing(o) \/ CommitClosing(o) \/ ClosingFails(o)
      PROVE  GuardIsHeld'
  <2>1. o \notin Bids /\ UNCHANGED guard
    BY <1>5, ConstantsAssumption DEF BeginClosing, CommitClosing, ClosingFails
  <2>2. \A b \in Bids : stage'[b] = stage[b]
    BY <1>0, <1>5, <2>1 DEF BeginClosing, Begin, CommitClosing, ClosingFails, TypeOK
  <2> QED  BY <1>0, <2>1, <2>2 DEF GuardIsHeld, TypeOK
<1>6. CASE UNCHANGED vars
  BY <1>6 DEF vars, GuardIsHeld
<1> QED  BY <1>1, <1>2, <1>3, <1>4, <1>5, <1>6 DEF Next

\* Whoever holds a lock has a step of its own to take, so that no wait is a
\* deadlock: SQLite's lock is held by a transaction that decides and will commit,
\* refuse or fail, the lock of a process by a bid of it that is past the queue,
\* and nobody has both locks unless its transaction is the open one.
THEOREM HoldersAct ==
    Spec => [](/\ GuardIsHeld
               /\ writer # Nobody => stage[writer] = "deciding"
               /\ \A P \in Processes : writer \in P => guard[P] = writer)
<1>1. Init => GuardIsHeld
  BY DEF Init, GuardIsHeld
<1>2. ASSUME IInv
      PROVE  /\ writer # Nobody => stage[writer] = "deciding"
             /\ \A P \in Processes : writer \in P => guard[P] = writer
  <2>1. writer # Nobody => stage[writer] = "deciding"
    BY <1>2 DEF IInv, TypeOK, OneTransaction, Writers
  <2>2. ASSUME NEW P \in Processes, writer \in P PROVE guard[P] = writer
    <3>1. writer \in Bids /\ writer # Nobody
      BY <2>2, ConstantsAssumption DEF Bids
    <3> QED  BY <1>2, <2>1, <2>2, <3>1 DEF IInv, OneBidPerProcess
  <2> QED  BY <2>1, <2>2
<1> QED  BY <1>1, <1>2, HolderStep, Invariance, PTL DEF Spec

-----------------------------------------------------------------------------
(* Every bid is finite *)

\* The steps a bid may still take, at most: two for each attempt it has left, and
\* those of the queue and of the mail.
Left(st, t) ==
    CASE st = "idle" -> 2 * MaxAttempts + 4
      [] st = "queued" -> 2 * MaxAttempts + 3
      [] st = "trying" -> 2 * (MaxAttempts - t) + 2
      [] st = "deciding" -> 2 * (MaxAttempts - t) + 1
      [] st = "mailing" -> 1
      [] st = "done" -> 0
Rank(b) == Left(stage[b], tries[b])

LEMMA LeftIs ==
    ASSUME NEW t
    PROVE  /\ Left("idle", t) = 2 * MaxAttempts + 4
           /\ Left("queued", t) = 2 * MaxAttempts + 3
           /\ Left("trying", t) = 2 * (MaxAttempts - t) + 2
           /\ Left("deciding", t) = 2 * (MaxAttempts - t) + 1
           /\ Left("mailing", t) = 1
           /\ Left("done", t) = 0
BY Zenon DEF Left

\* The rank of a bid that is not answered is positive.
LEMMA RankIs ==
    ASSUME TypeOK, NEW b \in Bids
    PROVE  /\ Rank(b) \in Nat /\ tries[b] \in 0..(MaxAttempts - 1) /\ MaxAttempts \in Nat
           /\ stage[b] # "done" => Rank(b) > 0
<1>1. stage[b] \in Stages /\ tries[b] \in 0..(MaxAttempts - 1) /\ MaxAttempts \in Nat
  BY ConstantsAssumption DEF TypeOK
<1> QED  BY <1>1, LeftIs DEF Rank, Stages

LEMMA RankTyped == TypeOK => \A c \in Bids : Rank(c) \in Nat
BY RankIs

\* A step of a bid lowers its rank and leaves the others' alone.
LEMMA RankFalls ==
    ASSUME IInv, NEW b \in Bids, Bidding(b) \/ \E P \in Processes : TakeGuard(P, b)
    PROVE  /\ Rank(b)' < Rank(b)
           /\ \A c \in Bids \ {b} : Rank(c)' = Rank(c)
<1>0. TypeOK /\ stage[b] \in Stages /\ tries[b] \in 0..(MaxAttempts - 1) /\ MaxAttempts \in Nat
      /\ stage \in [Bids \cup Others -> Stages] /\ tries \in [Bids -> 0..(MaxAttempts - 1)]
  BY RankIs DEF IInv, TypeOK
<1>1. CASE BeginBid(b)
  <2>1. stage[b] = "trying" /\ stage' = [stage EXCEPT ![b] = "deciding"] /\ tries' = tries
    BY <1>1 DEF BeginBid, Begin
  <2> QED  BY <1>0, <2>1, LeftIs DEF Rank
<1>2. CASE Retries(b)
  <2>1. /\ stage[b] \in {"trying", "deciding"} /\ stage' = [stage EXCEPT ![b] = "trying"]
        /\ tries' = [tries EXCEPT ![b] = @ + 1]
    BY <1>2 DEF Retries, MayFail
  <2> QED  BY <1>0, <2>1, LeftIs DEF Rank
<1>3. CASE Commit(b)
  <2>1. stage[b] = "deciding" /\ stage' = [stage EXCEPT ![b] = "mailing"] /\ tries' = tries
    BY <1>3 DEF Commit
  <2> QED  BY <1>0, <2>1, LeftIs DEF Rank
<1>4. ASSUME NEW P \in Processes, Refuse(P, b) \/ Answer(P, b) \/ GivesUp(P, b)
      PROVE  /\ Rank(b)' < Rank(b)
             /\ \A c \in Bids \ {b} : Rank(c)' = Rank(c)
  <2>1. /\ stage[b] \in {"trying", "deciding", "mailing"}
        /\ stage' = [stage EXCEPT ![b] = "done"] /\ tries' = [tries EXCEPT ![b] = 0]
    BY <1>4 DEF Refuse, Answer, GivesUp, MayFail, Leave
  <2> QED  BY <1>0, <2>1, LeftIs DEF Rank
<1>5. ASSUME NEW P \in Processes, TakeGuard(P, b)
      PROVE  /\ Rank(b)' < Rank(b)
             /\ \A c \in Bids \ {b} : Rank(c)' = Rank(c)
  <2>1. stage[b] = "queued" /\ stage' = [stage EXCEPT ![b] = "trying"] /\ tries' = tries
    BY <1>5 DEF TakeGuard
  <2> QED  BY <1>0, <2>1, LeftIs DEF Rank
<1> QED  BY <1>1, <1>2, <1>3, <1>4, <1>5 DEF Bidding

\* Every step a bid takes brings its answer nearer, and no step of anybody else,
\* a closing, another bid or the death of a process, takes it further away:
\* place_bid ends after 2 * BID_ATTEMPTS + 3 steps, whatever it meets.
BidsAdvance ==
    [][\A b \in Bids :
          /\ Rank(b)' <= Rank(b)
          /\ Bidding(b) \/ (\E P \in Processes : TakeGuard(P, b)) => Rank(b)' < Rank(b)]_vars

LEMMA AdvanceStep ==
    ASSUME IInv, [Next]_vars, NEW b \in Bids
    PROVE  /\ Rank(b)' <= Rank(b)
           /\ Bidding(b) \/ (\E P \in Processes : TakeGuard(P, b)) => Rank(b)' < Rank(b)
<1>0. TypeOK /\ Rank(b) \in Nat /\ MaxAttempts \in Nat
      /\ stage \in [Bids \cup Others -> Stages] /\ tries \in [Bids -> 0..(MaxAttempts - 1)]
  BY RankIs DEF IInv, TypeOK
<1>1. Bidding(b) \/ (\E P \in Processes : TakeGuard(P, b)) => Rank(b)' < Rank(b)
  BY RankFalls
<1>2. (TypeOK => \A c \in Bids : Rank(c) \in Nat)'
  BY RankTyped, PTL
<1>3. TypeOK'
  BY NextIInv DEF IInv
<1>4. ASSUME NEW c \in Bids, Bidding(c) \/ \E P \in Processes : TakeGuard(P, c)
      PROVE  Rank(b)' <= Rank(b)
  <2>1. CASE c = b
    BY <1>0, <1>1, <1>2, <1>3, <1>4, <2>1
  <2>2. CASE c # b
    <3>1. Rank(b)' = Rank(b)
      BY <1>4, <2>2, RankFalls
    <3> QED  BY <1>0, <3>1
  <2> QED  BY <2>1, <2>2
<1>5. ASSUME NEW c \in Bids, NEW a \in Prices, Submit(c, a) PROVE Rank(b)' <= Rank(b)
  <2>1. stage[c] = "idle" /\ stage' = [stage EXCEPT ![c] = "queued"] /\ tries' = tries
    BY <1>5 DEF Submit
  <2> QED  BY <1>0, <2>1, LeftIs DEF Rank
<1>6. ASSUME NEW P \in Processes, Die(P) PROVE Rank(b)' <= Rank(b)
  <2>1. \/ stage'[b] = "done"
        \/ stage'[b] = stage[b] /\ tries'[b] = tries[b]
    BY <1>0, <1>6 DEF Die
  <2>2. Rank(b)' = 0 \/ Rank(b)' = Rank(b)
    BY <2>1, LeftIs DEF Rank
  <2> QED  BY <1>0, <2>2
<1>7. ASSUME NEW o \in Others, BeginClosing(o) \/ CommitClosing(o) \/ ClosingFails(o)
      PROVE  Rank(b)' <= Rank(b)
  <2>1. o \notin Bids /\ tries' = tries
    BY <1>7, ConstantsAssumption DEF BeginClosing, CommitClosing, ClosingFails
  <2>2. stage'[b] = stage[b]
    BY <1>0, <1>7, <2>1 DEF BeginClosing, Begin, CommitClosing, ClosingFails
  <2> QED  BY <1>0, <2>1, <2>2 DEF Rank
<1>8. CASE UNCHANGED vars
  <2>1. stage' = stage /\ tries' = tries
    BY <1>8 DEF vars
  <2>2. Rank(b)' = Rank(b)
    BY <2>1 DEF Rank
  <2> QED  BY <1>0, <1>1, <2>2
<1>9. \A P \in Processes : \A c \in P : c \in Bids
  BY DEF Bids
<1> QED  BY <1>1, <1>4, <1>5, <1>6, <1>7, <1>8, <1>9 DEF Next

\* No bid is tried, slept over or mailed about for ever.
THEOREM BidsEnd == Spec => BidsAdvance
<1>1. IInv /\ [Next]_vars =>
        [\A b \in Bids :
            /\ Rank(b)' <= Rank(b)
            /\ Bidding(b) \/ (\E P \in Processes : TakeGuard(P, b)) => Rank(b)' < Rank(b)]_vars
  BY AdvanceStep
<1> QED  BY <1>1, Invariance, PTL DEF Spec, BidsAdvance
=============================================================================
