-------------------------- MODULE ReputationProofs --------------------------
(***************************************************************************)
(* Proofs about Reputation, on top of those about Escrow: a score keeps    *)
(* what its request read about the payment, because the history of a       *)
(* payment only grows and its two sides never change.                      *)
(***************************************************************************)
EXTENDS Reputation, EscrowProofs

\* A form waits for a sale that was released, filled in by one of its sides.
FormsFit ==
    \A r \in Raters : form[r] # Idle =>
        /\ Reached(form[r].sale, "released")
        /\ Counterpart(form[r].sale, form[r].user) # NoUser

RInv == /\ IInv
        /\ RatingTypeOK
        /\ FormsFit
        /\ RatedOnce
        /\ RatedAfterRelease

-----------------------------------------------------------------------------
(* What steps of Escrow leave as it was *)

\* Entries stay, and the sides of a payment that has one stay too.
LEMMA SalesStay ==
    ASSUME IInv, [Next]_vars, NEW s \in Sales, Reached(s, "released")
    PROVE  Reached(s, "released")' /\ buyer'[s] = buyer[s] /\ seller'[s] = seller[s]
<1>1. PICK i \in DOMAIN history[s] : history[s][i].to = "released"
  BY DEF Reached
<1>2. state[s] # "none" /\ history[s] \in Seq(Change)
  BY <1>1 DEF IInv, HistoryEndsInState, TypeOK
<1>3. Reached(s, "released")'
  <2>1. CASE UNCHANGED <<payment, dispute>>
    BY <2>1 DEF payment, Reached
  <2>2. ASSUME NEW g \in Sales, NEW from \in States, NEW to \in States \ {"none"},
               NEW actor \in Users \cup {NoUser}, Gains(g, from, to, actor)
        PROVE  Reached(s, "released")'
    <3>1. Len(history'[s]) >= Len(history[s]) /\ history'[s][i] = history[s][i]
      BY <1>1, <2>2, GrowStep DEF IInv
    <3>2. TypeOK'
      BY TypeStep DEF IInv
    <3>3. i \in DOMAIN history'[s]
      BY <1>1, <1>2, <3>1, <3>2 DEF TypeOK
    <3> QED  BY <1>1, <3>1, <3>3 DEF Reached
  <2> QED  BY <2>1, <2>2, GainsOrStays DEF IInv
<1>4. buyer'[s] = buyer[s] /\ seller'[s] = seller[s]
  <2>1. CASE UNCHANGED <<payment, claim>>
    BY <2>1 DEF payment
  <2>2. ASSUME NEW t \in Sales, NEW b, NEW v, HoldPayment(t, b, v)
        PROVE  buyer'[s] = buyer[s] /\ seller'[s] = seller[s]
    <3>1. t # s
      BY <1>2, <2>2 DEF HoldPayment
    <3> QED  BY <2>2, <3>1 DEF HoldPayment, IInv, TypeOK
  <2>3. ASSUME NEW r \in Requests,
               \/ ConfirmReception(r) \/ OpenDispute(r)
               \/ \E n \in 1..MaxEvidence : AttachEvidence(r, n)
               \/ \E outcome \in Outcomes : ResolveDispute(r, outcome)
        PROVE  buyer' = buyer /\ seller' = seller
    BY <2>3 DEF ConfirmReception, OpenDispute, AttachEvidence, ResolveDispute, payment
  <2> QED  BY <2>1, <2>2, <2>3, Steps DEF IInv
<1> QED  BY <1>3, <1>4

\* Who scores whom.
LEMMA Sides ==
    ASSUME IInv, NEW s \in Sales, NEW u \in Users, Counterpart(s, u) # NoUser
    PROVE  Counterpart(s, u) \in Users /\ {u, Counterpart(s, u)} = {buyer[s], seller[s]}
<1>1. buyer[s] \in Users \cup {NoUser} /\ seller[s] \in Users \cup {NoUser}
  BY DEF IInv, TypeOK
<1>2. \/ u = buyer[s] /\ Counterpart(s, u) = seller[s]
      \/ u = seller[s] /\ Counterpart(s, u) = buyer[s]
  BY DEF Counterpart
<1> QED  BY <1>1, <1>2

-----------------------------------------------------------------------------
(* The inductive invariant *)

LEMMA RatingInitHolds == RatingInit => RInv
<1> SUFFICES ASSUME RatingInit PROVE RInv
  OBVIOUS
<1>1. IInv
  BY InitIInv DEF RatingInit
<1>2. RatingTypeOK /\ FormsFit /\ RatedOnce /\ RatedAfterRelease
  BY DEF RatingInit, RatingTypeOK, FormsFit, RatedOnce, RatedAfterRelease
<1> QED  BY <1>1, <1>2 DEF RInv

\* A step of escrow, or a stutter of it.
LEMMA EscrowMoves ==
    ASSUME RInv, [Next]_vars, UNCHANGED <<ratings, form>> PROVE RInv'
<1>1. IInv /\ IInv'
  BY NextIInv DEF RInv
<1>2. RatingTypeOK'
  BY DEF RInv, RatingTypeOK
<1>3. FormsFit'
  <2> SUFFICES ASSUME NEW r \in Raters, form[r] # Idle
               PROVE  /\ Reached(form[r].sale, "released")'
                      /\ (Counterpart(form[r].sale, form[r].user) # NoUser)'
    BY DEF FormsFit
  <2>1. form[r].sale \in Sales
    BY DEF RInv, RatingTypeOK, Form
  <2> DEFINE s == form[r].sale
  <2>2. Reached(s, "released") /\ Counterpart(s, form[r].user) # NoUser /\ s' = s
    BY DEF RInv, FormsFit
  <2>3. buyer'[s] = buyer[s] /\ seller'[s] = seller[s] /\ form' = form
    BY <1>1, <2>1, <2>2, SalesStay
  <2>4. Reached(s, "released")'
    <3> DEFINE t == form[r].sale
    <3>1. \A x \in Sales : Reached(x, "released") => (\E i \in DOMAIN history'[x] : history'[x][i].to = "released")
      BY <1>1, SalesStay DEF Reached
    <3> QED  BY <2>1, <2>2, <2>3, <3>1 DEF Reached
  <2>5. (Counterpart(form[r].sale, form[r].user) # NoUser)'
    BY <2>2, <2>3 DEF Counterpart
  <2> QED  BY <2>4, <2>5
<1>4. RatedAfterRelease'
  BY <1>1, SalesStay DEF RInv, RatedAfterRelease, Reached
<1>5. RatedOnce'
  <2> SUFFICES ASSUME NEW s \in Sales, NEW i \in DOMAIN ratings[s], NEW j \in DOMAIN ratings[s]
               PROVE  /\ {ratings[s][i].rater, ratings[s][i].rated} = {buyer'[s], seller'[s]}
                      /\ ratings[s][i].rater = ratings[s][j].rater => i = j
    BY DEF RatedOnce
  <2>1. ratings[s] # <<>>
    OBVIOUS
  <2>2. buyer'[s] = buyer[s] /\ seller'[s] = seller[s]
    BY <1>1, <2>1, SalesStay DEF RInv, RatedAfterRelease
  <2> QED  BY <2>2 DEF RInv, RatedOnce
<1> QED  BY <1>1, <1>2, <1>3, <1>4, <1>5 DEF RInv

\* Opening the rating page, and leaving it.
LEMMA FormMoves ==
    ASSUME RInv, NEW r \in Raters,
           \/ \E s \in Sales, u \in Users : LoadSale(r, s, u)
           \/ AbandonRating(r)
    PROVE  RInv'
<1>1. UNCHANGED <<vars, ratings>>
  BY DEF LoadSale, Loads, AbandonRating
<1>2. IInv'
  <2>1. [Next]_vars
    BY <1>1
  <2> QED  BY <2>1, NextIInv DEF RInv
<1>3. RatedOnce' /\ RatedAfterRelease'
  BY <1>1, SMTT(30) DEF RInv, RatedOnce, RatedAfterRelease, Reached, vars, payment
<1>4. PICK f \in Form \cup {Idle} :
        /\ form' = [form EXCEPT ![r] = f]
        /\ f # Idle => Reached(f.sale, "released") /\ Counterpart(f.sale, f.user) # NoUser
  <2>1. CASE AbandonRating(r)
    BY <2>1 DEF AbandonRating
  <2>2. ASSUME NEW s \in Sales, NEW u \in Users, LoadSale(r, s, u)
        PROVE  \E f \in Form \cup {Idle} :
                 /\ form' = [form EXCEPT ![r] = f]
                 /\ f # Idle => Reached(f.sale, "released") /\ Counterpart(f.sale, f.user) # NoUser
    <3> DEFINE f == [op |-> "rate", sale |-> s, user |-> u]
    <3>1. f \in Form /\ f.sale = s /\ f.user = u
      BY DEF Form
    <3>2. state[s] = "released" /\ Counterpart(s, u) # NoUser /\ form' = [form EXCEPT ![r] = f]
      BY <2>2 DEF LoadSale, Loads
    <3>3. history[s] \in Seq(Change) /\ history[s] # <<>>
          /\ history[s][Len(history[s])].to = "released"
      BY <3>2 DEF RInv, IInv, TypeOK, HistoryEndsInState
    <3>4. Reached(s, "released")
      BY <3>3 DEF Reached
    <3> HIDE DEF f
    <3> QED  BY <3>1, <3>2, <3>4
  <2> QED  BY <2>1, <2>2
<1>5. RatingTypeOK'
  BY <1>1, <1>4 DEF RInv, RatingTypeOK
<1>6. FormsFit'
  <2> SUFFICES ASSUME NEW q \in Raters, form'[q] # Idle
               PROVE  /\ Reached(form'[q].sale, "released")
                      /\ Counterpart(form'[q].sale, form'[q].user) # NoUser
    BY <1>1 DEF FormsFit, Reached, Counterpart, vars, payment
  <2> QED  BY <1>4 DEF RInv, RatingTypeOK, FormsFit
<1> QED  BY <1>2, <1>3, <1>5, <1>6 DEF RInv

\* Writing a score.
LEMMA RateMoves ==
    ASSUME RInv, NEW r \in Raters, Rate(r) PROVE RInv'
<1> DEFINE s == form[r].sale
           u == form[r].user
<1>1. form[r] \in Form /\ s \in Sales /\ u \in Users
  BY DEF RInv, RatingTypeOK, Rate, Form
<1>2. Reached(s, "released") /\ Counterpart(s, u) # NoUser
  BY DEF RInv, FormsFit, Rate
<1>3. Counterpart(s, u) \in Users /\ {u, Counterpart(s, u)} = {buyer[s], seller[s]}
  BY <1>1, <1>2, Sides DEF RInv
<1>4. UNCHANGED vars /\ form' = [form EXCEPT ![r] = Idle]
  BY DEF Rate
<1> DEFINE new == [rater |-> u, rated |-> Counterpart(s, u)]
<1>5. new \in Rating /\ {new.rater, new.rated} = {buyer[s], seller[s]} /\ new.rater = u
  BY <1>1, <1>3 DEF Rating
<1>6. ratings' = [ratings EXCEPT ![s] = Append(ratings[s], new)]
      /\ \A i \in DOMAIN ratings[s] : ratings[s][i].rater # u
  BY DEF Rate, MayRate
<1> HIDE DEF new, s, u
<1>7. PICK n \in Nat :
        /\ ratings' \in [Sales -> Seq(Rating)]
        /\ DOMAIN ratings[s] = 1..n /\ DOMAIN ratings'[s] = 1..(n + 1)
        /\ ratings'[s][n + 1] = new
        /\ \A i \in 1..n : ratings'[s][i] = ratings[s][i]
        /\ \A t \in Sales \ {s} : ratings'[t] = ratings[t]
  <2>1. ratings[s] \in Seq(Rating) /\ ratings \in [Sales -> Seq(Rating)]
    BY <1>1 DEF RInv, RatingTypeOK
  <2> QED  BY <1>1, <1>5, <1>6, <2>1
<1>8. IInv'
  <2>1. [Next]_vars
    BY <1>4
  <2> QED  BY <2>1, NextIInv DEF RInv
<1>9. RatingTypeOK'
  BY <1>4, <1>7 DEF RInv, RatingTypeOK
<1>10. FormsFit'
  BY <1>4 DEF RInv, RatingTypeOK, FormsFit, Reached, Counterpart, vars, payment
<1>11. RatedAfterRelease'
  <2>1. ASSUME NEW t \in Sales, ratings'[t] # <<>> PROVE Reached(t, "released")
    BY <1>2, <1>7, <2>1 DEF RInv, RatedAfterRelease
  <2> QED  BY <1>4, <2>1 DEF RatedAfterRelease, Reached, vars, payment
<1>12. RatedOnce'
  <2> SUFFICES ASSUME NEW t \in Sales, NEW i \in DOMAIN ratings'[t], NEW j \in DOMAIN ratings'[t]
               PROVE  /\ {ratings'[t][i].rater, ratings'[t][i].rated} = {buyer[t], seller[t]}
                      /\ ratings'[t][i].rater = ratings'[t][j].rater => i = j
    BY <1>4 DEF RatedOnce, vars, payment
  <2>0. \A v \in Sales : \A k, l \in DOMAIN ratings[v] :
           /\ {ratings[v][k].rater, ratings[v][k].rated} = {buyer[v], seller[v]}
           /\ ratings[v][k].rater = ratings[v][l].rater => k = l
    BY DEF RInv, RatedOnce
  <2>1. CASE t # s
    <3>1. ratings'[t] = ratings[t]
      BY <1>7, <2>1
    <3> QED  BY <2>0, <3>1
  <2>2. CASE t = s
    <3>1. i \in 1..n \/ i = n + 1
      BY <1>7, <2>2
    <3>2. j \in 1..n \/ j = n + 1
      BY <1>7, <2>2
    <3>3. \A k \in 1..n : /\ ratings'[s][k] = ratings[s][k] /\ ratings[s][k].rater # u
                          /\ {ratings[s][k].rater, ratings[s][k].rated} = {buyer[s], seller[s]}
                          /\ \A l \in 1..n : ratings[s][k].rater = ratings[s][l].rater => k = l
      <4>1. s \in Sales /\ DOMAIN ratings[s] = 1..n
        BY <1>1, <1>7 DEF s
      <4>2. \A k, l \in 1..n : /\ {ratings[s][k].rater, ratings[s][k].rated} = {buyer[s], seller[s]}
                               /\ ratings[s][k].rater = ratings[s][l].rater => k = l
        BY <2>0, <4>1
      <4>3. \A k \in 1..n : ratings'[s][k] = ratings[s][k] /\ ratings[s][k].rater # u
        BY <1>6, <1>7
      <4> QED  BY <4>2, <4>3
    <3> QED  BY <1>5, <1>7, <2>2, <3>1, <3>2, <3>3
  <2> QED  BY <2>1, <2>2
<1> QED  BY <1>8, <1>9, <1>10, <1>11, <1>12 DEF RInv

LEMMA RatingNextHolds == RInv /\ [RatingNext]_<<vars, ratings, form>> => RInv'
<1> SUFFICES ASSUME RInv, [RatingNext]_<<vars, ratings, form>> PROVE RInv'
  OBVIOUS
<1>1. CASE UNCHANGED <<vars, ratings, form>>
  BY <1>1, EscrowMoves
<1>2. CASE Next /\ UNCHANGED <<ratings, form>>
  BY <1>2, EscrowMoves
<1>3. ASSUME NEW r \in Raters,
             \/ \E s \in Sales, u \in Users : LoadSale(r, s, u)
             \/ Rate(r)
             \/ AbandonRating(r)
      PROVE  RInv'
  BY <1>3, FormMoves, RateMoves
<1> QED  BY <1>1, <1>2, <1>3 DEF RatingNext

-----------------------------------------------------------------------------
(* However requests overlap *)

\* The inductive invariant of Reputation.
THEOREM RatingInvariance == RatingSpec => []RInv
BY RatingInitHolds, RatingNextHolds, PTL DEF RatingSpec

\* Each side of a sale rates the other at most once, and nobody else does
\* (rate_counterpart, and the constraint on Rating).
THEOREM ScoresCorrect == RatingSpec => []RatedOnce
<1>1. RInv => RatedOnce
  BY DEF RInv
<1> QED  BY <1>1, RatingInvariance, PTL

\* Only a sale whose money went to the seller at some time is rated.
THEOREM ScoresLate == RatingSpec => []RatedAfterRelease
<1>1. RInv => RatedAfterRelease
  BY DEF RInv
<1> QED  BY <1>1, RatingInvariance, PTL

-----------------------------------------------------------------------------
(* Serial behaviours *)

\* A form, and a score, are of a sale that still is released.
ReleasedStands ==
    /\ \A r \in Raters : form[r] # Idle => state[form[r].sale] = "released"
    /\ RatedSalesStand

\* Money that was released stays so while a form is filled in and after it.
LEMMA StandsStep ==
    ASSUME SInv, RInv, ReleasedStands, [RatingNext]_<<vars, ratings, form>>
    PROVE  ReleasedStands'
<1>1. form \in [Raters -> Form \cup {Idle}] /\ ratings \in [Sales -> Seq(Rating)]
  BY DEF RInv, RatingTypeOK
<1>2. CASE [Next]_vars /\ UNCHANGED <<ratings, form>>
  <2>1. \A s \in Sales : state[s] = "released" => state'[s] = "released"
    <3>1. ASSUME NEW s \in Sales, NEW to \in States, Moves(s, to)
          PROVE  \A t \in Sales : state[t] = "released" => state'[t] = "released"
      BY <3>1 DEF Moves, SInv, TypeOK
    <3> QED  BY <1>2, <3>1, MovesOrStays DEF money
  <2>2. \A r \in Raters : form[r] # Idle => form[r].sale \in Sales
    BY <1>1 DEF Form
  <2> QED  BY <1>2, <2>1, <2>2 DEF ReleasedStands, RatedSalesStand
<1>3. ASSUME NEW r \in Raters, NEW s \in Sales, NEW u \in Users, LoadSale(r, s, u)
      PROVE  ReleasedStands'
  BY <1>1, <1>3 DEF LoadSale, Loads, ReleasedStands, RatedSalesStand, vars, payment
<1>4. ASSUME NEW r \in Raters, Rate(r) PROVE ReleasedStands'
  <2>1. form[r].sale \in Sales /\ state[form[r].sale] = "released"
    BY <1>1, <1>4 DEF Rate, Form, ReleasedStands
  <2>2. \A s \in Sales \ {form[r].sale} : ratings'[s] = ratings[s]
    BY <1>1, <1>4 DEF Rate
  <2>3. \A q \in Raters : form'[q] \in {form[q], Idle}
    BY <1>1, <1>4 DEF Rate
  <2> QED  BY <1>4, <2>1, <2>2, <2>3
           DEF Rate, ReleasedStands, RatedSalesStand, vars, payment
<1>5. ASSUME NEW r \in Raters, AbandonRating(r) PROVE ReleasedStands'
  BY <1>1, <1>5 DEF AbandonRating, ReleasedStands, RatedSalesStand, vars, payment
<1> QED  BY <1>2, <1>3, <1>4, <1>5 DEF RatingNext

\* When no two requests hold the same payment, a score and a refund never judge the
\* same sale.
THEOREM ScoresStand == SerialRatingSpec => []RatedSalesStand
<1>1. SerialRatingSpec => []SInv
  <2>1. RatingNext => [Next]_vars
    BY DEF RatingNext, LoadSale, Loads, Rate, AbandonRating
  <2>2. [RatingNext /\ Serial']_<<vars, ratings, form>> => [Next /\ Serial']_vars
    BY <2>1
  <2>3. RatingInit => Init
    BY DEF RatingInit
  <2> QED  BY <2>2, <2>3, SerialInvariance, PTL DEF SerialRatingSpec, SerialSpec
<1>2. SerialRatingSpec => []RInv
  BY RatingInvariance, PTL DEF SerialRatingSpec, RatingSpec
<1>3. RatingInit => ReleasedStands
  BY DEF RatingInit, ReleasedStands, RatedSalesStand
<1>5. ReleasedStands => RatedSalesStand
  BY DEF ReleasedStands
<1>6. SInv /\ RInv /\ ReleasedStands /\ [RatingNext /\ Serial']_<<vars, ratings, form>>
      => ReleasedStands'
  BY StandsStep
<1> QED  BY <1>1, <1>2, <1>3, <1>5, <1>6, PTL DEF SerialRatingSpec
=============================================================================
