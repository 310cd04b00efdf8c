----------------------------- MODULE Reputation -----------------------------
(***************************************************************************)
(* The scores the two sides of a sale give each other, on top of the       *)
(* payments of Escrow.tla: a score reads the payment and writes a Rating   *)
(* row, and nothing in escrow reads ratings.  What a score depends on, the *)
(* release of the money, may be written over by a request that loaded the  *)
(* payment earlier.                                                        *)
(***************************************************************************)
EXTENDS Escrow

CONSTANT Raters   \* web workers that serve the rating page, one request each

VARIABLES
    ratings,   \* sale -> its Rating rows, in order, without the scores
    form       \* rater -> the released sale loaded, to be rated by whom

Rating == [rater : Users, rated : Users]
Form == [op : {"rate"}, sale : Sales, user : Users]

RatingTypeOK ==
    /\ ratings \in [Sales -> Seq(Rating)]
    /\ form \in [Raters -> Form \cup {Idle}]

\* find_counterpart.
Counterpart(s, u) == CASE u = buyer[s] -> seller[s]
                       [] u = seller[s] -> buyer[s]
                       [] OTHER -> NoUser

Loads(r, s, u) ==
    /\ form[r] = Idle
    /\ Counterpart(s, u) # NoUser
    /\ form' = [form EXCEPT ![r] = [op |-> "rate", sale |-> s, user |-> u]]
    /\ UNCHANGED <<vars, ratings>>

\* Mutant: is_settled is asked instead of the state.
LoadSettledSale(r, s, u) == Settled(state[s]) /\ Loads(r, s, u)

\* The view loads the payment; its service wants it released.
LoadSale(r, s, u) == state[s] = "released" /\ Loads(r, s, u)

\* Mutant: neither looked for nor constrained.
MayRateAgain(s, u) == TRUE

\* find_rating, asked inside the transaction, and the unique constraint.
MayRate(s, u) == \A i \in DOMAIN ratings[s] : ratings[s][i].rater # u

\* rate_counterpart.
Rate(r) ==
    LET f == form[r] IN
    /\ f # Idle
    /\ MayRate(f.sale, f.user)
    /\ ratings' = [ratings EXCEPT ![f.sale] =
                      Append(@, [rater |-> f.user, rated |-> Counterpart(f.sale, f.user)])]
    /\ form' = [form EXCEPT ![r] = Idle]
    /\ UNCHANGED vars

\* AlreadyRated, a form that is not valid, or the worker dies.
AbandonRating(r) ==
    /\ form[r] # Idle
    /\ form' = [form EXCEPT ![r] = Idle]
    /\ UNCHANGED <<vars, ratings>>

RatingInit == /\ Init
              /\ ratings = [s \in Sales |-> <<>>]
              /\ form = [r \in Raters |-> Idle]

RatingNext ==
    \/ Next /\ UNCHANGED <<ratings, form>>
    \/ \E r \in Raters :
        \/ \E s \in Sales, u \in Users : LoadSale(r, s, u)
        \/ Rate(r)
        \/ AbandonRating(r)

RatingSpec == RatingInit /\ [][RatingNext]_<<vars, ratings, form>>

\* The same when no two requests hold the same payment at the same time; those
\* that score it may overlap with anything.
SerialRatingSpec == RatingInit /\ [][RatingNext /\ Serial']_<<vars, ratings, form>>

-----------------------------------------------------------------------------
(* Properties *)

\* Each side of a sale rates the other at most once, and nobody else does
\* (DBR09, reputation/models.py:45-53).
RatedOnce ==
    \A s \in Sales : \A i, j \in DOMAIN ratings[s] :
        /\ {ratings[s][i].rater, ratings[s][i].rated} = {buyer[s], seller[s]}
        /\ ratings[s][i].rater = ratings[s][j].rater => i = j

\* A sale is rated only if its money went to the seller at some time.
RatedAfterRelease ==
    \A s \in Sales : ratings[s] # <<>> => Reached(s, "released")

\* In serial behaviours, a score and a refund never judge the same sale
\* (reputation/services.py:15-18).
RatedSalesStand ==
    \A s \in Sales : ratings[s] # <<>> => state[s] = "released"
=============================================================================
