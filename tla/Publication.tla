---------------------------- MODULE Publication ----------------------------
(***************************************************************************)
(* What a visitor of BidHaus sees of a lot before bidding: its photographs *)
(* and the trust score its approval computed.                              *)
(*                                                                         *)
(* add_photographs counts and numbers inside its transaction, so it is one *)
(* step.  The administration page is two: it is rendered with the          *)
(* photographs of that moment, and what it posts later is about those.     *)
(* Auctions says when a lot is approved, sold or rejected; here any lot    *)
(* without a score may be approved, by a stale page too, and any lot with  *)
(* one may be sold.                                                        *)
(***************************************************************************)
EXTENDS Naturals, FiniteSets, FiniteSetsExt

CONSTANTS
    Lots,            \* the publication requests ever made
    Sellers,         \* their sellers
    Categories,      \* their categories
    Prices,          \* their starting prices
    MaxPhotographs,  \* MAX_PHOTOGRAPHS
    Several,         \* SEVERAL_PHOTOGRAPHS
    Pages,           \* browsers showing a lot's page of the administration
    Answers,         \* what the questions about the account and the text may answer
    Keys,            \* bound: the primary keys of the photographs ever stored
    MaxOrder         \* bound on the orders an administrator types

ASSUME ConstantsAssumption ==
    /\ Prices \subseteq Nat \ {0}
    /\ MaxPhotographs \in Nat \ {0}
    /\ Lots \subseteq Nat
    /\ Answers \subseteq SUBSET {"seller_is_verified", "seller_account_is_established",
                               "description_is_detailed"}
    /\ {Several, MaxOrder} \subseteq Nat
    /\ Keys \subseteq Nat /\ IsFiniteSet(Keys)

VARIABLES
    auctions,  \* the Auction rows: lot -> its seller, category and price
    photos,    \* the Photograph rows: key -> its lot and display_order
    fresh,     \* the keys never used
    sold,      \* the lots with a winning_bid
    scores,    \* the TrustScore rows: lot -> the names of its met factors
    page,      \* page -> the lot it shows and the photographs it was given
    edited,    \* the lots whose photographs an administrator changed
    enlarged   \* those to which an administrator added photographs

vars == <<auctions, photos, fresh, sold, scores, page, edited, enlarged>>

Auction == [seller : Sellers, category : Categories, price : Prices]
Photograph == [lot : Lots, order : Nat]
Factors == {"seller_is_verified", "seller_has_sold_before",
            "seller_account_is_established", "auction_has_several_photographs",
            "description_is_detailed", "price_is_not_far_below_its_category"}
Closed == [lot |-> {}, seen |-> <<>>]

Published == DOMAIN auctions
Of(l) == {k \in DOMAIN photos : photos[k].lot = l}
Orders(l) == {photos[k].order : k \in Of(l)}

\* What f says, and of the elements of g what g says.
Override(f, g) == [x \in DOMAIN f \cup DOMAIN g |-> IF x \in DOMAIN g THEN g[x] ELSE f[x]]

TypeOK ==
    /\ Published \subseteq Lots /\ auctions \in [Published -> Auction]
    /\ DOMAIN photos \subseteq Keys \ fresh /\ photos \in [DOMAIN photos -> Photograph]
    /\ \A k \in DOMAIN photos : photos[k].lot \in Published
    /\ fresh \subseteq Keys
    /\ sold \subseteq DOMAIN scores /\ DOMAIN scores \subseteq Published
    /\ \A l \in DOMAIN scores : scores[l] \subseteq Factors
    /\ enlarged \subseteq edited /\ edited \subseteq Published

Init ==
    /\ auctions = <<>> /\ photos = <<>> /\ scores = <<>>
    /\ fresh = Keys
    /\ sold = {} /\ edited = {} /\ enlarged = {}
    /\ page = [p \in Pages |-> Closed]

-----------------------------------------------------------------------------
(* Uploading *)

\* Mutant: the number of photographs instead of the highest order.
NextOrder_Count(l) == Cardinality(Of(l)) + 1

\* _next_display_order.
NextOrder(l) == IF Of(l) = {} THEN 1 ELSE Max(Orders(l)) + 1

\* Mutant: one too many.
Fits_OneMore(l, n) == n > 0 /\ n <= MaxPhotographs + 1 - Cardinality(Of(l))

\* NoPhotographs, TooManyPhotographs.
Fits(l, n) == n > 0 /\ n <= MaxPhotographs - Cardinality(Of(l))

\* The loop of add_photographs.  full_clean refuses an order already taken,
\* and that undoes the rows of the whole upload.
AddPhotographs(l, n) ==
    LET orders == NextOrder(l)..(NextOrder(l) + n - 1)
        keys == {k \in fresh : Cardinality({j \in fresh : j < k}) < n}
    IN /\ Fits(l, n)
       /\ n <= Cardinality(fresh)
       /\ orders \cap Orders(l) = {}
       /\ photos' = Override(photos, [k \in keys |-> [lot |-> l,
              order |-> NextOrder(l) + Cardinality({j \in keys : j < k})]])
       /\ fresh' = fresh \ keys

\* publish_auction, with the first photographs in its transaction.
Publish(l, auction, n) ==
    /\ l \notin Published
    /\ \A k \in Lots : k < l => k \in Published
    /\ auctions' = Override(auctions, [k \in {l} |-> auction])
    /\ AddPhotographs(l, n)
    /\ UNCHANGED <<sold, scores, page, edited, enlarged>>

\* auction_photographs: any user who is logged in, at any time.
Upload(l, n) ==
    /\ l \in Published
    /\ AddPhotographs(l, n)
    /\ UNCHANGED <<auctions, sold, scores, page, edited, enlarged>>

-----------------------------------------------------------------------------
(* The administration *)

OpenPage(p, l) ==
    /\ page[p] = Closed /\ l \in Published
    /\ page' = [page EXCEPT ![p] = [lot |-> {l}, seen |-> [k \in Of(l) |-> photos[k].order]]]
    /\ UNCHANGED <<auctions, photos, fresh, sold, scores, edited, enlarged>>

ClosePage(p) ==
    /\ page[p] # Closed
    /\ page' = [page EXCEPT ![p] = Closed]
    /\ UNCHANGED <<auctions, photos, fresh, sold, scores, edited, enlarged>>

\* PhotographInline posts an order for each photograph the page was given,
\* marks some for deletion, and adds others: the page offers no empty form past
\* max_num, counting those it was given, but shows all of these.  A photograph
\* gone meanwhile, or an order that is taken, refuses the whole page.
SavePage(p, l, orders, gone, added) ==
    LET seen == DOMAIN page[p].seen
        kept == seen \ gone
        moved == {k \in kept : orders[k] # photos[k].order}
        new == [k \in kept \cup DOMAIN added |->
                   [lot |-> l, order |-> IF k \in kept THEN orders[k] ELSE added[k]]]
    IN /\ page[p].lot = {l}
       /\ seen \subseteq DOMAIN photos
       /\ added # <<>> => Cardinality(seen) + Cardinality(DOMAIN added) <= MaxPhotographs
       /\ \A k \in moved : orders[k] \notin Orders(l)
       /\ \A k \in DOMAIN added : added[k] \notin Orders(l)
       /\ \A j, k \in DOMAIN new : new[j].order = new[k].order => j = k
       /\ photos' = Override([k \in DOMAIN photos \ gone |-> photos[k]], new)
       /\ fresh' = fresh \ DOMAIN added
       /\ edited' = edited \cup {l}
       /\ enlarged' = IF added = <<>> THEN enlarged ELSE enlarged \cup {l}
       /\ page' = [page EXCEPT ![p] = Closed]
       /\ UNCHANGED <<auctions, sold, scores>>

\* The photographs a page may add, under the next keys.
Additions ==
    {<<>>} \cup IF fresh # {} THEN [{Min(fresh)} -> 1..MaxOrder] ELSE {}

-----------------------------------------------------------------------------
(* The trust score *)

\* Mutant: any lot of the seller that was approved will do.
HasSoldBefore_Approved(l) ==
    \E k \in DOMAIN scores \ {l} : auctions[k].seller = auctions[l].seller

\* seller_has_sold_before.
HasSoldBefore(l) == \E k \in sold \ {l} : auctions[k].seller = auctions[l].seller

\* Mutant: the lot itself is averaged too.
Comparable_Itself(l) == {k \in Published : auctions[k].category = auctions[l].category}

\* The lots price_is_not_far_below_its_category compares with, whatever became
\* of them.
Comparable(l) == {k \in Published \ {l} : auctions[k].category = auctions[l].category}

\* starting_price >= average * Decimal("0.4"), multiplied out.
PriceIsNotFarBelow(l) ==
    LET others == Comparable(l)
    IN others # {} => 10 * Cardinality(others) * auctions[l].price
                      >= 4 * MapThenSumSet(LAMBDA k : auctions[k].price, others)

\* The answers of TRUST_FACTORS.  The account and the description may answer
\* anything: `others' is what they do.  The score is the sum of the points.
Met(l, others) ==
    others \cup {f \in Factors :
        \/ f = "seller_has_sold_before" /\ HasSoldBefore(l)
        \/ f = "auction_has_several_photographs" /\ Cardinality(Of(l)) >= Several
        \/ f = "price_is_not_far_below_its_category" /\ PriceIsNotFarBelow(l)}

\* calculate_trust_score, in the transaction of the approval.
Score(l, others) ==
    /\ l \in Published \ DOMAIN scores
    /\ scores' = Override(scores, [k \in {l} |-> Met(l, others)])
    /\ UNCHANGED <<auctions, photos, fresh, sold, page, edited, enlarged>>

\* The lot closes with a winner.
Sell(l) ==
    /\ l \in DOMAIN scores \ sold
    /\ sold' = sold \cup {l}
    /\ UNCHANGED <<auctions, photos, fresh, scores, page, edited, enlarged>>

Next ==
    \/ \E l \in Lots, n \in 1..MaxPhotographs :
        Upload(l, n) \/ \E a \in Auction : Publish(l, a, n)
    \/ \E l \in Lots : Sell(l) \/ \E others \in Answers : Score(l, others)
    \/ \E p \in Pages :
        \/ ClosePage(p)
        \/ \E l \in Lots :
            \/ OpenPage(p, l)
            \/ \E orders \in [DOMAIN page[p].seen -> 1..MaxOrder],
                  gone \in SUBSET DOMAIN page[p].seen, added \in Additions :
                   SavePage(p, l, orders, gone, added)

Spec == Init /\ [][Next]_vars

-----------------------------------------------------------------------------
(* Properties *)

\* A lot has one to MAX_PHOTOGRAPHS photographs in the order they came, until
\* an administrator changes them, and no more than MAX_PHOTOGRAPHS until one
\* adds some on a page opened earlier (auctions/models.py:230-232).
PhotographsFit ==
    \A l \in Published :
        /\ l \notin enlarged => Cardinality(Of(l)) <= MaxPhotographs
        /\ l \notin edited => Of(l) # {} /\ Orders(l) = 1..Cardinality(Of(l))

\* A step that puts n photographs behind those the lot has.
Appends(l, n) ==
    LET new == DOMAIN photos' \ DOMAIN photos
    IN /\ Cardinality(new) = n
       /\ \A k \in new : /\ photos'[k].lot = l
                         /\ \A j \in Of(l) : photos[j].order < photos'[k].order

\* Whatever photographs were deleted, moved or added, on pages opened whenever,
\* an upload that fits is not refused, and puts what it brings behind what the
\* lot has (auctions/services.py:312-330).
UploadsAreTaken ==
    \A l \in Published, n \in 1..Cardinality(fresh) :
        Cardinality(Of(l)) + n <= MaxPhotographs => ENABLED (Upload(l, n) /\ Appends(l, n))

\* Whoever is said to have sold before did: another lot of the same seller has
\* a winner, now and for ever (trust_factors.py:46-53).
SoldFactorIsEarned ==
    \A l \in DOMAIN scores : "seller_has_sold_before" \in scores[l] =>
        \E k \in sold : k # l /\ auctions[k].seller = auctions[l].seller

\* A price is in the range of its category when no other lot there is so dear
\* that the price is under two fifths of it, alone in its category too, and out
\* of it when all are (trust_factors.py:72-91).
PriceFactorIsFair ==
    [][\A l \in DOMAIN scores' \ DOMAIN scores :
          LET others == {k \in Published : k # l /\ auctions[k].category = auctions[l].category}
              dear == {k \in others : 2 * auctions[k].price > 5 * auctions[l].price}
              met == "price_is_not_far_below_its_category" \in scores'[l]
          IN /\ dear = {} => met
             /\ dear = others /\ others # {} => ~met]_vars
=============================================================================
