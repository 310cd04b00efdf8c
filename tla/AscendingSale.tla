--------------------------- MODULE AscendingSale ---------------------------
(***************************************************************************)
(* What the auction house promises about one lot and its money, with no    *)
(* request, mail, cron run or failure in sight: offers only rise, the lot  *)
(* is knocked down at most once, to the last offer, and nothing about it   *)
(* changes afterwards.  Auctions.tla is shown to implement this.           *)
(***************************************************************************)
EXTENDS Naturals, Sequences

CONSTANTS Lots, Users, Prices

VARIABLES offers,   \* lot -> the sequence of offers it received
          sales     \* the set of sales concluded, one record per lot sold

Sold(l) == \E s \in sales : s.auction = l

Last(s) == s[Len(s)]

Init == /\ offers = [l \in Lots |-> <<>>]
        /\ sales = {}

\* A user offers more than everybody did before, on a lot not sold yet.
Raise(l, u, a) ==
    /\ ~Sold(l)
    /\ \A i \in DOMAIN offers[l] : offers[l][i].amount < a
    /\ offers' = [offers EXCEPT ![l] = Append(@, [bidder |-> u, amount |-> a])]
    /\ UNCHANGED sales

\* The lot goes to its last offer, and its owner is somebody else.
KnockDown(l, owner) ==
    /\ ~Sold(l)
    /\ offers[l] # <<>>
    /\ Last(offers[l]).bidder # owner
    /\ sales' = sales \cup {[auction |-> l, seller |-> owner,
                             buyer |-> Last(offers[l]).bidder,
                             amount |-> Last(offers[l]).amount]}
    /\ UNCHANGED offers

Next == \E l \in Lots, u \in Users :
            \/ KnockDown(l, u)
            \/ \E a \in Prices : Raise(l, u, a)

Spec == Init /\ [][Next]_<<offers, sales>>
=============================================================================
