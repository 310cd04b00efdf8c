------------------------------- MODULE Escrow -------------------------------
(***************************************************************************)
(* The retained payments of BidHaus: the buyer confirms reception or opens *)
(* a dispute, attaches evidence, and an administrator resolves the claim.  *)
(*                                                                         *)
(* Every service is one serialised transaction, but it decides on the      *)
(* EscrowTransaction or Dispute object its view loaded earlier and then    *)
(* saves the columns it changed over whatever is stored by then.  A        *)
(* request is two steps: `task' keeps the loaded row, and the tests the    *)
(* service makes of that row alone are made when it is loaded.             *)
(*                                                                         *)
(* Roles are editable in the admin, so any user may be an administrator at *)
(* some time; a request its guard refuses changes nothing, is not a step.  *)
(***************************************************************************)
EXTENDS Naturals, Sequences

CONSTANTS
    Sales,         \* auctions that closed with a winner, one sale each
    Users,         \* the accounts
    Requests,      \* web workers, each serving one request at a time
    NoUser,        \* SYSTEM, and the columns of a row that does not exist yet
    MaxEvidence    \* MAX_EVIDENCE_FILES

ASSUME ConstantsAssumption ==
    /\ NoUser \notin Users
    /\ MaxEvidence \in Nat

VARIABLES
    state,       \* sale -> "none" before closing, then EscrowTransaction.state
    buyer,       \* sale -> EscrowTransaction.buyer
    seller,      \* sale -> EscrowTransaction.seller
    charged,     \* the sales whose commission column is not NO_COMMISSION
    history,     \* sale -> its StateChange rows, oldest first
    dispute,     \* sale -> "none" without a Dispute row, then Dispute.state
    resolution,  \* sale -> outcome Dispute.resolution argues for, or "none"
    evidence,    \* sale -> number of Evidence rows of its dispute
    task         \* request -> what it loaded and has yet to write

payment == <<state, buyer, seller, charged, history>>
claim == <<dispute, resolution, evidence>>
vars == <<payment, claim, task>>

Outcomes == {"released", "refunded"}
States == {"none", "held", "in_dispute"} \cup Outcomes
Change == [from : States, to : States, actor : Users \cup {NoUser}]
Task == [op : {"confirm", "dispute", "attach", "resolve"}, sale : Sales,
         user : Users, saw : States]
Idle == [op |-> "idle"]

TypeOK ==
    /\ state \in [Sales -> States]
    /\ buyer \in [Sales -> Users \cup {NoUser}]
    /\ seller \in [Sales -> Users \cup {NoUser}]
    /\ charged \subseteq Sales
    /\ history \in [Sales -> Seq(Change)]
    /\ dispute \in [Sales -> {"none", "open", "resolved"}]
    /\ resolution \in [Sales -> {"none"} \cup Outcomes]
    /\ evidence \in [Sales -> Nat]
    /\ task \in [Requests -> Task \cup {Idle}]

Init ==
    /\ state = [s \in Sales |-> "none"]
    /\ buyer = [s \in Sales |-> NoUser]
    /\ seller = [s \in Sales |-> NoUser]
    /\ charged = {}
    /\ history = [s \in Sales |-> <<>>]
    /\ dispute = [s \in Sales |-> "none"]
    /\ resolution = [s \in Sales |-> "none"]
    /\ evidence = [s \in Sales |-> 0]
    /\ task = [r \in Requests |-> Idle]

-----------------------------------------------------------------------------
(* The helpers every service goes through *)

\* Mutant: the change is recorded before the new state is assigned.
RecordTooEarly(s, from, to, actor) ==
    /\ state' = [state EXCEPT ![s] = to]
    /\ history' = [history EXCEPT ![s] =
                      Append(@, [from |-> from, to |-> from, actor |-> actor])]

\* Mutant: one row per sale, updated in place.
RecordInPlace(s, from, to, actor) ==
    /\ state' = [state EXCEPT ![s] = to]
    /\ history' = [history EXCEPT ![s] = <<[from |-> from, to |-> to, actor |-> actor]>>]

\* record_state_change: the state saved a line earlier, after the one loaded.
Record(s, from, to, actor) ==
    /\ state' = [state EXCEPT ![s] = to]
    /\ history' = [history EXCEPT ![s] =
                      Append(@, [from |-> from, to |-> to, actor |-> actor])]

\* The commission is stored on release and on no other path.
Charge(s, outcome) ==
    charged' = IF outcome = "released" THEN charged \cup {s} ELSE charged

\* EscrowTransaction.is_settled.
Settled(st) == st \in Outcomes

\* Mutant: the previous state is taken to be "held".
SettleFromHeld(s, saw, outcome, actor) ==
    /\ ~Settled(saw)
    /\ Record(s, "held", outcome, actor)
    /\ Charge(s, outcome)

\* release_funds and refund_buyer, on a row that was loaded as `saw'.
Settle(s, saw, outcome, actor) ==
    /\ ~Settled(saw)
    /\ Record(s, saw, outcome, actor)
    /\ Charge(s, outcome)

\* hold_payment, called once by the closing of the auction; a seller cannot
\* be the bidder who won (auctions/services.py:279).
HoldPayment(s, b, v) ==
    /\ state[s] = "none"
    /\ b # v
    /\ buyer' = [buyer EXCEPT ![s] = b]
    /\ seller' = [seller EXCEPT ![s] = v]
    /\ Record(s, "none", "held", NoUser)
    /\ UNCHANGED <<charged, claim, task>>

-----------------------------------------------------------------------------
(* Loading: what the view reads before it calls the service *)

Load(r, op, s, u) ==
    /\ task[r] = Idle
    /\ task' = [task EXCEPT ![r] = [op |-> op, sale |-> s, user |-> u, saw |-> state[s]]]
    /\ UNCHANGED <<payment, claim>>

\* Mutant: whoever is logged in is served.
LoadPaymentForAnyone(r, op, s, u) ==
    /\ op \in {"confirm", "dispute"}
    /\ state[s] = "held"
    /\ Load(r, op, s, u)

\* Mutant: what is refused is a settled payment, not one that is not held.
LoadUnsettledPayment(r, op, s, u) ==
    /\ op \in {"confirm", "dispute"}
    /\ u = buyer[s] /\ ~Settled(state[s])
    /\ Load(r, op, s, u)

\* find_transaction for confirm_reception and open_dispute, which want the
\* buyer and a payment that is held.
LoadPayment(r, op, s, u) ==
    /\ op \in {"confirm", "dispute"}
    /\ u = buyer[s] /\ state[s] = "held"
    /\ Load(r, op, s, u)

\* Mutant: having a claim is enough.
IsThere(s) == dispute[s] # "none"

\* Dispute.is_open of the row loaded.
IsOpen(s) == dispute[s] = "open"

\* find_dispute_by_id for attach_evidence, which wants who opened the claim,
\* and that is the buyer.
LoadClaim(r, s, u) ==
    /\ u = buyer[s] /\ IsOpen(s)
    /\ Load(r, "attach", s, u)

\* find_dispute_by_id for resolve_dispute: the claim and its payment in one
\* query, for any user whose role is administrator.
LoadCase(r, s, u) ==
    /\ IsOpen(s)
    /\ Load(r, "resolve", s, u)

-----------------------------------------------------------------------------
(* Writing *)

\* confirm_reception and the release_funds it calls.
ConfirmReception(r) ==
    LET t == task[r] IN
    /\ t.op = "confirm"
    /\ Settle(t.sale, t.saw, "released", t.user)
    /\ task' = [task EXCEPT ![r] = Idle]
    /\ UNCHANGED <<buyer, seller, claim>>

\* Mutant: a foreign key instead of a one-to-one relation.
MayArgueAgain(s) == TRUE

\* The one-to-one relation refuses a second Dispute row of a sale.
MayArgue(s) == dispute[s] = "none"

\* Mutant: the Dispute row of an earlier argument is reused as it is.
OpenDisputeAnew(r) ==
    LET t == task[r] IN
    /\ t.op = "dispute"
    /\ dispute' = [dispute EXCEPT ![t.sale] = IF @ = "none" THEN "open" ELSE @]
    /\ Record(t.sale, t.saw, "in_dispute", t.user)
    /\ task' = [task EXCEPT ![r] = Idle]
    /\ UNCHANGED <<buyer, seller, charged, resolution, evidence>>

\* open_dispute.
OpenDispute(r) ==
    LET t == task[r] IN
    /\ t.op = "dispute"
    /\ MayArgue(t.sale)
    /\ dispute' = [dispute EXCEPT ![t.sale] = "open"]
    /\ Record(t.sale, t.saw, "in_dispute", t.user)
    /\ task' = [task EXCEPT ![r] = Idle]
    /\ UNCHANGED <<buyer, seller, charged, resolution, evidence>>

\* Mutant: only the files of this upload are counted.
FreeSlotsOfOneUpload(s) == MaxEvidence

\* count_free_evidence_slots, counted inside the transaction.
FreeSlots(s) == MaxEvidence - evidence[s]

\* attach_evidence with n files.
AttachEvidence(r, n) ==
    LET t == task[r] IN
    /\ t.op = "attach"
    /\ n <= FreeSlots(t.sale)
    /\ evidence' = [evidence EXCEPT ![t.sale] = @ + n]
    /\ task' = [task EXCEPT ![r] = Idle]
    /\ UNCHANGED <<payment, dispute, resolution>>

\* resolve_dispute: the outcome settles the payment, then the claim closes.
ResolveDispute(r, outcome) ==
    LET t == task[r] IN
    /\ t.op = "resolve"
    /\ Settle(t.sale, t.saw, outcome, t.user)
    /\ dispute' = [dispute EXCEPT ![t.sale] = "resolved"]
    /\ resolution' = [resolution EXCEPT ![t.sale] = outcome]
    /\ task' = [task EXCEPT ![r] = Idle]
    /\ UNCHANGED <<buyer, seller, evidence>>

\* The service raises (the loaded payment is settled, a second Dispute row, no
\* free slot, the database stays locked) or the worker dies: nothing is written.
Abandon(r) ==
    /\ task[r] # Idle
    /\ task' = [task EXCEPT ![r] = Idle]
    /\ UNCHANGED <<payment, claim>>

Next ==
    \/ \E s \in Sales, b, v \in Users : HoldPayment(s, b, v)
    \/ \E r \in Requests, s \in Sales, u \in Users :
        \/ LoadPayment(r, "confirm", s, u)
        \/ LoadPayment(r, "dispute", s, u)
        \/ LoadClaim(r, s, u)
        \/ LoadCase(r, s, u)
    \/ \E r \in Requests :
        \/ ConfirmReception(r)
        \/ OpenDispute(r)
        \/ \E n \in 1..MaxEvidence : AttachEvidence(r, n)
        \/ \E outcome \in Outcomes : ResolveDispute(r, outcome)
        \/ Abandon(r)

Spec == Init /\ [][Next]_vars

\* The same program when no two requests hold the same payment at the same time.
Serial ==
    \A q, r \in Requests : q # r /\ task[q] # Idle /\ task[r] # Idle
        => task[q].sale # task[r].sale
SerialSpec == Init /\ [][Next /\ Serial']_vars

-----------------------------------------------------------------------------
(* Properties that hold however requests overlap *)

Reached(s, st) == \E i \in DOMAIN history[s] : history[s][i].to = st

\* The history tells the present: its last entry is the state stored, and a
\* payment exists with the entry that created it and never without
\* (hold_payment's docstring, services.py:38-40).
HistoryEndsInState ==
    \A s \in Sales :
        /\ history[s] = <<>> <=> state[s] = "none"
        /\ history[s] # <<>> => history[s][Len(history[s])].to = state[s]

\* A sale is argued at most once, by its buyer, and its Dispute row exists
\* exactly when the history says so (DBR07, models.py:160-166).
ArguedOnce ==
    \A s \in Sales :
        /\ Reached(s, "in_dispute") <=> dispute[s] # "none"
        /\ \A i \in DOMAIN history[s] : history[s][i].to = "in_dispute" =>
              /\ history[s][i].actor = buyer[s]
              /\ \A j \in DOMAIN history[s] : history[s][j].to = "in_dispute" => j = i

\* Money in dispute always has an open claim in the administrators' queue, and
\* a claim is never marked resolved while the money still waits.
DisputedMoneyIsQueued ==
    \A s \in Sales :
        /\ state[s] = "in_dispute" => dispute[s] = "open"
        /\ dispute[s] = "resolved" => Settled(state[s])

\* Only the buyer ends a sale nobody argued about, and only by releasing:
\* anybody else, and every refund, comes after the claim was opened.
OthersDecideOnlyClaims ==
    \A s \in Sales : \A i \in DOMAIN history[s] :
        Settled(history[s][i].to) /\ (history[s][i].actor # buyer[s]
                                      \/ history[s][i].to = "refunded")
        => \E j \in 1..(i - 1) : history[s][j].to = "in_dispute"

\* The commission is charged by releases and by nothing else
\* (release_funds, "charged here and nowhere else").
CommissionComesFromReleases ==
    \A s \in Sales : s \in charged <=> Reached(s, "released")

\* A claim never carries more files than the limit, and files never come
\* without a claim, however many uploads overlap (DBR07).
EvidenceIsBounded ==
    \A s \in Sales : /\ evidence[s] <= MaxEvidence
                     /\ evidence[s] > 0 => dispute[s] # "none"

\* The history is append-only and no state changes behind its back (DBR06).
HistoryOnlyGrows ==
    [][\A s \in Sales :
          /\ Len(history'[s]) >= Len(history[s])
          /\ \A i \in DOMAIN history[s] : history'[s][i] = history[s][i]
          /\ state'[s] # state[s] => Len(history'[s]) = Len(history[s]) + 1]_vars

-----------------------------------------------------------------------------
(* Properties the code's documents state, which hold only of SerialSpec *)

\* Money that moved stays where it is.
SettledForGood ==
    [][\A s \in Sales : Settled(state[s]) => state'[s] = state[s]
                                             /\ history'[s] = history[s]]_vars

\* Each entry of the history starts where the one before it ended.
HistoryIsAChain ==
    \A s \in Sales : \A i \in DOMAIN history[s] :
        history[s][i].from = IF i = 1 THEN "none" ELSE history[s][i - 1].to

\* An open claim keeps the funds from moving until somebody decides it, and the
\* decision stored is where the money went.
ClaimHoldsTheMoney ==
    \A s \in Sales : /\ dispute[s] = "open" => state[s] = "in_dispute"
                     /\ dispute[s] = "resolved" => state[s] = resolution[s]

\* A refund leaves the commission at zero.
RefundIsWhole == \A s \in Sales : state[s] = "refunded" => s \notin charged

\* No file is attached to a claim that is not open any more.
EvidencePrecedesDecision ==
    [][\A s \in Sales : evidence'[s] # evidence[s] => dispute[s] = "open"]_vars

\* Where the money of a sale is, by its state.
Place(st) == CASE st = "none" -> "unpaid"
               [] st = "held" -> "retained"
               [] st = "in_dispute" -> "argued"
               [] st = "released" -> "paid"
               [] st = "refunded" -> "returned"
Where == [s \in Sales |-> Place(state[s])]

Money == INSTANCE SaleMoney WITH where <- Where, commission <- charged

\* In serial behaviours, the payments do what SaleMoney promises.
ImplementsMoney == Money!Spec
=============================================================================
