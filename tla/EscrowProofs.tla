---------------------------- MODULE EscrowProofs ----------------------------
(***************************************************************************)
(* Proofs about Escrow, for every set of sales, accounts and web workers.  *)
(* The first part needs no assumption on how requests overlap; the second  *)
(* is about SerialSpec, where a request's loaded row is still the stored   *)
(* one, and shows that the payments then refine SaleMoney.                 *)
(***************************************************************************)
EXTENDS Escrow, TLAPS

\* What a waiting request may rely on although its row may be stale.
TasksFit ==
    \A r \in Requests : task[r] # Idle =>
        /\ state[task[r].sale] # "none"
        /\ task[r].op \in {"confirm", "dispute"} =>
              task[r].user = buyer[task[r].sale] /\ task[r].saw = "held"
        /\ task[r].op \in {"attach", "resolve"} => dispute[task[r].sale] # "none"

IInv == /\ TypeOK
        /\ TasksFit
        /\ HistoryEndsInState
        /\ ArguedOnce
        /\ DisputedMoneyIsQueued
        /\ OthersDecideOnlyClaims
        /\ CommissionComesFromReleases
        /\ EvidenceIsBounded

-----------------------------------------------------------------------------
(* The steps *)

\* Writing steps, each with what its request held, and steps that write nothing.
LEMMA Steps ==
    ASSUME TypeOK, [Next]_vars
    PROVE  \/ UNCHANGED <<payment, claim>>
           \/ \E s \in Sales, b, v \in Users : HoldPayment(s, b, v)
           \/ \E r \in Requests : \/ ConfirmReception(r)
                                  \/ OpenDispute(r)
                                  \/ \E n \in 1..MaxEvidence : AttachEvidence(r, n)
                                  \/ \E outcome \in Outcomes : ResolveDispute(r, outcome)
<1>1. CASE UNCHANGED vars
  BY <1>1 DEF vars, payment, claim
<1>2. CASE Next
  BY <1>2 DEF Next, LoadPayment, LoadClaim, LoadCase, Load, Abandon, payment, claim
<1> QED
  BY <1>1, <1>2

\* A request that writes holds a full task.
LEMMA Holds ==
    ASSUME TypeOK, NEW r \in Requests,
           task[r].op \in {"confirm", "dispute", "attach", "resolve"}
    PROVE  task[r] \in Task /\ task[r] # Idle /\ task[r].sale \in Sales
           /\ task[r].user \in Users /\ task[r].saw \in States
BY DEF TypeOK, Task, Idle

\* record_state_change appends one well-formed entry and nothing else.
LEMMA Recorded ==
    ASSUME TypeOK, NEW s \in Sales, NEW from \in States, NEW to \in States,
           NEW actor \in Users \cup {NoUser}, Record(s, from, to, actor)
    PROVE  /\ state' \in [Sales -> States] /\ history' \in [Sales -> Seq(Change)]
           /\ state'[s] = to
           /\ DOMAIN history'[s] = 1..(Len(history[s]) + 1) /\ Len(history[s]) \in Nat
           /\ DOMAIN history[s] = 1..Len(history[s])
           /\ Len(history'[s]) = Len(history[s]) + 1
           /\ history'[s] # <<>>
           /\ history'[s][Len(history[s]) + 1].from = from
           /\ history'[s][Len(history[s]) + 1].to = to
           /\ history'[s][Len(history[s]) + 1].actor = actor
           /\ \A i \in DOMAIN history[s] : history'[s][i] = history[s][i]
           /\ \A t \in Sales \ {s} : state'[t] = state[t] /\ history'[t] = history[t]
<1>1. PICK e : e = [from |-> from, to |-> to, actor |-> actor]
  OBVIOUS
<1>2. e \in Change /\ e.from = from /\ e.to = to /\ e.actor = actor
  BY <1>1 DEF Change
<1>3. history' = [history EXCEPT ![s] = Append(history[s], e)] /\ history[s] \in Seq(Change)
      /\ state' = [state EXCEPT ![s] = to]
  BY <1>1 DEF Record, TypeOK
<1> QED
  BY <1>2, <1>3 DEF TypeOK

-----------------------------------------------------------------------------
(* Type correctness *)

\* Every step keeps the types.
LEMMA TypeStep ==
    ASSUME TypeOK, [Next]_vars
    PROVE  TypeOK'
<1>a. Idle \in Task \cup {Idle}
  OBVIOUS
<1>1. CASE UNCHANGED vars
  BY <1>1 DEF TypeOK, vars, payment, claim
<1>2. ASSUME NEW s \in Sales, NEW b \in Users, NEW v \in Users, HoldPayment(s, b, v)
      PROVE  TypeOK'
  <2>1. Record(s, "none", "held", NoUser)
    BY <1>2 DEF HoldPayment
  <2>2. state' \in [Sales -> States] /\ history' \in [Sales -> Seq(Change)]
    BY <2>1, Recorded DEF States
  <2> QED
    BY <1>2, <2>2 DEF HoldPayment, TypeOK, claim
<1>3. ASSUME NEW r \in Requests, NEW s \in Sales, NEW u \in Users,
             NEW op \in {"confirm", "dispute", "attach", "resolve"}, Load(r, op, s, u)
      PROVE  TypeOK'
  <2>1. [op |-> op, sale |-> s, user |-> u, saw |-> state[s]] \in Task
    BY DEF TypeOK, Task
  <2> QED
    BY <1>3, <2>1 DEF Load, TypeOK, payment, claim
<1>4. ASSUME NEW r \in Requests, NEW saw \in States, NEW outcome \in Outcomes, NEW s \in Sales,
             NEW u \in Users, Settle(s, saw, outcome, u)
      PROVE  /\ state' \in [Sales -> States] /\ history' \in [Sales -> Seq(Change)]
             /\ charged' \subseteq Sales
  BY <1>4, Recorded DEF Settle, Charge, TypeOK, States, Outcomes
<1>5. ASSUME NEW r \in Requests, ConfirmReception(r) PROVE TypeOK'
  BY <1>5, <1>4, Holds DEF ConfirmReception, TypeOK, claim, Outcomes
<1>6. ASSUME NEW r \in Requests, OpenDispute(r) PROVE TypeOK'
  BY <1>6, Recorded, Holds DEF OpenDispute, TypeOK, claim, States
<1>7. ASSUME NEW r \in Requests, NEW n \in 1..MaxEvidence, AttachEvidence(r, n) PROVE TypeOK'
  BY <1>7, Holds, ConstantsAssumption DEF AttachEvidence, TypeOK, payment
<1>8. ASSUME NEW r \in Requests, NEW outcome \in Outcomes, ResolveDispute(r, outcome)
      PROVE  TypeOK'
  BY <1>8, <1>4, Holds DEF ResolveDispute, TypeOK
<1>9. ASSUME NEW r \in Requests, Abandon(r) PROVE TypeOK'
  BY <1>9 DEF Abandon, TypeOK, payment, claim
<1> QED
  BY <1>1, <1>2, <1>3, <1>5, <1>6, <1>7, <1>8, <1>9
  DEF Next, LoadPayment, LoadClaim, LoadCase

-----------------------------------------------------------------------------
(* What the history gains, whoever wrote and however stale their row was *)

\* The four kinds of entry.
Retains(s) ==
    /\ state[s] = "none"
    /\ Record(s, "none", "held", NoUser)
    /\ \A t \in Sales \ {s} : buyer'[t] = buyer[t]
    /\ UNCHANGED <<charged, dispute>>

Confirms(s) ==
    /\ state[s] # "none"
    /\ \E from \in States : Record(s, from, "released", buyer[s])
    /\ charged' = charged \cup {s}
    /\ buyer[s] \in Users
    /\ UNCHANGED <<buyer, dispute>>

Argues(s) ==
    /\ state[s] # "none" /\ dispute[s] = "none"
    /\ \E from \in States : Record(s, from, "in_dispute", buyer[s])
    /\ buyer[s] \in Users
    /\ dispute' = [dispute EXCEPT ![s] = "open"]
    /\ UNCHANGED <<buyer, charged>>

Decides(s, outcome) ==
    /\ state[s] # "none" /\ dispute[s] # "none"
    /\ \E from \in States, u \in Users : Record(s, from, outcome, u)
    /\ Charge(s, outcome)
    /\ dispute' = [dispute EXCEPT ![s] = "resolved"]
    /\ UNCHANGED buyer

\* Every writing step is one of the four kinds of entry.
LEMMA Entries ==
    ASSUME TypeOK, TasksFit, [Next]_vars
    PROVE  \/ UNCHANGED <<payment, dispute>>
           \/ \E s \in Sales : Retains(s) \/ Confirms(s) \/ Argues(s)
                             \/ \E outcome \in Outcomes : Decides(s, outcome)
<1>1. CASE UNCHANGED <<payment, claim>>
  BY <1>1 DEF payment, claim
<1>2. ASSUME NEW s \in Sales, NEW b \in Users, NEW v \in Users, HoldPayment(s, b, v)
      PROVE  Retains(s)
  BY <1>2 DEF HoldPayment, Retains, claim, TypeOK
<1>3. ASSUME NEW r \in Requests, ConfirmReception(r) PROVE Confirms(task[r].sale)
  BY <1>3, Holds DEF ConfirmReception, Settle, Charge, Confirms, TasksFit, claim
<1>4. ASSUME NEW r \in Requests, OpenDispute(r) PROVE Argues(task[r].sale)
  BY <1>4, Holds DEF OpenDispute, MayArgue, Argues, TasksFit
<1>5. ASSUME NEW r \in Requests, NEW n \in 1..MaxEvidence, AttachEvidence(r, n)
      PROVE  UNCHANGED <<payment, dispute>>
  BY <1>5 DEF AttachEvidence
<1>6. ASSUME NEW r \in Requests, NEW outcome \in Outcomes, ResolveDispute(r, outcome)
      PROVE  Decides(task[r].sale, outcome)
  BY <1>6, Holds DEF ResolveDispute, Settle, Decides, TasksFit
<1>7. \A r \in Requests : ConfirmReception(r) \/ OpenDispute(r)
                         \/ (\E outcome \in Outcomes : ResolveDispute(r, outcome))
                         => task[r].sale \in Sales
  BY Holds DEF ConfirmReception, OpenDispute, ResolveDispute
<1> QED
  BY <1>1, <1>2, <1>3, <1>4, <1>5, <1>6, <1>7, Steps

\* An entry (from, to, actor) that the history of s gains, and what it implies.
Gains(s, from, to, actor) ==
    /\ Record(s, from, to, actor)
    /\ to # "held" => state[s] # "none" /\ UNCHANGED buyer
    /\ to = "held" => state[s] = "none" /\ UNCHANGED dispute
    /\ \A t \in Sales \ {s} : buyer'[t] = buyer[t]
    /\ to = "in_dispute" => /\ actor = buyer[s] /\ dispute[s] = "none"
                            /\ dispute' = [dispute EXCEPT ![s] = "open"]
    /\ to \in Outcomes =>
          \/ actor = buyer[s] /\ to = "released" /\ UNCHANGED dispute
          \/ dispute[s] # "none" /\ dispute' = [dispute EXCEPT ![s] = "resolved"]
    /\ charged' = IF to = "released" THEN charged \cup {s} ELSE charged

\* Each kind of entry says what its `to' implies.
LEMMA Appends ==
    ASSUME TypeOK, NEW s \in Sales,
           Retains(s) \/ Confirms(s) \/ Argues(s) \/ \E outcome \in Outcomes : Decides(s, outcome)
    PROVE  \E from \in States, to \in States \ {"none"}, actor \in Users \cup {NoUser} :
              Gains(s, from, to, actor)
<1>1. CASE Retains(s)
  <2>1. Gains(s, "none", "held", NoUser)
    BY <1>1 DEF Retains, Gains, Outcomes
  <2> QED
    BY <2>1 DEF States
<1>2. CASE Confirms(s)
  <2>1. PICK from \in States : Record(s, from, "released", buyer[s])
    BY <1>2 DEF Confirms
  <2>2. Gains(s, from, "released", buyer[s])
    BY <1>2, <2>1 DEF Confirms, Gains
  <2> QED
    BY <1>2, <2>2 DEF States, Outcomes, Confirms
<1>3. CASE Argues(s)
  <2>1. PICK from \in States : Record(s, from, "in_dispute", buyer[s])
    BY <1>3 DEF Argues
  <2>2. Gains(s, from, "in_dispute", buyer[s])
    BY <1>3, <2>1 DEF Argues, Gains, Outcomes
  <2> QED
    BY <1>3, <2>2 DEF States, Argues
<1>4. ASSUME NEW outcome \in Outcomes, Decides(s, outcome)
      PROVE  \E from \in States, to \in States \ {"none"}, actor \in Users \cup {NoUser} :
                Gains(s, from, to, actor)
  <2>1. PICK from \in States, u \in Users : Record(s, from, outcome, u)
    BY <1>4 DEF Decides
  <2>2. Gains(s, from, outcome, u)
    BY <1>4, <2>1 DEF Decides, Gains, Charge, Outcomes
  <2> QED
    BY <2>2 DEF States, Outcomes
<1> QED
  BY <1>1, <1>2, <1>3, <1>4

\* Either the payment and its claim stay, or one history gains one entry.
LEMMA GainsOrStays ==
    ASSUME TypeOK, TasksFit, [Next]_vars
    PROVE  \/ UNCHANGED <<payment, dispute>>
           \/ \E s \in Sales, from \in States, to \in States \ {"none"},
                 actor \in Users \cup {NoUser} : Gains(s, from, to, actor)
BY Entries, Appends

\* Payments and claims are never deleted, so what a task relies on stays.
LEMMA TasksStep ==
    ASSUME TypeOK, TasksFit, HistoryEndsInState, ArguedOnce, [Next]_vars
    PROVE  TasksFit'
<1>0. \A s \in Sales : dispute[s] # "none" => state[s] # "none"
  BY DEF ArguedOnce, Reached, HistoryEndsInState, TypeOK
<1>1. ASSUME NEW s \in Sales
      PROVE  /\ state[s] # "none" => state'[s] # "none" /\ buyer'[s] = buyer[s]
             /\ dispute[s] # "none" => dispute'[s] # "none"
  <2>1. CASE UNCHANGED <<payment, dispute>>
    BY <2>1 DEF payment
  <2>2. CASE \E t \in Sales, b, v \in Users : HoldPayment(t, b, v)
    BY <2>2 DEF HoldPayment, Record, claim, TypeOK
  <2>3. CASE \E t \in Sales : Confirms(t) \/ Argues(t) \/ \E outcome \in Outcomes : Decides(t, outcome)
    BY <2>3 DEF Confirms, Argues, Decides, Record, TypeOK, Outcomes
  <2>4. ASSUME NEW r \in Requests, \/ ConfirmReception(r) \/ OpenDispute(r)
                                   \/ \E outcome \in Outcomes : ResolveDispute(r, outcome)
        PROVE  UNCHANGED buyer
    BY <2>4 DEF ConfirmReception, OpenDispute, ResolveDispute
  <2>5. CASE \E t \in Sales : Retains(t) /\ UNCHANGED buyer
    BY <2>5 DEF Retains, Record, TypeOK
  <2>6. ASSUME NEW r \in Requests, NEW n \in 1..MaxEvidence, AttachEvidence(r, n)
        PROVE  UNCHANGED <<payment, dispute>>
    BY <2>6 DEF AttachEvidence
  <2>7. UNCHANGED <<payment, claim>> => UNCHANGED <<payment, dispute>>
    BY DEF claim
  <2> QED
    BY <2>1, <2>2, <2>3, <2>4, <2>5, <2>6, <2>7, Steps, Entries
<1>2. ASSUME NEW r \in Requests, task'[r] # Idle, task'[r] = task[r]
      PROVE  /\ state'[task'[r].sale] # "none"
             /\ task'[r].op \in {"confirm", "dispute"} =>
                   task'[r].user = buyer'[task'[r].sale] /\ task'[r].saw = "held"
             /\ task'[r].op \in {"attach", "resolve"} => dispute'[task'[r].sale] # "none"
  <2>1. task[r].sale \in Sales
    BY <1>2 DEF TypeOK, Task
  <2> QED
    BY <1>1, <1>2, <2>1 DEF TasksFit
<1>3. ASSUME NEW r \in Requests, task'[r] # Idle, task'[r] # task[r]
      PROVE  /\ state'[task'[r].sale] # "none"
             /\ task'[r].op \in {"confirm", "dispute"} =>
                   task'[r].user = buyer'[task'[r].sale] /\ task'[r].saw = "held"
             /\ task'[r].op \in {"attach", "resolve"} => dispute'[task'[r].sale] # "none"
  <2>1. PICK op \in {"confirm", "dispute", "attach", "resolve"}, s \in Sales, u \in Users :
           /\ task'[r] = [op |-> op, sale |-> s, user |-> u, saw |-> state[s]]
           /\ op \in {"confirm", "dispute"} => u = buyer[s] /\ state[s] = "held"
           /\ op \in {"attach", "resolve"} => dispute[s] = "open"
           /\ UNCHANGED <<payment, claim>>
    BY <1>3 DEF Next, vars, HoldPayment, LoadPayment, LoadClaim, LoadCase, Load, IsOpen, Idle,
           ConfirmReception, OpenDispute, AttachEvidence, ResolveDispute, Abandon, TypeOK
  <2> QED
    BY <1>0, <2>1 DEF payment, claim
<1> QED
  BY <1>2, <1>3 DEF TasksFit

-----------------------------------------------------------------------------
(* Each part of the invariant is preserved *)

\* A gained entry seen from the history: one more index, n, the old ones stay.
LEMMA NewIndex ==
    ASSUME TypeOK, NEW s \in Sales, NEW from \in States, NEW to \in States \ {"none"},
           NEW actor \in Users \cup {NoUser}, Gains(s, from, to, actor)
    PROVE  \E n \in Nat \ {0} :
              /\ n = Len(history'[s]) /\ n = Len(history[s]) + 1
              /\ DOMAIN history[s] = 1..(n - 1) /\ DOMAIN history'[s] = 1..n
              /\ history'[s][n].from = from /\ history'[s][n].to = to
              /\ history'[s][n].actor = actor
              /\ \A i \in 1..(n - 1) : history'[s][i] = history[s][i]
              /\ history'[s] # <<>> /\ state'[s] = to
              /\ \A t \in Sales \ {s} : /\ state'[t] = state[t] /\ history'[t] = history[t]
                                        /\ buyer'[t] = buyer[t] /\ dispute'[t] = dispute[t]
<1>1. Record(s, from, to, actor)
  BY DEF Gains
<1>2. \A t \in Sales \ {s} : buyer'[t] = buyer[t] /\ dispute'[t] = dispute[t]
  BY DEF Gains, TypeOK, States, Outcomes
<1>3. Len(history[s]) + 1 \in Nat \ {0} /\ Len(history[s]) + 1 - 1 = Len(history[s])
  BY <1>1, Recorded
<1> QED
  BY <1>1, <1>2, <1>3, Recorded

\* State and history change together, to the same value.
LEMMA EndStep ==
    ASSUME TypeOK, TasksFit, HistoryEndsInState, [Next]_vars
    PROVE  HistoryEndsInState'
<1>1. CASE UNCHANGED <<payment, dispute>>
  BY <1>1 DEF payment, HistoryEndsInState
<1>2. ASSUME NEW s \in Sales, NEW from \in States, NEW to \in States \ {"none"},
             NEW actor \in Users \cup {NoUser}, Gains(s, from, to, actor)
      PROVE  HistoryEndsInState'
  BY <1>2, NewIndex DEF HistoryEndsInState
<1> QED
  BY <1>1, <1>2, GainsOrStays

\* Only open_dispute writes "in_dispute", once per Dispute row.
LEMMA ArguedStep ==
    ASSUME TypeOK, TasksFit, HistoryEndsInState, ArguedOnce, [Next]_vars
    PROVE  ArguedOnce'
<1>1. CASE UNCHANGED <<payment, dispute>>
  BY <1>1 DEF payment, ArguedOnce, Reached
<1>2. ASSUME NEW s \in Sales, NEW from \in States, NEW to \in States \ {"none"},
             NEW actor \in Users \cup {NoUser}, Gains(s, from, to, actor)
      PROVE  ArguedOnce'
  <2>1. PICK n \in Nat \ {0} :
              /\ DOMAIN history[s] = 1..(n - 1) /\ DOMAIN history'[s] = 1..n
              /\ history'[s][n].to = to /\ history'[s][n].actor = actor
              /\ \A i \in 1..(n - 1) : history'[s][i] = history[s][i]
              /\ \A t \in Sales \ {s} : /\ history'[t] = history[t] /\ dispute'[t] = dispute[t]
                                        /\ buyer'[t] = buyer[t]
    BY <1>2, NewIndex
  <2>2. 1..n = (1..(n - 1)) \cup {n} /\ n \notin 1..(n - 1)
    OBVIOUS
  <2>3. Reached(s, "in_dispute")' <=> Reached(s, "in_dispute") \/ to = "in_dispute"
    BY <2>1, <2>2 DEF Reached
  <2>4. dispute'[s] # "none" <=> dispute[s] # "none" \/ to = "in_dispute"
    BY <1>2 DEF Gains, TypeOK, States, Outcomes
  <2>5. ASSUME NEW i \in DOMAIN history'[s], history'[s][i].to = "in_dispute"
        PROVE  /\ history'[s][i].actor = buyer'[s]
               /\ \A j \in DOMAIN history'[s] : history'[s][j].to = "in_dispute" => j = i
    <3>1. CASE to = "in_dispute"
      <4>1. \A j \in 1..(n - 1) : history[s][j].to # "in_dispute"
        BY <1>2, <3>1, <2>1 DEF Gains, ArguedOnce, Reached
      <4>2. i = n /\ actor = buyer'[s]
        BY <1>2, <3>1, <4>1, <2>1, <2>2, <2>5 DEF Gains
      <4> QED
        BY <2>1, <2>2, <4>1, <4>2
    <3>2. CASE to # "in_dispute"
      <4>1. i \in 1..(n - 1) /\ history[s][i].to = "in_dispute"
        BY <2>1, <2>2, <2>5, <3>2
      <4>2. history[s] # <<>> /\ state[s] # "none"
        BY <2>1, <4>1 DEF HistoryEndsInState
      <4>3. buyer'[s] = buyer[s]
        BY <1>2, <4>2 DEF Gains
      <4> QED
        <5>1. history[s][i].actor = buyer[s]
              /\ \A j \in 1..(n - 1) : history[s][j].to = "in_dispute" => j = i
          BY <2>1, <4>1 DEF ArguedOnce
        <5>2. history'[s][i] = history[s][i]
          BY <2>1, <4>1
        <5>3. ASSUME NEW j \in 1..n, history'[s][j].to = "in_dispute" PROVE j = i
          <6>1. j # n
            BY <2>1, <3>2, <5>3
          <6>2. j \in 1..(n - 1)
            BY <2>2, <6>1
          <6> QED
            BY <2>1, <5>1, <5>3, <6>2
        <5> QED
          BY <2>1, <4>3, <5>1, <5>2, <5>3
    <3> QED
      BY <3>1, <3>2
  <2>6. \A t \in Sales \ {s} : Reached(t, "in_dispute")' <=> Reached(t, "in_dispute")
    BY <2>1 DEF Reached
  <2> QED
    BY <2>1, <2>3, <2>4, <2>5, <2>6 DEF ArguedOnce
<1> QED
  BY <1>1, <1>2, GainsOrStays

\* in_dispute is written with the open claim, resolved with settled money.
LEMMA QueuedStep ==
    ASSUME TypeOK, TasksFit, HistoryEndsInState, ArguedOnce, DisputedMoneyIsQueued, [Next]_vars
    PROVE  DisputedMoneyIsQueued'
<1>1. CASE UNCHANGED <<payment, dispute>>
  BY <1>1 DEF payment, DisputedMoneyIsQueued
<1>2. ASSUME NEW s \in Sales, NEW from \in States, NEW to \in States \ {"none"},
             NEW actor \in Users \cup {NoUser}, Gains(s, from, to, actor)
      PROVE  DisputedMoneyIsQueued'
  <2>1. \A t \in Sales \ {s} : state'[t] = state[t] /\ dispute'[t] = dispute[t]
    BY <1>2, NewIndex
  <2>2. state'[s] = to
    BY <1>2, NewIndex
  <2>3. to = "held" => dispute[s] = "none"
    BY <1>2 DEF Gains, ArguedOnce, Reached, HistoryEndsInState, TypeOK
  <2>4. dispute'[s] = "resolved" => to \in Outcomes
    BY <1>2, <2>3 DEF Gains, States, TypeOK, Outcomes
  <2>5. to = "in_dispute" => dispute'[s] = "open"
    BY <1>2 DEF Gains, TypeOK
  <2> QED
    BY <2>1, <2>2, <2>4, <2>5 DEF DisputedMoneyIsQueued, Settled
<1> QED
  BY <1>1, <1>2, GainsOrStays

\* A decision needs a claim, and the claim left its entry in the history.
LEMMA OthersStep ==
    ASSUME TypeOK, TasksFit, HistoryEndsInState, ArguedOnce, OthersDecideOnlyClaims, [Next]_vars
    PROVE  OthersDecideOnlyClaims'
<1>1. CASE UNCHANGED <<payment, dispute>>
  BY <1>1 DEF payment, OthersDecideOnlyClaims
<1>2. ASSUME NEW s \in Sales, NEW from \in States, NEW to \in States \ {"none"},
             NEW actor \in Users \cup {NoUser}, Gains(s, from, to, actor)
      PROVE  OthersDecideOnlyClaims'
  <2>1. PICK n \in Nat \ {0} :
              /\ DOMAIN history[s] = 1..(n - 1) /\ DOMAIN history'[s] = 1..n
              /\ history'[s][n].to = to /\ history'[s][n].actor = actor
              /\ \A i \in 1..(n - 1) : history'[s][i] = history[s][i]
              /\ \A t \in Sales \ {s} : history'[t] = history[t] /\ buyer'[t] = buyer[t]
    BY <1>2, NewIndex
  <2>2. ASSUME NEW i \in DOMAIN history'[s], Settled(history'[s][i].to),
               history'[s][i].actor # buyer'[s] \/ history'[s][i].to = "refunded"
        PROVE  \E j \in 1..(i - 1) : history'[s][j].to = "in_dispute"
    <3>1. CASE i = n
      <4>1. to \in Outcomes /\ (actor # buyer'[s] \/ to = "refunded")
        BY <2>1, <2>2, <3>1 DEF Settled
      <4>2. dispute[s] # "none"
        BY <1>2, <4>1 DEF Gains, Outcomes
      <4>3. PICK j \in DOMAIN history[s] : history[s][j].to = "in_dispute"
        BY <4>2 DEF ArguedOnce, Reached
      <4> QED
        BY <2>1, <3>1, <4>3
    <3>2. CASE i # n
      <4>1. i \in 1..(n - 1) /\ history'[s][i] = history[s][i]
        BY <2>1, <2>2, <3>2
      <4>2. history[s] # <<>> /\ state[s] # "none"
        BY <2>1, <4>1 DEF HistoryEndsInState
      <4>3. buyer'[s] = buyer[s]
        <5>1. to # "held"
          BY <1>2, <4>2 DEF Gains
        <5> QED
          BY <1>2, <5>1 DEF Gains
      <4>4. PICK j \in 1..(i - 1) : history[s][j].to = "in_dispute"
        BY <2>1, <2>2, <4>1, <4>3 DEF OthersDecideOnlyClaims
      <4>5. j \in 1..(n - 1)
        BY <4>1, <4>4
      <4> QED
        BY <2>1, <4>4, <4>5
    <3> QED
      BY <3>1, <3>2
  <2>3. ASSUME NEW t \in Sales \ {s}, NEW i \in DOMAIN history'[t], Settled(history'[t][i].to),
               history'[t][i].actor # buyer'[t] \/ history'[t][i].to = "refunded"
        PROVE  \E j \in 1..(i - 1) : history'[t][j].to = "in_dispute"
    <3>1. history'[t] = history[t] /\ buyer'[t] = buyer[t]
      BY <2>1
    <3> QED
      BY <2>3, <3>1 DEF OthersDecideOnlyClaims
  <2> QED
    BY <2>2, <2>3 DEF OthersDecideOnlyClaims
<1> QED
  BY <1>1, <1>2, GainsOrStays

\* The commission is written with the entry "released" and only then.
LEMMA CommissionStep ==
    ASSUME TypeOK, TasksFit, CommissionComesFromReleases, [Next]_vars
    PROVE  CommissionComesFromReleases'
<1>1. CASE UNCHANGED <<payment, dispute>>
  BY <1>1 DEF payment, CommissionComesFromReleases, Reached
<1>2. ASSUME NEW s \in Sales, NEW from \in States, NEW to \in States \ {"none"},
             NEW actor \in Users \cup {NoUser}, Gains(s, from, to, actor)
      PROVE  CommissionComesFromReleases'
  <2>1. PICK n \in Nat \ {0} :
              /\ DOMAIN history[s] = 1..(n - 1) /\ DOMAIN history'[s] = 1..n
              /\ history'[s][n].to = to
              /\ \A i \in 1..(n - 1) : history'[s][i] = history[s][i]
              /\ \A t \in Sales \ {s} : history'[t] = history[t]
    BY <1>2, NewIndex
  <2>2. 1..n = (1..(n - 1)) \cup {n} /\ n \notin 1..(n - 1)
    OBVIOUS
  <2>3. Reached(s, "released")' <=> Reached(s, "released") \/ to = "released"
    BY <2>1, <2>2 DEF Reached
  <2>4. \A t \in Sales \ {s} : Reached(t, "released")' <=> Reached(t, "released")
    BY <2>1 DEF Reached
  <2>5. charged' = IF to = "released" THEN charged \cup {s} ELSE charged
    BY <1>2 DEF Gains
  <2> QED
    BY <2>3, <2>4, <2>5 DEF CommissionComesFromReleases
<1> QED
  BY <1>1, <1>2, GainsOrStays

\* The slots are counted in the transaction that fills them.
LEMMA EvidenceStep ==
    ASSUME TypeOK, TasksFit, HistoryEndsInState, ArguedOnce, EvidenceIsBounded, [Next]_vars
    PROVE  EvidenceIsBounded'
<1>0. \A s \in Sales : dispute[s] # "none" => dispute'[s] # "none"
  <2>1. CASE UNCHANGED <<payment, dispute>>
    BY <2>1
  <2>2. ASSUME NEW s \in Sales, NEW from \in States, NEW to \in States \ {"none"},
               NEW actor \in Users \cup {NoUser}, Gains(s, from, to, actor)
        PROVE  \A t \in Sales : dispute[t] # "none" => dispute'[t] # "none"
    BY <2>2 DEF Gains, TypeOK, States, Outcomes
  <2> QED
    BY <2>1, <2>2, GainsOrStays
<1>1. CASE UNCHANGED evidence
  BY <1>0, <1>1 DEF EvidenceIsBounded
<1>2. ASSUME NEW r \in Requests, NEW n \in 1..MaxEvidence, AttachEvidence(r, n)
      PROVE  EvidenceIsBounded'
  <2> DEFINE s == task[r].sale
  <2>1. s \in Sales /\ dispute[s] # "none"
    BY <1>2, Holds DEF AttachEvidence, TasksFit
  <2>2. evidence[s] \in Nat /\ MaxEvidence \in Nat /\ n \in Nat
        /\ n <= MaxEvidence - evidence[s]
    BY <1>2, <2>1, ConstantsAssumption DEF AttachEvidence, FreeSlots, TypeOK
  <2>3. evidence[s] + n <= MaxEvidence
    BY <2>2
  <2>4. evidence' = [evidence EXCEPT ![s] = evidence[s] + n] /\ dispute' = dispute
    BY <1>2 DEF AttachEvidence
  <2> HIDE DEF s
  <2> QED
    BY <2>1, <2>3, <2>4 DEF EvidenceIsBounded, TypeOK
<1> QED
  BY <1>1, <1>2, Steps DEF claim, HoldPayment, ConfirmReception, OpenDispute, ResolveDispute

-----------------------------------------------------------------------------
(* The theorems for overlapping requests *)

\* The invariant holds of a database without payments.
LEMMA InitIInv == Init => IInv
<1> SUFFICES ASSUME Init PROVE IInv
  OBVIOUS
<1>1. TypeOK
  BY DEF Init, TypeOK, States
<1>2. TasksFit /\ HistoryEndsInState
  BY DEF Init, TasksFit, HistoryEndsInState
<1>3. ArguedOnce /\ CommissionComesFromReleases
  BY DEF Init, ArguedOnce, Reached, CommissionComesFromReleases
<1>4. DisputedMoneyIsQueued
  BY DEF Init, DisputedMoneyIsQueued
<1>5. OthersDecideOnlyClaims
  BY DEF Init, OthersDecideOnlyClaims
<1>6. EvidenceIsBounded
  <2>1. \A s \in Sales : evidence[s] = 0
    BY DEF Init
  <2>2. 0 <= MaxEvidence /\ ~(0 > 0)
    BY ConstantsAssumption
  <2> QED
    BY <2>1, <2>2 DEF EvidenceIsBounded
<1> QED
  BY <1>1, <1>2, <1>3, <1>4, <1>5, <1>6 DEF IInv

\* The invariant is kept by every step.
LEMMA NextIInv == IInv /\ [Next]_vars => IInv'
BY TypeStep, TasksStep, EndStep, ArguedStep, QueuedStep, OthersStep, CommissionStep, EvidenceStep
DEF IInv

\* The inductive invariant holds however requests overlap.
THEOREM Invariance == Spec => []IInv
BY InitIInv, NextIInv, PTL DEF Spec

\* Every variable keeps its type.
THEOREM TypeCorrect == Spec => []TypeOK
<1>1. IInv => TypeOK
  BY DEF IInv
<1> QED
  BY <1>1, Invariance, PTL

\* The last entry of a history is the state of its payment.
THEOREM HistoryCorrect == Spec => []HistoryEndsInState
<1>1. IInv => HistoryEndsInState
  BY DEF IInv
<1> QED
  BY <1>1, Invariance, PTL

\* A sale is argued at most once, by its buyer.
THEOREM ArguedCorrect == Spec => []ArguedOnce
<1>1. IInv => ArguedOnce
  BY DEF IInv
<1> QED
  BY <1>1, Invariance, PTL

\* Money in dispute always has an open claim; a resolved claim has settled money.
THEOREM QueueCorrect == Spec => []DisputedMoneyIsQueued
<1>1. IInv => DisputedMoneyIsQueued
  BY DEF IInv
<1> QED
  BY <1>1, Invariance, PTL

\* Nobody but the buyer moves money that was never argued over.
THEOREM DecisionCorrect == Spec => []OthersDecideOnlyClaims
<1>1. IInv => OthersDecideOnlyClaims
  BY DEF IInv
<1> QED
  BY <1>1, Invariance, PTL

\* A commission is stored exactly for the sales released at some time.
THEOREM CommissionCorrect == Spec => []CommissionComesFromReleases
<1>1. IInv => CommissionComesFromReleases
  BY DEF IInv
<1> QED
  BY <1>1, Invariance, PTL

\* The number of files of a claim stays within the limit.
THEOREM EvidenceCorrect == Spec => []EvidenceIsBounded
<1>1. IInv => EvidenceIsBounded
  BY DEF IInv
<1> QED
  BY <1>1, Invariance, PTL

\* An entry is appended to one history and the others keep theirs.
LEMMA GrowStep ==
    ASSUME TypeOK, NEW g \in Sales, NEW from \in States, NEW to \in States \ {"none"},
           NEW actor \in Users \cup {NoUser}, Gains(g, from, to, actor), NEW s \in Sales
    PROVE  /\ Len(history'[s]) >= Len(history[s])
           /\ \A i \in DOMAIN history[s] : history'[s][i] = history[s][i]
           /\ state'[s] # state[s] => Len(history'[s]) = Len(history[s]) + 1
<1>1. history[s] \in Seq(Change) /\ Len(history[s]) \in Nat
  BY DEF TypeOK
<1>2. CASE s = g
  <2>1. PICK n \in Nat \ {0} :
              /\ n = Len(history'[s]) /\ n = Len(history[s]) + 1
              /\ DOMAIN history[s] = 1..(n - 1)
              /\ \A i \in 1..(n - 1) : history'[s][i] = history[s][i]
    BY <1>2, NewIndex
  <2> QED
    BY <1>1, <2>1
<1>3. CASE s # g
  <2>1. history'[s] = history[s] /\ state'[s] = state[s]
    BY <1>3, NewIndex
  <2> QED
    BY <1>1, <2>1
<1> QED
  BY <1>2, <1>3

\* Entries are never changed or removed, and no state changes without one.
THEOREM HistoryKept == Spec => HistoryOnlyGrows
<1> DEFINE Grows == \A s \in Sales :
              /\ Len(history'[s]) >= Len(history[s])
              /\ \A i \in DOMAIN history[s] : history'[s][i] = history[s][i]
              /\ state'[s] # state[s] => Len(history'[s]) = Len(history[s]) + 1
<1>1. ASSUME IInv, [Next]_vars PROVE Grows
  <2>1. CASE UNCHANGED <<payment, dispute>>
    <3>1. \A s \in Sales : Len(history[s]) \in Nat /\ history[s] \in Seq(Change)
      BY <1>1 DEF IInv, TypeOK
    <3> QED
      BY <2>1, <3>1 DEF payment
  <2>2. ASSUME NEW g \in Sales, NEW from \in States, NEW to \in States \ {"none"},
               NEW actor \in Users \cup {NoUser}, Gains(g, from, to, actor)
        PROVE  Grows
    BY <1>1, <2>2, GrowStep DEF IInv
  <2> QED
    BY <1>1, <2>1, <2>2, GainsOrStays DEF IInv
<1>2. IInv /\ [Next]_vars => [Grows]_vars
  BY <1>1
<1> QED
  BY <1>2, Invariance, PTL DEF Spec, HistoryOnlyGrows

-----------------------------------------------------------------------------
(* Serial behaviours: the row a request loaded is the row stored *)

\* What a waiting request loaded still holds.
FreshTasks ==
    \A r \in Requests : task[r] # Idle =>
        /\ task[r].saw = state[task[r].sale]
        /\ task[r].op \in {"confirm", "dispute"} => task[r].saw = "held"
        /\ task[r].op \in {"attach", "resolve"} => dispute[task[r].sale] = "open"

\* The claim, the commission and the state of a payment agree.
Books ==
    \A s \in Sales :
        /\ dispute[s] = "open" <=> state[s] = "in_dispute"
        /\ dispute[s] = "resolved" => state[s] = resolution[s] /\ Settled(state[s])
        /\ s \in charged <=> state[s] = "released"

SInv == TypeOK /\ Serial /\ FreshTasks /\ Books

\* The four ways the money of a sale moves.
Moves(s, to) ==
    /\ state' = [state EXCEPT ![s] = to]
    /\ \A t \in Sales \ {s} : history'[t] = history[t]
    /\ \/ /\ state[s] = "none" /\ to = "held"
          /\ UNCHANGED <<charged, dispute, resolution>>
       \/ /\ state[s] = "held" /\ to = "released"
          /\ charged' = charged \cup {s}
          /\ UNCHANGED <<dispute, resolution>>
       \/ /\ state[s] = "held" /\ to = "in_dispute" /\ dispute[s] = "none"
          /\ dispute' = [dispute EXCEPT ![s] = "open"]
          /\ UNCHANGED <<charged, resolution>>
       \/ /\ state[s] = "in_dispute" /\ to \in Outcomes
          /\ Charge(s, to)
          /\ dispute' = [dispute EXCEPT ![s] = "resolved"]
          /\ resolution' = [resolution EXCEPT ![s] = to]

money == <<state, charged, history, dispute, resolution>>

\* With fresh rows every writing step is one of those moves.
LEMMA MovesOrStays ==
    ASSUME SInv, [Next]_vars
    PROVE  UNCHANGED money \/ \E s \in Sales, to \in States : Moves(s, to)
<1> USE DEF SInv
<1>1. CASE UNCHANGED <<payment, claim>>
  BY <1>1 DEF payment, claim, money
<1>2. ASSUME NEW s \in Sales, NEW b \in Users, NEW v \in Users, HoldPayment(s, b, v)
      PROVE  Moves(s, "held")
  BY <1>2 DEF HoldPayment, Record, Moves, claim, TypeOK
<1>3. ASSUME NEW r \in Requests, ConfirmReception(r) PROVE Moves(task[r].sale, "released")
  <2>1. task[r].sale \in Sales /\ state[task[r].sale] = "held"
    BY <1>3, Holds DEF ConfirmReception, FreshTasks
  <2> QED
    BY <1>3, <2>1 DEF ConfirmReception, Settle, Charge, Record, Moves, claim, TypeOK
<1>4. ASSUME NEW r \in Requests, OpenDispute(r) PROVE Moves(task[r].sale, "in_dispute")
  <2>1. task[r].sale \in Sales /\ state[task[r].sale] = "held"
    BY <1>4, Holds DEF OpenDispute, FreshTasks
  <2> QED
    BY <1>4, <2>1 DEF OpenDispute, MayArgue, Record, Moves, TypeOK
<1>5. ASSUME NEW r \in Requests, NEW n \in 1..MaxEvidence, AttachEvidence(r, n)
      PROVE  UNCHANGED money
  BY <1>5 DEF AttachEvidence, payment, money
<1>6. ASSUME NEW r \in Requests, NEW outcome \in Outcomes, ResolveDispute(r, outcome)
      PROVE  Moves(task[r].sale, outcome)
  <2>1. task[r].sale \in Sales /\ state[task[r].sale] = "in_dispute"
    BY <1>6, Holds DEF ResolveDispute, FreshTasks, Books
  <2> QED
    BY <1>6, <2>1 DEF ResolveDispute, Settle, Record, Moves, TypeOK
<1>7. \A r \in Requests : ConfirmReception(r) \/ OpenDispute(r)
                         \/ (\E outcome \in Outcomes : ResolveDispute(r, outcome))
                         => task[r].sale \in Sales
  BY Holds DEF ConfirmReception, OpenDispute, ResolveDispute
<1>8. "held" \in States /\ "released" \in States /\ "in_dispute" \in States
      /\ Outcomes \subseteq States
  BY DEF States, Outcomes
<1> QED
  BY <1>1, <1>2, <1>3, <1>4, <1>5, <1>6, <1>7, <1>8, Steps

\* Each move keeps claim, commission and payment in agreement.
LEMMA BooksStep ==
    ASSUME SInv, [Next]_vars
    PROVE  Books'
<1>1. CASE UNCHANGED money
  BY <1>1 DEF money, Books, SInv
<1>2. ASSUME NEW s \in Sales, NEW to \in States, Moves(s, to) PROVE Books'
  <2>1. \A t \in Sales \ {s} : /\ state'[t] = state[t] /\ dispute'[t] = dispute[t]
                               /\ resolution'[t] = resolution[t]
                               /\ (t \in charged' <=> t \in charged)
    BY <1>2 DEF Moves, SInv, TypeOK, Charge
  <2>2. state'[s] = to
    BY <1>2 DEF Moves, SInv, TypeOK
  <2>3. /\ dispute'[s] = "open" <=> to = "in_dispute"
        /\ dispute'[s] = "resolved" => to = resolution'[s] /\ Settled(to)
        /\ s \in charged' <=> to = "released"
    BY <1>2 DEF Moves, SInv, Books, TypeOK, Charge, Settled, Outcomes
  <2>4. ASSUME NEW t \in Sales \ {s}
        PROVE  /\ dispute'[t] = "open" <=> state'[t] = "in_dispute"
               /\ dispute'[t] = "resolved" => state'[t] = resolution'[t] /\ Settled(state'[t])
               /\ t \in charged' <=> state'[t] = "released"
    BY <2>1 DEF Books, SInv
  <2> QED
    BY <2>2, <2>3, <2>4 DEF Books
<1> QED
  BY <1>1, <1>2, MovesOrStays

\* A request that writes leaves nobody behind; one that loads sees what is
\* stored; a new payment is of a sale nobody could have loaded.
LEMMA FreshStep ==
    ASSUME SInv, [Next]_vars
    PROVE  FreshTasks'
<1> USE DEF SInv
<1>1. CASE UNCHANGED vars
  BY <1>1 DEF FreshTasks, vars, payment, claim
<1>2. ASSUME NEW s \in Sales, NEW b \in Users, NEW v \in Users, HoldPayment(s, b, v)
      PROVE  FreshTasks'
  <2>1. ASSUME NEW r \in Requests, task[r] # Idle PROVE task[r].sale \in Sales \ {s}
    <3>1. /\ task[r].sale \in Sales
          /\ task[r].op \in {"confirm", "dispute"} \/ task[r].op \in {"attach", "resolve"}
      BY <2>1 DEF TypeOK, Task
    <3>2. state[task[r].sale] # "none"
      BY <2>1, <3>1 DEF FreshTasks, Books
    <3> QED
      BY <1>2, <3>1, <3>2 DEF HoldPayment
  <2>2. \A t \in Sales \ {s} : state'[t] = state[t] /\ dispute'[t] = dispute[t]
    BY <1>2 DEF HoldPayment, Record, claim, TypeOK
  <2>3. task' = task
    BY <1>2 DEF HoldPayment
  <2> QED
    BY <2>1, <2>2, <2>3 DEF FreshTasks
<1>3. ASSUME NEW r \in Requests, NEW s \in Sales, NEW u \in Users,
             NEW op \in {"confirm", "dispute", "attach", "resolve"}, Load(r, op, s, u),
             op \in {"confirm", "dispute"} => state[s] = "held",
             op \in {"attach", "resolve"} => dispute[s] = "open"
      PROVE  FreshTasks'
  <2>1. task'[r] = [op |-> op, sale |-> s, user |-> u, saw |-> state[s]]
    BY <1>3 DEF Load, TypeOK
  <2>2. \A q \in Requests \ {r} : task'[q] = task[q]
    BY <1>3 DEF Load, TypeOK
  <2>3. state' = state /\ dispute' = dispute
    BY <1>3 DEF Load, payment, claim
  <2> QED
    BY <1>3, <2>1, <2>2, <2>3 DEF FreshTasks
<1>4. ASSUME NEW r \in Requests, task[r] # Idle, task' = [task EXCEPT ![r] = Idle],
             \A s \in Sales \ {task[r].sale} : state'[s] = state[s] /\ dispute'[s] = dispute[s]
      PROVE  FreshTasks'
  <2>1. ASSUME NEW q \in Requests, task'[q] # Idle
        PROVE  task'[q] = task[q] /\ task[q].sale \in Sales \ {task[r].sale}
    <3>1. q # r /\ task'[q] = task[q]
      BY <1>4, <2>1 DEF TypeOK
    <3>2. task[q] \in Task
      BY <2>1, <3>1 DEF TypeOK
    <3>3. task[q].sale \in Sales
      BY <3>2 DEF Task
    <3> QED  BY <1>4, <2>1, <3>1, <3>3 DEF Serial
  <2> QED
    BY <1>4, <2>1 DEF FreshTasks
<1>5. ASSUME NEW r \in Requests,
             \/ ConfirmReception(r) \/ OpenDispute(r) \/ Abandon(r)
             \/ \E n \in 1..MaxEvidence : AttachEvidence(r, n)
             \/ \E outcome \in Outcomes : ResolveDispute(r, outcome)
      PROVE  FreshTasks'
  <2>1. task[r] # Idle /\ task' = [task EXCEPT ![r] = Idle]
    BY <1>5, Holds DEF ConfirmReception, OpenDispute, AttachEvidence, ResolveDispute, Abandon
  <2>2. \A s \in Sales \ {task[r].sale} : state'[s] = state[s]
    BY <1>5 DEF ConfirmReception, OpenDispute, AttachEvidence, ResolveDispute, Abandon, Settle,
                Record, payment, TypeOK
  <2>3. \A s \in Sales \ {task[r].sale} : dispute'[s] = dispute[s]
    BY <1>5 DEF ConfirmReception, OpenDispute, AttachEvidence, ResolveDispute, Abandon, claim, TypeOK
  <2> QED  BY <1>4, <2>1, <2>2, <2>3
<1>6. ASSUME NEW r \in Requests, NEW s \in Sales, NEW u \in Users,
             \/ LoadPayment(r, "confirm", s, u) \/ LoadPayment(r, "dispute", s, u)
             \/ LoadClaim(r, s, u) \/ LoadCase(r, s, u)
      PROVE  FreshTasks'
  BY <1>3, <1>6 DEF LoadPayment, LoadClaim, LoadCase, IsOpen
<1>7. CASE Next
  BY <1>2, <1>5, <1>6, <1>7 DEF Next
<1> QED
  BY <1>1, <1>7

\* The serial invariant is inductive.
THEOREM SerialInvariance == SerialSpec => []SInv
<1>1. Init => SInv
  <2> SUFFICES ASSUME Init PROVE SInv
    OBVIOUS
  <2>1. TypeOK
    BY InitIInv DEF IInv
  <2>2. Serial /\ FreshTasks
    BY DEF Init, Serial, FreshTasks
  <2>3. Books
    BY DEF Init, Books
  <2> QED
    BY <2>1, <2>2, <2>3 DEF SInv
<1>2. SInv /\ [Next /\ Serial']_vars => SInv'
  <2> SUFFICES ASSUME SInv, [Next /\ Serial']_vars PROVE SInv'
    OBVIOUS
  <2>1. [Next]_vars
    OBVIOUS
  <2>2. Serial'
    BY DEF SInv, Serial, vars
  <2>3. TypeOK'
    BY <2>1, TypeStep DEF SInv
  <2> QED
    BY <2>1, <2>2, <2>3, FreshStep, BooksStep DEF SInv
<1> QED
  BY <1>1, <1>2, PTL DEF SerialSpec

\* In serial behaviours, an open claim keeps the money where it is and the
\* decision stored is where the money went.
THEOREM ClaimCorrect == SerialSpec => []ClaimHoldsTheMoney
<1>1. SInv => ClaimHoldsTheMoney
  BY DEF SInv, Books, ClaimHoldsTheMoney
<1> QED
  BY <1>1, SerialInvariance, PTL

\* In serial behaviours, a refund leaves the commission at zero.
THEOREM RefundCorrect == SerialSpec => []RefundIsWhole
<1>1. SInv => RefundIsWhole
  BY DEF SInv, Books, RefundIsWhole
<1> QED
  BY <1>1, SerialInvariance, PTL

\* No step touches a sale that is settled.
LEMMA StayStep ==
    ASSUME SInv, [Next]_vars, NEW s \in Sales, Settled(state[s])
    PROVE  state'[s] = state[s] /\ history'[s] = history[s]
<1>1. CASE UNCHANGED money
  BY <1>1 DEF money
<1>2. ASSUME NEW t \in Sales, NEW to \in States, Moves(t, to)
      PROVE  state'[s] = state[s] /\ history'[s] = history[s]
  BY <1>2 DEF Moves, SInv, TypeOK, Settled, Outcomes
<1> QED
  BY <1>1, <1>2, MovesOrStays

\* In serial behaviours, money that moved stays where it is.
THEOREM MovedForGood == SerialSpec => SettledForGood
<1>1. SInv /\ [Next /\ Serial']_vars =>
        [\A s \in Sales : Settled(state[s]) => state'[s] = state[s]
                                               /\ history'[s] = history[s]]_vars
  BY StayStep
<1> QED
  BY <1>1, SerialInvariance, PTL DEF SerialSpec, SettledForGood

\* Place, state by state.
LEMMA Places ==
    /\ Place("none") = "unpaid" /\ Place("held") = "retained"
    /\ Place("in_dispute") = "argued" /\ Place("released") = "paid"
    /\ Place("refunded") = "returned"
BY Zenon DEF Place

\* No payment, no money: SaleMoney starts.
LEMMA MoneyInit == Init => Money!Init
BY Places DEF Init, Money!Init, Where

\* Every step retains, argues over, or moves the money of one sale, or is
\* invisible there.
LEMMA MoneyStep ==
    ASSUME SInv, [Next]_vars PROVE [Money!Next]_<<Where, charged>>
<1>1. CASE UNCHANGED money
  BY <1>1 DEF money, Where
<1>2. ASSUME NEW s \in Sales, NEW to \in States, Moves(s, to) PROVE Money!Next
  <2>1. Where[s] = Place(state[s])
    BY DEF Where
  <2>2. Where' = [Where EXCEPT ![s] = Place(to)]
    <3>1. state' = [state EXCEPT ![s] = to] /\ state \in [Sales -> States]
      BY <1>2 DEF Moves, SInv, TypeOK
    <3> QED
      BY <3>1 DEF Where
  <2> QED
    BY <1>2, <2>1, <2>2, Places
    DEF Moves, Charge, Outcomes, Money!Next, Money!Retain, Money!Argue, Money!PaySeller,
        Money!PayBack, Money!Move
<1> QED
  BY <1>1, <1>2, MovesOrStays

\* In serial behaviours, the payments implement SaleMoney: they start unpaid,
\* and every step retains, argues over, or moves the money of one sale, or is
\* invisible there.
THEOREM Refinement == SerialSpec => ImplementsMoney
<1>1. SInv /\ [Next /\ Serial']_vars => [Money!Next]_<<Where, charged>>
  BY MoneyStep
<1> QED
  BY <1>1, MoneyInit, SerialInvariance, PTL DEF SerialSpec, ImplementsMoney, Money!Spec

\* With fresh rows an entry starts in the state stored.
LEMMA RecordsFresh ==
    ASSUME SInv, [Next]_vars
    PROVE  \/ UNCHANGED history
           \/ \E s \in Sales, to \in States, actor \in Users \cup {NoUser} :
                 Record(s, state[s], to, actor)
<1> USE DEF SInv
<1>1. CASE UNCHANGED <<payment, claim>>
  BY <1>1 DEF payment
<1>2. ASSUME NEW s \in Sales, NEW b \in Users, NEW v \in Users, HoldPayment(s, b, v)
      PROVE  Record(s, state[s], "held", NoUser)
  BY <1>2 DEF HoldPayment
<1>3. ASSUME NEW r \in Requests, ConfirmReception(r)
      PROVE  Record(task[r].sale, state[task[r].sale], "released", task[r].user)
  BY <1>3, Holds DEF ConfirmReception, Settle, FreshTasks
<1>4. ASSUME NEW r \in Requests, OpenDispute(r)
      PROVE  Record(task[r].sale, state[task[r].sale], "in_dispute", task[r].user)
  BY <1>4, Holds DEF OpenDispute, FreshTasks
<1>5. ASSUME NEW r \in Requests, NEW n \in 1..MaxEvidence, AttachEvidence(r, n)
      PROVE  UNCHANGED history
  BY <1>5 DEF AttachEvidence, payment
<1>6. ASSUME NEW r \in Requests, NEW outcome \in Outcomes, ResolveDispute(r, outcome)
      PROVE  Record(task[r].sale, state[task[r].sale], outcome, task[r].user)
  BY <1>6, Holds DEF ResolveDispute, Settle, FreshTasks
<1>7. \A r \in Requests : ConfirmReception(r) \/ OpenDispute(r)
                         \/ (\E outcome \in Outcomes : ResolveDispute(r, outcome))
                         => task[r].sale \in Sales /\ task[r].user \in Users
  BY Holds DEF ConfirmReception, OpenDispute, ResolveDispute
<1>8. "held" \in States /\ "released" \in States /\ "in_dispute" \in States
      /\ Outcomes \subseteq States
  BY DEF States, Outcomes
<1> QED
  BY <1>1, <1>2, <1>3, <1>4, <1>5, <1>6, <1>7, <1>8, Steps

\* A new entry starts where the last one ended.
LEMMA ChainStep ==
    ASSUME IInv, SInv, HistoryIsAChain, [Next]_vars
    PROVE  HistoryIsAChain'
<1>1. CASE UNCHANGED history
  BY <1>1 DEF HistoryIsAChain
<1>2. ASSUME NEW s \in Sales, NEW to \in States, NEW actor \in Users \cup {NoUser},
             Record(s, state[s], to, actor)
      PROVE  HistoryIsAChain'
  <2> DEFINE n == Len(history[s])
  <2>1. /\ n \in Nat /\ DOMAIN history[s] = 1..n
        /\ DOMAIN history'[s] = 1..(n + 1)
        /\ history'[s][n + 1].from = state[s]
        /\ \A i \in 1..n : history'[s][i] = history[s][i]
        /\ \A t \in Sales \ {s} : history'[t] = history[t]
    <3>1. state[s] \in States /\ TypeOK
      BY DEF IInv, TypeOK
    <3> QED  BY <1>2, <3>1, Recorded
  <2>2. state[s] = IF n = 0 THEN "none" ELSE history[s][n].to
    <3>1. history[s] = <<>> <=> n = 0
      BY <2>1 DEF IInv, TypeOK
    <3> QED  BY <2>1, <3>1 DEF IInv, HistoryEndsInState
  <2> HIDE DEF n
  <2>3. ASSUME NEW i \in 1..(n + 1)
        PROVE  history'[s][i].from = IF i = 1 THEN "none" ELSE history'[s][i - 1].to
    <3>1. CASE i = n + 1
      BY <2>1, <2>2, <3>1
    <3>2. CASE i \in 1..n
      <4>1. i = 1 \/ i - 1 \in 1..n
        BY <2>1, <3>2
      <4>2. history[s][i].from = IF i = 1 THEN "none" ELSE history[s][i - 1].to
        BY <2>1, <3>2 DEF HistoryIsAChain
      <4> QED  BY <2>1, <3>2, <4>1, <4>2
    <3> QED  BY <2>1, <3>1, <3>2
  <2>4. ASSUME NEW t \in Sales, NEW i \in DOMAIN history'[t]
        PROVE  history'[t][i].from = IF i = 1 THEN "none" ELSE history'[t][i - 1].to
    <3>1. CASE t = s
      BY <2>1, <2>3, <3>1
    <3>2. CASE t # s
      BY <2>1, <3>2 DEF HistoryIsAChain
    <3> QED  BY <3>1, <3>2
  <2> QED  BY <2>4 DEF HistoryIsAChain
<1> QED  BY <1>1, <1>2, RecordsFresh

\* In serial behaviours, each entry of a history starts where the one before it
\* ended (record_state_change).
THEOREM ChainCorrect == SerialSpec => []HistoryIsAChain
<1>1. Init => HistoryIsAChain
  BY DEF Init, HistoryIsAChain
<1>2. IInv /\ SInv /\ HistoryIsAChain /\ [Next /\ Serial']_vars => HistoryIsAChain'
  BY ChainStep
<1>3. SerialSpec => []IInv
  BY Invariance, PTL DEF Spec, SerialSpec
<1> QED  BY <1>1, <1>2, <1>3, SerialInvariance, PTL DEF SerialSpec

\* Files are attached to open claims.
LEMMA FilesStep ==
    ASSUME SInv, [Next]_vars
    PROVE  \A s \in Sales : evidence'[s] # evidence[s] => dispute[s] = "open"
<1> DEFINE Early == \A s \in Sales : evidence'[s] # evidence[s] => dispute[s] = "open"
<1>1. ASSUME NEW r \in Requests, NEW n \in 1..MaxEvidence, AttachEvidence(r, n) PROVE Early
  <2>1. task[r].sale \in Sales /\ dispute[task[r].sale] = "open"
    BY <1>1, Holds DEF AttachEvidence, SInv, FreshTasks
  <2>2. \A s \in Sales \ {task[r].sale} : evidence'[s] = evidence[s]
    BY <1>1 DEF AttachEvidence, SInv, TypeOK
  <2> QED  BY <2>1, <2>2
<1>2. CASE UNCHANGED <<payment, claim>>
  BY <1>2 DEF claim
<1>3. CASE \E s \in Sales, b, v \in Users : HoldPayment(s, b, v)
  BY <1>3 DEF HoldPayment, claim
<1>4. ASSUME NEW r \in Requests, \/ ConfirmReception(r) \/ OpenDispute(r)
                                 \/ \E outcome \in Outcomes : ResolveDispute(r, outcome)
      PROVE  Early
  BY <1>4 DEF ConfirmReception, OpenDispute, ResolveDispute, claim
<1> QED  BY <1>1, <1>2, <1>3, <1>4, Steps DEF SInv

\* In serial behaviours, no file is attached to a claim that is not open
\* (attach_evidence).
THEOREM FilesCorrect == SerialSpec => EvidencePrecedesDecision
<1>1. SInv /\ [Next /\ Serial']_vars =>
        [\A s \in Sales : evidence'[s] # evidence[s] => dispute[s] = "open"]_vars
  BY FilesStep
<1> QED  BY <1>1, SerialInvariance, PTL DEF SerialSpec, EvidencePrecedesDecision
=============================================================================
