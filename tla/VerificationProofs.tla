------------------------- MODULE VerificationProofs -------------------------
(***************************************************************************)
(* Proofs about Verification, for every number of accounts, workers,       *)
(* documents and requests. The row a worker loaded may be stale, so what   *)
(* is kept of it is only this (LoadedRows): it exists, and while it still  *)
(* waits it still names the document that was loaded.                      *)
(*                                                                         *)
(* A document of a request that waits can be lost. The end of the module   *)
(* says exactly how, and that it cannot when no two administrators hold    *)
(* the same request and none is cut off.                                   *)
(***************************************************************************)
EXTENDS Verification, TLAPS

LoadedRows ==
    \A w \in Workers : job[w].kind = "decide" =>
        \A i \in DOMAIN job[w].papers :
            /\ i \in DOMAIN requests
            /\ i \in Pending => job[w].papers[i] = PaperOf(i)

IInv ==
    /\ TypeOK
    /\ LoadedRows
    /\ OnePending
    /\ ApprovedCanPublish
    /\ ResolvedPapersAreGone

-----------------------------------------------------------------------------
(* Lemmas about the data *)

\* What a row of VerificationRequest holds.
LEMMA RowShape ==
    ASSUME TypeOK, NEW i \in DOMAIN requests
    PROVE  /\ requests[i] \in Row
           /\ requests[i].seller \in Users
           /\ requests[i].state \in {"pending", "approved", "rejected"}
           /\ i \in Pending => PaperOf(i) \in Paper
<1>1. requests \in Seq(Row)
  BY DEF TypeOK
<1>2. requests[i] \in Row
  BY <1>1
<1>3. /\ requests[i].seller \in Users
      /\ requests[i].state \in {"pending", "approved", "rejected"}
      /\ requests[i].state = "pending" => requests[i].doc \in Docs
  BY <1>2 DEF Row
<1>4. i \in Pending => PaperOf(i) \in Paper
  BY <1>3 DEF Pending, PaperOf, Paper
<1> QED  BY <1>2, <1>3, <1>4

\* What a worker holds that is deciding.
LEMMA JobShape ==
    ASSUME TypeOK, NEW w \in Workers, job[w].kind = "decide"
    PROVE  /\ job[w] \in Decision
           /\ job[w].verdict \in {"approved", "rejected"}
           /\ DOMAIN job[w].papers \subseteq Rows
           /\ \A i \in DOMAIN job[w].papers : job[w].papers[i] \in Paper
<1>1. job[w] \in {Idle} \cup Submission \cup Decision
  BY DEF TypeOK
<1>2. job[w] \in Decision
  BY <1>1 DEF Idle, Submission
<1>3. job[w].verdict \in {"approved", "rejected"}
      /\ job[w].papers \in UNION {[S -> Paper] : S \in SUBSET Rows}
  BY <1>2 DEF Decision
<1>4. PICK S \in SUBSET Rows : job[w].papers \in [S -> Paper]
  BY <1>3
<1> QED  BY <1>2, <1>3, <1>4

\* The rest of a decision is a decision about rows of the old one.
LEMMA RestShape ==
    ASSUME TypeOK, NEW w \in Workers, NEW i, DecidesNext(w, i)
    PROVE  /\ Rest(w, i) \in {Idle} \cup Decision
           /\ Rest(w, i).kind = "decide" =>
                \A j \in DOMAIN Rest(w, i).papers :
                    j \in DOMAIN job[w].papers \ {i} /\ Rest(w, i).papers[j] = job[w].papers[j]
<1> DEFINE left == DOMAIN job[w].papers \ {i}
           papers == [j \in left |-> job[w].papers[j]]
<1>1. CASE left = {}
  BY <1>1 DEF Rest, Idle
<1>2. CASE left # {}
  <2>1. job[w] \in Decision /\ DOMAIN job[w].papers \subseteq Rows
        /\ \A j \in DOMAIN job[w].papers : job[w].papers[j] \in Paper
    BY JobShape DEF DecidesNext
  <2>2. papers \in [left -> Paper] /\ left \in SUBSET Rows
    BY <2>1
  <2>3. papers \in UNION {[S -> Paper] : S \in SUBSET Rows}
    BY <2>2
  <2>4. Rest(w, i) = [job[w] EXCEPT !.papers = papers]
    BY <1>2 DEF Rest
  <2> HIDE DEF papers
  <2>5. Rest(w, i) \in Decision /\ Rest(w, i).papers = papers
    BY <2>1, <2>3, <2>4 DEF Decision
  <2> QED  BY <2>5 DEF papers
<1> QED  BY <1>1, <1>2

-----------------------------------------------------------------------------
(* Every step preserves IInv *)

\* A worker that loads an account, or goes idle, leaves the rows alone.
LEMMA JobOnlyStep ==
    ASSUME IInv, UNCHANGED <<requests, files, orphans, role, verified>>,
           NEW w \in Workers, NEW j \in {Idle} \cup Submission,
           job' = [job EXCEPT ![w] = j]
    PROVE  IInv'
<1> USE DEF IInv
<1>1. TypeOK'
  BY DEF TypeOK
<1>2. j.kind # "decide"
  BY DEF Idle, Submission
<1>3. \A v \in Workers : job'[v].kind = "decide" => job'[v] = job[v]
  BY <1>2 DEF TypeOK
<1>4. LoadedRows'
  BY <1>3 DEF LoadedRows, Pending, PaperOf
<1>5. OnePending' /\ ApprovedCanPublish' /\ ResolvedPapersAreGone'
  BY DEF OnePending, ApprovedCanPublish, ResolvedPapersAreGone, Pending, PaperOf
<1> QED  BY <1>1, <1>4, <1>5

\* A submission adds one row, the last, which waits.
LEMMA SubmitShape ==
    ASSUME IInv, NEW w \in Workers, NEW d \in Docs, Submit(w, d)
    PROVE  \E n \in Nat :
              /\ n = Len(requests) + 1 /\ n <= MaxRequests
              /\ requests' \in Seq(Row) /\ Len(requests') = n
              /\ DOMAIN requests' = DOMAIN requests \cup {n} /\ n \notin DOMAIN requests
              /\ requests'[n] = [seller |-> job[w].user, state |-> "pending", doc |-> d]
              /\ \A i \in DOMAIN requests : requests'[i] = requests[i]
              /\ Pending' = Pending \cup {n}
              /\ \A i \in Pending : PaperOf(i)' = PaperOf(i)
              /\ PaperOf(n)' = [seller |-> job[w].user, doc |-> d] /\ PaperOf(n)' \in Paper
<1> USE DEF IInv
<1> DEFINE u == job[w].user
           row == [seller |-> u, state |-> "pending", doc |-> d]
<1>1. u \in Users
  <2>1. job[w] \in {Idle} \cup Submission \cup Decision
    BY DEF TypeOK
  <2>2. job[w].kind = "submit"
    BY DEF Submit, MaySubmit
  <2> QED  BY <2>1, <2>2 DEF Idle, Submission, Decision
<1>2. row \in Row
  BY <1>1 DEF Row
<1>3. /\ requests \in Seq(Row) /\ requests' = Append(requests, row)
      /\ Len(requests) < MaxRequests
  BY DEF Submit, TypeOK
<1> PICK n \in Nat : n = Len(requests) + 1
  BY <1>3
<1> HIDE DEF row
<1>4. /\ requests' \in Seq(Row) /\ Len(requests') = n
      /\ DOMAIN requests = 1..Len(requests) /\ Len(requests) \in Nat
      /\ DOMAIN requests' = DOMAIN requests \cup {n} /\ n \notin DOMAIN requests
      /\ requests'[n] = row
      /\ \A i \in DOMAIN requests : requests'[i] = requests[i]
  BY <1>2, <1>3
<1>5. Pending' = Pending \cup {n} /\ \A i \in Pending : PaperOf(i)' = PaperOf(i)
  BY <1>4 DEF Pending, PaperOf, row
<1>6. PaperOf(n)' = [seller |-> u, doc |-> d] /\ PaperOf(n)' \in Paper
  BY <1>1, <1>4 DEF PaperOf, row, Paper
<1>7. n = Len(requests) + 1 /\ n <= MaxRequests
  BY <1>3, <1>4, ConstantsAssumption
<1> QED  BY <1>4, <1>5, <1>6, <1>7 DEF row

\* A submission adds a row that waits and its file.
LEMMA SubmitStep ==
    ASSUME IInv, NEW w \in Workers, NEW d \in Docs, Submit(w, d)
    PROVE  IInv'
<1> USE DEF IInv
<1> DEFINE u == job[w].user
           row == [seller |-> u, state |-> "pending", doc |-> d]
<1> PICK n \in Nat :
      /\ n <= MaxRequests
      /\ requests' \in Seq(Row) /\ Len(requests') = n
      /\ DOMAIN requests' = DOMAIN requests \cup {n} /\ n \notin DOMAIN requests
      /\ requests'[n] = row
      /\ \A i \in DOMAIN requests : requests'[i] = requests[i]
      /\ Pending' = Pending \cup {n}
      /\ \A i \in Pending : PaperOf(i)' = PaperOf(i)
      /\ PaperOf(n)' = [seller |-> u, doc |-> d] /\ PaperOf(n)' \in Paper
  BY SubmitShape
<1> HIDE DEF row
<1>7. TypeOK'
  <2>1. files' \subseteq Paper /\ orphans' \subseteq files'
    BY DEF TypeOK, Submit, PaperOf
  <2>2. job' \in [Workers -> {Idle} \cup Submission \cup Decision]
    BY DEF TypeOK, Submit
  <2> QED  BY <2>1, <2>2 DEF TypeOK, Submit
<1>8. LoadedRows'
  <2>1. \A v \in Workers : job'[v].kind = "decide" => job'[v] = job[v]
    BY DEF TypeOK, Submit, Idle
  <2> QED  BY <2>1 DEF LoadedRows, Pending
<1>9. OnePending'
  <2>1. \A i \in Pending : i \in DOMAIN requests /\ requests[i].seller # u
    BY DEF Submit, MaySubmit, Pending
  <2> QED  BY <2>1 DEF OnePending, row
<1>10. ApprovedCanPublish'
  BY DEF ApprovedCanPublish, Submit, row
<1>11. ResolvedPapersAreGone'
  BY DEF ResolvedPapersAreGone, Submit
<1> QED  BY <1>7, <1>8, <1>9, <1>10, <1>11

\* A submission cut off adds a file that no row names.
LEMMA SubmissionCutOffStep ==
    ASSUME IInv, NEW w \in Workers, NEW d \in Docs, SubmissionCutOff(w, d)
    PROVE  IInv'
<1> USE DEF IInv
<1>1. job[w].user \in Users
  <2>1. job[w] \in {Idle} \cup Submission \cup Decision
    BY DEF TypeOK
  <2>2. job[w].kind = "submit"
    BY DEF SubmissionCutOff, MaySubmit
  <2> QED  BY <2>1, <2>2 DEF Idle, Submission, Decision
<1>2. TypeOK'
  BY <1>1 DEF TypeOK, SubmissionCutOff, Paper
<1>3. \A v \in Workers : job'[v].kind = "decide" => job'[v] = job[v]
  BY DEF TypeOK, SubmissionCutOff, Idle
<1>4. LoadedRows'
  BY <1>3 DEF LoadedRows, SubmissionCutOff, Pending, PaperOf
<1>5. OnePending' /\ ApprovedCanPublish' /\ ResolvedPapersAreGone'
  BY DEF OnePending, ApprovedCanPublish, ResolvedPapersAreGone, SubmissionCutOff, Pending, PaperOf
<1> QED  BY <1>2, <1>4, <1>5

\* An administrator's selection is loaded as it is.
LEMMA StartDecisionStep ==
    ASSUME IInv, NEW w \in Workers, NEW a \in Users, NEW S \in SUBSET DOMAIN requests,
           NEW v \in {"approved", "rejected"}, StartDecision(w, a, S, v)
    PROVE  IInv'
<1> USE DEF IInv
<1> DEFINE papers == [i \in Selected(S) |-> PaperOf(i)]
           new == [kind |-> "decide", verdict |-> v, papers |-> papers]
<1>1. /\ Selected(S) \subseteq DOMAIN requests /\ Selected(S) \subseteq Pending
      /\ DOMAIN requests \subseteq Rows
  <2>1. requests \in Seq(Row) /\ Len(requests) <= MaxRequests
    BY DEF TypeOK
  <2>2. DOMAIN requests \subseteq Rows
    BY <2>1, ConstantsAssumption DEF Rows
  <2> QED  BY <2>2 DEF Selected
<1>2. papers \in [Selected(S) -> Paper]
  BY <1>1, RowShape
<1>3. papers \in UNION {[T -> Paper] : T \in SUBSET Rows}
  BY <1>1, <1>2
<1>4. job' = [job EXCEPT ![w] = new]
  BY DEF StartDecision
<1>5. DOMAIN papers = Selected(S) /\ \A i \in Selected(S) : papers[i] = PaperOf(i)
  OBVIOUS
<1> HIDE DEF papers
<1>6. new \in Decision /\ new.papers = papers
  BY <1>3 DEF Decision
<1> HIDE DEF new
<1>7. TypeOK'
  BY <1>4, <1>6 DEF TypeOK, StartDecision
<1>8. LoadedRows'
  <2>1. \A x \in Workers : job'[x] = IF x = w THEN new ELSE job[x]
    BY <1>4 DEF TypeOK
  <2>2. UNCHANGED requests
    BY DEF StartDecision
  <2> SUFFICES ASSUME NEW x \in Workers, job'[x].kind = "decide",
                      NEW i \in DOMAIN job'[x].papers
               PROVE  /\ i \in DOMAIN requests
                      /\ i \in Pending => job'[x].papers[i] = PaperOf(i)
    BY <2>2 DEF LoadedRows, Pending, PaperOf
  <2>3. CASE x = w
    BY <2>1, <2>3, <1>1, <1>5, <1>6
  <2>4. CASE x # w
    BY <2>1, <2>4 DEF LoadedRows
  <2> QED  BY <2>3, <2>4
<1>9. OnePending' /\ ApprovedCanPublish' /\ ResolvedPapersAreGone'
  BY DEF OnePending, ApprovedCanPublish, ResolvedPapersAreGone, StartDecision, Pending, PaperOf
<1> QED  BY <1>7, <1>8, <1>9

\* A decision resolves one row, and the others that waited wait on.
LEMMA DecideShape ==
    ASSUME IInv, NEW w \in Workers, NEW i \in DOMAIN requests, Decide(w, i)
    PROVE  /\ requests \in Seq(Row) /\ requests[i] \in Row /\ requests[i].seller \in Users
           /\ requests' = [requests EXCEPT ![i].state = job[w].verdict, ![i].doc = NoDoc]
           /\ DOMAIN requests' = DOMAIN requests
           /\ \A k \in DOMAIN requests : k # i => requests'[k] = requests[k]
           /\ requests'[i].state = job[w].verdict /\ requests'[i].seller = requests[i].seller
           /\ requests'[i] \in Row
           /\ Pending' = Pending \ {i}
           /\ \A k \in Pending' : PaperOf(k)' = PaperOf(k)
<1> USE DEF IInv
<1> DEFINE v == job[w].verdict
           u == requests[i].seller
<1>1. /\ job[w].kind = "decide" /\ i \in DOMAIN job[w].papers
      /\ v \in {"approved", "rejected"}
  BY JobShape DEF Decide, DecidesNext
<1>2. /\ requests \in Seq(Row) /\ requests[i] \in Row /\ u \in Users
      /\ requests' = [requests EXCEPT ![i].state = v, ![i].doc = NoDoc]
  BY RowShape DEF Decide, Resolved, TypeOK
<1>3. /\ DOMAIN requests' = DOMAIN requests
      /\ \A k \in DOMAIN requests : k # i => requests'[k] = requests[k]
      /\ requests'[i] = [requests[i] EXCEPT !.state = v, !.doc = NoDoc]
  BY <1>2
<1>4. /\ requests'[i].state = v /\ requests'[i].seller = u
      /\ requests'[i] \in Row
  BY <1>1, <1>2, <1>3 DEF Row
<1>5. /\ Pending' = Pending \ {i}
      /\ \A k \in Pending' : PaperOf(k)' = PaperOf(k)
  <2>1. requests'[i].state # "pending"
    BY <1>1, <1>4
  <2>2. Pending' = Pending \ {i}
    BY <1>3, <2>1 DEF Pending
  <2>3. ASSUME NEW k \in Pending' PROVE PaperOf(k)' = PaperOf(k)
    <3>1. k \in DOMAIN requests /\ k # i
      BY <2>2 DEF Pending
    <3> QED  BY <1>3, <3>1 DEF PaperOf
  <2> QED  BY <2>2, <2>3
<1> QED  BY <1>2, <1>3, <1>4, <1>5

\* A decision resolves one row, whoever resolved it before, and deletes what
\* the loaded row named: the row's document, if it still waited.
LEMMA DecideStep ==
    ASSUME IInv, NEW w \in Workers, NEW i \in DOMAIN requests, Decide(w, i)
    PROVE  IInv'
<1> USE DEF IInv
<1> DEFINE v == job[w].verdict
           paper == job[w].papers[i]
           u == requests[i].seller
<1>1. /\ job[w].kind = "decide" /\ i \in DOMAIN job[w].papers
      /\ v \in {"approved", "rejected"}
  BY JobShape DEF Decide, DecidesNext
<1>2. /\ requests \in Seq(Row) /\ requests[i] \in Row /\ u \in Users
      /\ requests' = [requests EXCEPT ![i].state = v, ![i].doc = NoDoc]
  BY DecideShape
<1>3. /\ DOMAIN requests' = DOMAIN requests
      /\ \A k \in DOMAIN requests : k # i => requests'[k] = requests[k]
  BY DecideShape
<1>4. /\ requests'[i].state = v /\ requests'[i].seller = u
      /\ requests'[i] \in Row
  BY DecideShape
<1>5. /\ Pending' = Pending \ {i}
      /\ \A k \in Pending' : PaperOf(k)' = PaperOf(k)
  BY DecideShape
<1>6. TypeOK'
  <2>1. requests' \in Seq(Row) /\ Len(requests') = Len(requests)
    <3>1. /\ DOMAIN requests = 1..Len(requests) /\ Len(requests) \in Nat
          /\ \A k \in DOMAIN requests : requests[k] \in Row
      BY <1>2
    <3>2. \A k \in DOMAIN requests : requests'[k] \in Row
      BY <1>3, <1>4, <3>1
    <3>3. requests' \in [1..Len(requests) -> Row]
      BY <1>2, <3>1, <3>2
    <3> QED  BY <3>1, <3>3
  <2>2. job' \in [Workers -> {Idle} \cup Submission \cup Decision]
    BY RestShape DEF Decide, TypeOK
  <2>3. role' \in [Users -> {"bidder", "seller", "administrator"}]
        /\ verified' \in [Users -> BOOLEAN]
    BY <1>2 DEF Decide, Granted, TypeOK
  <2>4. files' \subseteq Paper /\ orphans' \subseteq files'
    BY DEF Decide, Without, TypeOK
  <2> QED  BY <2>1, <2>2, <2>3, <2>4 DEF TypeOK
<1>7. LoadedRows'
  <2> SUFFICES ASSUME NEW x \in Workers, job'[x].kind = "decide",
                      NEW k \in DOMAIN job'[x].papers
               PROVE  /\ k \in DOMAIN requests'
                      /\ k \in Pending' => job'[x].papers[k] = PaperOf(k)'
    BY DEF LoadedRows
  <2>1. job' = [job EXCEPT ![w] = Rest(w, i)] /\ DecidesNext(w, i)
    BY DEF Decide
  <2>2. /\ job[x].kind = "decide" /\ k \in DOMAIN job[x].papers
        /\ job'[x].papers[k] = job[x].papers[k]
    <3>1. CASE x = w
      <4>1. job'[x] = Rest(w, i)
        BY <2>1, <3>1 DEF TypeOK
      <4> QED  BY <4>1, <3>1, <1>1, <2>1, RestShape
    <3>2. CASE x # w
      BY <2>1, <3>2 DEF TypeOK
    <3> QED  BY <3>1, <3>2
  <2>3. k \in DOMAIN requests /\ (k \in Pending => job[x].papers[k] = PaperOf(k))
    BY <2>2 DEF LoadedRows
  <2> QED  BY <2>2, <2>3, <1>3, <1>5
<1>8. OnePending'
  BY <1>3, <1>5 DEF OnePending, Pending
<1>9. ApprovedCanPublish'
  <2> SUFFICES ASSUME NEW k \in DOMAIN requests', requests'[k].state = "approved"
               PROVE  role'[requests'[k].seller] = "seller" /\ verified'[requests'[k].seller]
    BY DEF ApprovedCanPublish
  <2>1. requests'[k].seller = requests[k].seller /\ requests[k].seller \in Users
    BY <1>3, <1>4, RowShape
  <2>2. CASE v = "approved" /\ requests[k].seller = u
    BY <2>1, <2>2 DEF Decide, Granted, TypeOK
  <2>3. CASE ~(v = "approved" /\ requests[k].seller = u)
    <3>1. k # i
      BY <2>3, <1>4
    <3>2. role[requests[k].seller] = "seller" /\ verified[requests[k].seller]
      BY <3>1, <1>3 DEF ApprovedCanPublish
    <3>3. role'[requests[k].seller] = role[requests[k].seller]
          /\ verified'[requests[k].seller] = verified[requests[k].seller]
      BY <2>1, <2>3 DEF Decide, Granted, TypeOK
    <3> QED  BY <2>1, <3>2, <3>3
  <2> QED  BY <2>2, <2>3
<1>10. ResolvedPapersAreGone'
  <2>1. files' = files \ {paper} /\ orphans' = orphans \cap files'
    BY DEF Decide, Without
  <2>2. i \in Pending => paper = PaperOf(i)
    BY <1>1 DEF LoadedRows
  <2>3. ASSUME NEW f \in files' PROVE f \in orphans' \cup {PaperOf(k)' : k \in Pending'}
    <3>1. CASE f \in orphans
      BY <3>1, <2>1, <2>3
    <3>2. CASE f \notin orphans
      <4>1. PICK k \in Pending : f = PaperOf(k)
        BY <3>2, <2>1, <2>3 DEF ResolvedPapersAreGone
      <4>2. k # i
        BY <4>1, <2>1, <2>2, <2>3
      <4> QED  BY <4>1, <4>2, <1>5
    <3> QED  BY <3>1, <3>2
  <2> QED  BY <2>3 DEF ResolvedPapersAreGone
<1> QED  BY <1>6, <1>7, <1>8, <1>9, <1>10

\* A decision cut off has deleted the document and written nothing.
LEMMA DecisionCutOffStep ==
    ASSUME IInv, NEW w \in Workers, NEW i \in DOMAIN requests, DecisionCutOff(w, i)
    PROVE  IInv'
<1> USE DEF IInv
<1>1. TypeOK'
  BY DEF TypeOK, DecisionCutOff, Without
<1>2. \A v \in Workers : job'[v].kind = "decide" => job'[v] = job[v]
  BY DEF TypeOK, DecisionCutOff, Idle
<1>3. LoadedRows'
  BY <1>2 DEF LoadedRows, DecisionCutOff, Pending, PaperOf
<1>4. OnePending' /\ ApprovedCanPublish'
  BY DEF OnePending, ApprovedCanPublish, DecisionCutOff, Pending
<1>5. ResolvedPapersAreGone'
  <2>1. UNCHANGED requests /\ files' \subseteq files /\ orphans' = orphans \cap files'
    BY DEF DecisionCutOff, Without
  <2> QED  BY <2>1 DEF ResolvedPapersAreGone, Pending, PaperOf
<1> QED  BY <1>1, <1>3, <1>4, <1>5

\* No requests, no files.
LEMMA InitIInv == Init => IInv
<1> SUFFICES ASSUME Init PROVE IInv
  OBVIOUS
<1>1. TypeOK
  BY ConstantsAssumption DEF Init, TypeOK
<1>2. DOMAIN requests = {} /\ Pending = {}
  BY DEF Init, Pending
<1>3. LoadedRows
  BY DEF Init, LoadedRows, Idle
<1>4. OnePending /\ ApprovedCanPublish /\ ResolvedPapersAreGone
  BY <1>2 DEF Init, OnePending, ApprovedCanPublish, ResolvedPapersAreGone
<1> QED  BY <1>1, <1>3, <1>4 DEF IInv

\* Every step preserves IInv.
LEMMA NextIInv == IInv /\ [Next]_vars => IInv'
<1> SUFFICES ASSUME IInv, [Next]_vars PROVE IInv'
  OBVIOUS
<1>1. ASSUME NEW w \in Workers, Abandon(w) PROVE IInv'
  BY <1>1, JobOnlyStep DEF Abandon
<1>2. ASSUME NEW w \in Workers, NEW u \in Users, StartSubmission(w, u) PROVE IInv'
  <2>1. [kind |-> "submit", user |-> u, verified |-> verified[u]] \in Submission
    BY DEF IInv, TypeOK, Submission
  <2> QED  BY <1>2, <2>1, JobOnlyStep DEF StartSubmission
<1>3. ASSUME NEW w \in Workers, NEW d \in Docs, Submit(w, d) \/ SubmissionCutOff(w, d)
      PROVE  IInv'
  BY <1>3, SubmitStep, SubmissionCutOffStep
<1>4. ASSUME NEW w \in Workers, NEW a \in Users, NEW S \in SUBSET DOMAIN requests,
             NEW v \in {"approved", "rejected"}, StartDecision(w, a, S, v)
      PROVE  IInv'
  BY <1>4, StartDecisionStep
<1>5. ASSUME NEW w \in Workers, NEW i \in DOMAIN requests, Decide(w, i) \/ DecisionCutOff(w, i)
      PROVE  IInv'
  BY <1>5, DecideStep, DecisionCutOffStep
<1>6. CASE UNCHANGED vars
  BY <1>6 DEF vars, IInv, TypeOK, LoadedRows, OnePending, ApprovedCanPublish,
              ResolvedPapersAreGone, Pending, PaperOf
<1> QED  BY <1>1, <1>2, <1>3, <1>4, <1>5, <1>6 DEF Next

-----------------------------------------------------------------------------
(* The theorems *)

\* The inductive invariant holds of every submission and decision.
THEOREM Invariance == Spec => []IInv
BY InitIInv, NextIInv, PTL DEF Spec

\* Every variable keeps its type: a resolved row names no document
\* (accounts/services.py:205).
THEOREM TypeCorrect == Spec => []TypeOK
<1>1. IInv => TypeOK
  BY DEF IInv
<1> QED  BY <1>1, Invariance, PTL

\* Nobody queues two requests (accounts/services.py:131-132).
THEOREM PendingCorrect == Spec => []OnePending
<1>1. IInv => OnePending
  BY DEF IInv
<1> QED  BY <1>1, Invariance, PTL

\* An approved request and an account that cannot publish never coexist
\* (accounts/services.py:165-168).
THEOREM ApprovalCorrect == Spec => []ApprovedCanPublish
<1>1. IInv => ApprovedCanPublish
  BY DEF IInv
<1> QED  BY <1>1, Invariance, PTL

\* No identity document outlives the decision about it
\* (accounts/models.py:69-72).
THEOREM PapersCorrect == Spec => []ResolvedPapersAreGone
<1>1. IInv => ResolvedPapersAreGone
  BY DEF IInv
<1> QED  BY <1>1, Invariance, PTL
-----------------------------------------------------------------------------
(* How a document that waits is lost *)

\* Two requests that wait name different documents.
LEMMA PapersDiffer ==
    ASSUME OnePending, NEW i \in Pending, NEW j \in Pending, i # j
    PROVE  PaperOf(i) # PaperOf(j)
BY DEF OnePending, PaperOf

\* The two ways to lose it: a decision that deleted it and did not commit, and a
\* decision of an old request whose document had the same name.
LosesPaper(i) ==
    \E w \in Workers : \E j \in DOMAIN requests :
        /\ job[w].papers[j] = PaperOf(i)
        /\ DecisionCutOff(w, j) \/ (Decide(w, j) /\ j \notin Pending)

PapersStay ==
    [][\A i \in Pending : PaperOf(i) \in files =>
          \/ i \notin Pending'
          \/ PaperOf(i)' = PaperOf(i) /\ PaperOf(i) \in files'
          \/ LosesPaper(i)]_vars

LEMMA PaperStep ==
    ASSUME IInv, [Next]_vars, NEW i \in Pending, PaperOf(i) \in files, ~LosesPaper(i)
    PROVE  i \notin Pending' \/ (PaperOf(i)' = PaperOf(i) /\ PaperOf(i) \in files')
<1>0. i \in DOMAIN requests
  BY DEF Pending
<1>1. ASSUME UNCHANGED requests, PaperOf(i) \in files'
      PROVE  PaperOf(i)' = PaperOf(i) /\ PaperOf(i) \in files'
  BY <1>1 DEF PaperOf
<1>2. ASSUME NEW w \in Workers, NEW d \in Docs, Submit(w, d)
      PROVE  PaperOf(i)' = PaperOf(i) /\ PaperOf(i) \in files'
  <2>1. PaperOf(i)' = PaperOf(i)
    BY <1>2, SubmitShape
  <2>2. files \subseteq files'
    BY <1>2 DEF Submit
  <2> QED  BY <2>1, <2>2
<1>3. ASSUME NEW w \in Workers, NEW j \in DOMAIN requests, Decide(w, j)
      PROVE  i \notin Pending' \/ (PaperOf(i)' = PaperOf(i) /\ PaperOf(i) \in files')
  <2>1. Pending' = Pending \ {j} /\ \A k \in Pending' : PaperOf(k)' = PaperOf(k)
    BY <1>3, DecideShape
  <2>2. ASSUME j # i PROVE job[w].papers[j] # PaperOf(i)
    <3>1. CASE j \in Pending
      <4>1. job[w].papers[j] = PaperOf(j)
        BY <1>3, <3>1 DEF IInv, LoadedRows, Decide, DecidesNext
      <4> QED  BY <2>2, <3>1, <4>1, PapersDiffer DEF IInv
    <3>2. CASE j \notin Pending
      BY <1>3, <3>2 DEF LosesPaper
    <3> QED  BY <3>1, <3>2
  <2>3. files' = files \ {job[w].papers[j]}
    BY <1>3 DEF Decide, Without
  <2> QED  BY <2>1, <2>2, <2>3
<1>4. ASSUME NEW w \in Workers, NEW j \in DOMAIN requests, DecisionCutOff(w, j)
      PROVE  PaperOf(i)' = PaperOf(i) /\ PaperOf(i) \in files'
  <2>1. job[w].papers[j] # PaperOf(i)
    BY <1>4 DEF LosesPaper
  <2>2. UNCHANGED requests /\ files' = files \ {job[w].papers[j]}
    BY <1>4 DEF DecisionCutOff, Without
  <2> QED  BY <1>1, <2>1, <2>2
<1>5. CASE \/ UNCHANGED vars
           \/ \E w \in Workers :
                \/ Abandon(w)
                \/ \E u \in Users : StartSubmission(w, u)
                \/ \E d \in Docs : SubmissionCutOff(w, d)
                \/ \E a \in Users, S \in SUBSET DOMAIN requests, v \in {"approved", "rejected"} :
                       StartDecision(w, a, S, v)
  <2>1. UNCHANGED requests /\ files \subseteq files'
    BY <1>5 DEF vars, Abandon, StartSubmission, SubmissionCutOff, StartDecision
  <2> QED  BY <1>1, <2>1
<1> QED  BY <1>2, <1>3, <1>4, <1>5 DEF Next

\* The document of a request that waits is lost in two ways and no other
\* (accounts/services.py:199-205): LosesPaper.
THEOREM PapersLost == Spec => PapersStay
<1>1. IInv /\ [Next]_vars =>
        [\A i \in Pending : PaperOf(i) \in files =>
            \/ i \notin Pending'
            \/ PaperOf(i)' = PaperOf(i) /\ PaperOf(i) \in files'
            \/ LosesPaper(i)]_vars
  BY PaperStep
<1> QED  BY <1>1, Invariance, PTL DEF Spec, PapersStay

\* The same program when no two administrators hold the same request, and no
\* decision is cut off between the file and the commit.
Alone ==
    \A v, w \in Workers : v # w /\ job[v].kind = "decide" /\ job[w].kind = "decide"
        => DOMAIN job[v].papers \cap DOMAIN job[w].papers = {}
CutsOff == \E w \in Workers : \E i \in DOMAIN requests : DecisionCutOff(w, i)
CarefulSpec == Init /\ [][Next /\ Alone' /\ ~CutsOff]_vars

\* What is loaded still waits.
FreshPapers ==
    /\ Alone
    /\ \A w \in Workers : job[w].kind = "decide" =>
          \A i \in DOMAIN job[w].papers : i \in Pending

LEMMA FreshStep ==
    ASSUME IInv, FreshPapers, [Next /\ Alone' /\ ~CutsOff]_vars
    PROVE  FreshPapers'
<1>0. TypeOK /\ Idle.kind # "decide"
  BY DEF IInv, Idle
<1>1. Alone'
  BY DEF vars, FreshPapers, Alone
<1> SUFFICES ASSUME NEW x \in Workers, job'[x].kind = "decide", NEW k \in DOMAIN job'[x].papers
             PROVE  k \in Pending'
  BY <1>1 DEF FreshPapers
<1>2. ASSUME job'[x] = job[x], Pending \subseteq Pending' PROVE k \in Pending'
  BY <1>2 DEF FreshPapers
<1>3. ASSUME NEW w \in Workers, NEW d \in Docs, Submit(w, d) \/ SubmissionCutOff(w, d)
      PROVE  k \in Pending'
  <2>1. job'[x] = job[x]
    BY <1>0, <1>3 DEF Submit, SubmissionCutOff, TypeOK
  <2>2. Pending \subseteq Pending'
    BY <1>3, SubmitShape DEF SubmissionCutOff, Pending
  <2> QED  BY <1>2, <2>1, <2>2
<1>4. ASSUME NEW w \in Workers, NEW j \in DOMAIN requests, Decide(w, j) PROVE k \in Pending'
  <2>1. job' = [job EXCEPT ![w] = Rest(w, j)] /\ DecidesNext(w, j) /\ job[w].kind = "decide"
    BY <1>4 DEF Decide, DecidesNext
  <2>2. job[x].kind = "decide" /\ k \in DOMAIN job[x].papers \ {j}
    <3>1. CASE x = w
      BY <1>0, <2>1, <3>1, RestShape DEF TypeOK
    <3>2. CASE x # w
      <4>1. job'[x] = job[x] /\ j \in DOMAIN job[w].papers
        BY <1>0, <2>1, <3>2 DEF TypeOK, DecidesNext
      <4> QED  BY <2>1, <3>2, <4>1 DEF FreshPapers, Alone
    <3> QED  BY <3>1, <3>2
  <2>3. Pending' = Pending \ {j}
    BY <1>4, DecideShape
  <2> QED  BY <2>2, <2>3 DEF FreshPapers
<1>5. ASSUME NEW w \in Workers, NEW a \in Users, NEW S \in SUBSET DOMAIN requests,
             NEW v \in {"approved", "rejected"}, StartDecision(w, a, S, v)
      PROVE  k \in Pending'
  <2>1. job' = [job EXCEPT ![w] = [kind |-> "decide", verdict |-> v,
                                   papers |-> [i \in Selected(S) |-> PaperOf(i)]]]
        /\ UNCHANGED requests
    BY <1>5 DEF StartDecision
  <2>2. CASE x = w
    <3>1. k \in Selected(S)
      BY <1>0, <2>1, <2>2 DEF TypeOK
    <3> QED  BY <2>1, <3>1 DEF Selected, Pending
  <2>3. CASE x # w
    BY <1>0, <1>2, <2>1, <2>3 DEF TypeOK, Pending
  <2> QED  BY <2>2, <2>3
<1>6. ASSUME NEW w \in Workers, Abandon(w) \/ \E u \in Users : StartSubmission(w, u)
      PROVE  k \in Pending'
  <2>1. job'[x] = job[x]
    BY <1>0, <1>6 DEF Abandon, StartSubmission, TypeOK
  <2> QED  BY <1>2, <1>6, <2>1 DEF Abandon, StartSubmission, Pending
<1>7. CASE UNCHANGED vars
  BY <1>2, <1>7 DEF vars, Pending
<1> QED  BY <1>3, <1>4, <1>5, <1>6, <1>7 DEF Next, CutsOff

\* Then nobody waits for a decision on a document that is not there: both halves of
\* the hypothesis are needed, as VerificationLostPaper and PapersLost show.
THEOREM WaitingHavePapers == CarefulSpec => []PendingHasPaper
<1>1. Init => FreshPapers /\ PendingHasPaper
  BY DEF Init, FreshPapers, Alone, PendingHasPaper, Pending, Idle
<1>2. CarefulSpec => []IInv
  BY Invariance, PTL DEF Spec, CarefulSpec
<1>3. ASSUME IInv, FreshPapers, PendingHasPaper, [Next /\ Alone' /\ ~CutsOff]_vars
      PROVE  PendingHasPaper'
  <2>1. ASSUME NEW i \in Pending, NEW w \in Workers, NEW j \in DOMAIN requests,
               Decide(w, j)
        PROVE  j \in Pending
    BY <2>1, <1>3 DEF FreshPapers, Decide, DecidesNext
  <2>2. \A i \in Pending : ~LosesPaper(i) \/ UNCHANGED vars
    BY <1>3, <2>1 DEF LosesPaper, CutsOff
  <2>3. ASSUME NEW i \in Pending', i \in Pending PROVE PaperOf(i)' \in files'
    <3>1. CASE UNCHANGED vars
      BY <1>3, <2>3, <3>1 DEF vars, PendingHasPaper, PaperOf
    <3>2. CASE ~LosesPaper(i)
      BY <1>3, <2>3, <3>2, PaperStep DEF PendingHasPaper
    <3> QED  BY <2>2, <2>3, <3>1, <3>2
  <2>4. ASSUME NEW i \in Pending', i \notin Pending PROVE PaperOf(i)' \in files'
    <3>1. ASSUME NEW w \in Workers, NEW d \in Docs, Submit(w, d) PROVE PaperOf(i)' \in files'
      <4>1. PICK n \in Nat :
              /\ requests'[n] = [seller |-> job[w].user, state |-> "pending", doc |-> d]
              /\ Pending' = Pending \cup {n}
        BY <1>3, <3>1, SubmitShape
      <4>2. PaperOf(i)' = [seller |-> job[w].user, doc |-> d]
        BY <2>4, <4>1 DEF PaperOf
      <4> QED  BY <3>1, <4>2 DEF Submit
    <3>2. ASSUME NEW w \in Workers, NEW j \in DOMAIN requests, Decide(w, j) PROVE FALSE
      BY <1>3, <2>4, <3>2, DecideShape
    <3>3. ASSUME UNCHANGED requests PROVE FALSE
      BY <2>4, <3>3 DEF Pending
    <3> QED  BY <1>3, <3>1, <3>2, <3>3
             DEF Next, vars, Abandon, StartSubmission, SubmissionCutOff, StartDecision,
                 DecisionCutOff
  <2> QED  BY <2>3, <2>4 DEF PendingHasPaper
<1>4. IInv /\ FreshPapers /\ PendingHasPaper /\ [Next /\ Alone' /\ ~CutsOff]_vars
      => FreshPapers' /\ PendingHasPaper'
  BY <1>3, FreshStep
<1> QED  BY <1>1, <1>2, <1>4, PTL DEF CarefulSpec
=============================================================================
