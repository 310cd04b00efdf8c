---------------------------- MODULE Verification ----------------------------
(***************************************************************************)
(* How an account becomes a seller: it sends an identity document, and an  *)
(* administrator approves or rejects the request, which destroys the       *)
(* document.  Each service is one transaction, but the row an             *)
(* administrator decides on was loaded before it, and so was request.user. *)
(* The documents are files, which no transaction undoes: a submission cut  *)
(* off leaves its file, a decision cut off has already deleted it.         *)
(*                                                                         *)
(* Roles and badges edited by hand in UserAdmin are left out.              *)
(***************************************************************************)
EXTENDS Naturals, Sequences

CONSTANTS
    Users, Administrators,
    Workers,      \* requests being served at the same time
    Docs,         \* the names a seller's documents can have
    NoDoc,        \* identity_document is null
    MaxRequests   \* bound on the rows of VerificationRequest

ASSUME ConstantsAssumption ==
    /\ Administrators \subseteq Users
    /\ NoDoc \notin Docs
    /\ MaxRequests \in Nat

VARIABLES
    requests,   \* the rows of VerificationRequest, in order of submission
    files,      \* the files under IDENTITY_DOCUMENT_ROOT
    orphans,    \* those of them no committed row ever named
    role,       \* User.role
    verified,   \* User.is_verified
    job         \* worker -> what it loaded and has yet to do

vars == <<requests, files, orphans, role, verified, job>>

Paper == [seller : Users, doc : Docs]
Row == [seller : Users, state : {"pending"}, doc : Docs]
       \cup [seller : Users, state : {"approved", "rejected"}, doc : {NoDoc}]
Rows == 1..MaxRequests

Idle == [kind |-> "idle"]
Submission == [kind : {"submit"}, user : Users, verified : BOOLEAN]
Decision == [kind : {"decide"}, verdict : {"approved", "rejected"},
             papers : UNION {[S -> Paper] : S \in SUBSET Rows}]

TypeOK ==
    /\ requests \in Seq(Row) /\ Len(requests) <= MaxRequests
    /\ files \subseteq Paper
    /\ orphans \subseteq files
    /\ role \in [Users -> {"bidder", "seller", "administrator"}]
    /\ verified \in [Users -> BOOLEAN]
    /\ job \in [Workers -> {Idle} \cup Submission \cup Decision]

Init ==
    /\ requests = <<>>
    /\ files = {} /\ orphans = {}
    /\ role = [u \in Users |-> IF u \in Administrators THEN "administrator" ELSE "bidder"]
    /\ verified = [u \in Users |-> FALSE]
    /\ job = [w \in Workers |-> Idle]

Pending == {i \in DOMAIN requests : requests[i].state = "pending"}
PaperOf(i) == [seller |-> requests[i].seller, doc |-> requests[i].doc]

-----------------------------------------------------------------------------
(* Sending a document *)

\* request.user is loaded when the view starts.
StartSubmission(w, u) ==
    /\ job[w] = Idle
    /\ job' = [job EXCEPT ![w] = [kind |-> "submit", user |-> u, verified |-> verified[u]]]
    /\ UNCHANGED <<requests, files, orphans, role, verified>>

\* Mutant: the pending request is not looked for, and not constrained either.
MaySubmitAgain(w) == job[w].kind = "submit" /\ ~job[w].verified

\* AlreadyVerified is decided on the loaded user, VerificationAlreadyPending
\* inside the transaction.
MaySubmit(w) ==
    /\ job[w].kind = "submit" /\ ~job[w].verified
    /\ \A i \in Pending : requests[i].seller # job[w].user

\* The file is written first, under a name that is free, then the row.
Submit(w, d) ==
    LET paper == [seller |-> job[w].user, doc |-> d] IN
    /\ MaySubmit(w) /\ Len(requests) < MaxRequests
    /\ paper \notin files
    /\ files' = files \cup {paper}
    /\ requests' = Append(requests, [seller |-> job[w].user, state |-> "pending", doc |-> d])
    /\ job' = [job EXCEPT ![w] = Idle]
    /\ UNCHANGED <<orphans, role, verified>>

\* The insert fails, or the process is killed before it commits.
SubmissionCutOff(w, d) ==
    LET paper == [seller |-> job[w].user, doc |-> d] IN
    /\ MaySubmit(w)
    /\ paper \notin files
    /\ files' = files \cup {paper}
    /\ orphans' = orphans \cup {paper}
    /\ job' = [job EXCEPT ![w] = Idle]
    /\ UNCHANGED <<requests, role, verified>>

-----------------------------------------------------------------------------
(* Deciding *)

\* Mutant: is_pending is not asked.
SelectedAnyway(S) == S

\* The selected rows that is_pending finds undecided, as they are loaded now.
Selected(S) == S \cap Pending

\* The admin action loads the rows the administrator selected.
StartDecision(w, a, S, verdict) ==
    /\ job[w] = Idle
    /\ role[a] = "administrator"
    /\ Selected(S) # {}
    /\ job' = [job EXCEPT ![w] = [kind |-> "decide", verdict |-> verdict,
                                  papers |-> [i \in Selected(S) |-> PaperOf(i)]]]
    /\ UNCHANGED <<requests, files, orphans, role, verified>>

\* One after the other, newest first.
DecidesNext(w, i) ==
    /\ job[w].kind = "decide"
    /\ i \in DOMAIN job[w].papers
    /\ \A j \in DOMAIN job[w].papers : j <= i

Rest(w, i) ==
    LET left == DOMAIN job[w].papers \ {i} IN
    IF left = {} THEN Idle
    ELSE [job[w] EXCEPT !.papers = [j \in left |-> job[w].papers[j]]]

\* Both saves of _resolve.
Resolved(i, verdict) == [requests EXCEPT ![i].state = verdict, ![i].doc = NoDoc]

\* Mutant: a rejected document is kept.
WithoutApproved(w, i) ==
    IF job[w].verdict = "approved" THEN files \ {job[w].papers[i]} ELSE files

\* The file the loaded row names is deleted, if it is there.
Without(w, i) == files \ {job[w].papers[i]}

\* Mutant: rejecting takes the role away.
GrantedOrRevoked(i, verdict) ==
    LET u == requests[i].seller IN
    /\ role' = [role EXCEPT ![u] = IF verdict = "approved" THEN "seller" ELSE "bidder"]
    /\ verified' = [verified EXCEPT ![u] = verdict = "approved"]

\* The role and the badge, whatever the account was before.
Granted(i, verdict) ==
    LET u == requests[i].seller IN
    IF verdict = "approved"
    THEN role' = [role EXCEPT ![u] = "seller"] /\ verified' = [verified EXCEPT ![u] = TRUE]
    ELSE UNCHANGED <<role, verified>>

Decide(w, i) ==
    /\ DecidesNext(w, i)
    /\ requests' = Resolved(i, job[w].verdict)
    /\ files' = Without(w, i)
    /\ orphans' = orphans \cap files'
    /\ Granted(i, job[w].verdict)
    /\ job' = [job EXCEPT ![w] = Rest(w, i)]

\* A statement fails or the process is killed after the file is deleted and
\* before the commit.
DecisionCutOff(w, i) ==
    /\ DecidesNext(w, i)
    /\ files' = Without(w, i)
    /\ orphans' = orphans \cap files'
    /\ job' = [job EXCEPT ![w] = Idle]
    /\ UNCHANGED <<requests, role, verified>>

\* A request ends with nothing more written: refused, failed or killed.
Abandon(w) ==
    /\ job[w] # Idle
    /\ job' = [job EXCEPT ![w] = Idle]
    /\ UNCHANGED <<requests, files, orphans, role, verified>>

Next ==
    \E w \in Workers :
        \/ Abandon(w)
        \/ \E u \in Users : StartSubmission(w, u)
        \/ \E d \in Docs : Submit(w, d) \/ SubmissionCutOff(w, d)
        \/ \E a \in Users, S \in SUBSET DOMAIN requests, v \in {"approved", "rejected"} :
               StartDecision(w, a, S, v)
        \/ \E i \in DOMAIN requests : Decide(w, i) \/ DecisionCutOff(w, i)

Spec == Init /\ [][Next]_vars

-----------------------------------------------------------------------------
(* Properties *)

\* Nobody queues two requests (accounts/services.py:131-132), although the user the
\* view holds may be stale.
OnePending ==
    \A i, j \in Pending : requests[i].seller = requests[j].seller => i = j

\* An approved request and an account that cannot publish never coexist
\* (accounts/services.py:165-168), whatever becomes of the account's other requests.
ApprovedCanPublish ==
    \A i \in DOMAIN requests : requests[i].state = "approved" =>
        role[requests[i].seller] = "seller" /\ verified[requests[i].seller]

\* No document outlives its decision (accounts/models.py:69-72): a stored file belongs
\* to a request that waits, or to a submission that was cut off.
ResolvedPapersAreGone ==
    files \subseteq orphans \cup {PaperOf(i) : i \in Pending}

\* A document is gone only once its request is resolved (accounts/admin.py:66).
PendingHasPaper ==
    \A i \in Pending : PaperOf(i) \in files
=============================================================================
