------------------------------ MODULE Accounts ------------------------------
(***************************************************************************)
(* The accounts of BidHaus: signing up, logging in, and the recovery link  *)
(* that lets somebody who forgot the password choose another.              *)
(*                                                                         *)
(* Nothing locks an account between the moment a request reads it and the  *)
(* moment it writes: sign_up asks whether the address is free and inserts  *)
(* in another transaction; log_in checks a password, which takes a while,  *)
(* and then stores last_login; password_reset_confirm checks the token,    *)
(* validates the form, and then stores the password.  `job' is what a      *)
(* request read.  Accounts switched off by hand are left out.              *)
(***************************************************************************)
EXTENDS Naturals, Sequences, FiniteSets

CONSTANTS
    Mailboxes,    \* where mail arrives, whatever the capitals of the address
    Spellings,    \* the ways to capitalise one address
    Workers,      \* web workers, each serving one request at a time
    Timeout,      \* PASSWORD_RESET_TIMEOUT, in ticks
    MaxAccounts,  \* bound on the accounts
    MaxHashes,    \* bound on the password hashes ever computed
    MaxLinks,     \* bound on the recovery links mailed
    MaxClock      \* bound on the clock

ASSUME ConstantsAssumption ==
    {Timeout, MaxAccounts, MaxHashes, MaxLinks, MaxClock} \subseteq Nat

VARIABLES
    rows,      \* the User rows, by primary key
    hashes,    \* the hashes computed so far, each by the password it is of
    weak,      \* the hashes with fewer iterations than now in force
    sessions,  \* the sessions stored
    mailed,    \* the recovery links handed to the mail server
    outbox,    \* worker -> recovery links scheduled with on_commit
    spent,     \* history: the resets made, that is the links that changed a password
    job,       \* worker -> what its request read and has yet to write
    clock      \* seconds, as last_login and the token count them; 0 is never

vars == <<rows, hashes, weak, sessions, mailed, outbox, spent, job, clock>>

Address == [box : Mailboxes, spelling : Spellings]
Row == [email : Address, hash : Nat, login : Nat]
Link == [user : Nat, hash : Nat, login : Nat, at : Nat]
Session == [user : Nat, hash : Nat, typed : Nat]
Reset == [link : Link, password : Nat, raced : BOOLEAN]
Idle == [op |-> "idle"]
Job == {Idle}
       \cup [op : {"signup"}, email : Address]
       \cup [op : {"login", "rehash", "edit"}, user : Nat, row : Row]
       \cup [op : {"reset"}, user : Nat, row : Row, link : Link]

Ids == DOMAIN rows
Free(w) == job[w] = Idle /\ outbox[w] = <<>>

TypeOK ==
    /\ rows \in Seq(Row)
    /\ \A u \in Ids : rows[u].hash \in DOMAIN hashes
    /\ hashes \in Seq(Nat)
    /\ weak \subseteq DOMAIN hashes
    /\ sessions \subseteq Session
    /\ mailed \subseteq Link
    /\ outbox \in [Workers -> Seq(Link)]
    /\ spent \subseteq Reset
    /\ job \in [Workers -> Job]
    /\ \A w \in Workers : job[w].op \in {"login", "rehash", "edit", "reset"} =>
           job[w].user \in Ids /\ job[w].row.hash \in DOMAIN hashes
    /\ clock \in Nat

Init ==
    /\ rows = <<>> /\ hashes = <<>> /\ weak = {}
    /\ sessions = {} /\ mailed = {} /\ spent = {}
    /\ outbox = [w \in Workers |-> <<>>]
    /\ job = [w \in Workers |-> Idle]
    /\ clock = 1

-----------------------------------------------------------------------------
(* Helpers *)

\* User.objects.filter(email__iexact=email).
Of(box) == {u \in Ids : rows[u].email.box = box}

\* The password a hash is of.  A password just chosen has the number of its
\* hash, so passwords chosen later have greater numbers.
Password(h) == hashes[h]

\* set_password with a password nobody used before: a fresh salt, so a hash
\* that never existed.
Choose == /\ Len(hashes) < MaxHashes
          /\ hashes' = Append(hashes, Len(hashes) + 1)
Chosen == Len(hashes) + 1

\* Mutant: save() without update_fields.
SaveAll(u, row, columns) == rows' = [rows EXCEPT ![u] = row]

\* save(update_fields=columns) of a row read earlier.
Save(u, row, columns) ==
    rows' = [rows EXCEPT ![u] = [c \in DOMAIN @ |-> IF c \in columns THEN row[c] ELSE @[c]]]

Starts(w, j) == /\ Free(w)
                /\ job' = [job EXCEPT ![w] = j]

Ends(w) == job' = [job EXCEPT ![w] = Idle]

-----------------------------------------------------------------------------
(* Signing up *)

\* Mutant: the address is compared as it was typed.
Taken_AsTyped(email) == \E u \in Ids : rows[u].email = email

\* The test register_visitor makes before it creates anything.
Taken(email) == Of(email.box) # {}

\* sign_up: the form is valid and register_visitor finds the address free.
CheckAddress(w, email) ==
    /\ ~Taken(email)
    /\ Starts(w, [op |-> "signup", email |-> email])
    /\ UNCHANGED <<rows, hashes, weak, sessions, mailed, outbox, spent, clock>>

\* create_user, in a transaction of its own.  The unique constraint compares
\* the capitals too.
CreateUser(w) ==
    /\ job[w].op = "signup"
    /\ \A u \in Ids : rows[u].email # job[w].email
    /\ Len(rows) < MaxAccounts
    /\ Choose
    /\ rows' = Append(rows, [email |-> job[w].email, hash |-> Chosen, login |-> 0])
    /\ Ends(w)
    /\ UNCHANGED <<weak, sessions, mailed, outbox, spent, clock>>

-----------------------------------------------------------------------------
(* Logging in and out *)

\* authenticate: get_by_natural_key wants exactly one account, and what was
\* typed is its password.  A hash of fewer iterations is to be rewritten.
CheckPassword(w, u) ==
    /\ Of(rows[u].email.box) = {u}
    /\ Starts(w, [op |-> IF rows[u].hash \in weak THEN "rehash" ELSE "login",
                  user |-> u, row |-> rows[u]])
    /\ UNCHANGED <<rows, hashes, weak, sessions, mailed, outbox, spent, clock>>

\* check_password rewrites the hash, from the password typed and on the row
\* read.
Rehash(w) ==
    /\ job[w].op = "rehash"
    /\ Len(hashes) < MaxHashes
    /\ LET row == [job[w].row EXCEPT !.hash = Chosen] IN
       /\ hashes' = Append(hashes, Password(job[w].row.hash))
       /\ Save(job[w].user, row, {"hash"})
       /\ job' = [job EXCEPT ![w].op = "login", ![w].row = row]
    /\ UNCHANGED <<weak, sessions, mailed, outbox, spent, clock>>

\* Mutant: the session is signed with the hash stored by now.
SignedWithStored(j) == rows[j.user].hash

\* The hash a session carries: that of the row the password was checked on.
SignedWith(j) == j.row.hash

\* login: the session, and update_last_login.
LogIn(w) ==
    /\ job[w].op = "login"
    /\ sessions' = sessions \cup {[user |-> job[w].user, hash |-> SignedWith(job[w]),
                                   typed |-> Password(job[w].row.hash)]}
    /\ Save(job[w].user, [job[w].row EXCEPT !.login = clock], {"login"})
    /\ Ends(w)
    /\ UNCHANGED <<hashes, weak, mailed, outbox, spent, clock>>

\* A session still opens pages while it carries the hash stored.
Live(s) == s.hash = rows[s.user].hash

\* log_out, and the flush of a session that does not open pages any more.
EndSession(s) ==
    /\ sessions' = sessions \ {s}
    /\ UNCHANGED <<rows, hashes, weak, mailed, outbox, spent, job, clock>>

-----------------------------------------------------------------------------
(* Recovering *)

\* What the token of an account is derived from, at this moment.
LinkOf(u) == [user |-> u, hash |-> rows[u].hash, login |-> rows[u].login, at |-> clock]

\* request_password_reset: .first() of the accounts of that address; an
\* address nobody registered leaves no trace.
AskForLink(w, box) ==
    /\ Free(w) /\ Cardinality(mailed) < MaxLinks
    /\ \E u \in Of(box) : /\ \A v \in Of(box) : u <= v
                          /\ outbox' = [outbox EXCEPT ![w] = Append(@, LinkOf(u))]
    /\ UNCHANGED <<rows, hashes, weak, sessions, mailed, spent, job, clock>>

\* _send, after the commit.
SendLink(w) ==
    /\ outbox[w] # <<>>
    /\ mailed' = mailed \cup {Head(outbox[w])}
    /\ outbox' = [outbox EXCEPT ![w] = Tail(@)]
    /\ UNCHANGED <<rows, hashes, weak, sessions, spent, job, clock>>

\* _send logs an OSError; or the worker died before it sent.
SendFails(w) ==
    /\ outbox[w] # <<>>
    /\ outbox' = [outbox EXCEPT ![w] = Tail(@)]
    /\ UNCHANGED <<rows, hashes, weak, sessions, mailed, spent, job, clock>>

\* Mutant: the token is derived from the last login alone.
Opens_AnyPassword(k) == /\ k.login = rows[k.user].login
                        /\ clock <= k.at + Timeout

\* check_token.
Opens(k) == /\ k.hash = rows[k.user].hash /\ k.login = rows[k.user].login
            /\ clock <= k.at + Timeout

\* find_user_for_password_reset, before the form is even read.
OpenLink(w, k) ==
    /\ k \in mailed
    /\ Opens(k)
    /\ Starts(w, [op |-> "reset", user |-> k.user, row |-> rows[k.user], link |-> k])
    /\ UNCHANGED <<rows, hashes, weak, sessions, mailed, outbox, spent, clock>>

\* A login has checked the password of u and is about to rewrite its hash.
Rewriting(u) == \E v \in Workers : job[v].op = "rehash" /\ job[v].user = u

\* reset_password.
ResetPassword(w) ==
    /\ job[w].op = "reset"
    /\ Choose
    /\ Save(job[w].user, [job[w].row EXCEPT !.hash = Chosen], {"hash"})
    /\ spent' = spent \cup {[link |-> job[w].link, password |-> Chosen,
                             raced |-> Rewriting(job[w].user)]}
    /\ Ends(w)
    /\ UNCHANGED <<weak, sessions, mailed, outbox, clock>>

-----------------------------------------------------------------------------
(* The administration, deployments, failures and time *)

\* BidHausUserAdmin renders last_login in an editable field ...
OpenUserPage(w, u) ==
    /\ Starts(w, [op |-> "edit", user |-> u, row |-> rows[u]])
    /\ UNCHANGED <<rows, hashes, weak, sessions, mailed, outbox, spent, clock>>

\* ... and stores what that field held when the page was opened, whatever the
\* administrator came to change.  The hash is shown and not written.
SaveUserPage(w) ==
    /\ job[w].op = "edit"
    /\ Save(job[w].user, job[w].row, {"login"})
    /\ Ends(w)
    /\ UNCHANGED <<hashes, weak, sessions, mailed, outbox, spent, clock>>

\* A release of Django that asks for more iterations is deployed; requests being
\* served end under the release they began with.
RaiseIterations ==
    /\ weak' = DOMAIN hashes
    /\ UNCHANGED <<rows, hashes, sessions, mailed, outbox, spent, job, clock>>

\* An exception leaves the view (the address was taken meanwhile, the database
\* stays locked), the form is not valid, or the worker dies.
Abandon(w) ==
    /\ job[w] # Idle
    /\ Ends(w)
    /\ UNCHANGED <<rows, hashes, weak, sessions, mailed, outbox, spent, clock>>

Tick == /\ clock < MaxClock
        /\ clock' = clock + 1
        /\ UNCHANGED <<rows, hashes, weak, sessions, mailed, outbox, spent, job>>

Next ==
    \/ RaiseIterations
    \/ Tick
    \/ \E s \in sessions : EndSession(s)
    \/ \E w \in Workers :
        \/ \E email \in Address : CheckAddress(w, email)
        \/ CreateUser(w)
        \/ \E u \in Ids : CheckPassword(w, u) \/ OpenUserPage(w, u)
        \/ Rehash(w)
        \/ LogIn(w)
        \/ \E box \in Mailboxes : AskForLink(w, box)
        \/ SendLink(w)
        \/ SendFails(w)
        \/ \E k \in mailed : OpenLink(w, k)
        \/ ResetPassword(w)
        \/ SaveUserPage(w)
        \/ Abandon(w)

Spec == Init /\ [][Next]_vars

\* The same program when no two requests sign the same mailbox up at the same
\* time.
Apart ==
    \A v, w \in Workers : v # w /\ job[v].op = "signup" /\ job[w].op = "signup"
        => job[v].email.box # job[w].email.box
ApartSpec == Init /\ [][Next /\ Apart']_vars

-----------------------------------------------------------------------------
(* Properties *)

\* A mailbox has one account, so that logging in by address finds exactly one
\* (services.py:95-96, managers.py:15-20).  It holds while sign-ups of one
\* mailbox do not overlap (ApartSpec).
OneAccountPerMailbox ==
    \A u, v \in Ids : rows[u].email.box = rows[v].email.box => u = v

\* A hash that was replaced never comes back, nor do the links and the
\* sessions that carry it, though logins and the administration save rows they
\* read before it was replaced (services.py:47-49).
NoHashReturns ==
    [][\A u \in Ids : rows[u].hash <= rows[u].hash']_vars

\* After a reset, nobody who typed an older password has a session that opens
\* pages: neither the sessions of before, nor those that logins in flight open
\* later, nor those of logins yet to come.  The exception is a login that, when
\* the reset came, had checked the old password and was about to rewrite its
\* hash: that stores the old password again (accounts/views.py:104, 127-135).
ResetEndsSessions ==
    \A s \in sessions, x \in spent :
        s.user = x.link.user /\ ~x.raced /\ Live(s) => s.typed >= x.password

\* A link that changed a password is never accepted again: only requests that
\* had opened it before may still use it (services.py:47-49).
SpentLinksStaySpent ==
    [][\A w \in Workers : job[w] = Idle /\ job'[w].op = "reset"
           => job'[w].link \notin {x.link : x \in spent}]_vars
=============================================================================
