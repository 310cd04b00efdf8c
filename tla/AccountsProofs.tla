--------------------------- MODULE AccountsProofs ---------------------------
(***************************************************************************)
(* Proofs about Accounts, for every number of mailboxes, accounts, workers *)
(* and links. Everything rests on one fact: a hash stored now is greater   *)
(* than every hash stored before (Grows). That is not so of the passwords  *)
(* behind the hashes: PasswordsAdvance says exactly which step brings an   *)
(* old one back, and ResetsHold that no other step undoes a reset.         *)
(***************************************************************************)
EXTENDS Accounts, TLAPS

\* A link, a session or a loaded row speaks of an account and a hash that exist.
Hashes == DOMAIN hashes

Known(x, ids, hs) == x.user \in ids /\ x.hash \in hs

FitJob(j, ids, hs) ==
    /\ j \in Job
    /\ j.op \in {"login", "rehash", "edit", "reset"} => j.user \in ids /\ j.row.hash \in hs
    /\ j.op = "reset" => Known(j.link, ids, hs) /\ j.link.user = j.user

RowsFit == /\ rows \in Seq(Row) /\ hashes \in Seq(Nat)
           /\ \A u \in Ids : rows[u].hash \in Hashes

JobsFit == /\ job \in [Workers -> Job]
           /\ \A w \in Workers : FitJob(job[w], Ids, Hashes)

SessionsFit == /\ sessions \subseteq Session
               /\ \A s \in sessions : Known(s, Ids, Hashes) /\ s.typed = Password(s.hash)

LinksFit == /\ outbox \in [Workers -> Seq(Link)]
            /\ \A w \in Workers : \A i \in DOMAIN outbox[w] : Known(outbox[w][i], Ids, Hashes)
            /\ mailed \subseteq Link
            /\ \A k \in mailed : Known(k, Ids, Hashes)

\* The links used are of hashes the account does not have any more, and what a
\* reset chose was hashed.
SpentFit == /\ spent \subseteq Reset
            /\ \A x \in spent : /\ Known(x.link, Ids, Hashes)
                                /\ x.link.hash < rows[x.link.user].hash
                                /\ x.password \in Hashes

IInv == /\ RowsFit /\ JobsFit /\ SessionsFit /\ LinksFit /\ SpentFit
        /\ weak \subseteq Hashes /\ clock \in Nat

\* What no step undoes.
Grows ==
    /\ Ids \subseteq Ids'
    /\ \A h \in Hashes : h \in Hashes' /\ hashes'[h] = hashes[h]
    /\ \A u \in Ids : rows[u].hash <= rows'[u].hash

-----------------------------------------------------------------------------
(* Lemmas about the data *)

\* What save(update_fields=columns) leaves behind.
LEMMA SaveStores ==
    ASSUME rows \in Seq(Row), NEW u \in Ids, NEW row \in Row, NEW columns,
           Save(u, row, columns)
    PROVE  /\ rows' \in Seq(Row) /\ Ids' = Ids
           /\ \A v \in Ids \ {u} : rows'[v] = rows[v]
           /\ rows'[u].hash = IF "hash" \in columns THEN row.hash ELSE rows[u].hash
           /\ rows'[u].email = IF "email" \in columns THEN row.email ELSE rows[u].email
<1> DEFINE new == [c \in DOMAIN rows[u] |-> IF c \in columns THEN row[c] ELSE rows[u][c]]
<1>1. rows[u] \in Row
  BY DEF Ids
<1>2. DOMAIN rows[u] = {"email", "hash", "login"}
  BY <1>1 DEF Row
<1>3. new = [email |-> IF "email" \in columns THEN row.email ELSE rows[u].email,
             hash |-> IF "hash" \in columns THEN row.hash ELSE rows[u].hash,
             login |-> IF "login" \in columns THEN row.login ELSE rows[u].login]
  BY <1>2
<1>4. new \in Row
  BY <1>1, <1>3 DEF Row
<1>5. rows' = [rows EXCEPT ![u] = new]
  BY DEF Save
<1> HIDE DEF new
<1>6. rows' \in Seq(Row) /\ Ids' = Ids
  BY <1>4, <1>5 DEF Ids
<1>7. rows'[u] = new /\ \A v \in Ids \ {u} : rows'[v] = rows[v]
  BY <1>5 DEF Ids
<1> QED  BY <1>3, <1>6, <1>7

\* What a worker holds that has read an account.
LEMMA JobShape ==
    ASSUME IInv, NEW w \in Workers
    PROVE  /\ job[w].op = "signup" => job[w].email \in Address
           /\ job[w].op \in {"login", "rehash", "edit", "reset"} =>
                /\ job[w].user \in Ids /\ job[w].row \in Row
                /\ job[w].row.hash \in Hashes
           /\ job[w].op = "reset" => job[w].link \in Link
<1>1. job[w] \in Job /\ FitJob(job[w], Ids, Hashes)
  BY DEF IInv, JobsFit
<1>2. CASE job[w] = Idle
  BY <1>2 DEF Idle
<1>3. CASE job[w] \in [op : {"signup"}, email : Address]
  BY <1>3
<1>4. CASE job[w] \in [op : {"login", "rehash", "edit"}, user : Nat, row : Row]
  BY <1>1, <1>4 DEF FitJob
<1>5. CASE job[w] \in [op : {"reset"}, user : Nat, row : Row, link : Link]
  BY <1>1, <1>5 DEF FitJob
<1> QED  BY <1>1, <1>2, <1>3, <1>4, <1>5 DEF Job

\* The row of an account.
LEMMA RowShape ==
    ASSUME RowsFit, NEW u \in Ids
    PROVE  /\ u \in Nat /\ rows[u] \in Row
           /\ rows[u].hash \in Hashes /\ rows[u].hash \in Nat /\ rows[u].login \in Nat
<1>1. rows \in Seq(Row) /\ hashes \in Seq(Nat) /\ rows[u].hash \in Hashes
  BY DEF RowsFit
<1>2. rows[u] \in Row /\ u \in Nat
  BY <1>1 DEF Ids
<1> QED  BY <1>1, <1>2 DEF Row

\* A row with another hash, or another login.
LEMMA RowExcept ==
    ASSUME NEW row \in Row, NEW n \in Nat
    PROVE  /\ [row EXCEPT !.hash = n] \in Row /\ [row EXCEPT !.hash = n].hash = n
           /\ [row EXCEPT !.login = n] \in Row
BY DEF Row

-----------------------------------------------------------------------------
(* Every step makes the hashes grow and keeps the rows well formed *)

\* A new password: no account has its hash yet.
LEMMA ChosenIsNew ==
    ASSUME hashes \in Seq(Nat), NEW x \in Nat, hashes' = Append(hashes, x)
    PROVE  /\ hashes' \in Seq(Nat) /\ Hashes \subseteq Hashes'
           /\ \A h \in Hashes : hashes'[h] = hashes[h] /\ h < Chosen
           /\ Chosen \in Hashes' /\ Chosen \in Nat /\ hashes'[Chosen] = x
BY DEF Chosen, Hashes

\* A save that leaves the hash alone, and one that stores a hash just computed.
LEMMA OldHashSaved ==
    ASSUME RowsFit, NEW u \in Ids, NEW row \in Row, Save(u, row, {"login"}), hashes' = hashes
    PROVE  Grows /\ RowsFit'
<1>1. rows \in Seq(Row) /\ hashes \in Seq(Nat) /\ \A v \in Ids : rows[v].hash \in Hashes
  BY DEF RowsFit
<1>2. /\ rows' \in Seq(Row) /\ Ids' = Ids
      /\ \A v \in Ids : rows'[v].hash = rows[v].hash
  BY <1>1, SaveStores
<1>3. Hashes' = Hashes
  BY DEF Hashes
<1>4. \A v \in Ids : rows[v].hash \in Nat
  BY RowShape
<1> QED  BY <1>1, <1>2, <1>3, <1>4 DEF Grows, RowsFit

LEMMA NewHashSaved ==
    ASSUME RowsFit, NEW u \in Ids, NEW row \in Row, Save(u, row, {"hash"}), row.hash = Chosen,
           NEW x \in Nat, hashes' = Append(hashes, x)
    PROVE  Grows /\ RowsFit'
<1>1. rows \in Seq(Row) /\ hashes \in Seq(Nat) /\ \A v \in Ids : rows[v].hash \in Hashes
  BY DEF RowsFit
<1>2. /\ rows' \in Seq(Row) /\ Ids' = Ids
      /\ \A v \in Ids : rows'[v].hash \in {rows[v].hash, Chosen}
  BY <1>1, SaveStores
<1>3. /\ hashes' \in Seq(Nat) /\ Hashes \subseteq Hashes' /\ Chosen \in Hashes'
      /\ \A h \in Hashes : hashes'[h] = hashes[h] /\ h < Chosen
      /\ Chosen \in Nat
  BY <1>1, ChosenIsNew
<1>4. \A v \in Ids : rows[v].hash \in Nat /\ rows[v].hash <= rows'[v].hash
  <2>1. \A v \in Ids : rows[v].hash \in Nat /\ rows[v].hash < Chosen
    BY <1>1, <1>3, RowShape
  <2> QED  BY <1>2, <1>3, <2>1, SMTT(30)
<1>5. \A v \in Ids : rows'[v].hash \in Hashes'
  BY <1>1, <1>2, <1>3
<1> QED  BY <1>2, <1>3, <1>4, <1>5 DEF Grows, RowsFit

LEMMA StepGrows ==
    ASSUME IInv, [Next]_vars
    PROVE  Grows /\ RowsFit'
<1>0. /\ RowsFit /\ \A u \in Ids : rows[u].hash \in Nat
      /\ Chosen \in Nat /\ clock \in Nat
  BY RowShape DEF IInv, RowsFit, Chosen
<1>1. ASSUME UNCHANGED <<rows, hashes>> PROVE Grows /\ RowsFit'
  BY <1>0, <1>1 DEF Grows, RowsFit, Ids, Hashes
<1>2. ASSUME NEW w \in Workers, CreateUser(w) PROVE Grows /\ RowsFit'
  <2>1. job[w].email \in Address
    BY <1>0, <1>2, JobShape DEF CreateUser
  <2>2. hashes' = Append(hashes, Chosen) /\ Chosen \in Nat
    BY <1>0, <1>2 DEF CreateUser, Choose, Chosen, RowsFit
  <2> DEFINE row == [email |-> job[w].email, hash |-> Chosen, login |-> 0]
  <2>3. row \in Row /\ row.hash = Chosen /\ rows' = Append(rows, row)
    BY <1>2, <2>1, <2>2 DEF CreateUser, Row
  <2> HIDE DEF row
  <2>4. /\ rows' \in Seq(Row) /\ Ids \subseteq Ids'
        /\ \A u \in Ids : rows'[u] = rows[u]
        /\ \A u \in Ids' : u \in Ids \/ rows'[u] = row
    BY <1>0, <2>3 DEF Ids, RowsFit
  <2>5. /\ hashes' \in Seq(Nat) /\ Hashes \subseteq Hashes'
        /\ \A h \in Hashes : hashes'[h] = hashes[h]
        /\ Chosen \in Hashes'
    BY <1>0, <2>2, ChosenIsNew DEF RowsFit
  <2>6. Grows
    BY <1>0, <2>4, <2>5 DEF Grows
  <2>7. \A u \in Ids' : rows'[u].hash \in Hashes'
    BY <1>0, <2>3, <2>4, <2>5 DEF RowsFit
  <2> QED  BY <2>4, <2>5, <2>6, <2>7 DEF RowsFit
<1>4. ASSUME NEW w \in Workers, Rehash(w) PROVE Grows /\ RowsFit'
  <2>1. job[w].user \in Ids /\ job[w].row \in Row /\ job[w].row.hash \in Hashes
    BY <1>0, <1>4, JobShape DEF Rehash
  <2> DEFINE row == [job[w].row EXCEPT !.hash = Chosen]
             x == Password(job[w].row.hash)
  <2>2. row \in Row /\ row.hash = Chosen /\ x \in Nat
    <3>1. row \in Row /\ row.hash = Chosen
      BY <1>0, <2>1, RowExcept
    <3>2. x \in Nat
      BY <1>0, <2>1 DEF Password, RowsFit, Hashes
    <3> QED  BY <3>1, <3>2
  <2>3. Save(job[w].user, row, {"hash"}) /\ hashes' = Append(hashes, x)
    BY <1>4 DEF Rehash
  <2> HIDE DEF row, x
  <2> QED  BY <1>0, <2>1, <2>2, <2>3, NewHashSaved
<1>5. ASSUME NEW w \in Workers, LogIn(w) PROVE Grows /\ RowsFit'
  <2>1. job[w].user \in Ids /\ job[w].row \in Row
    BY <1>0, <1>5, JobShape DEF LogIn
  <2>2. [job[w].row EXCEPT !.login = clock] \in Row
    BY <1>0, <2>1, RowExcept
  <2> QED  BY <1>0, <1>5, <2>1, <2>2, OldHashSaved DEF LogIn
<1>6. ASSUME NEW w \in Workers, ResetPassword(w) PROVE Grows /\ RowsFit'
  <2>1. job[w].user \in Ids /\ job[w].row \in Row
    BY <1>0, <1>6, JobShape DEF ResetPassword
  <2> DEFINE row == [job[w].row EXCEPT !.hash = Chosen]
  <2>2. row \in Row /\ row.hash = Chosen /\ Chosen \in Nat
    BY <1>0, <2>1, RowExcept
  <2>3. Save(job[w].user, row, {"hash"}) /\ hashes' = Append(hashes, Chosen)
    BY <1>6 DEF ResetPassword, Choose, Chosen
  <2> HIDE DEF row
  <2> QED  BY <1>0, <2>1, <2>2, <2>3, NewHashSaved
<1>7. ASSUME NEW w \in Workers, SaveUserPage(w) PROVE Grows /\ RowsFit'
  <2>1. job[w].user \in Ids /\ job[w].row \in Row
    BY <1>0, <1>7, JobShape DEF SaveUserPage
  <2> QED  BY <1>0, <1>7, <2>1, OldHashSaved DEF SaveUserPage
<1>8. CASE UNCHANGED vars
  BY <1>1, <1>8 DEF vars
<1>9. CASE RaiseIterations \/ Tick \/ \E s \in sessions : EndSession(s)
  BY <1>1, <1>9 DEF RaiseIterations, Tick, EndSession
<1>10. ASSUME NEW w \in Workers,
              \/ \E email \in Address : CheckAddress(w, email)
              \/ \E u \in Ids : CheckPassword(w, u) \/ OpenUserPage(w, u)
              \/ \E box \in Mailboxes : AskForLink(w, box)
              \/ SendLink(w) \/ SendFails(w) \/ Abandon(w)
              \/ \E k \in mailed : OpenLink(w, k)
       PROVE  UNCHANGED <<rows, hashes>>
  BY <1>10 DEF CheckAddress, CheckPassword, OpenUserPage, AskForLink, SendLink, SendFails,
               Abandon, OpenLink
<1> QED  BY <1>1, <1>2, <1>4, <1>5, <1>6, <1>7, <1>8, <1>9, <1>10 DEF Next

-----------------------------------------------------------------------------
(* The inductive invariant *)

LEMMA InitHolds == Init => IInv
<1> SUFFICES ASSUME Init PROVE IInv
  OBVIOUS
<1>1. RowsFit /\ weak \subseteq Hashes /\ clock \in Nat
  BY DEF Init, RowsFit, Ids
<1>2. JobsFit
  BY DEF Init, JobsFit, FitJob, Job, Idle
<1>3. SessionsFit /\ LinksFit /\ SpentFit
  BY DEF Init, SessionsFit, LinksFit, SpentFit
<1> QED  BY <1>1, <1>2, <1>3 DEF IInv

\* What was known stays known, and jobs fit on.
LEMMA KnownStays ==
    ASSUME Grows, NEW x, Known(x, Ids, Hashes) PROVE Known(x, Ids', Hashes')
BY DEF Grows, Known

LEMMA JobStays ==
    ASSUME Grows, NEW j, FitJob(j, Ids, Hashes) PROVE FitJob(j, Ids', Hashes')
<1>1. j.op = "reset" => Known(j.link, Ids', Hashes')
  BY KnownStays DEF FitJob
<1> QED  BY <1>1 DEF FitJob, Grows

LEMMA JobsStay ==
    ASSUME Grows, JobsFit, job' = job PROVE JobsFit'
BY JobStays DEF JobsFit

LEMMA JobsChange ==
    ASSUME Grows, JobsFit, NEW w \in Workers, NEW j, FitJob(j, Ids', Hashes'), job' = [job EXCEPT ![w] = j]
    PROVE  JobsFit'
<1>1. job' \in [Workers -> Job]
  BY DEF JobsFit, FitJob
<1>2. \A v \in Workers : FitJob(job'[v], Ids', Hashes')
  BY JobStays DEF JobsFit
<1> QED  BY <1>1, <1>2 DEF JobsFit

LEMMA JobsEnd ==
    ASSUME Grows, JobsFit, NEW w \in Workers, Ends(w) PROVE JobsFit'
<1>1. FitJob(Idle, Ids', Hashes')
  BY DEF FitJob, Idle, Job
<1> QED  BY <1>1, JobsChange DEF Ends

LEMMA SessionsStay ==
    ASSUME Grows, SessionsFit, sessions' \subseteq sessions PROVE SessionsFit'
<1>1. \A s \in sessions : Known(s, Ids', Hashes')
  BY KnownStays DEF SessionsFit
<1>2. \A s \in sessions : Password(s.hash)' = Password(s.hash)
  BY DEF SessionsFit, Known, Grows, Password
<1> QED  BY <1>1, <1>2 DEF SessionsFit

LEMMA LinksStay ==
    ASSUME Grows, LinksFit, UNCHANGED <<mailed, outbox>> PROVE LinksFit'
BY KnownStays DEF LinksFit

\* A link of a hash its account does not have any more.
OldLink(k) == Known(k, Ids, Hashes) /\ k.hash < rows[k.user].hash

LEMMA LinkAges ==
    ASSUME Grows, RowsFit, RowsFit', NEW k \in Link, OldLink(k) PROVE OldLink(k)'
<1>1. Known(k, Ids', Hashes') /\ k.user \in Ids /\ k.user \in Ids' /\ k.hash \in Nat
  BY KnownStays DEF OldLink, Known, Grows, Link
<1>2. k.hash < rows[k.user].hash /\ rows[k.user].hash <= rows'[k.user].hash
  BY <1>1 DEF OldLink, Grows
<1>3. rows[k.user].hash \in Nat /\ rows'[k.user].hash \in Nat
  <2>1. rows[k.user].hash \in Hashes /\ rows'[k.user].hash \in Hashes'
    BY <1>1 DEF RowsFit
  <2> QED  BY <2>1, SMTT(30) DEF RowsFit, Hashes
<1> QED  BY <1>1, <1>2, <1>3 DEF OldLink

LEMMA SpentStays ==
    ASSUME Grows, RowsFit, RowsFit', SpentFit, spent' = spent PROVE SpentFit'
<1>1. \A x \in spent : OldLink(x.link)' /\ x.password \in Hashes'
  BY LinkAges DEF SpentFit, OldLink, Grows, Reset
<1> QED  BY <1>1 DEF SpentFit, OldLink

-----------------------------------------------------------------------------
(* Every step *)

LEMMA StepHolds ==
    ASSUME IInv, [Next]_vars PROVE IInv'
<1>1. /\ RowsFit /\ JobsFit /\ SessionsFit /\ LinksFit /\ SpentFit
      /\ weak \subseteq Hashes /\ clock \in Nat
      /\ Grows /\ RowsFit'
  BY StepGrows DEF IInv
<1>2. weak \subseteq Hashes'
  BY <1>1 DEF Grows
<1>3. CASE UNCHANGED vars
  BY <1>1, <1>2, <1>3, JobsStay, SessionsStay, LinksStay, SpentStays DEF IInv, vars
<1>4. CASE RaiseIterations
  BY <1>1, <1>4, JobsStay, SessionsStay, LinksStay, SpentStays DEF IInv, RaiseIterations, Hashes
<1>5. CASE Tick
  BY <1>1, <1>2, <1>5, JobsStay, SessionsStay, LinksStay, SpentStays DEF IInv, Tick
<1>6. ASSUME NEW s \in sessions, EndSession(s) PROVE IInv'
  BY <1>1, <1>2, <1>6, JobsStay, SessionsStay, LinksStay, SpentStays DEF IInv, EndSession
<1>7. ASSUME NEW w \in Workers, NEW email \in Address, CheckAddress(w, email) PROVE IInv'
  <2> DEFINE j == [op |-> "signup", email |-> email]
  <2>1. FitJob(j, Ids', Hashes')
    BY <1>7 DEF FitJob, Job
  <2> HIDE DEF j
  <2>2. JobsFit'
    BY <1>1, <1>7, <2>1, JobsChange DEF CheckAddress, Starts, j
  <2> QED  BY <1>1, <1>2, <1>7, <2>2, SessionsStay, LinksStay, SpentStays DEF IInv, CheckAddress
<1>8. ASSUME NEW w \in Workers, CreateUser(w) PROVE IInv'
  BY <1>1, <1>2, <1>8, JobsEnd, SessionsStay, LinksStay, SpentStays DEF IInv, CreateUser
<1>9. ASSUME NEW w \in Workers, NEW u \in Ids, NEW op \in {"login", "rehash", "edit"},
             job' = [job EXCEPT ![w] = [op |-> op, user |-> u, row |-> rows[u]]],
             UNCHANGED <<rows, hashes, weak, sessions, mailed, outbox, spent, clock>>
      PROVE  IInv'
  <2> DEFINE j == [op |-> op, user |-> u, row |-> rows[u]]
  <2>1. u \in Nat /\ rows[u] \in Row /\ rows[u].hash \in Hashes
    BY <1>1, RowShape
  <2>2. j \in Job
    BY <2>1 DEF Job
  <2>3. FitJob(j, Ids, Hashes)
    BY <2>1, <2>2 DEF FitJob
  <2> HIDE DEF j
  <2>4. JobsFit'
    BY <1>1, <1>9, <2>3, JobStays, JobsChange DEF j
  <2> QED  BY <1>1, <1>2, <1>9, <2>4, SessionsStay, LinksStay, SpentStays DEF IInv
<1>10. ASSUME NEW w \in Workers, NEW u \in Ids, CheckPassword(w, u) \/ OpenUserPage(w, u)
       PROVE  IInv'
  BY <1>9, <1>10 DEF CheckPassword, OpenUserPage, Starts
<1>11. ASSUME NEW w \in Workers, Rehash(w) PROVE IInv'
  <2>1. /\ job[w].op = "rehash" /\ job[w].user \in Ids /\ job[w].row \in Row
        /\ job[w].row.hash \in Hashes /\ job[w] \in Job
    BY <1>1, <1>11, JobShape DEF Rehash, JobsFit
  <2>2. job[w] \in [op : {"login", "rehash", "edit"}, user : Nat, row : Row]
    BY <2>1 DEF Job, Idle
  <2> DEFINE row == [job[w].row EXCEPT !.hash = Chosen]
             j == [job[w] EXCEPT !.op = "login", !.row = row]
  <2>3. Chosen \in Nat /\ Chosen \in Hashes'
    BY <1>1, <1>11 DEF Rehash, Chosen, RowsFit, Hashes
  <2>4. row \in Row /\ row.hash = Chosen
    BY <2>1, <2>3, RowExcept
  <2> HIDE DEF row
  <2>5. j \in Job /\ j.op = "login" /\ j.user = job[w].user /\ j.row = row
    BY <2>1, <2>2, <2>4 DEF Job
  <2>6. job' = [job EXCEPT ![w] = j]
    BY <1>1, <1>11 DEF Rehash, JobsFit, row
  <2> HIDE DEF j
  <2>7. FitJob(j, Ids', Hashes')
    BY <1>1, <2>1, <2>3, <2>4, <2>5 DEF FitJob, Grows
  <2>8. JobsFit'
    BY <1>1, <2>6, <2>7, JobsChange
  <2> QED  BY <1>1, <1>2, <1>11, <2>8, SessionsStay, LinksStay, SpentStays DEF IInv, Rehash
<1>12. ASSUME NEW w \in Workers, LogIn(w) PROVE IInv'
  <2>1. /\ job[w].user \in Ids /\ job[w].row \in Row /\ job[w].row.hash \in Hashes
    BY <1>1, <1>12, JobShape DEF LogIn
  <2> DEFINE s == [user |-> job[w].user, hash |-> SignedWith(job[w]),
                   typed |-> Password(job[w].row.hash)]
  <2>2. s \in Session /\ Known(s, Ids, Hashes) /\ s.typed = Password(s.hash)
    <3>1. job[w].user \in Nat /\ job[w].row.hash \in Nat
      BY <1>1, <2>1, SMTT(30) DEF RowsFit, Ids, Hashes
    <3>2. Password(job[w].row.hash) \in Nat
      BY <1>1, <2>1 DEF RowsFit, Password, Hashes
    <3>3. s.user = job[w].user /\ s.hash = job[w].row.hash /\ s.typed = Password(s.hash)
      BY DEF SignedWith
    <3> QED  BY <2>1, <3>1, <3>2, <3>3 DEF Session, Known, SignedWith
  <2>3. sessions' = sessions \cup {s} /\ hashes' = hashes
    BY <1>12 DEF LogIn
  <2> HIDE DEF s
  <2>4. SessionsFit'
    <3>1. \A t \in sessions' : Known(t, Ids', Hashes') /\ t.typed = Password(t.hash)
      BY <1>1, <2>2, <2>3, KnownStays DEF SessionsFit
    <3> QED  BY <1>1, <2>2, <2>3, <3>1 DEF SessionsFit, Password
  <2> QED  BY <1>1, <1>2, <1>12, <2>4, JobsEnd, LinksStay, SpentStays DEF IInv, LogIn
<1>13. ASSUME NEW w \in Workers, NEW box \in Mailboxes, AskForLink(w, box) PROVE IInv'
  <2>1. PICK u \in Of(box) : outbox' = [outbox EXCEPT ![w] = Append(@, LinkOf(u))]
    BY <1>13 DEF AskForLink
  <2>2. u \in Ids /\ LinkOf(u) \in Link /\ Known(LinkOf(u), Ids, Hashes)
    BY <1>1, RowShape DEF Of, LinkOf, Link, Known
  <2>3. Known(LinkOf(u), Ids', Hashes') \/ ~UNCHANGED <<rows, hashes>>
    BY <2>2 DEF Known, LinkOf, Ids, Hashes
  <2> DEFINE k == LinkOf(u)
  <2>4. UNCHANGED <<rows, hashes, mailed>>
    BY <1>13 DEF AskForLink
  <2>5. Known(k, Ids, Hashes) /\ k \in Link
    BY <2>2
  <2>6. outbox' = [outbox EXCEPT ![w] = Append(@, k)]
    BY <2>1
  <2> HIDE DEF k
  <2>7. outbox' \in [Workers -> Seq(Link)]
        /\ \A v \in Workers : \A i \in DOMAIN outbox'[v] : Known(outbox'[v][i], Ids, Hashes)
    BY <1>1, <2>5, <2>6 DEF LinksFit
  <2>8. LinksFit'
    BY <1>1, <2>4, <2>7 DEF LinksFit, Known, Ids, Hashes
  <2> QED  BY <1>1, <1>2, <1>13, <2>8, JobsStay, SessionsStay, SpentStays DEF IInv, AskForLink
<1>14. ASSUME NEW w \in Workers, SendLink(w) \/ SendFails(w) PROVE IInv'
  <2>1. outbox[w] \in Seq(Link) /\ outbox[w] # <<>> /\ UNCHANGED <<rows, hashes>>
    BY <1>1, <1>14 DEF SendLink, SendFails, LinksFit
  <2>2. /\ Head(outbox[w]) \in Link /\ Known(Head(outbox[w]), Ids, Hashes)
        /\ Tail(outbox[w]) \in Seq(Link)
        /\ \A i \in DOMAIN Tail(outbox[w]) : Known(Tail(outbox[w])[i], Ids, Hashes)
    BY <1>1, <2>1 DEF LinksFit
  <2>3. outbox' = [outbox EXCEPT ![w] = Tail(outbox[w])]
        /\ mailed' \subseteq mailed \cup {Head(outbox[w])}
    BY <1>14 DEF SendLink, SendFails
  <2>4. /\ outbox' \in [Workers -> Seq(Link)] /\ mailed' \subseteq Link
        /\ \A v \in Workers : \A i \in DOMAIN outbox'[v] : Known(outbox'[v][i], Ids, Hashes)
        /\ \A k \in mailed' : Known(k, Ids, Hashes)
    BY <1>1, <2>2, <2>3 DEF LinksFit
  <2>5. LinksFit'
    BY <2>1, <2>4 DEF LinksFit, Known, Ids, Hashes
  <2> QED  BY <1>1, <1>2, <1>14, <2>5, JobsStay, SessionsStay, SpentStays DEF IInv, SendLink, SendFails
<1>15. ASSUME NEW w \in Workers, NEW k \in mailed, OpenLink(w, k) PROVE IInv'
  <2> DEFINE j == [op |-> "reset", user |-> k.user, row |-> rows[k.user], link |-> k]
  <2>1. k \in Link /\ Known(k, Ids, Hashes)
    BY <1>1 DEF LinksFit
  <2>2. k.user \in Nat /\ rows[k.user] \in Row /\ rows[k.user].hash \in Hashes
    BY <1>1, <2>1, RowShape DEF Known
  <2>3. j \in Job
    BY <2>1, <2>2 DEF Job
  <2>4. FitJob(j, Ids, Hashes)
    BY <2>1, <2>2, <2>3 DEF FitJob, Known
  <2> HIDE DEF j
  <2>5. JobsFit'
    BY <1>1, <1>15, <2>4, JobStays, JobsChange DEF OpenLink, Starts, j
  <2> QED  BY <1>1, <1>2, <1>15, <2>5, SessionsStay, LinksStay, SpentStays DEF IInv, OpenLink
<1>16. ASSUME NEW w \in Workers, ResetPassword(w) PROVE IInv'
  <2> DEFINE k == job[w].link
             u == job[w].user
  <2>1. /\ u \in Ids /\ job[w].row \in Row /\ k \in Link /\ Known(k, Ids, Hashes) /\ k.user = u
    BY <1>1, <1>16, JobShape DEF ResetPassword, JobsFit, FitJob
  <2>2. [job[w].row EXCEPT !.hash = Chosen] \in Row
        /\ [job[w].row EXCEPT !.hash = Chosen].hash = Chosen
    <3>1. Chosen \in Nat
      BY <1>1 DEF Chosen, RowsFit
    <3> QED  BY <2>1, <3>1, RowExcept
  <2>3. rows'[u].hash = Chosen
    BY <1>1, <1>16, <2>1, <2>2, SaveStores DEF ResetPassword, RowsFit
  <2>4. Known(k, Ids', Hashes') /\ k.hash < rows'[u].hash
    <3>1. Known(k, Ids', Hashes')
      BY <1>1, <2>1, KnownStays
    <3>2. Len(hashes) \in Nat /\ Hashes = 1..Len(hashes)
      BY <1>1 DEF RowsFit, Hashes
    <3>3. k.hash \in Hashes
      BY <2>1 DEF Known
    <3>4. k.hash < Chosen
      BY <3>2, <3>3 DEF Chosen
    <3> QED  BY <2>3, <3>1, <3>4
  <2>5. SpentFit'
    <3> DEFINE new == [link |-> k, password |-> Chosen, raced |-> Rewriting(u)]
    <3>1. \A x \in spent : OldLink(x.link)' /\ x.password \in Hashes' /\ x.link \in Link
      BY <1>1, LinkAges DEF SpentFit, OldLink, Grows, Reset
    <3>2. Chosen \in Hashes' /\ Chosen \in Nat
      BY <1>1, <1>16, ChosenIsNew DEF ResetPassword, Choose, Chosen, RowsFit
    <3>3. Rewriting(u) \in BOOLEAN
      BY DEF Rewriting
    <3>4. /\ new \in Reset /\ new.link = k /\ new.password = Chosen
          /\ spent' = spent \cup {new}
      BY <1>16, <2>1, <3>2, <3>3 DEF Reset, ResetPassword
    <3> HIDE DEF new
    <3>5. \A x \in spent' : /\ Known(x.link, Ids', Hashes')
                            /\ x.link.hash < rows'[x.link.user].hash
                            /\ x.password \in Hashes'
      BY <2>1, <2>4, <3>1, <3>2, <3>4 DEF OldLink
    <3> QED  BY <1>1, <3>4, <3>5 DEF SpentFit
  <2> QED  BY <1>1, <1>2, <1>16, <2>5, JobsEnd, SessionsStay, LinksStay DEF IInv, ResetPassword
<1>17. ASSUME NEW w \in Workers, SaveUserPage(w) \/ Abandon(w) PROVE IInv'
  BY <1>1, <1>2, <1>17, JobsEnd, SessionsStay, LinksStay, SpentStays
     DEF IInv, SaveUserPage, Abandon
<1> QED  BY <1>3, <1>4, <1>5, <1>6, <1>7, <1>8, <1>10, <1>11, <1>12, <1>13, <1>14, <1>15, <1>16,
            <1>17 DEF Next

-----------------------------------------------------------------------------
(* Theorems *)

\* The inductive invariant of Accounts.
THEOREM Invariance == Spec => []IInv
<1>1. IInv /\ [Next]_vars => IInv'
  BY StepHolds
<1> QED  BY InitHolds, <1>1, PTL DEF Spec

\* Every variable of Accounts keeps its type.
THEOREM TypeCorrect == Spec => []TypeOK
<1>1. IInv => TypeOK
  <2> SUFFICES ASSUME IInv PROVE TypeOK
    OBVIOUS
  <2>1. \A w \in Workers : job[w].op \in {"login", "rehash", "edit", "reset"} =>
            job[w].user \in Ids /\ job[w].row.hash \in Hashes
    BY JobShape
  <2> QED  BY <2>1 DEF IInv, TypeOK, RowsFit, JobsFit, SessionsFit, LinksFit, SpentFit, Hashes
<1> QED  BY Invariance, <1>1, PTL

\* A hash that was replaced never comes back (AbstractBaseUser.set_password
\* under reset_password and the upgrade at login, save_user of the admin).
THEOREM HashesCorrect == Spec => NoHashReturns
<1>1. IInv /\ [Next]_vars => [\A u \in Ids : rows[u].hash <= rows[u].hash']_vars
  <2> SUFFICES ASSUME IInv, [Next]_vars
               PROVE  \A u \in Ids : rows[u].hash <= rows[u].hash'
    OBVIOUS
  <2>1. Grows
    BY StepGrows
  <2> QED  BY <2>1 DEF Grows
<1> QED  BY Invariance, <1>1, PTL DEF Spec, NoHashReturns

\* Only OpenLink makes an idle worker reset a password.
LEMMA OnlyOpensReset ==
    ASSUME IInv, Next, NEW w \in Workers, job[w] = Idle, job'[w].op = "reset"
    PROVE  \E k \in mailed : OpenLink(w, k)
<1>1. job \in [Workers -> Job] /\ job[w].op = "idle" /\ job' # job
  BY DEF IInv, JobsFit, Idle
<1>2. ASSUME NEW v \in Workers, NEW j, job' = [job EXCEPT ![v] = j], j.op # "reset" PROVE FALSE
  BY <1>1, <1>2
<1>3. ~(RaiseIterations \/ Tick \/ \E s \in sessions : EndSession(s))
  BY <1>1 DEF RaiseIterations, Tick, EndSession
<1>4. PICK v \in Workers :
        \/ \E email \in Address : CheckAddress(v, email)
        \/ \E u \in Ids : CheckPassword(v, u) \/ OpenUserPage(v, u)
        \/ Rehash(v)
        \/ CreateUser(v) \/ LogIn(v) \/ ResetPassword(v) \/ SaveUserPage(v) \/ Abandon(v)
        \/ \E k \in mailed : OpenLink(v, k)
  BY <1>1, <1>3 DEF Next, AskForLink, SendLink, SendFails
<1>5. ~(CreateUser(v) \/ LogIn(v) \/ ResetPassword(v) \/ SaveUserPage(v) \/ Abandon(v))
  BY <1>2 DEF CreateUser, LogIn, ResetPassword, SaveUserPage, Abandon, Ends, Idle
<1>6. ~\E email \in Address : CheckAddress(v, email)
  <2> SUFFICES ASSUME NEW email, CheckAddress(v, email) PROVE FALSE
    OBVIOUS
  <2> DEFINE j == [op |-> "signup", email |-> email]
  <2>1. job' = [job EXCEPT ![v] = j] /\ j.op # "reset"
    BY DEF CheckAddress, Starts
  <2> HIDE DEF j
  <2> QED  BY <1>2, <2>1
<1>7. ~\E u \in Ids : CheckPassword(v, u) \/ OpenUserPage(v, u)
  <2> SUFFICES ASSUME NEW u, CheckPassword(v, u) \/ OpenUserPage(v, u) PROVE FALSE
    OBVIOUS
  <2>1. PICK op \in {"login", "rehash", "edit"} :
            job' = [job EXCEPT ![v] = [op |-> op, user |-> u, row |-> rows[u]]]
    BY DEF CheckPassword, OpenUserPage, Starts
  <2> DEFINE j == [op |-> op, user |-> u, row |-> rows[u]]
  <2>2. job' = [job EXCEPT ![v] = j] /\ j.op # "reset"
    BY <2>1
  <2> HIDE DEF j
  <2> QED  BY <1>2, <2>2
<1>8. ~Rehash(v)
  <2>1. v = w \/ job'[w] = job[w] \/ ~Rehash(v)
    BY <1>1 DEF Rehash
  <2> QED  BY <1>1, <2>1 DEF Rehash
<1>9. PICK k \in mailed : OpenLink(v, k)
  BY <1>4, <1>5, <1>6, <1>7, <1>8
<1>10. v = w
  BY <1>1, <1>9 DEF OpenLink, Starts
<1> QED  BY <1>9, <1>10

\* A link that changed a password is never opened again.
THEOREM LinksCorrect == Spec => SpentLinksStaySpent
<1>1. IInv /\ [Next]_vars =>
        [\A w \in Workers : job[w] = Idle /\ job'[w].op = "reset"
            => job'[w].link \notin {x.link : x \in spent}]_vars
  <2> SUFFICES ASSUME IInv, Next, NEW w \in Workers, job[w] = Idle, job'[w].op = "reset"
               PROVE  job'[w].link \notin {x.link : x \in spent}
    BY DEF Idle, vars
  <2>1. job \in [Workers -> Job]
    BY DEF IInv, JobsFit
  <2>2. PICK k \in mailed : OpenLink(w, k)
    BY OnlyOpensReset
  <2>3. job'[w].link = k /\ k.hash = rows[k.user].hash
    BY <2>1, <2>2 DEF OpenLink, Starts, Opens
  <2>4. \A x \in spent : /\ x.link.hash < rows[x.link.user].hash
                         /\ rows[x.link.user].hash \in Nat
    BY RowShape DEF IInv, SpentFit, Known
  <2> QED  BY <2>3, <2>4
<1> QED  BY Invariance, <1>1, PTL DEF Spec, SpentLinksStaySpent

-----------------------------------------------------------------------------
(* One account per mailbox, when sign-ups of it do not overlap *)

\* A sign-up in flight is of an address that still is free.
Alone == /\ OneAccountPerMailbox /\ Apart
         /\ \A w \in Workers : job[w].op = "signup" => Of(job[w].email.box) = {}

\* Only CreateUser adds an account, and nothing changes an address.
LEMMA EmailsStay ==
    ASSUME IInv, [Next]_vars, \A w \in Workers : ~CreateUser(w)
    PROVE  Ids' = Ids /\ \A u \in Ids : rows'[u].email = rows[u].email
<1>0. rows \in Seq(Row) /\ clock \in Nat /\ Chosen \in Nat
  BY DEF IInv, RowsFit, Chosen
<1>1. ASSUME rows' = rows PROVE Ids' = Ids /\ \A u \in Ids : rows'[u].email = rows[u].email
  BY <1>1 DEF Ids
<1>2. ASSUME NEW u \in Ids, NEW row \in Row, NEW c \in {"hash", "login"}, Save(u, row, {c})
      PROVE  Ids' = Ids /\ \A v \in Ids : rows'[v].email = rows[v].email
  BY <1>0, <1>2, SaveStores
<1>3. ASSUME NEW w \in Workers, job[w].op \in {"login", "rehash", "edit", "reset"}
      PROVE  /\ job[w].user \in Ids /\ job[w].row \in Row
             /\ [job[w].row EXCEPT !.hash = Chosen] \in Row
             /\ [job[w].row EXCEPT !.login = clock] \in Row
  BY <1>0, <1>3, JobShape, RowExcept
<1>4. ASSUME NEW w \in Workers, Rehash(w) \/ ResetPassword(w)
      PROVE  Ids' = Ids /\ \A v \in Ids : rows'[v].email = rows[v].email
  BY <1>2, <1>3, <1>4 DEF Rehash, ResetPassword
<1>5. ASSUME NEW w \in Workers, LogIn(w) \/ SaveUserPage(w)
      PROVE  Ids' = Ids /\ \A v \in Ids : rows'[v].email = rows[v].email
  BY <1>2, <1>3, <1>5 DEF LogIn, SaveUserPage
<1>6. CASE UNCHANGED vars \/ RaiseIterations \/ Tick \/ \E s \in sessions : EndSession(s)
  BY <1>1, <1>6 DEF vars, RaiseIterations, Tick, EndSession
<1>7. ASSUME NEW w \in Workers,
             \/ \E email \in Address : CheckAddress(w, email)
             \/ \E u \in Ids : CheckPassword(w, u) \/ OpenUserPage(w, u)
             \/ \E box \in Mailboxes : AskForLink(w, box)
             \/ SendLink(w) \/ SendFails(w) \/ Abandon(w)
             \/ \E k \in mailed : OpenLink(w, k)
      PROVE  Ids' = Ids /\ \A v \in Ids : rows'[v].email = rows[v].email
  BY <1>1, <1>7 DEF CheckAddress, CheckPassword, OpenUserPage, AskForLink, SendLink, SendFails,
                    Abandon, OpenLink
<1> QED  BY <1>4, <1>5, <1>6, <1>7 DEF Next

\* Only CheckAddress starts a sign-up, for an address without an account.
LEMMA SignUpStarts ==
    ASSUME IInv, [Next]_vars, NEW w \in Workers, job'[w].op = "signup"
    PROVE  \/ job'[w] = job[w]
           \/ Of(job'[w].email.box) = {} /\ rows' = rows
<1>1. job \in [Workers -> Job]
  BY DEF IInv, JobsFit
<1>2. ASSUME NEW v \in Workers, NEW j, job' = [job EXCEPT ![v] = j], j.op # "signup"
      PROVE  job'[w] = job[w]
  BY <1>1, <1>2
<1>3. CASE UNCHANGED job
  BY <1>3
<1>4. ASSUME NEW v \in Workers, Ends(v) PROVE job'[w] = job[w]
  BY <1>2, <1>4 DEF Ends, Idle
<1>5. ASSUME NEW v \in Workers, NEW email, CheckAddress(v, email)
      PROVE  \/ job'[w] = job[w]
             \/ Of(job'[w].email.box) = {} /\ rows' = rows
  <2>1. job' = [job EXCEPT ![v] = [op |-> "signup", email |-> email]] /\ rows' = rows
        /\ Of(email.box) = {}
    BY <1>5 DEF CheckAddress, Starts, Taken
  <2>2. CASE v = w
    <3>1. job'[w].email = email
      BY <1>1, <2>1, <2>2
    <3> QED  BY <2>1, <2>2, <3>1
  <2> QED  BY <1>1, <2>1, <2>2
<1>6. ASSUME NEW v \in Workers, NEW u, CheckPassword(v, u) \/ OpenUserPage(v, u)
      PROVE  job'[w] = job[w]
  <2>1. PICK op \in {"login", "rehash", "edit"} :
            job' = [job EXCEPT ![v] = [op |-> op, user |-> u, row |-> rows[u]]]
    BY <1>6 DEF CheckPassword, OpenUserPage, Starts
  <2> DEFINE j == [op |-> op, user |-> u, row |-> rows[u]]
  <2>2. job' = [job EXCEPT ![v] = j] /\ j.op # "signup"
    BY <2>1
  <2> HIDE DEF j
  <2> QED  BY <1>2, <2>2
<1>7. ASSUME NEW v \in Workers, NEW k, OpenLink(v, k) PROVE job'[w] = job[w]
  <2> DEFINE j == [op |-> "reset", user |-> k.user, row |-> rows[k.user], link |-> k]
  <2>1. job' = [job EXCEPT ![v] = j] /\ j.op # "signup"
    BY <1>7 DEF OpenLink, Starts
  <2> HIDE DEF j
  <2> QED  BY <1>2, <2>1
<1>8. ASSUME NEW v \in Workers, Rehash(v) PROVE job'[w] = job[w]
  <2>1. v # w \/ job'[w].op = job[w].op
    BY <1>1, <1>8 DEF Rehash
  <2>2. v # w
    BY <1>8, <2>1 DEF Rehash
  <2> QED  BY <1>1, <1>8, <2>2 DEF Rehash
<1>9. CASE UNCHANGED vars \/ RaiseIterations \/ Tick \/ \E s \in sessions : EndSession(s)
  BY <1>3, <1>9 DEF vars, RaiseIterations, Tick, EndSession
<1>10. ASSUME NEW v \in Workers,
              \/ \E box \in Mailboxes : AskForLink(v, box)
              \/ SendLink(v) \/ SendFails(v)
       PROVE  UNCHANGED job
  BY <1>10 DEF AskForLink, SendLink, SendFails
<1>11. ASSUME NEW v \in Workers,
              CreateUser(v) \/ LogIn(v) \/ ResetPassword(v) \/ SaveUserPage(v) \/ Abandon(v)
       PROVE  Ends(v)
  BY <1>11 DEF CreateUser, LogIn, ResetPassword, SaveUserPage, Abandon
<1> QED  BY <1>3, <1>4, <1>5, <1>6, <1>7, <1>8, <1>9, <1>10, <1>11 DEF Next

\* A step keeps Alone as long as no two requests sign the same mailbox up.
LEMMA AloneStep ==
    ASSUME IInv, Alone, [Next]_vars, Apart'
    PROVE  Alone'
<1>0. rows \in Seq(Row) /\ job \in [Workers -> Job]
  BY DEF IInv, RowsFit, JobsFit
<1>1. CASE \A w \in Workers : ~CreateUser(w)
  <2>1. Ids' = Ids /\ \A u \in Ids : rows'[u].email = rows[u].email
    BY <1>1, EmailsStay
  <2>2. OneAccountPerMailbox'
    BY <2>1 DEF Alone, OneAccountPerMailbox
  <2>3. \A box : (Of(box))' = Of(box)
    BY <2>1 DEF Of
  <2>4. ASSUME NEW w \in Workers, job'[w].op = "signup"
        PROVE  (Of(job[w].email.box) = {})'
    BY <2>3, <2>4, SignUpStarts DEF Alone
  <2> QED  BY <2>2, <2>4 DEF Alone
<1>2. ASSUME NEW w \in Workers, CreateUser(w) PROVE Alone'
  <2> DEFINE row == [email |-> job[w].email, hash |-> Chosen, login |-> 0]
             box == job[w].email.box
  <2>1. job[w].op = "signup" /\ job' = [job EXCEPT ![w] = Idle] /\ rows' = Append(rows, row)
    BY <1>2 DEF CreateUser, Ends
  <2>2. row.email = job[w].email /\ \A u \in Ids : rows[u].email.box # box
    BY <2>1 DEF Alone, Of
  <2> HIDE DEF row
  <2>3. /\ Ids \subseteq Ids'
        /\ \A u \in Ids : rows'[u] = rows[u]
        /\ \A u, v \in Ids' \ Ids : u = v /\ rows'[u].email.box = box
    <3>1. /\ Len(rows) \in Nat /\ Ids = 1..Len(rows) /\ Ids' = 1..(Len(rows) + 1)
          /\ rows'[Len(rows) + 1] = row /\ \A u \in 1..Len(rows) : rows'[u] = rows[u]
      BY <1>0, <2>1 DEF Ids
    <3> QED  BY <2>2, <3>1
  <2>4. OneAccountPerMailbox'
    BY <2>2, <2>3 DEF Alone, OneAccountPerMailbox
  <2>5. ASSUME NEW v \in Workers, job'[v].op = "signup"
        PROVE  (Of(job[v].email.box) = {})'
    <3>1. v # w /\ job'[v] = job[v]
      BY <1>0, <2>1, <2>5 DEF Idle
    <3>2. job[v].email.box # box /\ \A u \in Ids : rows[u].email.box # job[v].email.box
      BY <2>1, <2>5, <3>1 DEF Alone, Apart, Of
    <3> QED  BY <2>3, <3>1, <3>2 DEF Of
  <2> QED  BY <2>4, <2>5 DEF Alone
<1> QED  BY <1>1, <1>2

LEMMA AloneStart == Init => Alone
BY DEF Init, Alone, Apart, OneAccountPerMailbox, Ids, Idle

\* While no two requests sign the same mailbox up at the same time, whatever else
\* overlaps, a mailbox never has two accounts, however its address is capitalised
\* (register_visitor, create_user).
THEOREM MailboxesApart == ApartSpec => []OneAccountPerMailbox
<1>1. IInv /\ Alone /\ [Next /\ Apart']_vars => Alone'
  <2> SUFFICES ASSUME IInv, Alone, [Next /\ Apart']_vars PROVE Alone'
    OBVIOUS
  <2>1. Apart'
    BY DEF Alone, Apart, vars
  <2> QED  BY <2>1, AloneStep
<1>2. ApartSpec => []IInv
  BY Invariance, PTL DEF ApartSpec, Spec
<1>3. Alone => OneAccountPerMailbox
  BY DEF Alone
<1> QED  BY <1>1, <1>2, <1>3, AloneStart, PTL DEF ApartSpec

-----------------------------------------------------------------------------
(* The password in force *)

\* A hash is of a password chosen no later than the hash was computed.
PasswordsFit == \A h \in Hashes : Password(h) \in Nat /\ Password(h) <= h

\* A login in flight that is about to write the password of a hash replaced.
Revives(u) == \E w \in Workers : /\ Rehash(w) /\ job[w].user = u
                                 /\ job[w].row.hash # rows[u].hash

PasswordsAdvance ==
    [][\A u \in Ids : Password(rows[u].hash) <= Password(rows[u].hash)' \/ Revives(u)]_vars

\* A step that stores a hash stores it for one account, and everything else
\* leaves the hashes of all of them alone.
LEMMA HashStep ==
    ASSUME IInv, [Next]_vars, NEW u \in Ids
    PROVE  \/ rows'[u].hash = rows[u].hash
           \/ \E w \in Workers :
                /\ Rehash(w) \/ ResetPassword(w)
                /\ job[w].user = u /\ rows'[u].hash = Chosen
<1>0. /\ RowsFit /\ rows \in Seq(Row) /\ clock \in Nat /\ Chosen \in Nat
  BY DEF IInv, RowsFit, Chosen
<1>1. ASSUME NEW v \in Ids, NEW row \in Row, NEW c \in {"hash", "login"}, Save(v, row, {c})
      PROVE  \/ rows'[u].hash = rows[u].hash
             \/ c = "hash" /\ v = u /\ rows'[u].hash = row.hash
  BY <1>0, <1>1, SaveStores
<1>2. ASSUME NEW w \in Workers, job[w].op \in {"login", "rehash", "edit", "reset"}
      PROVE  /\ job[w].user \in Ids /\ job[w].row \in Row
             /\ [job[w].row EXCEPT !.hash = Chosen] \in Row
             /\ [job[w].row EXCEPT !.hash = Chosen].hash = Chosen
             /\ [job[w].row EXCEPT !.login = clock] \in Row
  BY <1>0, <1>2, JobShape, RowExcept
<1>3. ASSUME NEW w \in Workers, Rehash(w) \/ ResetPassword(w)
      PROVE  rows'[u].hash = rows[u].hash \/ (job[w].user = u /\ rows'[u].hash = Chosen)
  <2> DEFINE row == [job[w].row EXCEPT !.hash = Chosen]
  <2>1. /\ job[w].user \in Ids /\ row \in Row /\ row.hash = Chosen
        /\ Save(job[w].user, row, {"hash"})
    BY <1>2, <1>3 DEF Rehash, ResetPassword
  <2> HIDE DEF row
  <2> QED  BY <1>1, <2>1
<1>4. ASSUME NEW w \in Workers, LogIn(w) \/ SaveUserPage(w)
      PROVE  rows'[u].hash = rows[u].hash
  <2>1. PICK v \in Ids, row \in Row : Save(v, row, {"login"})
    BY <1>2, <1>4 DEF LogIn, SaveUserPage
  <2> QED  BY <1>1, <2>1
<1>5. ASSUME NEW w \in Workers, CreateUser(w) PROVE rows'[u].hash = rows[u].hash
  <2> DEFINE row == [email |-> job[w].email, hash |-> Chosen, login |-> 0]
  <2>1. rows' = Append(rows, row)
    BY <1>5 DEF CreateUser
  <2> HIDE DEF row
  <2> QED  BY <1>0, <2>1 DEF Ids
<1>6. CASE UNCHANGED vars \/ RaiseIterations \/ Tick \/ \E s \in sessions : EndSession(s)
  BY <1>6 DEF vars, RaiseIterations, Tick, EndSession
<1>7. ASSUME NEW w \in Workers,
             \/ \E email \in Address : CheckAddress(w, email)
             \/ \E v \in Ids : CheckPassword(w, v) \/ OpenUserPage(w, v)
             \/ \E box \in Mailboxes : AskForLink(w, box)
             \/ SendLink(w) \/ SendFails(w) \/ Abandon(w)
             \/ \E k \in mailed : OpenLink(w, k)
      PROVE  rows'[u].hash = rows[u].hash
  BY <1>7 DEF CheckAddress, CheckPassword, OpenUserPage, AskForLink, SendLink, SendFails,
              Abandon, OpenLink
<1> QED  BY <1>3, <1>4, <1>5, <1>6, <1>7 DEF Next

\* What a hash is of never changes, and a new hash is of the password just
\* chosen or, when a login rewrites it, of the one it read.
LEMMA PasswordStep ==
    ASSUME IInv, PasswordsFit, [Next]_vars
    PROVE  /\ PasswordsFit'
           /\ \A h \in Hashes : h \in Hashes' /\ Password(h)' = Password(h)
           /\ \A w \in Workers : ResetPassword(w) => hashes'[Chosen] = Chosen
           /\ \A w \in Workers : Rehash(w) => hashes'[Chosen] = Password(job[w].row.hash)
<1>0. hashes \in Seq(Nat) /\ Chosen \in Nat
  BY DEF IInv, RowsFit, Chosen
<1>1. ASSUME NEW x \in Nat, x <= Chosen, hashes' = Append(hashes, x)
      PROVE  /\ PasswordsFit' /\ hashes'[Chosen] = x
             /\ \A h \in Hashes : h \in Hashes' /\ Password(h)' = Password(h)
  <2>1. /\ Hashes = 1..Len(hashes) /\ Hashes' = 1..Chosen /\ Len(hashes) \in Nat
        /\ hashes'[Chosen] = x /\ \A h \in Hashes : hashes'[h] = hashes[h]
    BY <1>0, <1>1 DEF Hashes, Chosen
  <2>2. Hashes' = Hashes \cup {Chosen}
    BY <2>1 DEF Chosen
  <2> QED  BY <1>1, <2>1, <2>2 DEF PasswordsFit, Password
<1>2. ASSUME hashes' = hashes
      PROVE  /\ PasswordsFit' /\ \A h \in Hashes : h \in Hashes' /\ Password(h)' = Password(h)
             /\ \A w \in Workers : ~ResetPassword(w) /\ ~Rehash(w)
  <2>1. \A x : hashes' # Append(hashes, x)
    BY <1>0, <1>2
  <2> QED  BY <1>2, <2>1 DEF PasswordsFit, Password, Hashes, ResetPassword, Rehash, Choose
<1>3. ASSUME NEW w \in Workers, CreateUser(w) \/ ResetPassword(w)
      PROVE  hashes' = Append(hashes, Chosen)
  BY <1>3 DEF CreateUser, ResetPassword, Choose, Chosen
<1>4. ASSUME NEW w \in Workers, Rehash(w)
      PROVE  /\ hashes' = Append(hashes, Password(job[w].row.hash))
             /\ Password(job[w].row.hash) \in Nat /\ Password(job[w].row.hash) < Chosen
  <2>1. job[w].row.hash \in Hashes /\ Hashes = 1..Len(hashes) /\ Len(hashes) \in Nat
    BY <1>0, <1>4, JobShape DEF Rehash, Hashes
  <2> QED  BY <1>4, <2>1 DEF Rehash, PasswordsFit, Chosen
<1>5. ASSUME NEW x \in Nat, NEW y \in Nat, hashes' = Append(hashes, x), hashes' = Append(hashes, y)
      PROVE  x = y
  <2>1. \A z \in Nat : Append(hashes, z)[Chosen] = z
    BY <1>0 DEF Chosen
  <2> QED  BY <1>5, <2>1
<1>6. CASE \E w \in Workers : CreateUser(w) \/ ResetPassword(w)
  <2>1. hashes' = Append(hashes, Chosen)
    BY <1>3, <1>6
  <2>2. \A w \in Workers : Rehash(w) => Password(job[w].row.hash) = Chosen
    BY <1>0, <1>4, <1>5, <2>1
  <2>3. /\ PasswordsFit' /\ hashes'[Chosen] = Chosen
        /\ \A h \in Hashes : h \in Hashes' /\ Password(h)' = Password(h)
    <3>1. Chosen <= Chosen
      BY <1>0
    <3> QED  BY <1>0, <1>1, <2>1, <3>1
  <2> QED  BY <2>2, <2>3
<1>7. CASE \E w \in Workers : Rehash(w)
  <2>1. PICK w \in Workers : Rehash(w)
    BY <1>7
  <2> DEFINE x == Password(job[w].row.hash)
  <2>2. hashes' = Append(hashes, x) /\ x \in Nat /\ x < Chosen
    BY <1>4, <2>1
  <2>3. \A v \in Workers : Rehash(v) => Password(job[v].row.hash) = x
    BY <1>4, <1>5, <2>2
  <2>4. \A v \in Workers : ~ResetPassword(v)
    BY <1>0, <1>3, <1>5, <2>2
  <2> HIDE DEF x
  <2>5. x <= Chosen
    BY <1>0, <2>2
  <2> QED  BY <1>1, <2>2, <2>3, <2>4, <2>5
<1>8. CASE \A w \in Workers : ~CreateUser(w) /\ ~ResetPassword(w) /\ ~Rehash(w)
  BY <1>2, <1>8 DEF Next, vars, RaiseIterations, Tick, EndSession, CheckAddress, CheckPassword,
       OpenUserPage, LogIn, AskForLink, SendLink, SendFails, OpenLink, SaveUserPage, Abandon
<1> QED  BY <1>6, <1>7, <1>8

\* The password in force only ever gives way to one chosen later, except when a
\* login rewrites, with more iterations, a hash it read before a reset replaced
\* it: that brings the old password back (check_password's setter saves the hash
\* of what was typed; reset_password, services.py:47-49).
THEOREM PasswordsCorrect == Spec => PasswordsAdvance
<1>1. Init => PasswordsFit
  BY DEF Init, PasswordsFit, Hashes
<1>2. IInv /\ PasswordsFit /\ [Next]_vars => PasswordsFit'
  BY PasswordStep
<1>3. IInv /\ PasswordsFit /\ [Next]_vars =>
        [\A u \in Ids : Password(rows[u].hash) <= Password(rows[u].hash)' \/ Revives(u)]_vars
  <2> SUFFICES ASSUME IInv, PasswordsFit, [Next]_vars, NEW u \in Ids, ~Revives(u)
               PROVE  Password(rows[u].hash) <= Password(rows[u].hash)'
    OBVIOUS
  <2> DEFINE h == rows[u].hash
  <2>1. /\ h \in Hashes /\ Password(h) \in Nat /\ Password(h) <= h
        /\ Password(h)' = hashes'[rows'[u].hash]
    BY RowShape DEF IInv, PasswordsFit, Password
  <2>2. CASE rows'[u].hash = rows[u].hash
    <3>1. hashes'[rows[u].hash] = hashes[rows[u].hash]
      BY <2>1, PasswordStep DEF Password
    <3> QED  BY <2>1, <2>2, <3>1 DEF Password
  <2>3. ASSUME NEW w \in Workers, Rehash(w) \/ ResetPassword(w), job[w].user = u,
               rows'[u].hash = Chosen
        PROVE  Password(h) <= Password(h)'
    <3>1. h \in Nat /\ h < Chosen /\ Chosen \in Nat
      BY <2>1 DEF IInv, RowsFit, Hashes, Chosen
    <3>2. CASE ResetPassword(w)
      <4>1. hashes'[Chosen] = Chosen
        BY <2>3, <3>2, PasswordStep DEF Password
      <4> QED  BY <2>1, <2>3, <3>1, <4>1
    <3>3. CASE Rehash(w)
      <4>1. job[w].row.hash = h
        BY <2>3, <3>3 DEF Revives
      <4>2. hashes'[Chosen] = hashes[h]
        BY <2>3, <3>3, <4>1, PasswordStep DEF Password
      <4> QED  BY <2>1, <2>3, <4>2 DEF Password
    <3> QED  BY <2>3, <3>2, <3>3
  <2> QED  BY <2>2, <2>3, HashStep
<1> QED  BY <1>1, <1>2, <1>3, Invariance, PTL DEF Spec, PasswordsAdvance

-----------------------------------------------------------------------------
(* What a reset ends *)

\* A reset that met no login about to rewrite the hash is not undone: neither by
\* the hash stored, nor by what a login yet to rewrite it holds.
ResetsHold ==
    \A x \in spent : ~x.raced =>
        /\ Password(rows[x.link.user].hash) >= x.password
        /\ \A w \in Workers : job[w].op = "rehash" /\ job[w].user = x.link.user
              => Password(job[w].row.hash) >= x.password

\* A login about to rewrite a hash started from the row stored.
LEMMA RehashStarts ==
    ASSUME IInv, [Next]_vars, NEW w \in Workers, job'[w].op = "rehash"
    PROVE  job'[w] = job[w] \/ job'[w].row = rows[job'[w].user]
<1>1. job \in [Workers -> Job]
  BY DEF IInv, JobsFit
<1>2. ASSUME NEW v \in Workers, NEW j, job' = [job EXCEPT ![v] = j],
             j.op # "rehash" \/ j.row = rows[j.user]
      PROVE  job'[w] = job[w] \/ job'[w].row = rows[job'[w].user]
  BY <1>1, <1>2
<1>3. CASE UNCHANGED job
  BY <1>3
<1>4. ASSUME NEW v \in Workers, Ends(v) PROVE job'[w] = job[w]
  BY <1>1, <1>4 DEF Ends, Idle
<1>5. ASSUME NEW v \in Workers, NEW email, CheckAddress(v, email) PROVE job'[w] = job[w]
  <2> DEFINE j == [op |-> "signup", email |-> email]
  <2>1. job' = [job EXCEPT ![v] = j] /\ j.op # "rehash"
    BY <1>5 DEF CheckAddress, Starts
  <2> HIDE DEF j
  <2> QED  BY <1>1, <2>1
<1>6. ASSUME NEW v \in Workers, NEW u, CheckPassword(v, u) \/ OpenUserPage(v, u)
      PROVE  job'[w] = job[w] \/ job'[w].row = rows[job'[w].user]
  <2>1. PICK op \in {"login", "rehash", "edit"} :
            job' = [job EXCEPT ![v] = [op |-> op, user |-> u, row |-> rows[u]]]
    BY <1>6 DEF CheckPassword, OpenUserPage, Starts
  <2> DEFINE j == [op |-> op, user |-> u, row |-> rows[u]]
  <2>2. job' = [job EXCEPT ![v] = j] /\ j.row = rows[j.user]
    BY <2>1
  <2> HIDE DEF j
  <2> QED  BY <1>2, <2>2
<1>7. ASSUME NEW v \in Workers, NEW k, OpenLink(v, k) PROVE job'[w] = job[w]
  <2> DEFINE j == [op |-> "reset", user |-> k.user, row |-> rows[k.user], link |-> k]
  <2>1. job' = [job EXCEPT ![v] = j] /\ j.op # "rehash"
    BY <1>7 DEF OpenLink, Starts
  <2> HIDE DEF j
  <2> QED  BY <1>1, <2>1
<1>8. ASSUME NEW v \in Workers, Rehash(v) PROVE job'[w] = job[w]
  <2> DEFINE row == [job[v].row EXCEPT !.hash = Chosen]
             j == [job[v] EXCEPT !.op = "login", !.row = row]
  <2>1. job' = [job EXCEPT ![v] = j] /\ job[v].op = "rehash"
    BY <1>1, <1>8 DEF Rehash
  <2>2. j.op = "login"
    <3>1. job[v] \in [op : {"login", "rehash", "edit"}, user : Nat, row : Row]
      BY <1>1, <2>1 DEF Job, Idle
    <3> QED  BY <3>1
  <2> HIDE DEF j
  <2> QED  BY <1>1, <2>1, <2>2
<1>9. CASE UNCHANGED vars \/ RaiseIterations \/ Tick \/ \E s \in sessions : EndSession(s)
  BY <1>3, <1>9 DEF vars, RaiseIterations, Tick, EndSession
<1>10. ASSUME NEW v \in Workers,
              \/ \E box \in Mailboxes : AskForLink(v, box)
              \/ SendLink(v) \/ SendFails(v)
       PROVE  UNCHANGED job
  BY <1>10 DEF AskForLink, SendLink, SendFails
<1>11. ASSUME NEW v \in Workers,
              CreateUser(v) \/ LogIn(v) \/ ResetPassword(v) \/ SaveUserPage(v) \/ Abandon(v)
       PROVE  Ends(v)
  BY <1>11 DEF CreateUser, LogIn, ResetPassword, SaveUserPage, Abandon
<1> QED  BY <1>3, <1>4, <1>5, <1>6, <1>7, <1>8, <1>9, <1>10, <1>11 DEF Next

\* What a reset stores.
LEMMA ResetStores ==
    ASSUME IInv, NEW w \in Workers, ResetPassword(w)
    PROVE  /\ job[w].user \in Ids /\ job[w].link.user = job[w].user
           /\ rows'[job[w].user].hash = Chosen
<1>1. /\ job[w].user \in Ids /\ job[w].row \in Row /\ job[w].link.user = job[w].user
      /\ rows \in Seq(Row) /\ Chosen \in Nat
  BY JobShape DEF ResetPassword, IInv, JobsFit, FitJob, RowsFit, Chosen
<1>2. [job[w].row EXCEPT !.hash = Chosen] \in Row /\ [job[w].row EXCEPT !.hash = Chosen].hash = Chosen
  BY <1>1, RowExcept
<1> QED  BY <1>1, <1>2, SaveStores DEF ResetPassword

\* Earlier resets hold through every step.
LEMMA ResetHoldsOn ==
    ASSUME IInv, PasswordsFit, ResetsHold, [Next]_vars, NEW x \in spent, ~x.raced
    PROVE  /\ Password(rows[x.link.user].hash)' >= x.password
           /\ \A w \in Workers : job'[w].op = "rehash" /\ job'[w].user = x.link.user
                 => Password(job[w].row.hash)' >= x.password
<1> DEFINE u == x.link.user
           h == rows[u].hash
<1>1. /\ u \in Ids /\ x.password \in Hashes /\ h \in Hashes
      /\ hashes \in Seq(Nat) /\ Hashes = 1..Len(hashes) /\ Len(hashes) \in Nat
  BY DEF IInv, SpentFit, Known, RowsFit, Hashes
<1>2. /\ x.password \in Nat /\ x.password < Chosen /\ Chosen \in Nat
      /\ Password(h) >= x.password
  BY <1>1 DEF ResetsHold, Chosen
<1>3. \A g \in Hashes : hashes'[g] = Password(g)
  BY PasswordStep DEF Password
<1>4. Password(rows[u].hash)' = hashes'[rows'[u].hash]
  BY DEF Password
<1>5. hashes'[rows'[u].hash] >= x.password
  <2>1. CASE rows'[u].hash = h
    BY <1>1, <1>2, <1>3, <2>1
  <2>2. ASSUME NEW w \in Workers, Rehash(w), job[w].user = u, rows'[u].hash = Chosen
        PROVE  hashes'[rows'[u].hash] >= x.password
    <3>1. Password(job[w].row.hash) >= x.password
      BY <2>2 DEF ResetsHold, Rehash
    <3> QED  BY <2>2, <3>1, PasswordStep
  <2>3. ASSUME NEW w \in Workers, ResetPassword(w), rows'[u].hash = Chosen
        PROVE  hashes'[rows'[u].hash] >= x.password
    <3>1. hashes'[Chosen] = Chosen
      BY <2>3, PasswordStep
    <3> QED  BY <1>2, <2>3, <3>1
  <2> QED  BY <1>1, <2>1, <2>2, <2>3, HashStep
<1>6. ASSUME NEW w \in Workers, job'[w].op = "rehash", job'[w].user = u
      PROVE  hashes'[job'[w].row.hash] >= x.password
  <2>1. CASE job'[w] = job[w]
    <3>1. job[w].row.hash \in Hashes
      BY <1>6, <2>1, JobShape
    <3>2. Password(job[w].row.hash) >= x.password
      BY <1>6, <2>1 DEF ResetsHold
    <3> QED  BY <1>3, <2>1, <3>1, <3>2
  <2>2. CASE job'[w].row = rows[u]
    BY <1>1, <1>2, <1>3, <2>2
  <2> QED  BY <1>6, <2>1, <2>2, RehashStarts
<1> QED  BY <1>4, <1>5, <1>6 DEF Password

LEMMA ResetsStep ==
    ASSUME IInv, PasswordsFit, ResetsHold, [Next]_vars PROVE ResetsHold'
<1>1. CASE spent' = spent
  BY <1>1, ResetHoldsOn DEF ResetsHold
<1>2. ASSUME NEW v \in Workers, ResetPassword(v) PROVE ResetsHold'
  <2> DEFINE new == [link |-> job[v].link, password |-> Chosen,
                     raced |-> Rewriting(job[v].user)]
             u == job[v].user
  <2>1. u \in Ids /\ job[v].link.user = u /\ rows'[u].hash = Chosen /\ Chosen \in Nat
    BY <1>2, ResetStores DEF IInv, RowsFit, Chosen
  <2>2. hashes'[Chosen] = Chosen
    BY <1>2, PasswordStep
  <2>3. \A w \in Workers : job'[w].op = "rehash" => job'[w] = job[w]
    <3>1. job \in [Workers -> Job] /\ job' = [job EXCEPT ![v] = Idle]
      BY <1>2 DEF ResetPassword, Ends, IInv, JobsFit
    <3> QED  BY <3>1 DEF Idle
  <2>4. ~Rewriting(u) => \A w \in Workers : ~(job'[w].op = "rehash" /\ job'[w].user = u)
    BY <2>3 DEF Rewriting
  <2>5. hashes'[rows'[u].hash] >= Chosen
    BY <2>1, <2>2
  <2>6. spent' = spent \cup {new}
    BY <1>2 DEF ResetPassword
  <2>7. \A x \in spent' : x \in spent \/ x = new
    BY <2>6
  <2>8. ASSUME NEW x \in spent', ~x.raced, x = new
        PROVE  /\ hashes'[rows'[x.link.user].hash] >= x.password
               /\ \A w \in Workers : ~(job'[w].op = "rehash" /\ job'[w].user = x.link.user)
    BY <2>1, <2>4, <2>5, <2>8
  <2> HIDE DEF new
  <2> QED  BY <2>7, <2>8, ResetHoldsOn DEF ResetsHold, Password
<1>3. CASE \A w \in Workers : ~ResetPassword(w)
  <2>1. spent' = spent
    BY <1>3 DEF Next, vars, RaiseIterations, Tick, EndSession, CheckAddress, CheckPassword,
         OpenUserPage, LogIn, AskForLink, SendLink, SendFails, OpenLink, SaveUserPage, Abandon,
         CreateUser, Rehash
  <2> QED  BY <1>1, <2>1
<1> QED  BY <1>2, <1>3

\* After a reset nobody who typed an older password has a session that opens
\* pages, however its login overlapped the reset, unless the reset met a login
\* that was about to rewrite the old password's hash (log_in, reset_password).
THEOREM SessionsCorrect == Spec => []ResetEndsSessions
<1>1. Init => PasswordsFit /\ ResetsHold
  BY DEF Init, PasswordsFit, Hashes, ResetsHold
<1>2. IInv /\ PasswordsFit /\ ResetsHold /\ [Next]_vars => PasswordsFit' /\ ResetsHold'
  BY PasswordStep, ResetsStep
<1>3. IInv /\ ResetsHold => ResetEndsSessions
  <2> SUFFICES ASSUME IInv, ResetsHold, NEW s \in sessions, NEW x \in spent,
                      s.user = x.link.user, ~x.raced, Live(s)
               PROVE  s.typed >= x.password
    BY DEF ResetEndsSessions
  <2>1. s.typed = Password(s.hash) /\ s.hash = rows[x.link.user].hash
    BY DEF IInv, SessionsFit, Live
  <2>2. Password(rows[x.link.user].hash) >= x.password
    BY DEF ResetsHold
  <2> QED  BY <2>1, <2>2
<1> QED  BY <1>1, <1>2, <1>3, Invariance, PTL DEF Spec
=============================================================================
