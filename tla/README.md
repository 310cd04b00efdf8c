# A verification project for BidHaus

BidHaus is an auction house written in Python with Django and SQLite
(`src/README.md`). Sellers publish lots, administrators approve them, bidders
raise the price, a lot that reaches its closing date is knocked down to its
highest bid, the payment is held in escrow until the buyer confirms reception
or an administrator resolves a dispute, and both sides rate each other.

This directory holds TLA+ modules that model the parts of it where order,
overlap and failure matter, TLC configurations that check them on small
instances, and proofs, checked by TLAPS, that hold for every size.
`PROJECT.json` maps every definition to the lines it models and lists the
runs, the hazards, the mutants and the theorems.

Contents: 1 the system, 2 the modules, 3 how code becomes actions, 4 the runs,
5 the properties that fail, 6 fairness, 7 the proofs, 8 what is not modelled,
9 what is left, 10 how to run it.


## 1. The system

| Component | State it keeps | Operations that write | Talks to |
|---|---|---|---|
| Lots (`auctions/`) | `Auction`, `Bid`, `Photograph` rows | `publish_auction`, `approve_`/`reject_auction_publication`, `place_bid`, `close_auction`, `add_photographs` | announces `auction_published` and `auction_closed` inside its transaction |
| `close_auctions` command | none | closes every expired lot, from cron | calls `close_expired_auctions` |
| Auction mails (`auctions/notifications.py`) | callbacks registered with `on_commit` | sends to winner, seller, outbid bidder | called by closing and bidding |
| Escrow (`escrow/`) | `EscrowTransaction`, `StateChange`, `Dispute`, `Evidence` rows | `hold_payment`, `confirm_reception`, `open_dispute`, `attach_evidence`, `resolve_dispute` | receives `auction_closed` |
| Reputation (`reputation/`) | `Rating` rows | `rate_counterpart` | reads escrow |
| Trust score (`analytics/`) | `TrustScore` rows | `calculate_trust_score` | receives `auction_published` |
| Accounts (`accounts/`) | `User`, `VerificationRequest` rows, document files | register, log in, reset password, submit / approve / reject a verification | every service reads roles |
| Administration (`*/admin.py`) | none of its own | the actions that decide requests; change forms | calls the services |

### Where the difficulty is

* **Rows loaded early.** A view, an admin action or the cron command loads
  model objects and hands them to a service. The service tests the object
  (`is_pending`, `is_open`, `is_held`, `is_verified`, `state`) and saves the
  columns it changed over whatever is stored by then. Only `_register_bid`
  reads its lot again inside its own transaction.
* **Two kinds of lock.** SQLite lets one write transaction run at a time
  (`transaction_mode: IMMEDIATE`). `BID_WRITE_LOCK` is a `threading.Lock`,
  which orders the bids of one process only, and it is held while a call
  sleeps between attempts and while `on_commit` sends mails.
* **Effects outside the database.** Mails leave after the commit. Identity
  documents are files, written before the row and deleted before the commit.
* **Batches.** The cron command and the admin actions go through several rows
  with one transaction each, and a failure in the middle has to leave the rest
  in order.
* **Safety that rests on another line.** A sold lot is not paid twice because
  `hold_payment` raises, not because of the early return of `close_auction`. A
  sold lot does not reopen because a trust score exists, not because an
  approval looks at what is stored.

### What makes each component correct

* Lots: bids climb and end at the current price; the winner is the highest bid;
  a lot with bids never closes without its payment; a sale is final; only
  approved lots are public; every expired lot is closed in the end.
* Mails: nothing is announced that the database does not hold; the end of a
  sale is told once.
* `place_bid`: a bid is stored at most once, the answer is true, every bid is
  answered, and lock plus transaction make it one step.
* Escrow: the history is append-only and tells the present; a sale is argued
  once; money moves once; a refund is whole; evidence precedes the decision and
  is bounded.
* Reputation: one score per side of a sale whose money reached the seller.
* The market as a whole: the payment that is argued over is the one the closing
  created; the commission of a release is the nearest cent, of the winner's bid,
  at the percentage then in force, and stays; the pages show what is stored.
* Accounts: one account per mailbox; a reset ends the sessions of older passwords,
  unless it meets a login that is rewriting the old hash; a recovery link works once.
* Photographs and trust: a lot keeps to its limit and takes every upload that fits;
  a score says what was true, and stays earned.
* Verification: one pending request per account; an approved account can
  publish; no document outlives its decision, none is lost before it.


## 2. The modules

| Module | What it is |
|---|---|
| `Auctions` | lots from publication to closing, with cron, web workers, admin batches, held payments and mails |
| `AscendingSale` | what an auction promises, with no requests, mails or failures: offers rise, a lot is sold once, to its last offer |
| `BidDesk` | one lot, `place_bid` and closings statement by statement, in several processes |
| `Escrow` | payments, disputes, evidence |
| `SaleMoney` | what escrow promises about the money of a sale |
| `Reputation` | ratings on top of `Escrow` (EXTENDS it) |
| `Commission` | `calculate_commission` in whole cents |
| `Marketplace` | `Auctions` (INSTANCE), `Reputation` and `Commission` (EXTENDS) as one program |
| `SaleLife` | what BidHaus promises about a lot from its first offer to the last score |
| `Verification` | verification requests, documents, roles |
| `Accounts` | signing up, logging in, sessions, recovery links |
| `Publication` | photographs and the factors of the trust score |
| `*MC` | the instances for TLC; `ReputationMC` holds those of `Escrow` and `Reputation` together, `EscrowMC` the one of the run without ratings |
| `*Proofs` | the proofs, one module for each of `Auctions`, `BidDesk`, `Escrow`, `Reputation`, `Marketplace`, `Verification`, `Accounts`, `Publication` |

Three of them exist to justify the others:

* `BidDesk` justifies that `Auctions` takes a bid as one step: the statements of
  `_register_bid` and of a closing, interleaved as the locks allow, are still
  one ascending sale.
* `Marketplace` justifies that `Auctions` and `Escrow` can be read apart. There
  `SaleStep` is the closing that makes the payment in both: `CloseAuction` of the
  one conjoined with `HoldPayment` of the other, because escrow's receiver runs
  inside the transaction of the closing. Every other step moves one app and
  leaves the others alone, and a worker serves one request at a time
  (`OneRequestEach`).
* `AscendingSale`, `SaleMoney` and `SaleLife` say what the rest is for. They
  know no request, row, mail or restart.


## 3. How code becomes actions

**One transaction is one step.** Every service under `@transaction.atomic`
opens with `BEGIN IMMEDIATE`, so write transactions are serialised, and a
service that raises leaves nothing. `BidDesk` is the exception: there the steps
are the statements.

**A request is a load and a write.** `job` (in `Auctions`, `Verification`),
`task` (in `Escrow`), `form` (in `Reputation`), `job` (in `Accounts`) and `page` (in
`Publication`: an administrator's browser) hold what was read and has yet to be used. Everything may happen between the two steps. A test that the
service makes of the loaded object alone is evaluated when the object is
loaded, because the object does not change; a test the service makes of the
database (`find_transaction_for_auction`, `count_free_evidence_slots`,
`find_rating`, `find_pending_verification_request`, unique constraints) is evaluated
in the write step. A save with `update_fields` writes those columns over what is
stored.

**Refusals.** A request that is refused changes nothing. Where it held a row
it ends by the action that abandons it; where it held none it is not a step.

**Roles.** `BidHausUserAdmin` lets an administrator change anybody's role
between two requests. In `Auctions` and `Escrow` any account may therefore act as
seller, bidder or administrator over time, which allows more than the real role
checks do. In `Verification` the role and the badge are state, because the
properties are about them, and the user page, which writes both, is left out.

**Passwords** are numbers. Every `set_password` draws a fresh salt, so each stored hash
is a new number (`hashes`), and remembers which password it is of; a password chosen
later has a greater number. A recovery token is what it is derived from: the account,
the hash stored and the last login, at a time. A login is two or three steps, because Django
checks the password, stores the same password under a stronger hash if the one it read has too
few iterations (the check decides it: `CheckPassword` leaves a `"rehash"` or a `"login"`), and
stores `last_login`, each on the row it read at first.

`spent` is a history of the resets: the link, the password chosen, and whether the reset met a
login between its check and its `Rehash` (`Rewriting`). Only properties read it.

**Pages of the administration.** `Publication` and `Accounts` take a change form for what
it is: it is rendered (`OpenPage`, `OpenUserPage`), and later stores what its fields held
(`SavePage`, `SaveUserPage`), which for `last_login` is what was rendered, whatever the
administrator came to change. `PhotographInline` shows every photograph it was given, of an
enlarged lot too; `max_num` limits only the empty forms offered beside them.

**Restarts.** `Marketplace!Restart` starts the server again with another
`COMMISSION_PERCENTAGE`: everything its processes held is gone.

**Failure.** `Die` (and `Abandon`, `AbandonRating`) kills a process or lets an
exception leave its view, at any time: what it loaded and the mails it had yet to
send are lost, what it committed stays. `ClosingFails` is any exception inside a
closing; `SendFails` is the `OSError` that `_send` logs; `SubmissionCutOff` and
`DecisionCutOff` stop a request after its file operation and before its commit.

**Time** is the action `ClosingDatePasses`: a lot's date may pass at any moment after
it was published. `Accounts` has a clock of its own, in ticks, for the life of a link.

| Code | Action |
|---|---|
| `publish_auction` | `Publish` |
| `AuctionAdmin.approve`, `.reject` load the selection | `SelectForDecision` |
| `approve_auction_publication`, its signal and `calculate_trust_score` | `Approve`, `ApprovalRollsBack` |
| `reject_auction_publication` | `Reject` |
| `_register_bid` | `PlaceBid`; in `BidDesk`: `Submit`, `TakeGuard`, `BeginBid`, `Refuse`, `Commit`, `Retries`, `GivesUp`, `Answer` |
| `auction_detail` finds an expired lot | `OpenDetailPage` |
| `close_expired_auctions` loads its list | `StartClosingRun` |
| `close_auction`, escrow's receiver, `hold_payment`, `notify_auction_result` | `CloseAuction`, `ClosingFails`; in `BidDesk`: `BeginClosing`, `CommitClosing`, `ClosingFails` |
| `_send` | `Send`, `SendFails` |
| `find_transaction`, `find_dispute_by_id` in a view | `LoadPayment`, `LoadClaim`, `LoadCase` |
| `confirm_reception` and `release_funds` | `ConfirmReception` |
| `open_dispute` | `OpenDispute` |
| `attach_evidence` | `AttachEvidence` |
| `resolve_dispute` with `release_funds` or `refund_buyer` | `ResolveDispute` |
| `rate`, `rate_counterpart` | `LoadSale`, `Rate` |
| `verification_request_create`, `submit_verification_request` | `StartSubmission`, `Submit`, `SubmissionCutOff` |
| `VerificationRequestAdmin`, `_resolve` and its two callers | `StartDecision`, `Decide`, `DecisionCutOff` |
| `sign_up`, `register_visitor`, `create_user` | `CheckAddress`, `CreateUser` |
| `log_in`, `authenticate_user`, Django's `check_password` and `login` | `CheckPassword`, `Rehash`, `LogIn` |
| `log_out` | `EndSession` |
| `request_password_reset`, `send_password_reset_link`, `_send` | `AskForLink`, `SendLink`, `SendFails` |
| `password_reset_confirm`, `find_user_for_password_reset`, `reset_password` | `OpenLink`, `ResetPassword` |
| `BidHausUserAdmin` | `OpenUserPage`, `SaveUserPage` |
| `publish_auction` and `auction_photographs` with `add_photographs` | `Publish`, `Upload` of `Publication` |
| `PhotographInline` in `AuctionAdmin` | `OpenPage`, `SavePage`, `ClosePage` |
| `calculate_trust_score` and its factors | `Score` |
| the receiver of `auction_closed` | `SaleStep` |
| `release_funds` with `calculate_commission` | `PaymentStep` |
| `for_bidder_list`, `list_sales_to_rate`, `commission_due`, `payout` | `TheHighest`, `TheWinning`, `SalesToRate`, `CommissionDue`, `Payout`, which the refinement of `SaleLife` reads |

Amounts are small numbers (cents, in `Commission` and `Marketplace`), texts are gone, an address is a mailbox and a
way to capitalise it, accounts and workers are
model values. A few definitions differ by a comment that begins "Mutant": each is a
plausible bug, used to check that a property notices it; no run uses them.


## 4. The runs

"Serial" below means the specification restricted to behaviours in which no two
requests hold the same row (the same lot, the same payment) at the same time; requests for
different rows, and those that score a sale, overlap as they like. The code keeps its docstrings only then,
as section 5 tells; what holds regardless is checked without the restriction.

| Run | Instance | Checks |
|---|---|---|
| `auctions_races` | 1 lot, 3 accounts, prices 1..4, 3 workers and cron | `PriceFollowsBids`, `PaymentIsTheWinners`, `ClosedSaleIsPaid`, `MailTellsTheTruth`, `ImplementsSale` |
| `auctions_closing` | 2 lots, one of which can never be closed, 2 accounts, 2 workers and cron | `PublicLotsAreScored`, `SaleToldOnce`, `SoldIsFinal`, and under fairness `ExpiredLotsClose` |
| `auctions_decided_twice` | 1 lot, 2 workers and cron | violates `DecidedOnce` |
| `bid_desk` | 2 processes with 2 and 1 bids, cron, prices 2 and 3 from 1, 3 attempts | `OneBidPerProcess`, `AnswersAreTrue`, `ImplementsSale`, and under fairness `BidsAreAnswered` |
| `escrow_races` | 1 sale, 3 accounts, 3 requests, 2 raters, 2 files | `HistoryEndsInState`, `ArguedOnce`, `DisputedMoneyIsQueued`, `OthersDecideOnlyClaims`, `EvidenceIsBounded`, `HistoryOnlyGrows`, `RatedOnce`, `RatedAfterRelease` |
| `escrow_refund_charged` | 1 sale, 2 requests | violates `RefundIsWhole` |
| `marketplace` | 1 lot, 3 accounts, 3 prices, 2 requests, 2 raters, cron, 2 percentages, serial | `HistoryIsAChain`, `ClaimHoldsTheMoney`, `RatedSalesStand`, `LotResultToldOnce`, `EvidencePrecedesDecision`, `LotDecidedOnce`, `CutIsNearest`, `ImplementsSaleLife` |
| `verification_races` | 2 accounts, 2 workers, 2 file names, 3 requests | `OnePending`, `ApprovedCanPublish`, `ResolvedPapersAreGone` |
| `verification_lost_paper` | the same | violates `PendingHasPaper` |
| `accounts_races` | 1 mailbox written in 2 ways, 2 workers, 3 hashes, 1 link, a clock of 3 ticks; sign-ups of the mailbox do not overlap (`ApartSpec`), everything else does | `OneAccountPerMailbox`, `ResetEndsSessions`, `NoHashReturns`, `SpentLinksStaySpent` |
| `accounts_two_accounts` | the same mailbox, sign-ups overlap too (`Spec`) | violates `OneAccountPerMailbox` |
| `publication` | 2 lots, 2 sellers, 1 category, 3 prices, 3 photographs of which a lot may have 2, 1 page | `PhotographsFit`, `UploadsAreTaken`, `SoldFactorIsEarned`, `PriceFactorIsFair` |

### What the less obvious ones say

* `SaleToldOnce`: however many processes close a sold lot from stale rows, its
  buyer and its seller are each written to at most once.
* `AnswersAreTrue`: a bidder who was told "yes" has one stored bid, and one who was told
  "no" or "busy" has none, whatever was retried.
* `ResetEndsSessions`: after a reset, nobody who typed an older password has a session that
  opens pages. That covers the sessions of before, which carry the old hash, and the logins that
  checked the old password before the reset and store their session after it: `login` signs the
  session with the row the password was checked on, not with the stored one. One reset is
  excepted. If a login has checked the old password on a hash of too few iterations and not yet
  rewritten it, it stores the old password again over the new one, and its session lives. Without
  the exception the run finds that behaviour; with it the property says nothing else has the effect.
* `NoHashReturns`: no step puts an earlier hash back into an account, although
  logins and the administration save rows they read before a reset. It rests on
  `update_fields` in `reset_password` and in Django's own saves.
* `SpentLinksStaySpent`: a page that an administrator saves late can bring an
  *unused* link back to life, since it restores `last_login`; a used one stays dead.
* `PhotographsFit` excepts the lots to which an administrator added photographs
  on a page opened earlier: `max_num` limits the forms of the page and nothing
  counts again when it is saved, so such a lot may exceed the limit. An
  administrator may also delete every photograph of a lot.
* `UploadsAreTaken`: whatever was deleted or moved on pages opened whenever, a lot takes every
  upload that fits and puts it behind what it has. `(auction, display_order)` is unique, so an
  order computed from the number of photographs would, once one in the middle was deleted, have
  the upload refused, for as long as the gap is there. (Orders are naturals: one that an
  administrator types at the end of the integers of SQLite is left out.)
* `PriceFactorIsFair` compares the answer with what an average cannot contradict:
  if no other lot of the category is so dear that the price is under two fifths of
  it the price is fair, if all of them are it is not.
* `CutIsNearest` and `ImplementsSaleLife` hold across restarts that change the
  percentage: what a settled sale paid is stored, what an unsettled one will pay is
  computed from the setting.
* `ImplementsSaleLife` is about what the pages show: `leading` and `won` are
  the marks of a bidder's list, `paid` is the payout, `owing` the list of sales to
  rate. It fails, for instance, if the page computed a settled sale's commission
  anew.

### Why these bounds are enough

* **One lot in `auctions_races`.** Lots share only batches, workers and mails.
  One lot leaves room for three accounts and four prices: a seller and two
  bidders, up to three bids in a climb (a bid has to beat the starting price),
  with three workers and cron holding the lot at once.
* **Two lots in `auctions_closing`.** A batch needs a lot before and a lot behind
  the one that fails. The lot that always fails (`BadLots`) is the newer one,
  which the loop reaches first.
* **`bid_desk`.** Two bids in one process exercise its lock, a third in another
  process and a closing meet them only at the database; three attempts are the
  real `BID_ATTEMPTS`.
* **`escrow_races`.** One sale, because sales share nothing but workers; three
  requests allow a confirmation, a dispute and a decision (or two decisions) to
  overlap, with two raters beside them. Three accounts: buyer, seller,
  administrator. `MaxEvidence` is 2 instead of 5 (`src/escrow/models.py:15`): the
  limit is met by one upload of two files or by two uploads.
* **`marketplace`.** One lot, since lots meet only in batches; at most two bids above
  the starting price; prices of 10, 20 and 30 cents, of which 5 % is half a cent, one
  cent, and one and a half. Two raters, whose forms overlap with anything.
* **`verification_races`.** Three requests of two accounts, one of them an
  administrator who may also apply, and two file names: the smallest instance in
  which a name is freed and taken again while an old row still remembers it.
* **`accounts_races`.** Accounts share nothing but the address check, so one
  mailbox is enough; three hashes are a sign-up and two of reset, hash upgrade and a second
  sign-up; one link
  may be opened by two workers, outlive a login and expire (it lives one tick of three).
* **`publication`.** The limit is met by one upload of two or by two uploads, and
  exceeded by a page opened before the second. Three keys are all the photographs
  ever stored. Prices of 2 and 5 meet the fraction of two fifths exactly, 2 and 6 miss it.

Of the bounds, `MaxEvidence`, `MaxPhotographs`, `Several`, `MaxAttempts`, `Timeout` and
`Percentages` are the program's; `NumLots`, `MaxRequests`, `MaxAccounts`, `MaxHashes`,
`MaxLinks`, `MaxClock`, `MaxOrder` and `Keys` only bound the instance, and are constants of any
value in the proofs.

Accounts, workers, sales, pages and file names are interchangeable, so the runs that
check no liveness declare their permutations as symmetry (accounts in
`Verification` are not, since one is an administrator; keys and lots in `Publication`
are numbers). `CHECK_DEADLOCK FALSE` is set where every lot can be sold, every sale
settled or every bid answered and all that is left is to stop.


## 5. The properties that fail

While no two requests hold the same row the code does what its docstrings say. When
they do, some of it fails, and four runs keep the shortest counterexamples:

* **`auctions_decided_twice`.** Two administrators decide the same request from
  pages loaded earlier; the second decision is written over the first, although
  an exception exists to refuse it. What holds regardless is `SoldIsFinal`: a lot
  that was sold never reopens, because its score already exists and refuses the
  second approval. (It may still be marked rejected.)
* **`escrow_refund_charged`.** A row loaded as held lets a dispute be opened over a
  payment that was released meanwhile; refunded, it keeps the commission.
  The same overlap breaks `SettledForGood`, `HistoryIsAChain`, `ClaimHoldsTheMoney`,
  `RatedSalesStand`, `EvidencePrecedesDecision`, `ImplementsMoney` and
  `ImplementsSaleLife`, which is why all of these are stated for serial behaviours
  only; one run stands for them.
* **`verification_lost_paper`.** A decision that is cut off has already deleted the
  document of a request that still waits. It also happens with no failure: a
  second decision from a stale row deletes the file its row remembers, which may
  by then be the document of the seller's next request.
* **`accounts_two_accounts`.** Two sign-ups with one address in different
  capitals, at the same time, both find it free and both insert it; the unique
  constraint compares capitals. Nobody can log in to either account afterwards,
  because `get_by_natural_key` finds two. While no two requests sign
  the same mailbox up it has one account (`MailboxesApart`).

A fifth disagreement has the cause of the first and no run of its own: two
processes close a lot *without bids* from stale rows and its seller is written
to twice, although the docstring of `close_auction` says that its early return
prevents that (`src/auctions/services.py:221-222`). `ResultToldOnce` of `Auctions` is
violated under `Spec`, and holds in serial behaviours, where `marketplace` checks it as
`LotResultToldOnce`. With bids it cannot happen: `SaleToldOnce`.

One cure would serve all but the documents and the sign-up: to read the row again
inside the transaction, as `_register_bid` does. A constraint on the address without its
capitals would serve the sign-up.


## 6. Fairness

Nothing is assumed of people, visitors or mail servers. Liveness is checked for
two properties.

`Auctions!Fairness`, for `ExpiredLotsClose`:

* weak fairness of `StartClosingRun`: cron starts the command again and again
  (`close_auctions.py:4`, `src/README.md:370-380`);
* weak fairness of the command's mails: each is sent or fails within
  `EMAIL_TIMEOUT`;
* strong fairness, for each lot, of dealing with that lot and of closing it: kills
  and lock timeouts happen, but not in every single run at the same lot. It is
  strong because a kill disables the step each time. The lots of `BadLots`,
  whose closing always raises, can never be closed and the property leaves them out:
  it is about the others, which would starve if a failure ended the run.

`BidDesk!Fairness`, for `BidsAreAnswered`: a running call keeps running, sleeps
and mails have an end (`BID_RETRY_BACKOFF_SECONDS`, `EMAIL_TIMEOUT`), a closing ends
its transaction, and a free lock goes to some waiting thread. A
`threading.Lock` promises no order; since the bids of the instance are finitely many no
stronger assumption is needed, and none is made.


## 7. The proofs

Eight modules hold theorems. All are checked to the last leaf; they assume
only the named assumptions on the constants (numbers are naturals, prices are
positive, a percentage is at most a hundred, the special values are not accounts),
which TLC evaluates in the runs.

**Lots (`AuctionsProofs`).** `Spec => []IInv` with
`IInv` = `TypeOK`, `RowsExist`, `PriceFollowsBids`, `OwnerNeverBids`,
`PublicLotsAreScored`, `PaymentIsTheWinners`, `ClosedSaleIsPaid`. None of the middle
ones is inductive alone. That the payment is of the *last* bid needs the climb
(`FirstBidIsLast`: `bids.first()` is the last bid of a climbing sequence). That a sold lot
is never approved again needs the scores; the scores need that a process about to
close a lot only ever loaded a scored one; that buyer and seller differ needs
`OwnerNeverBids`. From `IInv` follow the invariants of the runs, the action property
`SoldIsFinal`, and that every step is a step of `AscendingSale` or a stutter.

Mails are proved over it. `MailsAreTrue` says of every mail sent or waiting what
`MailTellsTheTruth` says, and of a result that its lot has a score (what keeps the lot from
reopening) and, if it has bids, its payment; a true mail stays true (`TruthStays`). `OnlyOne` says
that a mail waits at one place of one outbox or was handed over once. It survives unless the lot
is closed after the mail, and a lot with bids is not, since its payment exists by then: hence
`SaleToldOnce`, with any overlap. For serial behaviours `SerialInv` adds `FreshJobs`
(the state a process loaded is the state stored: whoever would change it would have to hold the lot), which gives the rest: a closing finds the lot
open, so `ResultToldOnce` and `DecidedOnce`.

Of `ExpiredLotsClose` the safety half is proved. `RunsNeverStall`: a closing run with lots left
always has a next one (the newest of them: a finite set of naturals has a greatest element), and
`hold_payment` does not refuse it if it is open, because `PaymentIsTheWinners` gives payments
to closed lots only. `RunsEnd`: nothing adds lots to a run, and a lot it closed, or
failed to close, it does not come to again. What remains for TLC is that cron runs again.

**`place_bid` (`BidDeskProofs`).** `IInv` = `TypeOK`, `OneTransaction` (whoever is
between begin and end holds the write lock), `FreshRead` (what it read is what is
stored), `PriceOnTop` (stored bids climb to the price), `StoredOnCommit` (which
stages have a row), `OneBidPerProcess`, `AnswersAreTrue`. `FreshRead` is the heart: it is
what makes several statements one step, and it is what a deferred transaction loses.

Of `BidsAreAnswered` the safety half is proved. `HoldersAct`: the guard of a process is in the hands
of one of its bids that is past the queue and not answered, whoever writes is in its
transaction, and a bid that writes holds the guard of its process, so the two locks are always taken in the same
order and no path of `place_bid` leaves one behind. `BidsEnd`: `Rank` counts the steps a bid may still
take (two for each attempt left, and those of the queue and the mail); nothing makes it grow,
and every step of the bid makes it smaller, a retry included. What remains for TLC is that
whoever may take a step takes it.

**Escrow (`EscrowProofs`).** With any overlap, `IInv` = `TypeOK`, `TasksFit` (what a
loaded task tells about what was stored), and the invariants of `escrow_races`. For serial
behaviours `SInv` = `TypeOK`, `Serial`, `FreshTasks` (a loaded row is what is
stored) and `Books`; from it `ClaimHoldsTheMoney`, `RefundIsWhole`, `SettledForGood`,
`HistoryIsAChain`, `EvidencePrecedesDecision` and the refinement of `SaleMoney`.

**Ratings (`ReputationProofs`).** `RInv` adds to Escrow's `IInv` the type of the ratings,
`FormsFit` (a loaded form is about a payment that was released by then, and about the other side),
`RatedOnce` and `RatedAfterRelease`. That a release once seen stays in the history
comes from the append-only history (`SalesStay`). For serial behaviours,
`RatedSalesStand` needs in addition that settled money stays.

**The market (`MarketplaceProofs`).** `MInv` = `IInv` of Auctions, `RInv`, and `Joined`: escrow
has a payment exactly for the lots whose closing created one, with the same
sides. The proofs about the parts are reused: every step of the composition is a
step or a stutter of each part, so only `Joined` is new. From it `CutIsNearest`, with the
arithmetic lemma that `(2 * a * p + 10000) \div 20000` is the nearest cent for every
amount and percentage. For serial behaviours `SMInv` adds Escrow's `SInv`, that a
released sale keeps what it paid (`ReleasedStands`) and that no lot shows a winner before its money is
retained (`UnpaidIsUnwon`); the refinement of `SaleLife` then has one lemma for each app,
and reads the marks of the pages through `FirstBidIsLast` and the climb. `LotDecidedOnce` and
`LotResultToldOnce` carry `SerialInv` of Auctions over to the composition, whose only new step
for it is the restart of the server, which forgets jobs and outboxes.

What the parts promise alone they promise together. `SaleCorrect`, `SoldStaysSold` and `MailsSurvive`
say it of the lots with any overlap (a restart loses mails and makes none false), `MoneyIsTold` and
`HistoriesOnlyGrow` of payments, claims and ratings, whose payments now come from closings. In serial
behaviours, so do `MoneyStands`, `MoneyStays` and the refinement of `SaleMoney` (`MoneyCorrect`). The
composition adds amounts: `PayoutFits` says that no page ever shows a commission above the amount
or a payout below nothing, and `RefundIsAll` that a refund is the whole bid. Both rest on `CutFits`
(a commission is at most the last bid, and none is stored before a release) and on the bids of a
sold lot never changing (`SoldBidsStay`).

**Verification (`VerificationProofs`).** `IInv` = the four properties of the module and
`LoadedRows`: the document a decision is about to delete belongs to the account and row it
names. It is what shows that a stale decision deletes only documents of its own seller.

`PendingHasPaper` fails, and the theorems say by how much. `PapersLost`: in any behaviour, the document of a
request that waits disappears only with a decision cut off before its commit, or with a decision of
a request that was decided already and whose document had the same name. `WaitingHavePapers`: without these two
(`CarefulSpec`: no two administrators hold the same request, among any number of submissions, and no
decision is cut off) no request waits without its document; its invariant is that what a decision
loaded still waits (`FreshPapers`).

**Accounts (`AccountsProofs`).** `IInv` says that whatever was read earlier (`JobsFit`), every
session (`SessionsFit`) and every link, waiting or mailed (`LinksFit`), names an account and a
hash that exist; that a session remembers the password of its hash; and that a link that was spent
has a hash smaller than the one its account has now (`SpentFit`). The last rests on `Grows`: no
step takes an account back to a smaller hash.

`OneAccountPerMailbox` fails when two requests sign the same mailbox up at once, and only then.
`MailboxesApart` excludes just that (`ApartSpec`, the specification of `accounts_races`): an
address found free is still free when it is inserted (`Alone`). The other theorems are about `Spec`.

Hashes never come back; passwords may. `PasswordsCorrect` says when: a step changes the password
of an account to one chosen later, or it is a login that rewrites, with more iterations, a hash it read
before somebody replaced it. The theorem needs that a hash is never of a password chosen after it
(`PasswordsFit`). `SessionsCorrect` (`ResetEndsSessions`) follows from `ResetsHold`: since a reset
that met no login about to rewrite the hash, neither the stored hash nor the row of any login that is
about to rewrite it is of an older password. It is kept because such a login begins from the row
stored (`RehashStarts`), and a live session carries the stored hash.

**Photographs and factors (`PublicationProofs`).** `IInv` = `TypeOK`, `PagesFit`, `PhotographsFit`,
`SoldFactorIsEarned`. Keys and orders are handed out from the least free and past
the greatest used, so the proof needs what `Min`, `Max` and counting below an
element do on finite sets of naturals; those are lemmas (`LeastNat`, `MaxExists`, `Numbering`).

`PriceFactorIsFair` compares a price with an average, that is with a sum over a set, which
`MapThenSumSet` defines by a recursive function it chooses. An induction rule for such functions cannot be
applied here, but a least counterexample can be refuted: a set of naturals that is not empty has a least
element. `SumExists` shows in this way that the function exists, `SumBounds` that the sum of n prices
lies between n times a lower and n times an upper bound. So an average is not above two and a
half times a price when no lot of it is, and is when all are, which is what the property says.

Only model-checked: the two liveness properties, `ExpiredLotsClose` and `BidsAreAnswered`, and
`UploadsAreTaken`, since the prover has neither fairness nor ENABLED; the safety halves of the first
two are proved, as told above.
The four properties that a run finds violated are proved under the restrictions that restore
them (`DecisionsCorrect`, `RefundCorrect`, `MailboxesApart`, `WaitingHavePapers`). These
restrictions are per row: none asks that the program serve one request at a time.
No module declares a RECURSIVE operator.


## 8. What is not modelled

* **What else the change and delete forms of the administration write.** A form stores every field it
  shows, edited or not, as it was rendered. Of the two forms that meet the services this way only
  the photographs of a lot and the `last_login` of an account are modelled. The page of a lot also
  writes back `current_price`, so a bid placed since it was opened keeps its row and loses the
  price; the page of an account also writes back `role` and `is_verified`, so an approval
  in between is undone. `PriceFollowsBids` and `ApprovedCanPublish`, and what is proved from
  them, therefore hold of what the services do and not of such a save. The forms can
  further set a closing date or a password, switch an account off, or delete a trust score, a
  rating or a verification request: deleting the score of a sold lot, for instance, removes what keeps it
  from reopening.
* **Files of photographs and evidence**, and what a rollback leaves of them on disk. (The
  identity documents, which must not be left, are modelled.)
* **The questions about the account and the length of the text** in the trust factors
  may answer anything, and the points are constants.
* **Averages in floating point.** SQLite computes `Avg`; `Publication` compares exactly.
* **Guessing**: tokens and passwords are values nobody finds by trying.
* **Catalogue, search, averages of scores**: queries that change nothing.
* **Power failure**: `synchronous=NORMAL` may lose the last commits; the modules kill
  processes, not machines.
* **Forms, validators, templates, styles, demonstration data, migrations.**


## 9. What is left

1. The remaining fields of the change forms of `AuctionAdmin` and `BidHausUserAdmin`
   (`current_price`, `role`, `is_verified`) as further actions, and what still holds under them.
2. The image files of photographs and evidence, with the rollbacks that leave them behind.
3. A composition of `Verification` with `Accounts` and `Auctions`, so that roles
   are state everywhere and not granted freely.


## 10. Running it

    tlc -workers 2 -config AuctionsRaces.cfg AuctionsMC.tla
    tlc -workers 2 -config EscrowRaces.cfg ReputationMC.tla
    tlc -workers 2 -config Marketplace.cfg MarketplaceMC.tla
    tlapm AuctionsProofs.tla

Every run ends within two minutes on two cores. The runs whose name says that
a property is violated end with a counterexample, which is the point of them.
