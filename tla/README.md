# A TLA+ model of the Stripe service

This directory holds a formal model of the service in this repository: TLA+
modules translated from the Go code and the SQL statements, configurations that
model-check them with TLC, and theorems that the TLA+ proof system (TLAPS)
proves. File and line references are to the repository (`api/...`, `sqlc/...`).

## 1. The system

A backend that meters usage and tracks Stripe subscriptions. Clients report
*spending units*; each new unit takes its amount from the user's *free credit*;
when the credit is gone a paid *subscription* decides whether the user may go
on. Stripe tells the service of completed checkouts through a webhook. All state
is in four PostgreSQL tables and at Stripe. The service runs as goroutines of one
or more machines, which share nothing but the tables. No handler opens a
transaction: every SQL statement commits on its own. Every statement is given
`context.Background()`, so a client that hangs up does not stop its handler.

| Component | State | Operations | Talks to |
|---|---|---|---|
| Tables and statements (`sqlc/`, `internal/autogenerated/sqldb`) | `user_account`, `free_credit`, `spending_unit`, `invalid_subscription` | upserts, inserts, the consumption, three reads | all handlers |
| AddSpendingUnits (`grpc/server.go:124`, `app/service.go:101`, `db/db.go:67`) | loop state of the call (`ensured`, `total`) | validate; per item: ensure credit, insert, consume | tables |
| Checkout webhook (`app/service.go:28`) | the account as read, the decision | check account, ask Stripe, upsert or file as invalid, ensure credit | tables, Stripe |
| VerifySubscription (`app/subscription.go:14`) | what it read so far | credit, account, subscription, customer, units of the period | tables, Stripe |
| CancelSubscription (`app/subscription.go:101`) | none | passes the cancellation on | Stripe |
| Configuration, database, bootstrap (`api/config`, `api/database`, `bootstrap.go`, `db/db.go:17`) | `AppConfig`, the pools, `q`, `initOnce`, `initErr`, `stripeService` | package initialisation, `Ensure`, injection | environment, database |
| Servers and entries (`main.go`, `router.go`, `grpc/server.go`, generated gateway) | the service they were built with, the ports | start, listen, exit; dispatch of a request; three ways into the webhook with different statuses | bootstrap, handlers |
| Stripe gateway client | none | get/cancel subscription, get customer | Stripe |
| Test runner (`cmd/testrunner/main.go`) | semaphore, wait group, `firstErr` | collect, run side by side, run the integration binary alone | operating system |

`PROJECT.json` lists these with the parts left out and why.

### What is hard, and what makes it correct

* **AddSpendingUnits.** Duplicates under way at the same time (a retry while the
  first call still runs); faults between the statements of an item; batches that
  stop half way; first uses of one user that race to create the account; a cache
  (`ensured`) keyed by raw user id while tables are keyed by digests. Correct
  means: a recorded unit is charged at most once and never for another unit's
  row; credits are what the charges leave; a batch answered without error is
  recorded; only faults lose charges, one each; no row is reported twice.
* **Checkout webhook.** Stripe delivers at least once, perhaps concurrently; the
  account is read, Stripe asked and the account written with nothing held in
  between; subscriptions end at any moment. Correct means: an account shows one
  session's subscription *and* customer; what was decided still holds when it is
  done; an acknowledged event left its mark; nothing erases a subscription; a
  live subscription is on file; every event is acknowledged in the end.
* **VerifySubscription.** Reads of credit, account, Stripe and units at different
  times; truncating integer arithmetic for the limit; inclusive periods. Correct
  means: the answer was right at some moment of the call; a user whose credit was
  found used up does not get it back meanwhile; a user who is refused stays
  refused until Stripe or the webhook changes something; who is told to have used
  up a subscription has used more than all but 99 cents of it buys.
* **The two writers together.** A delivery and spending calls open the same
  user's account and credit. Correct means that each keeps all it relies on when
  the other is the real one.
* **Start-up.** An error remembered for the life of the process; a handle taken
  from a pool that is replaced by a second one; servers that end with each
  other. Correct means: a process serves only when ready, never calls a service
  that is not there, and a passing failure does not lose an event for ever.
* **Entries.** Three ways of one event, one of which cannot decode it. Correct
  means: success is answered only for what was handled.
* **Test runner.** Goroutines share a semaphore, a wait group and an error.
  Correct means: bounded parallelism, the integration binary alone, a true exit
  status, and an end.

The list of hazards, at their lines and with the properties that cover them, is
in `PROJECT.json`. Three have no property. The billing period is inclusive at both
ends, as `db.go:292` documents, so a unit on the boundary counts twice by design;
`MCVerify` has such a unit, and `AnswerWasRight` holds with it. `HashExternalID`
drops punctuation, so `e1` and `e-1` are one unit and the second is acknowledged
as a duplicate, although the comment at `db.go:33-35` speaks of uniqueness: that
follows from the function alone, and `MCSpendingUnits` has such ids among its
batches. If `Getwd` fails (`config.go:36`), the search for `.env` does not end; the
model has the case, and the premise of `StartupEnds` names it.

## 2. Modules

| Module | Models | |
|---|---|---|
| `StripeDB` | the tables, one operator per writing statement | extended by the modules below |
| `SpendingUnits` | the AddSpendingUnits RPC | |
| `CreditLedger` | what AddSpendingUnits promises, without handlers or failures | abstract specification |
| `Checkout` | the webhook, Stripe, the account fallback of other RPCs | |
| `Verify` | the VerifySubscriptionValidity RPC among all other activity | |
| `StripeService` | `SpendingUnits` and `Checkout` over one set of tables | composition |
| `Bootstrap` | configuration, pools, `Ensure`, listeners, exit and restart of a process | |
| `Server` | requests at every entry of such a process | extends `Bootstrap` |
| `TestRunner` | the release command that runs the test binaries | stands alone |
| `StripeDB_proofs` | lemmas on the statements | used by the next three |
| `Sums` | lemmas on sums over finite sets | used by `SpendingUnits_proofs` and `Verify_proofs` |
| `SpendingUnits_proofs`, `Checkout_proofs`, `Verify_proofs`, `Server_proofs`, `TestRunner_proofs` | theorems about the module of that name | checked by `tlapm` |
| `StripeService_proofs` | theorems about the composition | instances of the proofs of its two parts |
| `MC...` | small instances and their `.cfg` files | checked by TLC |

### StripeDB
A table is a function from the key of its unique index to the columns that code
reads; its domain is the set of rows. `invalid_subscription` has no unique index
and is a set of rows (how often a row occurs is left out). `HasAccount` is the
foreign key: a statement that would insert for a user without an account changes
nothing, and the action that uses it takes the error branch.
`HashExternalID` is a constant function `Alnum` from identifiers to digests that
is *not* injective, since the code drops punctuation before hashing. `Int32` is
Go's conversion of `INITIAL_FREE_CREDIT`. Each statement is one operator and
belongs to exactly one action.

### SpendingUnits
`call[h]` is the stack of one goroutine: which statement is next (`pc`), the
batch, the index, `ensured`, `total`.

| Action | Code |
|---|---|
| `Receive` | the server's checks (`server.go:129-148`), then the head of the loop |
| `EnsureCredit` / `EnsureAccount` / `RetryCredit` | the three statements of `GetFreeCredit` (`db.go:269-284`) |
| `InsertUnit` | `db.go:92-128`: insert, tell new from duplicate |
| `Consume` | `db.go:129-137`, then the next item |
| `Reply` | the count goes to the client |
| `Abort`, second disjunct of `Resume` | an error or the death of the machine, before and after the statement committed |

The code between two statements (the head of the loop, its checks) touches only
the goroutine's own state and is part of the action before it (`Loop`). The
history variables `acked`, `reported` and `charged` record what clients were told
and what was taken; no action reads them.

### Checkout
`hook[h]` is one delivery. `CheckAccount`, `GetSubscription`, `Decide`, `Upsert`,
`InsertInvalid`, `InitCredit`, `Reply` are the steps of
`HandleCheckoutSessionCompleted`. `GetSubscription` takes Stripe's answer
(`service.go:73`) into `got`, and `Decide` compares it with a clock that is read
later (`service.go:78`, `utils.go:11`): between the two the customer may cancel,
schedule a cancellation or withdraw one, and time may pass. `Complete`,
`CancelSubscription`, `ScheduleCancel`, `WithdrawCancel`, `Tick` are Stripe and the
clock; the history variable `withdrawn` holds the subscriptions whose cancellation
was withdrawn while a delivery held Stripe's earlier answer, and the properties that
such a withdrawal breaks exempt those and no others (`checkout_withdrawn` shows that they
must). `UseCredit`, `UseAccount`,
`UseRetry` are `GetFreeCredit` as another RPC calls it, whose fallback upserts an
empty account. `Deliver` may deliver any completed session to any idle handler,
an acknowledged one at most `MaxRepeats` times. The fallback after a
foreign-key violation inside the webhook cannot run, since no code deletes an
account; `DecisionStillHolds` checks that.

### Verify
`check[h]` is one call. `GetFreeCredit`, `EnsureAccount`, `RetryCredit`,
`GetUserAccount`, `GetSubscription`, `GetCustomer` and `CountUnits` are its reads,
each with the decision the code takes on it; the clock is read in `GetCustomer`,
after both answers from Stripe, as in `subscription.go:50`. `Abort` is an error
anywhere. `InsertUnit` and `Consume` are the statements of AddSpendingUnits,
`Subscribe`, `UseCredit` and `UseAccount` the writing statements of the webhook and
of the account fallback. What a delivery read and decided before it writes is
in `Checkout`; since deliveries that race decide on what is no longer so
(`checkout_race`, `checkout_withdrawn`), a `Subscribe` here may write any session
over any account at any time, and the history variable `lost` tells the calls
during which a live subscription of the caller's was overwritten.
`CancelSubscription`, `ScheduleCancel`, `Payment`, `Renew`, `Tick` are Stripe and
the clock. What an answer should be is defined apart from the handler's steps, as
one condition on one state (`Entitled`); the history variable `seen` collects its
value at every moment of a call. Whole dollars (`Limit`), the limit itself being
allowed, and the inclusive period are taken as meant; `ExhaustedWithinADollar`
says how far the truncation can go.

### CreditLedger
`Open`, `Record`, `Charge`: credit is opened once, a unit recorded once and never
rewritten, charged at most once and clamped. `SpendingUnits` implements it with
`credit <- free_credit, recorded <- spending_unit, charged <- charged`; TLC
checks it (`LedgerSpec`) and TLAPS proves it.

### StripeService
Instances of `SpendingUnits` and `Checkout` with their own goroutines, the same
tables and one budget of faults. A step of one leaves the other's variables
alone. The stand-in `Use...` of `Checkout` stays idle: the real spending calls
take its place. The properties are those of the two modules: `SpendingHolds` is
`CallInv`, `CreditRowBeforeUnit`, `ChargedAtMostOnce`, `CreditMatchesCharges`,
`AckedIsRecorded`, `LossBoundedByFaults`, `ReportedOnce` and
`RefusedLeavesNoTrace`; `HookHolds` is `DecisionStillHolds` and `AckedIsFiled`.

### Bootstrap and Server
`stage` is what a process is at: `search` and `load` (config's `init`), `open`
(database's `init`), `capture` (`q`, in db's `init`), `ensure` and `build` (the
first lines of `main` or of `NewRouter`), `serve`, `exited`. A `Restart` takes a
new environment from the constant `Environment`, as a deployment does. `pools`
lists the pools opened so far, each with its limit of connections or 0; `Ensure`
is `sync.Once` with the error it remembers. Each failure of the code is a branch:
no `.env`, one that cannot be parsed, a missing variable, a credit that is no
number, a URL that is none, a ping that fails, a port that is taken.

`Receive` is one request: the mux of `main` (`RootMux`) or of `NewRouter`
(`Router`), the generated gateway (`Gateway`, `LocalRequest`) or the generated
gRPC dispatch (`Grpc`), and the handler up to the service (`Ensure`, checks).
`Call` is the service's work or its error, `Answer` the status. A body is what it
is to the handlers (garbled, incomplete, a payload with a wrong signature, ...).
The process and the work inside the service are joined here at the calls of the
service only: what the service does with the tables is in the other modules.

### TestRunner
`job[b]` follows the goroutine of one binary from `spawned` over the deferred
calls to `gone`; `sem` and `wg` are the channel and the wait group; `pass` is
`main`. A process ends when it likes, with either result.

## 3. Runs

| Run | Instance (distinct states) | Shows |
|---|---|---|
| `spending_units` | 3 handlers, 4 calls of 4 batches, 2 faults (77,399) | types, `CallInv`, `ChargedAtMostOnce`, `CreditRowBeforeUnit`, `CreditMatchesCharges`, `LossBoundedByFaults`, `AckedIsRecorded`, `ReportedOnce`, `RefusedLeavesNoTrace`, `CreditNeverRefilled`, `LedgerSpec` |
| `checkout` | 2 handlers, 2 sessions of one user, 1 fault, 1 repeat, 2 instants (2,814,412) | types, `AccountOfOneSession`, `AckedIsFiled`, `DecisionStillHolds`, `SubscriptionNeverErased` |
| `checkout_serial` | 1 handler, a malformed session too, 2 faults, 1 repeat, 2 instants (378,052) | `OnFileUnlessWithdrawn`, `ReplacedOnlyAfterEnd`, `EventuallyAcked` |
| `verify` | 1 call at a time, 2 subscriptions, 3 reports of 2 units, 2 instants, no bound on failures (716,853) | types, `AnswerWasRight`, `CreditStaysSpent`, `ExhaustedWithinADollar`, `OnlyStripeEntitles` |
| `service` | 2 spending calls, a good batch and a bad one, 1 delivery at a time of one session, one user in two spellings, a credit that wraps to -1, 1 fault, 1 repeat, 2 instants (90,866) | `SpendingHolds`, `HookHolds`, `CallReturns`, `EventuallyAcked` |
| `server` | 9 environments of both programs, 13 requests, 2 handlers, 1 fault (107,812) | types, `NilServiceNeverCalled`, `ServingMeansReady`, `AckedIsHandled`, `StartupEnds`, `EventuallyHandled` |
| `test_runner` | every directory of up to 4 binaries, 1 or 2 slots, any failures (33,988) | types, `AtMostParallel`, `IntegrationAlone`, `VerdictIsTrue`, `RunnerReturns` |
| `spending_units_charged`, `checkout_race`, `checkout_withdrawn`, `checkout_redelivery`, `server_recheck` | | the five findings below |

**Why the bounds are enough.** The batches of `MCSpendingUnits` hold every
relation the code can tell apart: two units of one user, a unit shared by two
batches and repeated within one, a unit and a user under two spellings with one
digest, a good item before a bad one, and amounts whose sum exceeds the credit.
Three handlers let two duplicates race while a third uses the credit; four calls
let each batch be sent, or one be sent again after two failed attempts. In
`MCCheckout` two sessions of one user are the smallest conflict (the webhook
reads only the rows of the event's own user) and two instants put `cancel_at` in
the past, or a withdrawn one that the handler still believes in. `MCVerify` has a paid plan and one without a plan, a unit inside the
period and one on the boundary of two, and a report that reuses an id with
another amount and date; one call suffices, since calls do not write except to
open an account and a credit row, which `MCSpendingUnits` races. `MCStripeService`
has the one user whom both writers open at the same time, and two calls, so that
spending calls race each other too; its bad batch has a good item first, and its
configured credit does not fit the word, so that the credit opens at -1 (in
`MCSpendingUnits` it is positive and used up). One session is enough there, as the
conflict of two is `MCCheckout`'s; two instants let a scheduled cancellation
pass. `MCServer` has an environment for each branch
of start-up and a request for each branch of the muxes; two handlers let one
request be answered while another is under way. In `MCTestRunner` two slots and
up to four binaries make one wait for a slot that another frees; the integration
binary is any of them or none.

The bounds are `MaxCalls`, `MaxFaults`, `MaxNow`, `MaxRepeats`; each occurs in
the guard of an action. `Word` is 256 rather than 2^32: the model keeps the
wrap-around of the configured credit, at a smaller word.
A credit that wrapped opens below zero, and `LEAST(credit, amount)` then raises it
to zero at the first unit: `CreditMatchesCharges` and `CreditNeverRefilled` say so, and
`service` has the case. Handlers are symmetric in
the safety runs `spending_units` and `checkout`; runs with liveness use no
symmetry. Deadlock is checked in `verify` and `server`; in the other runs the
system may stop: clients need not call, the bounded inputs run out, and the test
runner ends.

**Fairness.** Goroutines under way take their next step (weak fairness, also of a
runner's own goroutines): the Go scheduler is fair to runnable goroutines, and
each statement returns, if only with an error. Stripe sends an event again while
it has not been acknowledged, which is Stripe's delivery contract; it gives up
after some days, for which the bound on faults stands. In `Server` this is strong
fairness of `Receive`: each request gets a goroutine of its own in Go, while the
model's two may both be busy at the moment of a redelivery. A process takes the
steps of its start-up, and the platform starts one that ended. Nothing is asked of
clients, of faults, of the database (`EventuallyHandled` has its return as a
premise), or of the processes the test runner starts (`RunnerReturns` has their
end as a premise). `StartupEnds` has as premise that the working directory has a
name: if `Getwd` fails, its error is ignored (`config.go:36`) and the search for
`.env` goes round in "." for ever; the model contains that case.

## 4. Findings

* **A fault between insert and consume loses the charge for good.**
  (`spending_units_charged`, `db.go:129`.) README line 172 says an inserted unit
  consumes credit. After a fault in between, the retry meets a duplicate and
  skips the consumption. `LossBoundedByFaults` bounds the damage: one unit for
  each fault, where a fault hits one call (the death of a machine is one for each
  call it was serving).
* **Concurrent checkouts overwrite each other.** (`checkout_race`,
  `service.go:52`.) Both deliveries read "no account"; the later upsert wins and
  the other live subscription is on file nowhere.
* **A withdrawn cancellation is still believed.** (`checkout_withdrawn`,
  `service.go:78`.) Stripe's answer is fetched first and the clock read
  afterwards. If the customer withdraws a scheduled cancellation between the two
  and its time passes, the handler takes the live subscription for cancelled and
  replaces it, with one delivery at a time too. But for this, a delivery that
  does not race keeps live subscriptions on file (`checkout_serial`).
* **A redelivered event files the account's own subscription as invalid.**
  (`checkout_redelivery`, `service.go:84`.) After a fault behind the account
  write, or on a repeated delivery, the subscription found in the account is the
  event's own.
* **RPCs do not re-check.** (`server_recheck`, `bootstrap.go:48`.) `router.go:18`
  says that a failed initialisation is not fatal because RPCs check again; each
  of them gets the error that `sync.Once` left, for as long as the process lives.
  The program `main` heals (`EventuallyHandled`), since it exits on that error.

## 5. Proofs

All theorems hold for every value of the constants that satisfies the named
assumptions of the modules (`AlnumAssumption`, `CreditAssumption`,
`WordAssumption`, `BatchAssumption`, `BoundsAssumption`, `SessionAssumption`,
`ReportAssumption`, `PlanAssumption`, `NumbersAssumption`, `BinaryAssumption`,
`ParallelAssumption`, `EnvironmentAssumption`, `MaxFaultsAssumption`,
`RequestAssumption`); two have a further hypothesis, `Serial` (see `Checkout_proofs`).
`StripeDB_proofs` says of each statement what it keeps and what it adds; the modules above it cite these lemmas and never open a
statement's definition for its types. `Sums` says what a sum over a finite set
becomes when an element is added, removed or grows; it goes by induction on the
subsets of the set, with the *set* of the subsets that satisfy the formula in the
place of the formula, because the provers cannot instantiate the library's
induction theorems for a formula.

**SpendingUnits_proofs**

| Theorem | Says |
|---|---|
| `TypeCorrect` | `Spec => []TypeOK` |
| `Invariance` | `IInv` is inductive and always holds |
| `CallsInOrder`, `ChargedOnce`, `CreditRowFirst`, `AckedRecorded` | the invariants `CallInv`, `ChargedAtMostOnce`, `CreditRowBeforeUnit`, `AckedIsRecorded` |
| `CreditMatches` | the invariant `CreditMatchesCharges`: credits are what the charges leave |
| `CountedOnce` | the invariant `ReportedOnce`: no row is counted in two answers |
| `LossBounded` | recorded units nobody will charge number at most the faults |
| `RefusedNoTrace` | the invariant `RefusedLeavesNoTrace` |
| `NeverRefilled` | the action property `CreditNeverRefilled` |
| `ImplementsLedger` | `Spec => LedgerSpec`: the refinement |

The inductive invariant is
`IInv == TypeOK /\ CallInv /\ ChargedAtMostOnce /\ CreditRowBeforeUnit /\ AckedIsRecorded`.
None of the three safety parts is inductive alone. That a batch answered without
error is recorded needs `CallInv`: the items before the one in hand are
recorded, and a call replies only after the last. That an insert meets no
foreign-key violation needs, for items whose user is already in `ensured`, that
everyone in `ensured` has an account and a credit row, and that no step removes
one. That a unit is charged once needs that the handler about to consume it is
the only one. `NeverRefilled` and `ImplementsLedger`
follow from `IInv` step by step; in the refinement only three actions map to
steps of the ledger (`EnsureCredit`/`RetryCredit` to `Open`, `InsertUnit` to
`Record`, `Consume` to `Charge`), the others to stutters.

Three properties are inductions of their own on top of `IInv`, since they count
or add up. `LossBounded` (`LInv`): the set of rows that are neither charged nor
about to be grows only in the step that is a fault, by the one unit of that
handler. `CreditMatches` (`CInv`): only a consumption changes a credit, it takes
the amount of a unit that was not yet in the sum, and because the clamp acts on
what is left, the result is the clamp of the whole sum in every order of the
consumptions. `CountedOnce` (`NInv`): the sum of the totals of the calls under way, with what
was answered before, is at most the number of rows, and equal to it while no
fault occurred; a call adds one to its total exactly when it adds a row, and
answers its total. A count is dropped only by a call that ends without an
answer; that no call does so without a fault needs that the retry after the
account fallback finds the account (`RetryFindsAccount`).

**Checkout_proofs**: `TypeCorrect`, `OneSession` (`AccountOfOneSession`),
`AckedFiled` (`AckedIsFiled`), `DecisionHolds` (`DecisionStillHolds`) and
`NeverErased` (`SubscriptionNeverErased`). The invariant adds `HookInv`: what a
delivery may rely on at each of its steps. `Grow` says that no step takes
back an account, its having a subscription, a credit row, a row of
`invalid_subscription`, or the end of a subscription; so what one
delivery relies on survives the steps of every other, and each action is left
with its own delivery. Stripe's answer, until it is used, is what Stripe still
says, or the subscription has ended, or its cancellation has since been withdrawn
(`Stands`): the withdrawal is the one step that makes an answer wrong and leaves the
subscription alive. A decision then holds although nothing is locked, because
an ended subscription never comes back and no account is ever deleted or emptied.

`LiveOnFile` (`OnFileUnlessWithdrawn`) and `ReplacedEnded`
(`ReplacedOnlyAfterEnd`) have the hypothesis `Serial`, that `Handler` has no two
elements: deliveries come one at a time, with any faults, redeliveries and
fallbacks in between. Without it `OnFileUnlessWithdrawn` is false (the trace of
`checkout_race` has no withdrawal). With it, what the one delivery has read of the account is still there
when it writes, and the subscription of every acknowledged event has ended, was
withdrawn in between, or is on file (`SInv`); nobody else can disturb that, since an account
fallback upserts no subscription and `COALESCE` keeps the one there is.

**Verify_proofs**: `TypeCorrect`, `StaysSpent` (`CreditStaysSpent`), `RightAnswer`
(`AnswerWasRight`), `ExhaustedFairly` (`ExhaustedWithinADollar`) and
`StripeEntitles` (`OnlyStripeEntitles`). The
invariant says what a call has established at each of its steps (`CallsOK`);
`Kept` is what no step takes back, in particular that a credit of zero or less
stays so, which the clamp of the consumption gives and the conflict clause of
the upsert keeps. The answers need more (`AInv`, theorem `Answers`): what a call
has read is either still so, or `seen` holds the other value of
`Entitled` from the moment it changed. `Lasting` says which facts about two states
carry over from one to the next: rows and amounts stay, so a count of units only
grows; an ended subscription stays ended. An account may change its subscription in any
step; if the one it had was live, the step sets `lost` for the calls of that user,
and if it had ended, the user was not entitled by it. `AnswerWasRight` then follows for each verdict from what
the call read last. `ExhaustedFairly` is arithmetic on the limit
(`WithinADollar`): of `n` cents the integer division keeps more than `n - 100`.
`StripeEntitles` compares two consecutive states by `Lasting` and the monotony of
the sum of the units.

**StripeService_proofs**: `SpendingSafe` (`SpendingHolds`), `HookSafe`
(`HookHolds`), `OneSession` (`Hook!AccountOfOneSession`), `ImplementsLedger` and
`NothingTakenBack`. Each of the two proof
modules says, in its section on other writers, what a step of somebody else must
leave alone for its invariants to survive (`Environment`) and what its own steps do
to the tables at most (`Effect`). The `Effect` of a delivery is within the `Environment` of spending calls, and
the other way round, so the conjunction of the two inductive
invariants is inductive. The refinement and the two action properties follow for
both writers together: a credit that a delivery opens is an `Open` of the ledger.
Instances and extended copies of a module have the same definitions under two
names; the `Same...` lemmas say so once.

**Server_proofs**: `TypeCorrect`, `NilNeverCalled` (`NilServiceNeverCalled`),
`ServesReady` (`ServingMeansReady`) and `AckedHandled` (`AckedIsHandled`). The
invariant says what each stage of start-up leaves (`LifeInv`) and that a handler
past `Ensure` belongs to a process whose `Ensure` had no error (`ConnInv`). It
rests on `initErr` never changing once set.

**TestRunner_proofs**: `TypeCorrect`, `Bounded` (`AtMostParallel`), `Alone`
(`IntegrationAlone`) and `Verdict` (`VerdictIsTrue`). The bound on the processes is
not inductive: `sem` must be known to count the goroutines that hold a slot, and
the wait group those that have not ended, so that the pass, and with it the
size of the channel, changes only when no slot is held.

**Only model-checked:** liveness (`CallReturns`, `EventuallyAcked` of one delivery
at a time and of the composition, `StartupEnds`, `EventuallyHandled`,
`RunnerReturns`), which TLAPS does not prove under fairness. Every invariant and
every action property of a passing run is a theorem; the five runs that show
findings refute theirs.

## 6. Not modelled

* Of the generated code: the message types with their accessors and descriptors
  (`stripe_service.pb.go`), which carry data without decisions; the client stubs,
  which nothing in the repository calls; the mocks.
* Verification of signatures and parsing of payloads, beyond their outcomes; the
  contents of pages and answers, wording, logging, interceptors.
* `stripe_plan_id`, always `"no_need"` or NULL; `updated_at` and the triggers
  that write it; the number of equal rows of `invalid_subscription`; the e-mail
  address in the answer of VerifySubscription.
* The connection pool's waiting: its single connection serialises the statements
  of one process, not its handlers, and no statement holds it while another is
  awaited.
* The parameters that `database.Initialize` appends to the URL; arguments,
  directories and output of the processes of the test runner; the Prisma schema
  (source of the SQL that is modelled); build, deployment and scripts.

## 7. What could follow

1. `Verify` as a third instance in `StripeService`: its `Subscribe` writes more
   often than deliveries do, so its invariants carry over.
2. `OnFileUnlessWithdrawn` for a composition with one delivery at a time, from
   `SInv` and the `Effect` of the spending calls.
3. More plans in `MCVerify`, with quantities and cents, once the state space is
   cut down elsewhere; for any plan the theorems hold.
