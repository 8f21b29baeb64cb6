# ACKRATE protocol demo: TLA+ models

ACKRATE lets a software agent spend from a *mandate*: a budget its owner
registered on a Stellar contract, the MandateRegistry. A merchant quotes a price
with HTTP 402, the agent pays through the registry and repeats its request with
a signed *proof*; the merchant checks the proof against the ledger, does the
paid work once, and stores its answer so that it can be collected again. The
contract and the ledger guard the money. Everything between a settled payment
and a delivered answer is guarded by the JavaScript of this repository: by
insert-once rows, compare-and-swap updates, receipts saved before anything is
broadcast, in-process claims, and recovery paths nobody walks on a good day.
These modules are about that part.

- [The system](#the-system)
- [The modules, one by one](#the-modules-one-by-one)
- [The runs](#the-runs)
- [Where the code and its documentation disagree](#where-the-code-and-its-documentation-disagree)
- [The proofs](#the-proofs)
- [What is not modelled](#what-is-not-modelled)
- [Plan](#plan)
- [Running it](#running-it)

## The system

| Component | State it keeps | Operations | What is hard | What makes it correct |
|---|---|---|---|---|
| **Merchant paid route** `starter-kit-src/shared/fulfillment.mjs`, `storage.mjs`, `operator-recovery.mjs`, SDK middleware in `vendor/ackrate-cli-test.mjs` | redemption record per settlement: missing, executing, completed | lookup, verify, claim, run the paid callback, complete, late delivery, operator inspection and resolution | concurrent requests with one proof or rival proofs; a crash between claim and completion; a write that took effect and reports failure; an operator racing a slow executor | work runs once per settlement, gets one answer, every reply is that answer, only genuine payments bind, everything claimed is answered in the end |
| **One-off CLI Mainnet job** `lib/cli-test-burner-job.ts`, `cli-test-runner.ts`, `cli-test-store.ts`, `cli-test-network.ts`, proofs | one job row, one session row (PostgreSQL), CLI child processes | create, fund, reconcile, retry, renew, run, repair | every web server runs the controller; two rows changed by separate compare-and-swaps; a submission whose answer is lost; a clock that says "expired" while the ledger has not decided; a server that dies after claiming | only landed funding is trusted, an envelope and its renewal can never both apply, one CLI process at a time, no run on spent accounts |
| **Wallet purchase and recovery** `lib/wallet/purchase.ts`, `journal.ts`, `delivery-result.ts`, `Agent` in the SDK | tool-call rows and receipts (database), payment claims (one process's memory) | reserve, pay, deliver, record, acknowledge; recover | tabs and servers share the journal but not the claims; lost answers of chain, merchant and database; recovery beside the purchase it recovers | one payment per call, a receipt for every open payment, no output shown for somebody else's purchase, every settled payment collected |
| **Marketplace run and report retry** `lib/wallet/agent402.ts`, `journal.ts`, `report-retry.ts` | one run row and one revision row per settlement | reserve, pay, keep evidence in four saves, compose, complete, send to review; rewrite once | a second call completes from its own copy while the first is still saving; a server stops between two saves | the marketplace is paid once; complete only on a usable response; a concluded run is never reopened |
| **Hosted demo: pool** `app/api/express/route.ts`, `lib/express-demo.ts` | counters, cooldown table, session table, servers that listen | admit, create, act, expire, reset | slow creations overlap; a failure gives back what a later request now holds; a timer fires during an action | limits hold, every slot returns, no server without an owner |
| **Hosted demo: one workspace** `lib/express-demo.ts`, SDK `Agent.fetch`, `pay` | served count, settled payments, operation answers, receipt | purchase, replay, forward for outside consumers, report, reset | an answer is lost and the payment settles later; a client leaves and repeats itself | each purchase is charged once; a workspace that can be used again owes nothing |
| **Starter buyer** `starter-kit-src/shared/contract.mjs`, `storage.mjs`, `local-demo.mjs`, `reset.mjs` | receipts and run results (files), the merchant's records beside them | verified purchase, commit then acknowledge, recover, reconcile, resolve, reset | two runs over one directory; stopping between any two of save, send, commit and acknowledge; a write that took effect and reports failure; a recovery that repeats a delivery; a result file that keeps so many runs | a payment leaves a receipt until its delivery is committed; a complete run delivered everything; the starter can always be made to run again |
| **Mandate set-up** `components/wallet/WalletChatApp.tsx`, `lib/wallet/mandate-client.ts`, registration recovery, allowance sequence | one record and an archive (browser storage), what the page works on (memory) | register, approve, observe, revoke, start afresh, disconnect | lost answers and reloads between signing, saving and sending; a lagging account index; transactions elsewhere; expiry declared too early; copies of the record saved late | nothing is signed again while the first may still come to be; what was sent is on record; what is undecided gets decided |
| CLI session route `app/api/cli/test/route.ts` | the session row of the CLI job | challenge, prepare, fund, run | two tabs with one signed funding | see [What is not modelled](#what-is-not-modelled) |
| **Shared reports**, in-memory journal, wallet's PostgreSQL redemption store | a few rows | insert once, read | | see [What is not modelled](#what-is-not-modelled) |
| Wallet chat, quotes, discovery, security, RPC access, readiness, manifest, AP2 and composites demos, pages | none that outlives a request | | | see [What is not modelled](#what-is-not-modelled) |

How they interact:

```
 browser ──► wallet purchase ──► SDK Agent ──► MandateRegistry (ledger)
                │    ▲               │ proof
     journal rows    │ answer        ▼
   (PostgreSQL)      └──────── merchant paid route ──► marketplace run ──► Agent402
                                 redemption store         run row, evidence
                                        ▲
 operator ──────── inspect, resolve ────┘

 web servers ──► one-off job ──► session row ──► CLI child process ──► ledger
 visitor ──► pool of workspaces ──► one workspace (buyer, merchant, mandate in one process)
```

- The buyer and the merchant share only HTTP and the ledger. A receipt (buyer)
  and a redemption record (merchant) name the same transaction.
- The merchant's paid callback is what the marketplace run models: it is keyed by
  the same settlement.
- The job controller and the session route share one table and its
  compare-and-swap update.
- The pool owns workspaces; an action inside a workspace can dispose of it.
- A starter is a buyer and a merchant in one Node process, over one directory of
  files that outlives it.
- The browser sets up the mandate that the wallet's purchases spend from; the two
  share only the ledger.

## The modules, one by one

Names of actions and variables are the code's where TLA+ allows. `PROJECT.json`
maps each definition to its lines. In the modules, a *fault* is an operation that
fails, with its effect or without it; a *crash* ends a process and loses what
only its memory held. History variables, marked as such, record what was done
to the outside world; no guard reads them.

Every property has a *mutant* beside it: a definition that changes one action the
way a plausible slip in that code would (a dropped guard, an upsert for an
insert, a missing reset). TLC finds the property violated with the mutant in
place of the original, so each one depends on what the code does.

### OneShotDelivery, BoundRedemption

`OneShotDelivery` is the promise of any merchant here: a settlement is *open*,
then bound to one proof (*claimed*), then *answered*; work starts at most once,
a reply shows the stored answer to the owning proof.

`BoundRedemption` is the code. A request goes through `pc[r]`: the route's
lookup (`RouteMissing`, `RouteExisting`, `RouteFails`), for an expired proof
`Timing` (`handleLateBoundDelivery`), otherwise the SDK middleware's second
lookup (`Gate`), `Verify`, `Claim`, `Fulfill`, `Complete`. Each store call is one
step because the store queues its operations (`serialized`). `ClaimFails` and
`CompleteFails` are writes that report an error, before or after the rename: the
client is told to retry, and a later request finds whatever is stored.
`CompleteAgain` is a completion that comes second. `Inspect`, `Check`
and `Resolve` are the operator tool, which captures an identity, checks it and
its age again, and compares once more when it writes. The age is all the tool knows: an
execution that is old but still running can be resolved, its own output is then refused by
`CompleteAgain` with a 503 and dropped. `WorkIsStored` says exactly this: a stored answer is
the output of the execution the record names, or the operator's `Terminal` on an aged one. `Crash` loses all requests
and the operator's session; the file survives.

Proofs are members of a set, classified by constants: `Authentic` (this
merchant's MAC), `Genuine` (signed by that payment's payer), `TimeBound` (the
ledger ties it to its quote). Answers are opaque; `Terminal` is the stored "paid
fulfillment failed" body. Two assumptions: one Node process owns the redemption file,
as the starters' README says (`scripts/starters/materialize.mjs:551`), because the
queue that makes a store call atomic is that process's, and the operator tool is
taken to share it; and the file survives a crash as the last rename left it.

### OneOffTest, BurnerJob

`OneOffTest` is what the one-off test promises to the ledger, with no servers and no
rows: a careful operator signs one funding (`Sign`), a second one with the same sequence
number only when the first has expired unapplied (`Renew`), sends each at most three
times (`Send`), and starts the CLI once under each label (`Launch`): first when the
funding it signed last has landed, then after a run that ended, with its packets expired and the
accounts as they should be (`Ready`). The rest is the ledger and the process.

`BurnerJob` is the code, and implements it with `signed` taken from the job row
(`ImplementsOneOffTest`); the other variables of `OneOffTest` are the ledger and the history that
`BurnerJob` keeps under the same names. `pc[s]` is the controller of web server `s`, `seen[s]` and `got[s]` its copies of
the job and session rows, `job` and `row` the rows themselves. All row changes go
through `Transition` and `UpdateRow`, which succeed only on the version read. A
controller that loses becomes `Superseded`, throws, or blocks the job, as the
code does in that place. The ledger is two signed envelopes with one sequence
number between them (`Land`, `Expire`, `OwnerMoves`); the CLI process acts on its
accounts (`Act`) and ends (`End`), watched or orphaned. `Crash` restarts a server
with a fresh controller. Sealing, XDR comparison and log wording are abstracted;
a diagnostic write is visible only as the version conflict it can cause.

### WalletPurchase

Tasks are purchase attempts and recoveries. `tool` and `receipts` are database
tables, `claim[s]` and `joined` the SDK's table of active payments in server `s`.
An attempt walks `Check`, `Reserve`, `List`, `Adopt`, `Claim`, `Hydrate`,
`Sequence`, `Save`, `Send`, then `Settled`, `Rejected` or `Uncertain`, delivery,
`Record`, `Ack`, `Clear`, `LetGo`; every exception ends in `Catch`, which decides
between *failed*, *delivery pending* and another tab's receipt. A recovery walks
`Recover`, `Retry`, delivery, `Complete` and the same acknowledgement. The ledger
executes a payment only for the sequence number it was signed for. A transaction
is named by the attempt that signed it. The merchant is external: it stores a
good or a terminal answer and keeps it, which is what BoundRedemption shows.

### MarketplaceRun

One settlement. `run` is its row, updated by the guarded statements of the
journal: `Reserve` inserts, `MarkPaid` saves evidence unless the run is concluded,
`Complete` wants a payment and no review, `Review` anything not yet complete. The
four saves of `runAgent402Research` (settlement before the body is read, body,
rejection, parsed results) are `Kept` records that grow; `Resumable` is the test
on which a later call completes from what was kept. `Editors` are report
retries: `Look`, `Insert`, `Rewrite`, `Update`; `GrowStale` is the two minutes
after which a running rewrite is shown as uncertain. Today one caller, the paid
route, runs the service and claims the settlement first; several callers here
check the guarantee the row gives by itself, which is what its comments claim.

### ExpressPool and ExpressWorkspace

`ExpressPool` is one process: a step is what runs between two awaits. `Admit`
checks cooldown, concurrency and capacity (table plus creates under way) and takes
a slot; `Fund`, `Listen`, `Register` build the workspace and may fail; `Fail`
lifts the cooldown only when it is still its own; `Return` gives the slot back.
`Begin`, `End`, `FallDue`, `Expire`, `DisposeInAction` are the busy flag and the
expiry timer, which gives a busy workspace another thirty minutes.

`ExpressWorkspace` is what an action does inside: `Purchase` and `Replay` under an
operation id, `Request`, `Pay`, `Send`, `Deliver`, `Recover`, any of which may
lose its answer or find its client gone (`Abort`); `Burn` is the disposal of a
workspace whose payment nobody can reconcile. `Forward`, `Forwarded` and `Report`
are the public bridge for consumers with mandates of their own. The budget is
three payments, and the fourth purchase must be refused by the contract, not by
the server. Event lists, tombstones and the unpaid challenge are left out: they
are shown to the visitor and never acted on.

### StarterBuyer

A run `b` of `runLocalTestnetDemo` makes `Plan[b]` purchases: `Check` (no unresolved
receipt), `Begin`, then for each purchase `Quote`, `Save` (the receipt, before
anything is sent), `Send`, `Confirm`, `Ask` and `Serve` (the merchant), `Commit`,
`Acknowledge`; then `Probe`, `Close` and `Finish`, or `ClearRefused` and `Fail`. The
files are `pending` and `results`; a store call is one step, for the same reason as
in BoundRedemption, and may report an error with or without its effect.
`Begin` drops the oldest run of a full result file (`MAX_RUNS`) whatever its status.
Around the runs: `Recover` is both recovery functions, which applications and tests
call with a retained receipt and a run to commit to; `Reconcile` gives up the receipt
of a payment that failed; `Resolve` is the operator's terminal answer; `Inspect` and
`Archive` are the two halves of the reset. The merchant keeps what
`OneShotDelivery` promises, which is what BoundRedemption shows. All tasks share one
process, and `QuietReset` says that the operator resets only when nothing runs:
both are what the generated README asks (`scripts/starters/materialize.mjs:551`).
A delivery that was committed but not acknowledged cannot be recovered into another
run, which would be a second acceptance; its receipt goes with the reset's inspection,
or when its run has been dropped from the file.

### MandateSetup

One wallet, one tab. `saved` is the stored mandate, which the page and localStorage
hold alike, `history` the archived ones; `act`, `prepared`, `approve` and `revoke` are the
page's operations under way, each with the copy of the record it began with;
`Reload` loses them. `Activate` to `AwaitRegistration` are `activate()` with
`registerWithFreighter` or, if `combined`, `registerAndApproveWithFreighter`;
`PrepareAllowance` to `SendAllowance` are `retryAllowance()`; `Revoke` to `AwaitRevoke`
are `revoke()`; `CheckRegistration` and `CheckAllowance` are the two observers, which only read
receipts of what the record names. `chain` says where each transaction is and which
account sequence number it carries; the account may also move elsewhere
(`OwnerMoves`), and `Observed` lags by up to `MaxLag`. A limit is named by the
transaction that registers it.

Building, signing and sending a revocation is one step. `LogOut` ends a session, its
record and the page's operations in one step: what the page does while the server is
asked is lost with the page. `Elapse`, the expiry of a limit, comes after
the time bound of its registration, since a limit lasts half an hour at least
(`WalletChatApp.tsx:1755`) and an envelope ten minutes. A node that no longer remembers a transaction
is one that gives no answer. An exhausted limit behaves like an expired one.

Page and ledger share one clock: the code compares the expiry of a limit with the
browser's `Date.now` (`client-readiness.ts:177`), and a browser whose clock runs ahead
could take a limit for expired before the ledger does. `Reload` always finds the record that was
saved: the page also removes one it cannot parse, or of another release, registry or user
(`WalletChatApp.tsx:464`), which one release and one user do not produce.

The properties except what the code does not attempt, and say so: a user who
disconnects while the status of a limit is unread removes the only record of it,
although it can still be spent (`:1134`); `revoke()` saves the copy it began with, and
an allowance signed meanwhile is overwritten in it (`:1094`). A revocation that was
sent and expires unlanded is awaited for ever, since only a failure clears it
(`:1105`): the limit then ends with its expiry, so nothing is stated about it.

## The runs

`MC*` modules only name model values, mappings, symmetry and, for the job, a view.
Deadlock checking is off throughout because each system may really come to rest:
all requests served, every controller stopped, every workspace gone.

| Run | States | Instance | What it shows |
|---|---|---|---|
| `redemption_race` | 348 304 | one settlement with two genuine proofs, a forged one and another merchant's; two requests, an operator, one crash or failing write; fairness | work once, for genuine payments, one answer, replies agree; what ran is answered while nothing fails, with its own output unless the operator resolved it; every claimed execution is answered; the route implements `OneShotDelivery` |
| `burner_servers` | 1 423 793 | two servers, one restart, the known run that may be resumed | funding, renewal, launches and repairs stay within what the job claims; the servers implement `OneOffTest` |
| `wallet_servers` | 353 970 | two servers, one restart; two attempts repeat a call on different servers, a third buys something else; one recovery | one payment per call, receipts kept, failures unpaid, outputs not mixed up, one server never pays beside its own receipt |
| `wallet_recovers` | 27 760 | one server, one restart, two calls, a user who keeps recovering | every settled payment is collected or known to have failed |
| `marketplace` | 71 627 | three callers, two editors, two stops anywhere | one marketplace payment and one rewrite, completion only on good evidence, conclusions kept, a run concluded unless its paying call is stopped |
| `express_pool` | 744 905 | five creates (four of one address, one of them cannot succeed; the other three are symmetric), three places, two at a time | limits, slots, servers, cooldowns |
| `express_workspace` | 200 828 | four operations, four outside payments on two mandates, one failure | no double charge, stable answers, idle means reconciled |
| `starter_buyer` | 80 731 | a run of two purchases, a run of one, a recovery; a result file that keeps two runs; one crash, failing call or lost answer; fairness | a payment is tracked until its delivery is committed, complete runs delivered all, no delivery is accepted twice, receipts get resolved |
| `mandate_setup` | 245 095 | two limits, two allowances, one revocation; one transaction elsewhere, an index one behind; reloads without limit; fairness | nothing signed twice, what was sent is on record, what is undecided gets decided |
| `wallet_two_payments`, `wallet_unrecorded`, `wallet_stuck_claim` | | one or two servers, two attempts, one recovery | disagreements, see below |

Why these bounds are enough for the cases that matter:

- *Redemption.* The dangerous patterns are pairs: two requests with one proof, two
  proofs of one settlement, executor against operator, one fault in any step. A
  third request only repeats one of the two roles, and a second settlement has a
  record of its own. Answers are opaque, so one
  ordinary body and the terminal one tell any mix-up apart. The safety properties
  and the refinement are also proved for every value of the constants.
- *Job.* A compare-and-swap race has a winner and losers that behave alike, so two
  servers suffice; the one restart can hit either, at every step, with its child
  dying or not. `MaxAttempts = 3` and the three run labels are the code's own
  numbers. `KnownRun` is TRUE, which only adds behaviour: both repairs are open.
  The VIEW drops parts of a server's snapshots that it overwrites or never reads
  before its controller ends, and no property reads a snapshot. Two states with one view
  have the same successors up to that view, but for one: with a stale copy of a
  prepared job a controller may pass through `block`, whose write fails, before it stops.
  Which copy TLC keeps depends on the order of its workers, so the count of
  states varies a little. The safety properties and the refinement are also proved, without a
  view, for any number of servers and restarts.
- *Wallet.* A lost race needs two attempts; the third, on the same server as one of
  them, separates "same server" from "same call". One recovery repeats for ever.
- *Marketplace.* The payer, a call that resumes and a call that finds the row
  concluded are the three roles. Two stops leave a run half-saved twice. Proved for
  every number of callers.
- *Pool.* With three places and two concurrent creates a full table, a full pair of
  creates, and the two together each refuse a request the others would admit; four
  creates that can succeed are one more than the table holds. Proved for all limits.
- *Workspace.* All four purchases of the code, with one failure that leaves the
  workspace alive anywhere between them, and enough outside payments to exhaust a
  mandate or not.
- *Starter.* Two runs are what it takes to pass the check for receipts together; the
  second purchase separates "this purchase" from "this run"; two kept runs and a
  recovery with a run of its own fill the result file.
- *Set-up.* The second limit and the second allowance are the ones that must not be
  signed too early. Three sequence numbers let a registration, its allowance and a
  third transaction land in any order; a second revocation would be the first one's
  retry. `MaxDrops = 1`: once a disconnection removed a record, nothing new is set
  up, which bounds how often the user may start over.

### Fairness

`redemption_race` assumes that Node goes on running the
requests it accepted (weak fairness per request), that time passes, and that a
diligent operator, who looks again and again, at some point inspects what is
stranded and old (strong fairness, since other executions occupy the tool in
between). The operator is a person: without one, a crashed execution stays
*executing* for ever, since no request may take it over. `wallet_recovers` assumes
that a request runs to its end, that the merchant finishes what it began, and
that a user who keeps pressing Recover is not failed by the network every single
time, before the proof expires. No fairness is put on the ledger, on crashes or on
purchases succeeding. `marketplace` assumes only that a call which has not been
stopped goes on; the property allows for a stop of the paying call. `starter_buyer` assumes that Node runs what was
started, that the ledger decides, and that somebody keeps recovering, reconciling,
resolving and resetting; `mandate_setup` that the page runs what it began, that time
bounds pass, and that the page is open and checks again (strongly for the allowance,
which other operations interrupt). The other runs assume none.

## Where the code and its documentation disagree

Three runs are expected to find a violation. Each property states what a comment or a
test says.

1. **A payment can leave while another one's receipt is retained**
   (`wallet_two_payments`, `SendOnlyWhenResolved`). `Agent.pay` reads the retained
   receipts and the mandate's sequence number in separate steps, under a claim in
   its own process. Two servers both find no receipt; the slower one reads the
   sequence number left by the faster one's payment and pays too. The SDK says
   "the retained receipt keeps every new payment fail-closed". On one server it
   does (`SendAloneOnServer`, checked). Recovery then refuses both receipts as
   "multiple retained settlements".
2. **A receipt can be deleted with no call recording its output**
   (`wallet_unrecorded`, `AcknowledgedIsRecorded`). Recovery records through an
   update of calls that are *delivery_pending*, does not look at how many rows it
   changed, and acknowledges. When the paying request is still running or its server
   died, the call is *running*: nothing is recorded, the receipt goes.
3. **A payment claim can outlive its receipt** (`wallet_stuck_claim`,
   `ClaimFollowsReceipt`). A recovery that listed a receipt claims it even if the
   receipt was deleted meanwhile. If its request then fails, no agent is left to
   release the claim and the server refuses purchases on that mandate until it
   restarts. The SDK says "All attached agents observe its eventual release".

None of the three loses or doubles a payment the user did not ask for; they concern
what can still be collected, recorded and bought afterwards.

## The proofs

TLAPS checks the following for every value of the constants that meets the named
assumptions (`ConstantsAssumption`, `BurnerAssumption`, `MarketplaceAssumption`, `NoneAssumption`,
`PoolAssumption`, `WorkspaceAssumption`, `WalletAssumption`, `SetupAssumption`), which
say no more than that the sets are disjoint where the
program's values are, that mappings are total, that limits are naturals, and that
the creates of the pool and the outside consumers of a workspace are
finitely many, so that they can be counted. TLC
evaluates them in the runs. In each module the argument is one inductive
invariant `Inv` with `Init => Inv` and `Inv /\ [Next]_vars => Inv'`, one lemma per
action or family of actions; TLC had checked `Inv` on the run's instance first.

**BoundRedemptionProofs**: `TypeCorrectness`, `PaidOnce`, `RepliesAgree`,
`OnlyGenuineBind`, `BindingForever`, `WorkStored`, `Refinement`. The properties are not
inductive alone: that work runs once depends on which request may still reach
`Fulfill`. `Inv` adds

- `Vetted`: what a request has been checked for at each step (MAC at `verify`,
  signature and settlement at `claim`);
- `Owned`: a request about to work or complete is the execution named in the record,
  and if it has yet to work, nobody has; this is where the claim's
  uniqueness becomes "at most once";
- `Recorded`: the shape of a record in each state, and that no work ran without
  one;
- `Aimed`: the operator's captured identity has its type.

From `Inv`, `RepliesAgree` needs only that completed records never change
(`BindingForever`). `WorkStored` needs `Executed` besides: a request that reports back has
run, the execution a record names carries the record's proof, so that no other request's
work can touch its answer, and the operator goes on only past the minimum age. `Refinement` maps *missing, executing, completed* to *open,
claimed, answered*, calls to work; each action is then `Bind`, `Work`, `Answer`,
`Show`, `AnswerAndShow` or a stutter.

**BurnerJobProofs**: `TypeCorrectness`, `FundedLanded`, `FundedOnce`, `RunsAlone`,
`LaunchesReady`, `Refinement`, for any number of servers and restarts. Nothing here is inductive by itself:
a controller acts on copies of two rows that it read at different times, and writes one row
after the other. Three devices carry the proof.

- *Versions*: a version number names one content of a row, and copies are never newer than
  the row (`JobSnapshots`, `RowSnapshots`). So a compare-and-swap that succeeds changes what
  its controller read.
- *Claims*: between a claim in the job and the write that follows it, only the claimant
  knows the version (`Alone`); nobody else can pass a compare-and-swap, and the session is
  still as the claim found it (`Finds`). `Place` says what a controller knows at each step.
- *Views*: what was concluded from a copy of the session, or from the ledger, is true for
  as long as the copy of the job is current (`Views`); when it is not, the next write
  fails and the conclusion does no harm.

On these rest `Agree` (which states job and session can have together), `Ledger` (what
they say of the funding), `Attempted` (submissions made or under way are covered by claimed
attempts, and are therefore finitely many) and `Runs` (launches, processes
and accounts). Two facts no property asks for had to be added before `Inv` was inductive:
a job still opening has no attempts, and a job blocked while its session says *funding* was
blocked in a renewal. `LaunchesReady` (`LaunchOnUnspent`: a launch finds accounts from which
nothing was spent and no other process) follows from `Runs` where a launch stands.

`Refinement` needs to know in addition that a run has *ended* when its repair is launched. The code concludes
this from the logs of the session, so `Proved` says that a controller which can still claim a
repair has a failed run's logs before it, and `Repairs` that those logs, and afterwards the marks
of repair in the job, stand for an ended run; logs are never lost (`LogsGrow`), although the session is
written from copies, and an ended run is not started again (`EndedStays`). Each step is then `Sign`,
`Renew`, `Send`, `Launch`, `Orphan`, a step of the ledger or the process, or a stutter: all the
claiming, losing, settling and blocking is invisible from the ledger. Neither side of it has fairness: that the job gets anywhere is not
claimed.

A step is first put in terms of what it writes (lemmas `...Does`), which keeps
the records out of the later proofs.

**MarketplaceRunProofs**: `TypeCorrectness`, `PaidOnce` (and one rewrite),
`CompletedProperly`, `Concluded`. `Reserved` says that at most one caller holds the
reservation and is therefore the only writer of evidence; `EvidenceGrows` ties what
the row holds to that writer's position, so that evidence on which another caller may
complete the run is always the last the writer keeps; `Rewriting` does the same for the revision row.

**ExpressPoolProofs**: `TypeCorrectness`, `Limits` (and exact slots),
`ServersOwned`, `Cooldowns`. The table's limit is not inductive, since creates in flight will join
it: `Capacity` bounds the table *together with* those on their way, and equates the
counter with the set of running creates. `Ownership` says that a workspace taken
out never returns, so its server closes for good.

**ExpressWorkspaceProofs**: `TypeCorrectness`, `ChargedOnce`, `Reconciliation`,
`TruthfulAnswers`, `TruthfulEnd`. All of it hinges on when a workspace can still be used
(`Open`: in the table, or held by an action). For that long `Retained` says that what the
running purchase may owe is the receipt, `Reconciled` that nothing else is out, and
`Counted` that deliveries and charges agree; `Numbered` keeps the payments of one purchase
apart, `Answered` those of different operations, and `Bridged` counts outside
payments against their mandates.

**StarterBuyerProofs**: `TypeCorrectness`, `Tracked`, `TruthfulResults`, each under
`QuietReset`. The files are shared by all tasks, so what one did for its receipt must
survive what the others do. It does because a receipt is handled by its own run while that
run lives, and by recoveries afterwards (`Handled`); a run signs in order (`Ordered`); each
step knows something of its receipt (`Stepwise`); the result file matches
(`Recorded`); and between the reset's inspection and the archiving nothing has moved
(`SafeReset`).

**WalletPurchaseProofs**: `TypeCorrectness`, `PaidOnce`, `ReceiptsKept`,
`TruthfulOutcomes`, `SentAlone`. `Reserved` says that one attempt wins a call and only it
signs for it; `Follows` which payment a task works on; `Collected` that a receipt
goes only for payments that were served or never happened; `Journalled` what the rows
say. `SentAlone` needs `Exclusive` (the claim of a payment under way has one
holder) and `Alone` (under it, no other receipt of that server appears): it is these
two that fail between servers, see above.

**MandateSetupProofs**: `TypeCorrectness`, `OneAtATime`, `NothingForgotten`. The page signs
only what its one current record allows, so the invariant says that this record knows all
that is still out: the registration that can come to be or be spent (`Current`) and
the allowances of its limit (`Covered`). Records are also written from copies:
the one an approval began with is still the current one unless a revocation came between,
and every copy is at least true of the ledger (`Sound`, `Copies`).

**Only model-checked.** Liveness (`ClaimedIsAnswered`, `SettledIsResolved`,
`PaidIsConcluded`, `ReceiptsAreResolved`, `UndecidedIsDecided`): TLAPS does not prove
properties under fairness here. Every other property of a passing run is
proved.

## What is not modelled

- *The MandateRegistry and Stellar* are not in the repository; the modules take
  from them what the code relies on: a payment for the expected sequence number
  settles or is refused, once.
- *Cryptography and encodings* (HMAC, signatures, XDR, digests): a proof is
  genuine or it is not; a signed transaction is the one the row names or another.
- *In the merchant*: quoting, free routes, metrics. The 4 MB limit of a store file
  appears only as a write that fails, which can then happen at any time.
- *In the CLI job*: the 24-hour expiry of a session row.
- *In the wallet*: the in-memory journal of a server without a database. It has the
  same interface, but nothing survives a restart and some of its updates lack the
  status conditions of the SQL they replace (`markMarketplacePaid`, `journal.ts:420`).
  Its PostgreSQL redemption store offers lookup, claim and complete with the file
  store's results, each a single statement.
- *In the starter*: quotes, evidence digests, the mandate's set-up, and the negative paths
  of the scenarios, which sign nothing.
- *In the set-up*: a browser clock that differs from the ledger's; records of other releases
  or that do not parse, which the page removes when it loads; quotes, balances and dialogs; several
  tabs, which do not see each other's record.
- *The CLI session route* (`app/api/cli/test/route.ts`): it writes the session row
  through the same compare-and-swap as the job and leaves reconciliation to the
  job's functions; `BurnerJob` models those. Its own order of prepare, fund and fail is
  the first thing to add.
- *Shared reports*: one row per owner and payment, inserted once.
- *In the demo*: event lists. A payment recovered through its receipt is missing from
  the list of submitted transactions shown to the visitor; counting and budget, which
  are modelled, are unaffected.
- *Scenario functions, materialised starters, chat, quotes and discovery,
  security middleware, RPC access, presentation, AP2, composites, research demos*:
  pure functions of a request, generated copies, stateless wrappers, or scripts in a
  fixed order. `PROJECT.json` gives the reason for each.

## Plan

Done, in the order of importance: the redemption core with its refinement; the one-off
job with its own; the wallet; the marketplace run and the pool; the workspace; the starter's
buyer; the set-up of a mandate; proofs for all of them.

Left:

1. **CliSession**, the browser's side of the job's table: *one funding is submitted
   by one tab*; *a session is never left between prepare and fail*
   (`app/api/cli/test/route.ts:204`, `:220`).
2. The claim's second statement in the wallet's PostgreSQL store, and shared
   reports.

## Running it

```
tlc -workers 2 -config BoundRedemptionRace.cfg MCBoundRedemption.tla
tlapm BoundRedemptionProofs.tla
```

Each run takes up to about three minutes with two workers; the proofs of a module
take up to about two and a half.
