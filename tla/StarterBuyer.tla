------------------------------ MODULE StarterBuyer ------------------------------
(***************************************************************************)
(* The buyer's side of a starter kit: runs of local-demo.mjs that pay      *)
(* through contract.mjs, the receipt and run-result files of storage.mjs,  *)
(* recovery of a retained receipt in a later run, the operator's           *)
(* resolution of a stranded delivery, and the reset of reset.mjs.          *)
(*                                                                         *)
(* Tasks of one Node process interleave at their awaits; a store call is   *)
(* one step, because `serialized` queues the calls on a file.  A store     *)
(* call may report an error with its effect durable or not, an answer may  *)
(* be lost, and the process may crash: the files and the ledger survive.   *)
(* The merchant keeps what OneShotDelivery promises: one answer for each   *)
(* settlement, given once, shown as often as its proof asks.               *)
(***************************************************************************)
EXTENDS Naturals, Sequences, FiniteSets

CONSTANTS
  Buyers,      \* runs of the starter, each started at most once
  Recoveries,  \* recoveries of a retained receipt, each repeated for ever
  Plan,        \* Plan[b]: how many purchases the scenario of b makes
  MaxRuns,     \* runs the result file keeps (MAX_RUNS)
  QuietReset,  \* TRUE: the operator resets only while nothing runs
  None,
  MaxFaults    \* bound: crashes, failing store calls and lost answers

Tasks == Buyers \cup Recoveries
Receipts == UNION {{b} \X (1 .. Plan[b]) : b \in Buyers}
Answers == {"good", "terminal"}

ASSUME ConstantsAssumption ==
  /\ Buyers \cap Recoveries = {}
  /\ Plan \in [Buyers -> Nat \ {0}]
  /\ MaxRuns \in Nat \ {0}
  /\ QuietReset \in BOOLEAN
  /\ None \notin Tasks \cup Answers \cup Receipts
  /\ MaxFaults \in Nat

VARIABLES
  tx,         \* tx[r]: the signed payment behind receipt r, as the ledger sees it
  sale,       \* sale[r]: the merchant's redemption record
  pending,    \* pending-receipts.json
  results,    \* results.json: the runs it keeps, oldest first
  pc,
  at,         \* at[t]: the receipt task t is about
  got,        \* got[t]: the answer t was given
  mode,       \* mode[q]: which of the two recovery functions q calls
  into,       \* into[t]: the task whose run takes t's delivery
  reset,      \* "safe" between a reset's inspection and its rename
  faults,
  committed   \* history: the answer last committed for r

vars == <<tx, sale, pending, results, pc, at, got, mode, into, reset, faults,
          committed>>

world == <<tx, sale>>
task == <<at, got, mode, into>>

Resting == {"new", "stopped", "done"}
Phases == Resting \cup {"checked", "shopping", "quoted", "saved", "sent", "refused", "paid",
                       "working", "got", "committed", "closing", "finishing", "failing"}
Runs == [by : Tasks, status : {"running", "complete", "failed"},
         accepted : SUBSET Receipts]

TypeOK ==
  /\ tx \in [Receipts -> {"none", "signed", "sent", "settled", "failed"}]
  /\ sale \in [Receipts -> {"open", "executing"} \cup Answers]
  /\ pending \subseteq Receipts
  /\ results \in Seq(Runs) /\ Len(results) <= MaxRuns
  /\ pc \in [Tasks -> Phases]
  /\ at \in [Tasks -> Receipts \cup {None}]
  /\ got \in [Tasks -> Answers \cup {None}]
  /\ mode \in [Tasks -> {"json", "terminal"}]
  /\ into \in [Tasks -> Tasks]
  /\ reset \in {"idle", "safe"}
  /\ faults \in 0 .. MaxFaults
  /\ committed \in [Receipts -> Answers \cup {None}]

Init ==
  /\ tx = [r \in Receipts |-> "none"]
  /\ sale = [r \in Receipts |-> "open"]
  /\ pending = {}
  /\ results = <<>>
  /\ pc = [t \in Tasks |-> "new"]
  /\ at = [t \in Tasks |-> None]
  /\ got = [t \in Tasks |-> None]
  /\ mode = [t \in Tasks |-> "json"]
  /\ into = [t \in Tasks |-> t]
  /\ reset = "idle"
  /\ faults = 0
  /\ committed = [r \in Receipts |-> None]

Live(t) == pc[t] \notin Resting
Quiet == \A t \in Tasks : ~Live(t)

\* A task starts while no reset is under way, if the operator keeps them apart.
MayStart == QuietReset => reset = "idle"

Go(t, step) == pc' = [pc EXCEPT ![t] = step]

Fault == faults < MaxFaults /\ faults' = faults + 1

\* What the tasks ts held in memory goes with their calls.
Forget(ts) ==
  /\ at' = [t \in Tasks |-> IF t \in ts THEN None ELSE at[t]]
  /\ got' = [t \in Tasks |-> IF t \in ts THEN None ELSE got[t]]
  /\ mode' = [t \in Tasks |-> IF t \in ts THEN "json" ELSE mode[t]]
  /\ into' = [t \in Tasks |-> IF t \in ts THEN t ELSE into[t]]

\* A store call succeeds, or reports an error whose effect may be durable.
Call(ok, effect) ==
  \/ ok /\ effect /\ UNCHANGED faults
  \/ ~ok /\ Fault

\* The run of task t that is still running in the file, if it was not dropped.
RunOf(t) == {i \in DOMAIN results : results[i].by = t /\ results[i].status = "running"}
Kept(t) == RunOf(t) # {}
Latest(t) == CHOOSE i \in RunOf(t) : \A j \in RunOf(t) : j <= i

Accepted == UNION {results[i].accepted : i \in DOMAIN results}

\* Mutant: the file keeps every run.
BegunForever(t) == Append(results, [by |-> t, status |-> "running", accepted |-> {}])

\* FileRunResultStore.begin: the oldest run goes, whatever its status.
Begun(t) ==
  LET file == Append(results, [by |-> t, status |-> "running", accepted |-> {}]) IN
  IF Len(file) > MaxRuns THEN SubSeq(file, 2, Len(file)) ELSE file

Finished(t, status) == [results EXCEPT ![Latest(t)].status = status]

------------------------------------------------------------------------------
(* The ledger *)

Land(r) ==
  /\ tx[r] = "sent"
  /\ tx' = [tx EXCEPT ![r] = "settled"]
  /\ UNCHANGED <<sale, pending, results, pc, task, reset, faults, committed>>

\* The ledger refuses the payment, or its time bounds pass.
Lapse(r) ==
  /\ tx[r] \in {"signed", "sent"}
  /\ tx' = [tx EXCEPT ![r] = "failed"]
  /\ UNCHANGED <<sale, pending, results, pc, task, reset, faults, committed>>

------------------------------------------------------------------------------
(* A run of the starter *)

\* assertNoUnresolvedReceipts, before anything else.
Check(b) ==
  /\ pc[b] = "new"
  /\ MayStart
  /\ Go(b, IF pending = {} THEN "checked" ELSE "stopped")
  /\ UNCHANGED <<world, pending, results, task, reset, faults, committed>>

Begin(b) ==
  /\ pc[b] = "checked"
  /\ \E ok, effect \in BOOLEAN :
       /\ Call(ok, effect)
       /\ results' = IF effect THEN Begun(b) ELSE results
       /\ Go(b, IF ok THEN "shopping" ELSE "stopped")
  /\ at' = [at EXCEPT ![b] = <<b, 1>>]
  /\ UNCHANGED <<world, pending, got, mode, into, reset, committed>>

\* The quote is verified and two events are appended to the run.
Quote(b) ==
  /\ pc[b] = "shopping"
  /\ at[b] \in Receipts
  /\ \/ Go(b, IF Kept(b) THEN "quoted" ELSE "failing") /\ UNCHANGED faults
     \/ Fault /\ Go(b, "failing")
  /\ UNCHANGED <<world, pending, results, task, reset, committed>>

\* Agent.pay signs, and onPrepared saves the receipt before anything is sent.
Save(b) ==
  /\ pc[b] = "quoted"
  /\ tx' = [tx EXCEPT ![at[b]] = "signed"]
  /\ \E ok, effect \in BOOLEAN :
       /\ Call(ok, effect)
       /\ pending' = IF effect THEN pending \cup {at[b]} ELSE pending
       /\ Go(b, IF ok THEN "saved" ELSE "refused")
  /\ UNCHANGED <<sale, results, task, reset, committed>>

Send(b) ==
  /\ pc[b] = "saved"
  /\ tx' = IF tx[at[b]] = "signed" THEN [tx EXCEPT ![at[b]] = "sent"] ELSE tx
  /\ Go(b, "sent")
  /\ UNCHANGED <<sale, pending, results, task, reset, faults, committed>>

\* Mutant: a payment whose outcome is unknown is treated like a refused one.
ConfirmGivesUp(b) ==
  /\ pc[b] = "sent"
  /\ \/ tx[at[b]] = "settled" /\ Go(b, "paid") /\ UNCHANGED faults
     \/ tx[at[b]] = "failed" /\ Go(b, "refused") /\ UNCHANGED faults
     \/ Fault /\ Go(b, "refused")
  /\ UNCHANGED <<world, pending, results, task, reset, committed>>

\* The chain's verdict reaches the run, or does not: SettlementUncertainError
\* becomes DeliveryPendingError and the receipt stays.
Confirm(b) ==
  /\ pc[b] = "sent"
  /\ \/ tx[at[b]] = "settled" /\ Go(b, "paid") /\ UNCHANGED faults
     \/ tx[at[b]] = "failed" /\ Go(b, "refused") /\ UNCHANGED faults
     \/ Fault /\ Go(b, "failing")
  /\ UNCHANGED <<world, pending, results, task, reset, committed>>

\* Any other error after the receipt was prepared clears it, and swallows what
\* the clearing reports.
ClearRefused(b) ==
  /\ pc[b] = "refused"
  /\ \E ok, effect \in BOOLEAN :
       /\ Call(ok, effect)
       /\ pending' = IF effect THEN pending \ {at[b]} ELSE pending
  /\ Go(b, "failing")
  /\ UNCHANGED <<world, results, task, reset, committed>>

------------------------------------------------------------------------------
(* Delivery: the same for a purchase and a recovery *)

\* retryDelivery sends the retained proof; the paid route looks its record up.
Ask(t) ==
  /\ pc[t] = "paid"
  /\ \/ /\ sale[at[t]] = "open" /\ tx[at[t]] = "settled"
        /\ sale' = [sale EXCEPT ![at[t]] = "executing"]
        /\ Go(t, "working")
        /\ UNCHANGED <<got, faults>>
     \/ /\ \/ sale[at[t]] = "open" /\ tx[at[t]] # "settled"
           \/ sale[at[t]] = "executing"
        /\ Go(t, "failing")
        /\ UNCHANGED <<sale, got, faults>>
     \/ /\ sale[at[t]] \in Answers
        /\ got' = [got EXCEPT ![t] = sale[at[t]]]
        /\ Go(t, "got")
        /\ UNCHANGED <<sale, faults>>
     \/ Fault /\ Go(t, "failing") /\ UNCHANGED <<sale, got>>
  /\ UNCHANGED <<tx, pending, results, at, mode, into, reset, committed>>

\* The paid callback returns or throws; its answer is stored, and may be lost
\* on its way.  An operator may have stored the terminal answer meanwhile.
Serve(t) ==
  /\ pc[t] = "working"
  /\ \/ /\ sale[at[t]] = "executing"
        /\ \E a \in Answers :
             /\ sale' = [sale EXCEPT ![at[t]] = a]
             /\ \/ got' = [got EXCEPT ![t] = a] /\ Go(t, "got") /\ UNCHANGED faults
                \/ Fault /\ Go(t, "failing") /\ UNCHANGED got
     \/ sale[at[t]] # "executing" /\ Go(t, "failing") /\ UNCHANGED <<sale, got, faults>>
  /\ UNCHANGED <<tx, pending, results, at, mode, into, reset, committed>>

\* Mutant: a paid response is taken as it comes.
AcceptableAny(t) == TRUE

\* Mutant: only the scenario's body is ever accepted.
AcceptableJson(t) == mode[t] = "json" /\ got[t] = "good"

\* validateDelivery takes the scenario's body only, the terminal recovery the
\* immutable terminal body only.
Acceptable(t) == got[t] = (IF mode[t] = "json" THEN "good" ELSE "terminal")

\* FileRunResultStore.commitDelivery: idempotent in its own run; a receipt that
\* another run of the file has accepted is refused.
Committable(t) ==
  /\ Kept(into[t])
  /\ at[t] \in Accepted => at[t] \in results[Latest(into[t])].accepted

Commit(t) ==
  /\ pc[t] = "got"
  /\ IF Acceptable(t) /\ Committable(t)
       THEN \E ok, effect \in BOOLEAN :
              /\ Call(ok, effect)
              /\ IF effect
                   THEN /\ results' = [results EXCEPT ![Latest(into[t])].accepted = @ \cup {at[t]}]
                        /\ committed' = [committed EXCEPT ![at[t]] = got[t]]
                   ELSE UNCHANGED <<results, committed>>
              /\ Go(t, IF ok THEN "committed" ELSE "failing")
       ELSE Go(t, "failing") /\ UNCHANGED <<results, committed, faults>>
  /\ UNCHANGED <<world, pending, task, reset>>

\* Where a task goes on once its receipt is acknowledged.
Onward(t) == IF t \in Buyers THEN "shopping" ELSE "finishing"

NextPurchase(b) ==
  IF at[b][2] < Plan[b] THEN <<b, at[b][2] + 1>> ELSE None

\* acknowledgeDelivery clears the receipt.
Acknowledge(t) ==
  /\ pc[t] = "committed"
  /\ \E ok, effect \in BOOLEAN :
       /\ Call(ok, effect)
       /\ pending' = IF effect THEN pending \ {at[t]} ELSE pending
       /\ Go(t, IF ok THEN Onward(t) ELSE "failing")
       /\ at' = [at EXCEPT ![t] = IF ok /\ t \in Buyers THEN NextPurchase(t) ELSE @]
  /\ got' = [got EXCEPT ![t] = None]
  /\ UNCHANGED <<world, results, mode, into, reset, committed>>

------------------------------------------------------------------------------
(* The end of a run *)

\* The negative path: a payment the contract refuses when it is simulated, so
\* that nothing is signed; or the server restarts, and the proof of a purchase
\* must be shown the stored answer again.  Its events are appended to the run.
Probe(b) ==
  /\ pc[b] = "shopping"
  /\ at[b] = None
  /\ Go(b, IF Kept(b) /\ sale[<<b, 1>>] \in Answers THEN "closing" ELSE "failing")
  /\ UNCHANGED <<world, pending, results, task, reset, faults, committed>>

\* A run is not complete while any receipt is unresolved.
Close(b) ==
  /\ pc[b] = "closing"
  /\ Go(b, IF pending = {} THEN "finishing" ELSE "failing")
  /\ UNCHANGED <<world, pending, results, task, reset, faults, committed>>

\* A recovery closes the run it began for itself.
Rest(t) == IF t \in Buyers THEN "done" ELSE "new"

Finish(t) ==
  /\ pc[t] = "finishing"
  /\ IF Kept(t)
       THEN \E ok, effect \in BOOLEAN :
              /\ Call(ok, effect)
              /\ results' = IF effect THEN Finished(t, "complete") ELSE results
              /\ Go(t, IF ok THEN Rest(t) ELSE "failing")
       ELSE Go(t, IF into[t] = t THEN "failing" ELSE Rest(t)) /\ UNCHANGED <<results, faults>>
  /\ Forget({t})
  /\ UNCHANGED <<world, pending, reset, committed>>

\* The catch block marks the run failed; whatever that reports is ignored.
Fail(t) ==
  /\ pc[t] = "failing"
  /\ IF Kept(t)
       THEN \E ok, effect \in BOOLEAN :
              /\ Call(ok, effect)
              /\ results' = IF effect THEN Finished(t, "failed") ELSE results
       ELSE UNCHANGED <<results, faults>>
  /\ Go(t, IF t \in Buyers THEN "stopped" ELSE "new")
  /\ Forget({t})
  /\ UNCHANGED <<world, pending, reset, committed>>

------------------------------------------------------------------------------
(* Afterwards: recovery, reconciliation, the operator, the reset *)

\* The application calls recoverBoundJson ("json") or, for a delivery an operator
\* closed, acknowledgeResolvedTerminalBoundJson ("terminal"), with a receipt of a
\* run that stopped, and commits to a run of its own or to the interrupted one.
Recover(q, r, how, t) ==
  /\ pc[q] = "new"
  /\ MayStart
  /\ r \in pending /\ ~Live(r[1])
  /\ t = q \/ (t = r[1] /\ Kept(t))
  /\ results' = IF t = q THEN Begun(q) ELSE results
  /\ at' = [at EXCEPT ![q] = r]
  /\ mode' = [mode EXCEPT ![q] = how]
  /\ into' = [into EXCEPT ![q] = t]
  /\ Go(q, "paid")
  /\ UNCHANGED <<world, pending, got, reset, faults, committed>>

\* reconcilePendingSettlement gives a receipt up only when its payment failed or
\* can no longer be applied.
Reconcile(r) ==
  /\ r \in pending /\ ~Live(r[1])
  /\ MayStart
  /\ tx[r] = "failed"
  /\ pending' = pending \ {r}
  /\ UNCHANGED <<world, results, pc, task, reset, faults, committed>>

\* resolveInterruptedDelivery stores the terminal answer for an execution that is
\* old enough; its executor may be gone or only slow.
Resolve(r) ==
  /\ sale[r] = "executing"
  /\ MayStart
  /\ sale' = [sale EXCEPT ![r] = "terminal"]
  /\ UNCHANGED <<tx, pending, results, pc, task, reset, faults, committed>>

\* inspectResetSafety: receipts of accepted deliveries are cleared; the reset is
\* safe if no receipt and no execution is left.
Inspect ==
  /\ reset = "idle"
  /\ QuietReset => Quiet
  /\ pending' = pending \ Accepted
  /\ reset' = IF pending' = {} /\ \A r \in Receipts : sale[r] # "executing"
                THEN "safe" ELSE "idle"
  /\ UNCHANGED <<world, results, pc, task, faults, committed>>

\* runSafeReset moves the state directory, whatever it holds by now, away.
Archive ==
  /\ reset = "safe"
  /\ reset' = "idle"
  /\ pending' = {}
  /\ results' = <<>>
  /\ sale' = [r \in Receipts |-> "open"]
  /\ UNCHANGED <<tx, pc, task, faults, committed>>

\* The process ends: its tasks and its server are gone, and so is the reset.
Crash ==
  /\ Fault
  /\ pc' = [t \in Tasks |-> IF Live(t) THEN IF t \in Buyers THEN "stopped" ELSE "new" ELSE pc[t]]
  /\ Forget(Tasks)
  /\ reset' = "idle"
  /\ UNCHANGED <<world, pending, results, committed>>

------------------------------------------------------------------------------
Deliver(t) ==
  Ask(t) \/ Serve(t) \/ Commit(t) \/ Acknowledge(t) \/ Finish(t) \/ Fail(t)

Shop(b) ==
  Begin(b) \/ Quote(b) \/ Save(b) \/ Send(b) \/ Confirm(b) \/ ClearRefused(b)
  \/ Probe(b) \/ Close(b)

Next ==
  \/ \E r \in Receipts : Land(r) \/ Lapse(r) \/ Reconcile(r) \/ Resolve(r)
  \/ \E b \in Buyers : Check(b) \/ Shop(b)
  \/ \E t \in Tasks : Deliver(t)
  \/ \E q \in Recoveries, r \in Receipts, how \in {"json", "terminal"}, t \in Tasks :
       Recover(q, r, how, t)
  \/ Inspect \/ Archive \/ Crash

Spec == Init /\ [][Next]_vars

\* Node runs what was started, the ledger decides, and somebody keeps recovering,
\* reconciling, resolving and resetting until nothing is left to do.
Fairness ==
  /\ \A b \in Buyers : WF_vars(Shop(b) \/ Deliver(b))
  /\ \A r \in Receipts : WF_vars(Land(r) \/ Lapse(r) \/ Reconcile(r) \/ Resolve(r))
  /\ \A q \in Recoveries :
       /\ WF_vars(Deliver(q))
       /\ \A r \in Receipts, how \in {"json", "terminal"} : SF_vars(Recover(q, r, how, q))
  /\ SF_vars(Inspect)

FairSpec == Spec /\ Fairness

------------------------------------------------------------------------------
(* What the starter promises its user *)

\* A payment that has settled, or is on its way, leaves a trace in the active
\* files: its receipt is retained until a delivery was durably committed.  Neither
\* a crash, a failing write, a lost answer, a dropped run nor a reset loses it.
PaidIsTracked ==
  \A r \in Receipts :
    tx[r] \in {"sent", "settled"} => r \in pending \/ committed[r] # None

\* A run the result file calls complete delivered every purchase of its plan: each
\* one settled, was answered with the scenario's body, and was committed by this
\* run; and no two runs claim the delivery of one payment, although a recovery may
\* race a failed acknowledgement.
ResultsAreTrue ==
  /\ \A i \in DOMAIN results :
       results[i].status = "complete" /\ results[i].by \in Buyers =>
         \A r \in {results[i].by} \X (1 .. Plan[results[i].by]) :
           r \in results[i].accepted /\ tx[r] = "settled" /\ sale[r] = "good"
  /\ \A i, j \in DOMAIN results :
       i # j => results[i].accepted \cap results[j].accepted = {}

\* The starter can run again: the retained receipts are all given up in the end, by
\* recovery, by reconciliation, or by the reset's inspection when a delivery was
\* accepted but never acknowledged.
ReceiptsAreResolved == []<>(pending = {})
=============================================================================
