---------------------------- MODULE ExpressWorkspace ----------------------------
(***************************************************************************)
(* One workspace of the hosted testnet demo, lib/express-demo.ts: a        *)
(* mandate of three payments, four purchases of which the contract must    *)
(* refuse the last, and a public bridge through which consumers with       *)
(* mandates of their own buy from the same merchant.                       *)
(*                                                                         *)
(* One action at a time uses the workspace (busy).  The workspace, its     *)
(* receipts and its merchant live and die together, in memory: an outcome  *)
(* nobody can reconcile disposes of all of them.  A hosted payment is      *)
(* named by the purchase number it was made for, and by how many were made *)
(* for it before.                                                          *)
(***************************************************************************)
EXTENDS Naturals, FiniteSets

CONSTANTS
  Operations,   \* ids of hosted purchases; a client repeats one to ask again
  Consumers,    \* payments of external consumers, each with its own proof
  Mandates,     \* the external consumers' mandates
  MandateOf,    \* MandateOf[x]: the mandate of external payment x
  None,
  MaxFailures   \* bound: failed purchases of a behaviour that leave it alive

Budget == 3     \* payments of PRICE_XLM that fit BUDGET_XLM
Purchases == 1 .. 4
Payments == Purchases \X (0 .. MaxFailures)
Responses == [outcome : {"delivered", "blocked"}, attempt : Purchases, tx : Payments \cup {None}]

ASSUME WorkspaceAssumption ==
  /\ IsFiniteSet(Consumers)
  /\ MandateOf \in [Consumers -> Mandates]
  /\ MaxFailures \in Nat
  /\ None \notin Payments \cup Responses

VARIABLES
  alive,      \* is the workspace in the table?
  pc,         \* the step of the action that holds it, "idle" without one
  operation,  \* the operation it was asked for, or the payment it forwards
  aborted,    \* has its client left?
  nextIndex,
  served,
  settled,    \* settled[n]: settledByAttempt
  stored,     \* stored[o]: purchaseOperations
  receipt,    \* the SDK's retained receipt and claim
  chain,      \* chain[p]: the hosted payments on the ledger
  merchant,   \* payments the merchant has delivered
  failures,
  public,     \* publicTransactions
  report,     \* publicMandateId, once publicBlocked
  external,   \* the external payments settled on the ledger
  answers     \* history: answers[o]: what clients were told of operation o

vars == <<alive, pc, operation, aborted, nextIndex, served, settled, stored, receipt, chain,
          merchant, failures, public, report, external, answers>>

action == <<operation, aborted>>
progress == <<nextIndex, served, settled, stored>>
bridge == <<public, report, external>>

TypeOK ==
  /\ alive \in BOOLEAN
  /\ pc \in {"idle", "request", "pay", "send", "deliver", "recover", "forward"}
  /\ operation \in Operations \cup Consumers \cup {None}
  /\ aborted \in BOOLEAN
  /\ nextIndex \in 0 .. 4
  /\ served \in 0 .. Budget
  /\ settled \in [Purchases -> Payments \cup {None}]
  /\ stored \in [Operations -> Responses \cup {None}]
  /\ receipt \in Payments \cup {None}
  /\ chain \in [Payments -> {"none", "sent", "settled", "rejected"}]
  /\ merchant \subseteq Payments \cup Consumers
  /\ failures \in 0 .. MaxFailures
  /\ public \subseteq Consumers
  /\ report \in Mandates \cup {None}
  /\ external \subseteq Consumers
  /\ answers \in [Operations -> SUBSET Responses]

Init ==
  /\ alive = TRUE
  /\ pc = "idle"
  /\ operation = None
  /\ aborted = FALSE
  /\ nextIndex = 0
  /\ served = 0
  /\ settled = [n \in Purchases |-> None]
  /\ stored = [o \in Operations |-> None]
  /\ receipt = None
  /\ chain = [p \in Payments |-> "none"]
  /\ merchant = {}
  /\ failures = 0
  /\ public = {}
  /\ report = None
  /\ external = {}
  /\ answers = [o \in Operations |-> {}]

Spent == Cardinality({p \in Payments : chain[p] = "settled"})

Current == nextIndex + 1

\* The payment the running purchase would make.
NextPayment == <<Current, Cardinality({p \in Payments : p[1] = Current /\ chain[p] # "none"})>>

-----------------------------------------------------------------------------
(* How a hosted purchase ends.                                             *)

Finish == pc' = "idle" /\ operation' = None /\ aborted' = FALSE

\* Kept under the operation id, and returned.
Answer(response) ==
  /\ stored' = [stored EXCEPT ![operation] = response]
  /\ answers' = [answers EXCEPT ![operation] = @ \cup {response}]

Delivered(p) ==
  /\ served' = served + 1
  /\ nextIndex' = Current
  /\ Answer([outcome |-> "delivered", attempt |-> Current, tx |-> p])
  /\ Finish
  /\ UNCHANGED <<alive, failures, settled>>

\* A mutant: the refused purchase is counted with the others.
BlockedIsServed ==
  /\ nextIndex' = Current
  /\ served' = served + 1
  /\ Answer([outcome |-> "blocked", attempt |-> Current, tx |-> None])
  /\ Finish
  /\ UNCHANGED <<alive, failures, settled>>

Blocked ==
  /\ nextIndex' = Current
  /\ Answer([outcome |-> "blocked", attempt |-> Current, tx |-> None])
  /\ Finish
  /\ UNCHANGED <<alive, failures, served, settled>>

Burn ==
  /\ alive' = FALSE
  /\ Finish
  /\ UNCHANGED <<failures, progress, answers>>

\* Nothing was charged: the same purchase may be asked for again.
Reopen ==
  /\ failures' = failures + 1
  /\ failures < MaxFailures
  /\ Finish
  /\ UNCHANGED <<alive, progress, answers>>

\* A mutant: any refusal is the budget's.
IsBudgetOnAnyError(kind) == kind # "pending"

IsBudget(kind) == Current = 4 /\ kind = "budget"

\* The catch block of purchaseExpressDemoSession.  A delivery that is pending is
\* retried once; a client that left, or a payment without its delivery, burns the
\* workspace.
Fails(kind) ==
  CASE aborted -> Burn
    [] ~aborted /\ kind = "pending" ->
         /\ pc' = "recover"
         /\ UNCHANGED <<alive, action, failures, progress, answers>>
    [] ~aborted /\ kind # "pending" /\ settled[Current] # None -> Burn
    [] ~aborted /\ kind # "pending" /\ settled[Current] = None ->
         IF IsBudget(kind) THEN Blocked ELSE Reopen

-----------------------------------------------------------------------------
(* A hosted purchase.                                                      *)

\* A request for another purchase than the next one is refused as stale.
Purchase(o, n) ==
  /\ alive
  /\ pc = "idle"
  /\ stored[o] = None
  /\ n = Current
  /\ pc' = "request"
  /\ operation' = o
  /\ aborted' = FALSE
  /\ UNCHANGED <<alive, progress, receipt, chain, merchant, failures, bridge, answers>>

\* The same operation with the same inputs is answered from the record.
Replay(o, n) ==
  /\ alive
  /\ pc = "idle"
  /\ stored[o] # None
  /\ stored[o].attempt = n
  /\ answers' = [answers EXCEPT ![o] = @ \cup {stored[o]}]
  /\ UNCHANGED <<alive, pc, action, progress, receipt, chain, merchant, failures, bridge>>

Abort ==
  /\ pc \notin {"idle", "forward"}
  /\ aborted' = TRUE
  /\ UNCHANGED <<alive, pc, operation, progress, receipt, chain, merchant, failures, bridge,
                 answers>>

\* The unpaid request, which a retained receipt forbids.
Request ==
  /\ pc = "request"
  /\ \/ receipt # None /\ Fails("pending")
     \/ receipt = None /\ Fails("plain")
     \/ /\ receipt = None
        /\ ~aborted
        /\ pc' = "pay"
        /\ UNCHANGED <<alive, action, progress, failures, answers>>
  /\ UNCHANGED <<receipt, chain, merchant, bridge>>

\* The contract is asked first; only then is a payment signed and its receipt kept.
Pay ==
  /\ pc = "pay"
  /\ \/ Fails(IF Spent = Budget THEN "budget" ELSE "plain") /\ UNCHANGED receipt
     \/ Fails("plain") /\ UNCHANGED receipt
     \/ /\ Spent < Budget
        /\ receipt' = NextPayment
        /\ pc' = "send"
        /\ UNCHANGED <<alive, action, progress, failures, answers>>
  /\ UNCHANGED <<chain, merchant, bridge>>

Settles ==
  /\ Spent < Budget
  /\ chain' = [chain EXCEPT ![receipt] = "settled"]
  /\ settled' = [settled EXCEPT ![Current] = receipt]
  /\ pc' = "deliver"
  /\ UNCHANGED <<alive, action, nextIndex, served, stored, receipt, failures, answers>>

Rejects ==
  /\ chain' = [chain EXCEPT ![receipt] = "rejected"]
  /\ receipt' = None
  /\ Fails(IF Spent = Budget THEN "budget" ELSE "plain")

\* A mutant: a submission without an answer is taken for a refusal.
UncertainIsRefused ==
  /\ chain' = [chain EXCEPT ![receipt] = "sent"]
  /\ receipt' = None
  /\ Fails("plain")

\* The submission's answer is lost: it may settle, later.
Uncertain ==
  /\ chain' = [chain EXCEPT ![receipt] = "sent"]
  /\ Fails("pending")
  /\ UNCHANGED receipt

Send ==
  /\ pc = "send"
  /\ Settles \/ Rejects \/ Uncertain
  /\ UNCHANGED <<merchant, bridge>>

\* The merchant's answer is accepted and acknowledged; a fourth delivery is an error.
Accept(p) ==
  /\ Current # 4
  /\ Delivered(p)
  /\ receipt' = None

Deliver ==
  /\ pc = "deliver"
  /\ \/ ~aborted /\ merchant' = merchant \cup {receipt} /\ Accept(receipt)
     \/ /\ Fails("pending") \/ Fails("plain")
        /\ merchant' \in {merchant, merchant \cup {receipt}}
        /\ UNCHANGED receipt
  /\ UNCHANGED <<chain, bridge>>

\* A mutant: the workspace is left open.
RecoverOrReopen ==
  /\ pc = "recover"
  /\ \/ /\ ~aborted
        /\ chain[receipt] = "settled"
        /\ merchant' = merchant \cup {receipt}
        /\ Accept(receipt)
     \/ Reopen /\ UNCHANGED <<receipt, merchant>>
  /\ UNCHANGED <<chain, bridge>>

\* A mutant: whatever the merchant answers is a delivery.
RecoverAnyAnswer ==
  /\ pc = "recover"
  /\ \/ /\ ~aborted
        /\ merchant' = IF chain[receipt] = "settled" THEN merchant \cup {receipt} ELSE merchant
        /\ Accept(receipt)
     \/ Burn /\ UNCHANGED <<receipt, merchant>>
  /\ UNCHANGED <<chain, bridge>>

\* The one retry presents the same proof, and burns the workspace if it fails.
Recover ==
  /\ pc = "recover"
  /\ \/ /\ ~aborted
        /\ chain[receipt] = "settled"
        /\ merchant' = merchant \cup {receipt}
        /\ Accept(receipt)
     \/ Burn /\ UNCHANGED <<receipt, merchant>>
  /\ UNCHANGED <<chain, bridge>>

\* The ledger decides on a submission whose answer was lost.
Execute(p) ==
  /\ chain[p] = "sent"
  /\ \/ Spent < Budget /\ chain' = [chain EXCEPT ![p] = "settled"]
     \/ chain' = [chain EXCEPT ![p] = "rejected"]
  /\ UNCHANGED <<alive, pc, action, progress, receipt, merchant, failures, bridge, answers>>

-----------------------------------------------------------------------------
(* The public bridge.                                                      *)

\* A consumer elsewhere pays with its own mandate.
PayOutside(x) ==
  /\ x \notin external
  /\ Cardinality({y \in external : MandateOf[y] = MandateOf[x]}) < Budget
  /\ external' = external \cup {x}
  /\ UNCHANGED <<alive, pc, action, progress, receipt, chain, merchant, failures, public,
                 report, answers>>

Forward(x) ==
  /\ alive
  /\ pc = "idle"
  /\ x \in external
  /\ pc' = "forward"
  /\ operation' = x
  /\ UNCHANGED <<alive, aborted, progress, receipt, chain, merchant, failures, bridge, answers>>

\* A delivery is counted once per payment; one that came too late is not counted.
Forwarded ==
  /\ pc = "forward"
  /\ merchant' \in {merchant, merchant \cup {operation}}
  /\ \/ operation \in merchant' /\ public' = public \cup {operation}
     \/ UNCHANGED public
  /\ Finish
  /\ UNCHANGED <<alive, progress, receipt, chain, failures, report, external, answers>>

\* The registry is asked whether mandate m has spent its whole budget.
Report(m) ==
  /\ alive
  /\ pc = "idle"
  /\ report = None
  /\ Cardinality(public) = 3
  /\ Cardinality({x \in external : MandateOf[x] = m}) = Budget
  /\ report' = m
  /\ UNCHANGED <<alive, pc, action, progress, receipt, chain, merchant, failures, public,
                 external, answers>>

\* A reset, or thirty minutes without a new action.
End ==
  /\ alive
  /\ alive' = FALSE
  /\ UNCHANGED <<pc, action, progress, receipt, chain, merchant, failures, bridge, answers>>

-----------------------------------------------------------------------------

Hosted == Request \/ Pay \/ Send \/ Deliver \/ Recover

Next ==
  \/ \E o \in Operations, n \in Purchases : Purchase(o, n) \/ Replay(o, n)
  \/ Abort \/ Hosted
  \/ \E p \in Payments : Execute(p)
  \/ \E x \in Consumers : PayOutside(x) \/ Forward(x)
  \/ Forwarded
  \/ \E m \in Mandates : Report(m)
  \/ End

Spec == Init /\ [][Next]_vars

-----------------------------------------------------------------------------

\* However purchases fail, are repeated or abandoned, no purchase is charged twice:
\* of all the payments made for it at most one is out or settled.
OneChargePerPurchase ==
  \A p, q \in Payments :
    p[1] = q[1] /\ chain[p] \in {"sent", "settled"} /\ chain[q] \in {"sent", "settled"}
      => p = q

\* A workspace that can be used again owes nothing and is owed nothing: every
\* payment it made settled and was served, or was refused.
IdleIsReconciled ==
  alive /\ pc = "idle" =>
    /\ receipt = None
    /\ \A p \in Payments : chain[p] # "sent"
    /\ served = Spent
    /\ {p \in Payments : chain[p] = "settled"} \subseteq merchant

\* An operation id has one answer, however often it is asked for; a delivery is told
\* only of a payment that settled for that very purchase and that the merchant
\* served, and of no payment to two operations.
AnswersAreTrue ==
  \A o \in Operations : \A r \in answers[o] :
    /\ answers[o] = {r}
    /\ r.outcome = "delivered" =>
         /\ chain[r.tx] = "settled"
         /\ r.tx \in merchant
         /\ r.tx[1] = r.attempt
         /\ \A q \in Operations \ {o} : \A other \in answers[q] : other.tx # r.tx

\* A demo is shown as ended by an exhausted budget only when the ledger says so:
\* the hosted one after its whole budget was taken and served, an outside one after
\* three deliveries and on the mandate the registry was asked for, not on its word.
EndIsExhaustion ==
  /\ \A o \in Operations : \A r \in answers[o] :
       r.outcome = "blocked" => Spent = Budget /\ served = Budget
  /\ report # None =>
       /\ Cardinality({x \in external : MandateOf[x] = report}) = Budget
       /\ Cardinality(public) >= 3
       /\ public \subseteq external \cap merchant

=============================================================================
