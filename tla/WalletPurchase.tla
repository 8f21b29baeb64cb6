----------------------------- MODULE WalletPurchase -----------------------------
(***************************************************************************)
(* Buying a catalog item with one mandate, and recovering a delivery that  *)
(* stalled: lib/wallet/purchase.ts over the tables of lib/wallet/journal.ts *)
(* and the payment agent of the SDK.                                       *)
(*                                                                         *)
(* Each HTTP request is a task with an agent of its own.  Tasks share the  *)
(* journal (tool calls and retained receipts) with every server, and the   *)
(* SDK's table of active payment claims with the tasks of their own server *)
(* only.  Every database statement, chain call and merchant request is a   *)
(* step, and each may fail, sometimes after it took effect.  An attempt    *)
(* signs at most one transaction, so a transaction is named by the attempt *)
(* that signed it.                                                         *)
(***************************************************************************)
EXTENDS Naturals, FiniteSets

CONSTANTS
  Attempts,    \* purchase requests
  Recoveries,  \* recovery requests, each repeated as often as the user likes
  Servers,
  Calls,       \* tool call ids
  Urls,        \* paid URLs: service, inputs and quote
  CallOf,      \* CallOf[a]: the tool call id attempt a was sent with
  UrlOf,       \* UrlOf[c]: the URL a call pays for
  ServerOf,    \* ServerOf[k]: the server that runs task k
  None,
  MaxCrashes   \* bound: server restarts of a behaviour

Tasks == Attempts \cup Recoveries
Txs == Attempts

ASSUME WalletAssumption ==
  /\ Attempts \cap Recoveries = {}
  /\ CallOf \in [Attempts -> Calls]
  /\ UrlOf \in [Calls -> Urls]
  /\ ServerOf \in [Tasks -> Servers]
  /\ None \notin Txs \cup {"active"}
  /\ "active" \notin Txs
  /\ MaxCrashes \in Nat

UrlOfTx(t) == UrlOf[CallOf[t]]

VARIABLES
  tool,      \* tool[c]: the row of ackrate_tool_calls
  receipts,  \* the rows of ackrate_payment_receipts for the mandate
  claim,     \* claim[s]: the SDK's active claim on the mandate in server s
  joined,    \* the tasks whose agent holds the current claim of their server
  pc,
  found,     \* found[k]: the transaction of the receipt task k works on
  seq,       \* the mandate's payment sequence on the ledger
  expected,  \* expected[t]: the sequence number transaction t was signed for
  chain,     \* chain[t]: what became of transaction t
  merchant,  \* merchant[t]: the merchant's redemption of t
  crashes

vars == <<tool, receipts, claim, joined, pc, found, seq, expected, chain, merchant, crashes>>
ledger == <<seq, expected, chain>>
agents == <<claim, joined>>

ToolCalls == [status : {"none", "running", "succeeded", "delivery_pending", "failed"},
              tx : Txs \cup {None}]

AttemptSteps == {"check", "reserve", "list", "adopt", "claim", "hydrate", "sequence", "save",
                 "send", "confirm", "drop", "await", "record", "ack", "clear", "release",
                 "catch", "done"}
RecoverySteps == {"idle", "retry", "await", "complete", "ack", "clear", "release"}

TypeOK ==
  /\ tool \in [Calls -> ToolCalls]
  /\ receipts \subseteq Txs
  /\ claim \in [Servers -> Txs \cup {"active", None}]
  /\ joined \subseteq Tasks
  /\ pc \in [Tasks -> AttemptSteps \cup RecoverySteps]
  /\ \A a \in Attempts : pc[a] \in AttemptSteps
  /\ \A r \in Recoveries : pc[r] \in RecoverySteps
  /\ found \in [Tasks -> Txs \cup {None}]
  /\ seq \in Nat
  /\ expected \in [Txs -> Nat]
  /\ chain \in [Txs -> {"none", "sent", "settled", "rejected"}]
  /\ merchant \in [Txs -> {"none", "executing", "ok", "bad"}]
  /\ crashes \in 0 .. MaxCrashes

Init ==
  /\ tool = [c \in Calls |-> [status |-> "none", tx |-> None]]
  /\ receipts = {}
  /\ claim = [s \in Servers |-> None]
  /\ joined = {}
  /\ pc = [k \in Tasks |-> IF k \in Attempts THEN "check" ELSE "idle"]
  /\ found = [k \in Tasks |-> None]
  /\ seq = 0
  /\ expected = [t \in Txs |-> 0]
  /\ chain = [t \in Txs |-> "none"]
  /\ merchant = [t \in Txs |-> "none"]
  /\ crashes = 0

-----------------------------------------------------------------------------
(* The journal and the claims of one server.                               *)

Goto(k, step) == pc' = [pc EXCEPT ![k] = step]

Write(c, status, t) == tool' = [tool EXCEPT ![c] = [status |-> status, tx |-> t]]

\* A database write whose call reports an error may have committed or not.
MaybeWrite(c, status, t) == Write(c, status, t) \/ UNCHANGED tool

\* The request ends and its agent is dropped; a claim it held stays in the table.
Leave(k, step) ==
  /\ Goto(k, step)
  /\ joined' = joined \ {k}
  /\ found' = [found EXCEPT ![k] = None]

Here(k) == ServerOf[k]

\* A mutant: a claim is never shared.
CanJoinFree(k, t) == claim[Here(k)] = None

\* Recovery may share the exact retained operation, never an active broadcast
\* or another receipt.
CanJoin(k, t) == claim[Here(k)] \in {None, t}

Join(k, t) ==
  /\ claim' = [claim EXCEPT ![Here(k)] = t]
  /\ joined' = joined \cup {k}

\* Every agent that shared the claim sees that it is gone.
Release(k) ==
  IF k \in joined
    THEN /\ claim' = [claim EXCEPT ![Here(k)] = None]
         /\ joined' = {j \in joined : Here(j) # Here(k)}
    ELSE UNCHANGED agents

\* What a request for the paid resource does at the merchant, if it arrives.
Requested(t) ==
  \/ /\ chain[t] = "settled"
     /\ merchant[t] = "none"
     /\ merchant' = [merchant EXCEPT ![t] = "executing"]
  \/ UNCHANGED merchant

-----------------------------------------------------------------------------
(* A purchase request, up to its own payment.                              *)

\* A retained receipt refuses the purchase before its call is reserved.
Check(a) ==
  /\ pc[a] = "check"
  /\ \/ receipts = {} /\ Goto(a, "reserve")
     \/ Goto(a, "done")
  /\ UNCHANGED <<tool, receipts, agents, found, ledger, merchant, crashes>>

\* A mutant: the reservation overwrites the call's row.
ReserveAgain(a) ==
  /\ pc[a] = "reserve"
  /\ Write(CallOf[a], "running", None)
  /\ Goto(a, "list")
  /\ UNCHANGED <<receipts, agents, found, ledger, merchant, crashes>>

Reserve(a) ==
  /\ pc[a] = "reserve"
  /\ IF tool[CallOf[a]].status = "none"
       THEN \/ Write(CallOf[a], "running", None) /\ Goto(a, "list")
            \/ MaybeWrite(CallOf[a], "running", None) /\ Goto(a, "done")
       ELSE UNCHANGED tool /\ Goto(a, "done")
  /\ UNCHANGED <<receipts, agents, found, ledger, merchant, crashes>>

\* fetch reads the receipts; preflight, trustline and database may fail first.
List(a) ==
  /\ pc[a] = "list"
  /\ \/ \E t \in receipts : found' = [found EXCEPT ![a] = t] /\ Goto(a, "adopt")
     \/ receipts = {} /\ UNCHANGED found /\ Goto(a, "claim")
     \/ UNCHANGED found /\ Goto(a, "catch")
  /\ UNCHANGED <<tool, receipts, agents, ledger, merchant, crashes>>

\* A receipt was found: the request shares its claim and ends, or just ends.
Adopt(a) ==
  /\ pc[a] = "adopt"
  /\ Goto(a, "catch")
  /\ IF CanJoin(a, found[a])
       THEN Join(a, found[a]) /\ UNCHANGED found
       ELSE UNCHANGED agents /\ found' = [found EXCEPT ![a] = None]
  /\ UNCHANGED <<tool, receipts, ledger, merchant, crashes>>

\* The quoted price was asked for; now one payment operation per server.
Claim(a) ==
  /\ pc[a] = "claim"
  /\ \/ /\ claim[Here(a)] = None
        /\ Join(a, "active")
        /\ Goto(a, "hydrate")
     \/ UNCHANGED agents /\ Goto(a, "catch")
  /\ UNCHANGED <<tool, receipts, found, ledger, merchant, crashes>>

\* A mutant: the receipts are not read again under the claim.
HydrateUnread(a) ==
  /\ pc[a] = "hydrate"
  /\ Goto(a, "sequence")
  /\ UNCHANGED <<tool, receipts, agents, found, ledger, merchant, crashes>>

\* Under its claim the agent reads the receipts once more.
Hydrate(a) ==
  /\ pc[a] = "hydrate"
  /\ \/ /\ receipts = {}
        /\ Goto(a, "sequence")
        /\ UNCHANGED <<agents, found>>
     \/ \E t \in receipts : /\ Join(a, t)
                            /\ found' = [found EXCEPT ![a] = t]
                            /\ Goto(a, "catch")
     \/ Release(a) /\ Goto(a, "catch") /\ UNCHANGED found
  /\ UNCHANGED <<tool, receipts, ledger, merchant, crashes>>

\* The mandate's sequence number is read and the transaction signed.
Sequence(a) ==
  /\ pc[a] = "sequence"
  /\ \/ /\ expected' = [expected EXCEPT ![a] = seq]
        /\ Goto(a, "save")
        /\ UNCHANGED agents
     \/ Release(a) /\ Goto(a, "catch") /\ UNCHANGED expected
  /\ UNCHANGED <<tool, receipts, found, seq, chain, merchant, crashes>>

\* The receipt is retained before the transaction leaves.
Save(a) ==
  /\ pc[a] = "save"
  /\ \/ /\ receipts' = receipts \cup {a}
        /\ Goto(a, "send")
        /\ UNCHANGED agents
     \/ /\ receipts' \in {receipts, receipts \cup {a}}
        /\ Release(a)
        /\ Goto(a, "drop")
  /\ UNCHANGED <<tool, found, ledger, merchant, crashes>>

\* The transaction may be lost on its way without the sender knowing.
Send(a) ==
  /\ pc[a] = "send"
  /\ chain' \in {chain, [chain EXCEPT ![a] = "sent"]}
  /\ Goto(a, "confirm")
  /\ UNCHANGED <<tool, receipts, agents, found, seq, expected, merchant, crashes>>

-----------------------------------------------------------------------------
(* What became of the payment.                                             *)

\* The payment is confirmed; the claim is kept and the paid request sent at once.
Settled(a) ==
  /\ pc[a] = "confirm"
  /\ chain[a] = "settled"
  /\ Join(a, a)
  /\ found' = [found EXCEPT ![a] = a]
  /\ Requested(a)
  /\ Goto(a, "await")
  /\ UNCHANGED <<tool, receipts, ledger, crashes>>

\* Only a final contract error releases the claim; the receipt goes after it.
Rejected(a) ==
  /\ pc[a] = "confirm"
  /\ chain[a] = "rejected"
  /\ Release(a)
  /\ Goto(a, "drop")
  /\ UNCHANGED <<tool, receipts, found, ledger, merchant, crashes>>

\* Any other answer leaves the settlement open, whatever the ledger did.
Uncertain(a) ==
  /\ pc[a] = "confirm"
  /\ Join(a, a)
  /\ found' = [found EXCEPT ![a] = a]
  /\ Goto(a, "catch")
  /\ UNCHANGED <<tool, receipts, ledger, merchant, crashes>>

Drop(a) ==
  /\ pc[a] = "drop"
  /\ receipts' \in {receipts, receipts \ {a}}
  /\ Goto(a, "catch")
  /\ UNCHANGED <<tool, agents, found, ledger, merchant, crashes>>

-----------------------------------------------------------------------------
(* Delivery with the settled proof, by the purchase or by a recovery.      *)

\* A mutant: a recovery that fails runs the purchase's error path.
FailedPurchase(k) == Goto(k, "catch") /\ UNCHANGED <<joined, found>>

Failed(k) == IF k \in Attempts THEN Goto(k, "catch") /\ UNCHANGED <<joined, found>>
                               ELSE Leave(k, "idle")

\* A recovery takes up the one retained receipt, unless the merchant's record
\* shows a terminal failure or no longer accepts the proof.
Recover(r) ==
  /\ pc[r] = "idle"
  /\ \E t \in receipts : /\ receipts = {t}
                         /\ merchant[t] # "bad"
                         /\ found' = [found EXCEPT ![r] = t]
  /\ Goto(r, "retry")
  /\ UNCHANGED <<tool, receipts, agents, ledger, merchant, crashes>>

\* retryDelivery shares the claim and sends the request.
Retry(r) ==
  /\ pc[r] = "retry"
  /\ IF CanJoin(r, found[r])
       THEN Join(r, found[r]) /\ Requested(found[r]) /\ Goto(r, "await") /\ UNCHANGED found
       ELSE Leave(r, "idle") /\ UNCHANGED <<claim, merchant>>
  /\ UNCHANGED <<tool, receipts, ledger, crashes>>

\* A mutant: any complete response is taken for the output.
DeliveredUnvalidated(k) ==
  /\ pc[k] = "await"
  /\ merchant[found[k]] \in {"ok", "bad"}
  /\ Goto(k, IF k \in Attempts THEN "record" ELSE "complete")
  /\ UNCHANGED <<tool, receipts, agents, found, ledger, merchant, crashes>>

\* The whole response arrived and is this purchase's output.
Delivered(k) ==
  /\ pc[k] = "await"
  /\ merchant[found[k]] = "ok"
  /\ Goto(k, IF k \in Attempts THEN "record" ELSE "complete")
  /\ UNCHANGED <<tool, receipts, agents, found, ledger, merchant, crashes>>

\* No response, an error status, an incomplete or a wrong body.
Undelivered(k) ==
  /\ pc[k] = "await"
  /\ Failed(k)
  /\ UNCHANGED <<tool, receipts, claim, ledger, merchant, crashes>>

Record(a) ==
  /\ pc[a] = "record"
  /\ \/ Write(CallOf[a], "succeeded", a) /\ Goto(a, "ack")
     \/ MaybeWrite(CallOf[a], "succeeded", a) /\ Goto(a, "catch")
  /\ UNCHANGED <<receipts, agents, found, ledger, merchant, crashes>>

\* completePendingToolCalls: the calls that wait for this very transaction.
Waiting(t) == {c \in Calls : tool[c] = [status |-> "delivery_pending", tx |-> t]}

Succeed(t) ==
  tool' = [c \in Calls |-> IF c \in Waiting(t) THEN [status |-> "succeeded", tx |-> t]
                                               ELSE tool[c]]

Complete(r) ==
  /\ pc[r] = "complete"
  /\ \/ /\ Succeed(found[r])
        /\ Goto(r, "ack")
        /\ UNCHANGED <<joined, found>>
     \/ /\ Succeed(found[r]) \/ UNCHANGED tool
        /\ Leave(r, "idle")
  /\ UNCHANGED <<receipts, claim, ledger, merchant, crashes>>

Finished(k) == Leave(k, IF k \in Attempts THEN "done" ELSE "idle")

\* acknowledgeDelivery: share the claim, delete the receipt, release the claim.
Ack(k) ==
  /\ pc[k] = "ack"
  /\ IF CanJoin(k, found[k])
       THEN Join(k, found[k]) /\ Goto(k, "clear") /\ UNCHANGED found
       ELSE Finished(k) /\ UNCHANGED claim
  /\ UNCHANGED <<tool, receipts, ledger, merchant, crashes>>

Clear(k) ==
  /\ pc[k] = "clear"
  /\ \/ /\ receipts' = receipts \ {found[k]}
        /\ Goto(k, "release")
        /\ UNCHANGED <<joined, found>>
     \/ /\ receipts' \in {receipts, receipts \ {found[k]}}
        /\ Finished(k)
  /\ UNCHANGED <<tool, claim, ledger, merchant, crashes>>

LetGo(k) ==
  /\ pc[k] = "release"
  /\ Release(k)
  /\ Goto(k, IF k \in Attempts THEN "done" ELSE "idle")
  /\ found' = [found EXCEPT ![k] = None]
  /\ UNCHANGED <<tool, receipts, ledger, merchant, crashes>>

\* A mutant: whatever receipt stopped the attempt is its own.
AnyReceipt(a, t) == t # None

\* Another tab may have saved the receipt that stopped this attempt: only one
\* for the attempt's own URL makes it wait for a delivery.
Own(a, t) == t # None /\ UrlOfTx(t) = UrlOf[CallOf[a]]

Catch(a) ==
  /\ pc[a] = "catch"
  /\ \/ IF Own(a, found[a]) THEN Write(CallOf[a], "delivery_pending", found[a])
                            ELSE Write(CallOf[a], "failed", None)
     \/ UNCHANGED tool
  /\ Leave(a, "done")
  /\ UNCHANGED <<receipts, claim, ledger, merchant, crashes>>

-----------------------------------------------------------------------------
(* The ledger, the merchant, and servers that restart.                     *)

\* The registry takes a payment only for the sequence number it expects.
Execute(t) ==
  /\ chain[t] = "sent"
  /\ IF expected[t] = seq
       THEN chain' = [chain EXCEPT ![t] = "settled"] /\ seq' = seq + 1
       ELSE chain' = [chain EXCEPT ![t] = "rejected"] /\ UNCHANGED seq
  /\ UNCHANGED <<tool, receipts, agents, pc, found, expected, merchant, crashes>>

\* The registry refuses it for another reason: budget, expiry, revocation.
Refuse(t) ==
  /\ chain[t] = "sent"
  /\ chain' = [chain EXCEPT ![t] = "rejected"]
  /\ UNCHANGED <<tool, receipts, agents, pc, found, seq, expected, merchant, crashes>>

Fulfil(t) ==
  /\ merchant[t] = "executing"
  /\ \E outcome \in {"ok", "bad"} : merchant' = [merchant EXCEPT ![t] = outcome]
  /\ UNCHANGED <<tool, receipts, agents, pc, found, ledger, crashes>>

\* The process ends: its requests and its claims go, the journal stays.
Crash(s) ==
  /\ crashes < MaxCrashes
  /\ crashes' = crashes + 1
  /\ pc' = [k \in Tasks |-> IF Here(k) # s THEN pc[k]
                            ELSE IF k \in Recoveries THEN "idle"
                            ELSE IF pc[k] = "check" THEN "check" ELSE "done"]
  /\ found' = [k \in Tasks |-> IF Here(k) = s THEN None ELSE found[k]]
  /\ claim' = [claim EXCEPT ![s] = None]
  /\ joined' = {j \in joined : Here(j) # s}
  /\ UNCHANGED <<tool, receipts, ledger, merchant>>

Buy(a) ==
  \/ Check(a) \/ Reserve(a) \/ List(a) \/ Adopt(a) \/ Claim(a) \/ Hydrate(a) \/ Sequence(a)
  \/ Save(a) \/ Send(a) \/ Settled(a) \/ Rejected(a) \/ Uncertain(a) \/ Drop(a)
  \/ Record(a) \/ Catch(a)

Deliver(k) == Delivered(k) \/ Undelivered(k) \/ Ack(k) \/ Clear(k) \/ LetGo(k)

Next ==
  \/ \E a \in Attempts : Buy(a)
  \/ \E r \in Recoveries : Recover(r) \/ Retry(r) \/ Complete(r)
  \/ \E k \in Tasks : Deliver(k)
  \/ \E t \in Txs : Execute(t) \/ Refuse(t) \/ Fulfil(t)
  \/ \E s \in Servers : Crash(s)

Spec == Init /\ [][Next]_vars

-----------------------------------------------------------------------------
(* Safety.                                                                 *)

PaidFor(a) == chain[a] \in {"sent", "settled"}

\* One tool call id sends at most one payment, however often and on whichever
\* server its request is repeated (reserveToolCall).
OnePaymentPerCall ==
  \A a, b \in Attempts : PaidFor(a) /\ PaidFor(b) /\ CallOf[a] = CallOf[b] => a = b

\* A payment that left, and was not finally rejected, keeps its receipt until the
\* merchant has stored its output: no error, crash or lost answer discards the
\* only means to collect what was paid for.
ReceiptUntilServed ==
  \A t \in Txs : PaidFor(t) => t \in receipts \/ merchant[t] = "ok"

\* A call reported as succeeded shows the output of a settled payment for its own
\* URL, also when it only waited for a receipt another tab had saved; it is
\* reported as failed, which tells the user to start a new purchase, only when no
\* payment of its own is out or can still settle.
OutcomesAreTrue ==
  /\ \A c \in Calls : tool[c].status = "succeeded" =>
       /\ tool[c].tx # None
       /\ chain[tool[c].tx] = "settled"
       /\ merchant[tool[c].tx] = "ok"
       /\ UrlOfTx(tool[c].tx) = UrlOf[c]
  /\ \A a \in Attempts : tool[CallOf[a]].status = "failed" => ~PaidFor(a)

\* On one server a new payment leaves only when no receipt of another payment made
\* there is retained, whatever crashes, lost answers and recoveries went before.
SendAloneOnServer ==
  [][\A t, u \in Txs : chain[t] = "none" /\ chain'[t] = "sent" /\ u \in receipts
       /\ ServerOf[u] = ServerOf[t] => u = t]_vars

\* A new payment leaves only when no receipt of another one is retained
\* ("Resolve that receipt before any new purchase").
SendOnlyWhenResolved ==
  [][\A t \in Txs : chain[t] = "none" /\ chain'[t] = "sent" => receipts = {t}]_vars

\* A receipt of a settled payment is deleted only once a call of the journal
\* records the payment's output ("any business result is durably recorded").
AcknowledgedIsRecorded ==
  [][\A t \in receipts \ receipts' : chain[t] = "settled" =>
       \E c \in Calls : tool[c] = [status |-> "succeeded", tx |-> t]]_vars

-----------------------------------------------------------------------------
(* Liveness.  A request runs until it ends; the merchant finishes what it  *)
(* began; and a user who keeps pressing Recover, before the proof expires, *)
(* is one whose steps do not fail for ever.                                *)

Progresses(r) ==
  /\ WF_vars(Retry(r) \/ Complete(r) \/ Deliver(r))
  /\ SF_vars(Recover(r))
  /\ SF_vars(Retry(r) /\ pc'[r] = "await")
  /\ SF_vars(Retry(r) /\ merchant' # merchant)
  /\ SF_vars(Delivered(r))
  /\ SF_vars(Complete(r) /\ pc'[r] = "ack")
  /\ SF_vars(Clear(r) /\ pc'[r] = "release")

FairSpec ==
  /\ Spec
  /\ \A a \in Attempts : WF_vars(Buy(a) \/ Deliver(a))
  /\ \A r \in Recoveries : Progresses(r)
  /\ \A t \in Txs : WF_vars(Fulfil(t))

\* Every settled payment is in the end either acknowledged or known to the
\* merchant as a terminal failure, which keeps its receipt for reconciliation.
SettledIsResolved ==
  \A t \in Txs : chain[t] = "settled" ~> merchant[t] = "bad" \/ t \notin receipts

\* A claim on a payment is in the end released, or its receipt is still there to
\* recover from ("All attached agents observe its eventual release").
ClaimFollowsReceipt ==
  \A s \in Servers, t \in Txs : []<>(claim[s] # t \/ t \in receipts)

=============================================================================
