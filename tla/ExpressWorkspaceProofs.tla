------------------------- MODULE ExpressWorkspaceProofs -------------------------
(***************************************************************************)
(* Proofs about ExpressWorkspace, for any operations, outside consumers    *)
(* and number of failures.                                                 *)
(*                                                                         *)
(* A workspace is good for something as long as it is in the table or an   *)
(* action still holds it (Open).  For that long, what the purchase under   *)
(* way may owe is all in the retained receipt, and the count of deliveries *)
(* is the count of charges; afterwards only the ledger moves.              *)
(***************************************************************************)
EXTENDS ExpressWorkspace, FiniteSetTheorems, TLAPS

Open == alive \/ pc # "idle"

Buying == pc \in {"request", "pay", "send", "deliver", "recover"}

\* The payments made so far for purchase n, in the order they were made.
Used(n) == {p \in Payments : p[1] = n /\ chain[p] # "none"}
Tries(n) == Cardinality(Used(n))

Paid == {p \in Payments : chain[p] = "settled"}

\* A purchase's payments are numbered without a gap, and no later purchase has any.
\* Only a failure that left the workspace alive made room for another one.
Numbered ==
  /\ \A n \in Purchases : Used(n) = {n} \X (0 .. Tries(n) - 1)
  /\ \A p \in Payments : p[1] > Current => chain[p] = "none"
  /\ Open /\ pc \notin {"deliver", "recover"} /\ Current \in Purchases =>
       Tries(Current) <= failures

\* The receipt is what the running purchase may owe.
Retained ==
  /\ Open /\ pc \in {"idle", "forward", "request", "pay"} => receipt = None
  /\ pc = "send" => receipt = NextPayment
  /\ pc = "deliver" => chain[receipt] = "settled" /\ settled[Current] = receipt
  /\ pc = "recover" => chain[receipt] # "none"
  /\ pc \in {"send", "deliver", "recover"} => receipt \in Payments /\ receipt[1] = Current

\* Nothing else is out, and what was charged was served.
Reconciled ==
  /\ Open => \A p \in Payments :
       /\ chain[p] = "sent" => pc = "recover" /\ p = receipt
       /\ chain[p] = "settled" => p \in merchant \/ p = receipt
       /\ p[1] = Current /\ chain[p] = "settled" => pc \in {"deliver", "recover"} /\ p = receipt
  /\ Open => \A n \in Purchases :
       n > nextIndex => settled[n] = None \/ (pc \in {"deliver", "recover"} /\ n = Current)

\* Each purchase but the refused one was charged and served once.
Counted ==
  /\ Buying => nextIndex <= 3
  /\ served = (IF nextIndex = 4 THEN Budget ELSE nextIndex)
  /\ Spent <= Budget
  /\ Open => Spent = served + (IF pc \in {"deliver", "recover"} /\ chain[receipt] = "settled" THEN 1 ELSE 0)

\* An operation is answered once, for the purchase it made.
Answered ==
  /\ Buying => operation \in Operations /\ stored[operation] = None
  /\ \A o \in Operations :
       IF stored[o] = None THEN answers[o] = {} ELSE answers[o] = {stored[o]}
  /\ \A o \in Operations : stored[o] # None =>
       /\ stored[o].attempt <= nextIndex
       /\ stored[o].outcome = "delivered" =>
            /\ stored[o].tx \in Payments \cap merchant
            /\ chain[stored[o].tx] = "settled"
            /\ stored[o].tx[1] = stored[o].attempt
       /\ stored[o].outcome = "blocked" =>
            nextIndex = 4 /\ Spent = Budget /\ stored[o].tx = None
  /\ \A o, q \in Operations :
       stored[o] # None /\ stored[q] # None /\ stored[o].attempt = stored[q].attempt => o = q

\* The bridge counts payments that settled outside and were delivered here.
Bridged ==
  /\ pc = "forward" => operation \in external
  /\ public \subseteq external \cap merchant
  /\ \A m \in Mandates : Cardinality({x \in external : MandateOf[x] = m}) <= Budget
  /\ report # None =>
       /\ Cardinality({x \in external : MandateOf[x] = report}) = Budget
       /\ Cardinality(public) >= 3

Inv ==
  /\ TypeOK /\ OneChargePerPurchase
  /\ Numbered /\ Retained /\ Reconciled /\ Counted /\ Answered /\ Bridged

-----------------------------------------------------------------------------
(* Counting payments.                                                      *)

LEMMA Finite ==
  /\ IsFiniteSet(Payments)
  /\ \A S \in SUBSET Payments : IsFiniteSet(S) /\ Cardinality(S) \in Nat
<1>0. \A a, b \in Int : IsFiniteSet(a .. b)
  BY FS_Interval, Zenon
<1>1. 0 \in Int /\ 1 \in Int /\ 4 \in Int /\ MaxFailures \in Int
  BY WorkspaceAssumption
<1>2. IsFiniteSet(1 .. 4) /\ IsFiniteSet(0 .. MaxFailures)
  BY <1>0, <1>1, Zenon
<1>3. IsFiniteSet(Payments)
  BY <1>2, FS_Product, Zenon DEF Payments, Purchases
<1>. QED
  BY <1>3, FS_Subset, FS_CardinalityType

LEMMA SpentIsPaid == Spent = Cardinality(Paid) /\ Spent \in Nat
<1>1. Paid \in SUBSET Payments
  BY DEF Paid
<1>. QED
  BY <1>1, Finite, Zenon DEF Spent, Paid

\* Settling a payment counts one more, any other news of one counts none.
LEMMA SpentChanges ==
  ASSUME TypeOK, NEW p \in Payments, NEW v, chain[p] # "settled",
         chain' = [chain EXCEPT ![p] = v]
  PROVE  Spent' = IF v = "settled" THEN Spent + 1 ELSE Spent
<1>1. Paid' = IF v = "settled" THEN Paid \cup {p} ELSE Paid
  BY DEF TypeOK, Paid
<1>2. p \notin Paid /\ Paid \in SUBSET Payments
  BY DEF Paid
<1>3. Cardinality(Paid \cup {p}) = Cardinality(Paid) + 1
  BY <1>2, Finite, FS_AddElement
<1>4. Spent' = Cardinality(Paid')
  BY DEF Spent, Paid
<1>. QED
  BY <1>1, <1>3, <1>4, SpentIsPaid

\* The next payment of a purchase is a new one, and keeps the numbering.
LEMMA TryNext ==
  ASSUME TypeOK, Numbered, Current \in Purchases, Tries(Current) <= failures
  PROVE  /\ NextPayment = <<Current, Tries(Current)>> /\ NextPayment \in Payments
         /\ Tries(Current) \in Nat
         /\ chain[NextPayment] = "none"
<1>1. NextPayment = <<Current, Tries(Current)>>
  BY DEF NextPayment, Tries, Used
<1>2. Tries(Current) \in Nat
  BY Finite DEF Tries, Used
<1>3. NextPayment \in Payments
  BY <1>1, <1>2, WorkspaceAssumption DEF TypeOK, Payments
<1>4. NextPayment \notin {Current} \X (0 .. Tries(Current) - 1)
  BY <1>1, <1>2
<1>5. NextPayment \notin Used(Current)
  BY <1>4 DEF Numbered
<1>. QED
  BY <1>1, <1>2, <1>3, <1>5 DEF Used

LEMMA Tried ==
  ASSUME TypeOK, Numbered, Current \in Purchases, Tries(Current) <= failures,
         NEW v, v # "none", chain' = [chain EXCEPT ![NextPayment] = v]
  PROVE  /\ \A n \in Purchases : Used(n)' = {n} \X (0 .. Tries(n)' - 1)
         /\ \A n \in Purchases : Tries(n)' = IF n = Current THEN Tries(n) + 1 ELSE Tries(n)
<1>. DEFINE c == Current
<1>1. \A n \in Purchases : Used(n)' = IF n = c THEN Used(n) \cup {NextPayment} ELSE Used(n)
  BY TryNext DEF TypeOK, Used
<1>2. Cardinality(Used(c) \cup {NextPayment}) = Tries(c) + 1
  <2>1. NextPayment \notin Used(c) /\ Used(c) \in SUBSET Payments
    BY TryNext DEF Used
  <2>. QED
    BY <2>1, Finite, FS_AddElement DEF Tries
<1>3. \A n \in Purchases : Tries(n)' = IF n = c THEN Tries(n) + 1 ELSE Tries(n)
  BY <1>1, <1>2 DEF Tries
<1>4. ({c} \X (0 .. Tries(c) - 1)) \cup {<<c, Tries(c)>>} = {c} \X (0 .. Tries(c))
  BY TryNext
<1>5. Used(c) \cup {NextPayment} = {c} \X (0 .. Tries(c))
  BY <1>4, TryNext DEF Numbered
<1>6. Tries(c) \in Nat
  BY TryNext
<1>7. ASSUME NEW n \in Purchases PROVE Used(n)' = {n} \X (0 .. Tries(n)' - 1)
  <2>1. CASE n = c
    <3>1. Used(n)' = {c} \X (0 .. Tries(c))
      BY <1>1, <1>5, <2>1, Zenon
    <3>2. Tries(n)' = Tries(c) + 1
      BY <1>3, <2>1, Zenon
    <3>3. Tries(n)' - 1 = Tries(c)
      BY <1>6, <3>2
    <3>. QED
      BY <2>1, <3>1, <3>3, Zenon
  <2>2. CASE n # c
    BY <1>1, <1>3, <2>2 DEF Numbered
  <2>. QED
    BY <2>1, <2>2
<1>. QED
  BY <1>3, <1>7

-----------------------------------------------------------------------------
(* What a hosted step comes to.                                            *)

\* The ledger after a submission was refused, or before there was one.
Refused ==
  \/ pc \in {"request", "pay"} /\ receipt = None /\ UNCHANGED <<chain, receipt>>
  \/ pc = "send" /\ chain' = [chain EXCEPT ![receipt] = "rejected"] /\ receipt' = None

Burns ==
  /\ Burn
  /\ \/ UNCHANGED chain
     \/ \E v \in {"sent", "rejected"} : pc = "send" /\ chain' = [chain EXCEPT ![receipt] = v]
  /\ receipt' \in {receipt, None}
  /\ merchant' \in {merchant, merchant \cup {receipt}}
  /\ receipt \notin Payments => UNCHANGED merchant

Reopens == Reopen /\ Refused /\ UNCHANGED merchant

Blocks == Blocked /\ Refused /\ Spent = Budget /\ Current = 4 /\ UNCHANGED merchant

Moves ==
  /\ \/ pc = "request" /\ pc' = "pay" /\ UNCHANGED receipt
     \/ pc = "pay" /\ pc' = "send" /\ Spent < Budget /\ receipt' = NextPayment
  /\ receipt = None
  /\ UNCHANGED <<alive, action, progress, chain, merchant, failures, answers>>

Pends ==
  /\ pc' = "recover"
  /\ \/ pc = "send" /\ chain' = [chain EXCEPT ![receipt] = "sent"] /\ UNCHANGED merchant
     \/ pc = "deliver" /\ merchant' \in {merchant, merchant \cup {receipt}} /\ UNCHANGED chain
  /\ UNCHANGED <<alive, action, progress, receipt, failures, answers>>

Accepts ==
  /\ pc \in {"deliver", "recover"}
  /\ chain[receipt] = "settled"
  /\ merchant' = merchant \cup {receipt}
  /\ Accept(receipt)
  /\ UNCHANGED chain

LEMMA FailsCases ==
  ASSUME TypeOK, NEW kind, Fails(kind)
  PROVE  \/ Burn
         \/ /\ kind = "pending" /\ pc' = "recover"
            /\ UNCHANGED <<alive, action, failures, progress, answers>>
         \/ kind # "pending" /\ settled[Current] = None /\ Reopen
         \/ kind = "budget" /\ Current = 4 /\ settled[Current] = None /\ Blocked
  BY DEF Fails, IsBudget, TypeOK

LEMMA HostedCases ==
  ASSUME Inv, Hosted
  PROVE  /\ Burns \/ Reopens \/ Blocks \/ Moves \/ (pc = "send" /\ Settles /\ UNCHANGED merchant)
            \/ Pends \/ Accepts
         /\ UNCHANGED bridge
<1>. USE DEF Inv
<1>1. CASE Request
  <2>1. receipt = None
    BY <1>1 DEF Request, Retained, Open
  <2>2. \/ Fails("plain") /\ UNCHANGED <<receipt, chain, merchant>>
        \/ Moves
    BY <1>1, <2>1 DEF Request, Moves
  <2>3. receipt \notin Payments
    BY <2>1, WorkspaceAssumption
  <2>4. pc = "request" /\ UNCHANGED bridge
    BY <1>1 DEF Request
  <2>5. ASSUME Fails("plain"), UNCHANGED <<receipt, chain, merchant>>
        PROVE  Burns \/ Reopens
    BY <2>1, <2>3, <2>4, <2>5, FailsCases DEF Burns, Reopens, Refused
  <2>. QED
    BY <2>2, <2>4, <2>5
<1>2. CASE Pay
  <2>1. receipt = None /\ receipt \notin Payments
    BY <1>2, WorkspaceAssumption DEF Pay, Retained, Open
  <2>2. pc = "pay" /\ UNCHANGED <<chain, merchant, bridge>>
    BY <1>2 DEF Pay
  <2>3. \/ Moves
        \/ Fails("plain") /\ UNCHANGED receipt
        \/ Fails("budget") /\ Spent = Budget /\ UNCHANGED receipt
    BY <1>2, <2>1 DEF Pay, Moves
  <2>4. ASSUME Fails("plain"), UNCHANGED receipt PROVE Burns \/ Reopens
    BY <2>1, <2>2, <2>4, FailsCases DEF Burns, Reopens, Refused
  <2>5. ASSUME Fails("budget"), Spent = Budget, UNCHANGED receipt
        PROVE  Burns \/ Reopens \/ Blocks
    BY <2>1, <2>2, <2>5, FailsCases DEF Burns, Reopens, Blocks, Refused
  <2>. QED
    BY <2>2, <2>3, <2>4, <2>5
<1>3. CASE Send
  <2>1. pc = "send" /\ UNCHANGED <<merchant, bridge>>
    BY <1>3 DEF Send
  <2>2. ASSUME Rejects PROVE Burns \/ Reopens \/ Blocks
    <3>1. chain' = [chain EXCEPT ![receipt] = "rejected"] /\ receipt' = None
      BY <2>2 DEF Rejects
    <3>2. Fails("plain") \/ (Fails("budget") /\ Spent = Budget)
      BY <2>2 DEF Rejects
    <3>. QED
      BY <2>1, <3>1, <3>2, FailsCases DEF Burns, Reopens, Blocks, Refused
  <2>3. ASSUME Uncertain PROVE Burns \/ Pends
    BY <2>1, <2>3, FailsCases DEF Uncertain, Burns, Pends
  <2>. QED
    BY <1>3, <2>1, <2>2, <2>3 DEF Send
<1>4. CASE Deliver
  <2>1. pc = "deliver" /\ UNCHANGED <<chain, bridge>>
    BY <1>4 DEF Deliver
  <2>2. settled[Current] = receipt /\ receipt \in Payments /\ chain[receipt] = "settled"
    BY <2>1 DEF Retained
  <2>3. settled[Current] # None
    BY <2>2, WorkspaceAssumption
  <2>4. ASSUME Fails("pending") \/ Fails("plain"), UNCHANGED receipt,
               merchant' \in {merchant, merchant \cup {receipt}}
        PROVE  Burns \/ Pends
    BY <2>1, <2>2, <2>3, <2>4, FailsCases DEF Burns, Pends
  <2>5. ASSUME merchant' = merchant \cup {receipt}, Accept(receipt) PROVE Accepts
    BY <2>1, <2>2, <2>5 DEF Accepts
  <2>. QED
    BY <1>4, <2>1, <2>4, <2>5 DEF Deliver
<1>5. CASE Recover
  BY <1>5 DEF Recover, Accepts, Burns, Retained
<1>. QED
  BY <1>1, <1>2, <1>3, <1>4, <1>5 DEF Hosted

-----------------------------------------------------------------------------
(* Types.                                                                  *)

LEMMA NextReceipt ==
  ASSUME Inv, pc = "pay" \/ pc = "request"
  PROVE  NextPayment \in Payments /\ NextPayment[1] = Current /\ chain[NextPayment] = "none"
<1>1. Current \in Purchases
  BY DEF Inv, Counted, Buying, TypeOK, Current, Purchases
<1>2. Tries(Current) <= failures
  BY <1>1 DEF Inv, Numbered, Open
<1>. QED
  BY <1>1, <1>2, TryNext DEF Inv

LEMMA RefusedTyped ==
  ASSUME TypeOK, Retained, Refused
  PROVE  /\ chain' \in [Payments -> {"none", "sent", "settled", "rejected"}]
         /\ receipt' \in Payments \cup {None}
  BY DEF TypeOK, Retained, Refused

LEMMA AnswerTyped ==
  ASSUME TypeOK, operation \in Operations, NEW response \in Responses, Answer(response)
  PROVE  stored' \in [Operations -> Responses \cup {None}] /\ answers' \in [Operations -> SUBSET Responses]
  BY DEF TypeOK, Answer

LEMMA TypeKept == Inv /\ [Next]_vars => TypeOK'
<1>. SUFFICES ASSUME Inv, [Next]_vars PROVE TypeOK'
  OBVIOUS
<1>. USE DEF Inv, TypeOK, action, progress, bridge, Finish, Budget
<1>1. ASSUME Hosted PROVE TypeOK'
  <2>1. UNCHANGED bridge
    BY <1>1, HostedCases
  <2>2. CASE Burns
    BY <2>1, <2>2 DEF Burns, Burn
  <2>3. CASE Reopens
    <3>1. failures' \in 0 .. MaxFailures
      BY <2>3, WorkspaceAssumption DEF Reopens, Reopen
    <3>2. /\ pc' = "idle" /\ operation' = None /\ aborted' = FALSE
          /\ UNCHANGED <<alive, progress, answers, merchant>>
      BY <2>3 DEF Reopens, Reopen
    <3>. QED
      BY <2>1, <2>3, <3>1, <3>2, RefusedTyped DEF Reopens
  <2>4. CASE Blocks
    <3>1. /\ nextIndex = 3 /\ operation \in Operations
          /\ [outcome |-> "blocked", attempt |-> Current, tx |-> None] \in Responses
      BY <2>4 DEF Blocks, Refused, Current, Answered, Buying, Responses, Purchases
    <3>2. nextIndex' \in 0 .. 4 /\ UNCHANGED <<alive, failures, served, settled, merchant>>
      BY <2>4, <3>1 DEF Blocks, Blocked, Current
    <3>3. pc' = "idle" /\ operation' = None /\ aborted' = FALSE
      BY <2>4 DEF Blocks, Blocked
    <3>4. /\ stored' \in [Operations -> Responses \cup {None}]
          /\ answers' \in [Operations -> SUBSET Responses]
      BY <2>4, <3>1, AnswerTyped DEF Blocks, Blocked
    <3>. QED
      BY <2>1, <2>4, <3>2, <3>3, <3>4, RefusedTyped DEF Blocks
  <2>5. CASE Moves
    BY <2>1, <2>5, NextReceipt DEF Moves
  <2>6. CASE pc = "send" /\ Settles /\ UNCHANGED merchant
    <3>1. Current \in Purchases /\ receipt \in Payments
      BY <2>6 DEF Retained, Counted, Buying, Current, Purchases
    <3>. QED
      BY <2>1, <2>6, <3>1 DEF Settles
  <2>7. CASE Pends
    BY <2>1, <2>7 DEF Pends, Retained
  <2>8. CASE Accepts
    <3>1. receipt \in Payments /\ operation \in Operations /\ nextIndex \in 0 .. 2 /\ served = nextIndex
      BY <2>8 DEF Accepts, Accept, Retained, Answered, Buying, Counted, Current
    <3>2. [outcome |-> "delivered", attempt |-> Current, tx |-> receipt] \in Responses
      BY <3>1 DEF Responses, Current, Purchases
    <3>3. /\ nextIndex' \in 0 .. 4 /\ served' \in 0 .. Budget /\ receipt' = None
          /\ UNCHANGED <<alive, failures, settled, chain>>
      BY <2>8, <3>1 DEF Accepts, Accept, Delivered, Current
    <3>4. pc' = "idle" /\ operation' = None /\ aborted' = FALSE
      BY <2>8 DEF Accepts, Accept, Delivered
    <3>5. /\ stored' \in [Operations -> Responses \cup {None}]
          /\ answers' \in [Operations -> SUBSET Responses]
      BY <2>8, <3>1, <3>2, AnswerTyped DEF Accepts, Accept, Delivered
    <3>6. merchant' \subseteq Payments \cup Consumers
      BY <2>8, <3>1 DEF Accepts
    <3>. QED
      BY <2>1, <3>3, <3>4, <3>5, <3>6
  <2>. QED
    BY <1>1, HostedCases, <2>2, <2>3, <2>4, <2>5, <2>6, <2>7, <2>8, Zenon
<1>2. ASSUME NEW o \in Operations, NEW n \in Purchases, Purchase(o, n) \/ Replay(o, n)
      PROVE  TypeOK'
  BY <1>2, ZenonT(60) DEF Purchase, Replay
<1>3. ASSUME NEW p \in Payments, Execute(p) PROVE TypeOK'
  BY <1>3 DEF Execute
<1>4. ASSUME NEW x \in Consumers, PayOutside(x) \/ Forward(x) PROVE TypeOK'
  BY <1>4 DEF PayOutside, Forward
<1>5. ASSUME Forwarded PROVE TypeOK'
  BY <1>5 DEF Forwarded, Bridged
<1>6. ASSUME NEW m \in Mandates, Report(m) PROVE TypeOK'
  BY <1>6 DEF Report
<1>7. ASSUME Abort \/ End \/ UNCHANGED vars PROVE TypeOK'
  BY <1>7 DEF Abort, End, vars
<1>. HIDE DEF Inv, TypeOK
<1>. QED
  BY <1>1, <1>2, <1>3, <1>4, <1>5, <1>6, <1>7, Zenon DEF Next

-----------------------------------------------------------------------------
(* The ledger.                                                             *)

\* Before a submission nothing is out for this purchase, and none of it is paid.
LEMMA Clean ==
  ASSUME Inv, pc = "send"
  PROVE  /\ receipt \in Payments /\ receipt[1] = Current /\ receipt = NextPayment
         /\ chain[receipt] = "none"
         /\ Current \in Purchases /\ Tries(Current) <= failures
         /\ \A p \in Payments : p[1] = Current => chain[p] \in {"none", "rejected"}
<1>. USE DEF Inv
<1>1. receipt \in Payments /\ receipt[1] = Current /\ receipt = NextPayment
  BY DEF Retained
<1>2. Current \in Purchases
  BY DEF Counted, Buying, TypeOK, Current, Purchases
<1>3. Tries(Current) <= failures
  BY <1>2 DEF Numbered, Open
<1>4. chain[receipt] = "none"
  BY <1>1, <1>2, <1>3, TryNext
<1>5. \A p \in Payments : p[1] = Current => chain[p] \in {"none", "rejected"}
  BY DEF Reconciled, Open, TypeOK
<1>. QED
  BY <1>1, <1>2, <1>3, <1>4, <1>5

\* What a step does to the ledger: nothing, news of the payment just sent, or the
\* verdict on one whose answer was lost.
LEMMA ChainSteps ==
  ASSUME Inv, [Next]_vars
  PROVE  \/ UNCHANGED chain
         \/ \E v \in {"sent", "settled", "rejected"} :
              pc = "send" /\ chain' = [chain EXCEPT ![receipt] = v] /\ (v = "settled" => Spent < Budget)
         \/ \E p \in Payments, v \in {"settled", "rejected"} :
              chain[p] = "sent" /\ chain' = [chain EXCEPT ![p] = v] /\ (v = "settled" => Spent < Budget)
<1>1. ASSUME Hosted
      PROVE  \/ UNCHANGED chain
             \/ \E v \in {"sent", "settled", "rejected"} :
                  pc = "send" /\ chain' = [chain EXCEPT ![receipt] = v] /\ (v = "settled" => Spent < Budget)
  <2>1. Burns \/ Reopens \/ Blocks \/ Moves \/ (pc = "send" /\ Settles) \/ Pends \/ Accepts
    BY <1>1, HostedCases
  <2>. QED
    BY <2>1 DEF Burns, Reopens, Blocks, Refused, Moves, Settles, Pends, Accepts
<1>2. ASSUME NEW p \in Payments, Execute(p)
      PROVE  \E v \in {"settled", "rejected"} :
               chain[p] = "sent" /\ chain' = [chain EXCEPT ![p] = v] /\ (v = "settled" => Spent < Budget)
  BY <1>2 DEF Execute
<1>3. ASSUME NEW o \in Operations, NEW n \in Purchases, Purchase(o, n) \/ Replay(o, n)
      PROVE  UNCHANGED chain
  BY <1>3 DEF Purchase, Replay
<1>4. ASSUME NEW x \in Consumers, PayOutside(x) \/ Forward(x) PROVE UNCHANGED chain
  BY <1>4 DEF PayOutside, Forward
<1>5. ASSUME NEW m \in Mandates, Report(m) PROVE UNCHANGED chain
  BY <1>5 DEF Report
<1>6. ASSUME Abort \/ Forwarded \/ End \/ UNCHANGED vars PROVE UNCHANGED chain
  BY <1>6 DEF Abort, Forwarded, End, vars
<1>. QED
  BY <1>1, <1>2, <1>3, <1>4, <1>5, <1>6, Zenon DEF Next

\* A step that is no part of a hosted purchase.
Other ==
  /\ \/ pc' = pc /\ operation' = operation
     \/ /\ alive /\ pc = "idle" /\ pc' = "request"
        /\ Current \in Purchases /\ operation' \in Operations /\ stored[operation'] = None
     \/ alive /\ pc = "idle" /\ pc' = "forward" /\ operation' \in external
     \/ pc = "forward" /\ pc' = "idle"
  /\ alive' => alive
  /\ UNCHANGED <<progress, receipt, failures>>
  /\ \A o \in Operations :
       answers'[o] = answers[o] \/ (stored[o] # None /\ answers'[o] = answers[o] \cup {stored[o]})
  /\ merchant \subseteq merchant'
  /\ \/ UNCHANGED chain
     \/ \E p \in Payments, v \in {"settled", "rejected"} :
          chain[p] = "sent" /\ chain' = [chain EXCEPT ![p] = v]

LEMMA OtherSteps == ASSUME Inv, [Next]_vars PROVE Hosted \/ Other
<1>. USE DEF Other, progress, action
<1>1. ASSUME NEW p \in Payments, Execute(p) PROVE Other
  BY <1>1 DEF Execute
<1>2. ASSUME NEW o \in Operations, NEW n \in Purchases, Purchase(o, n) \/ Replay(o, n)
      PROVE  Other
  BY <1>2 DEF Purchase, Replay, Inv, TypeOK
<1>3. ASSUME NEW x \in Consumers, PayOutside(x) \/ Forward(x) PROVE Other
  BY <1>3 DEF PayOutside, Forward
<1>4. ASSUME NEW m \in Mandates, Report(m) PROVE Other
  BY <1>4 DEF Report
<1>5. ASSUME Abort \/ Forwarded \/ End \/ UNCHANGED vars PROVE Other
  BY <1>5 DEF Abort, Forwarded, Finish, End, vars
<1>. HIDE DEF Other
<1>. QED
  BY <1>1, <1>2, <1>3, <1>4, <1>5, Zenon DEF Next

LEMMA OneChargeKept == Inv /\ [Next]_vars => OneChargePerPurchase'
<1>. SUFFICES ASSUME Inv, [Next]_vars PROVE OneChargePerPurchase'
  OBVIOUS
<1>1. CASE UNCHANGED chain
  BY <1>1 DEF Inv, OneChargePerPurchase
<1>2. ASSUME NEW v, pc = "send", chain' = [chain EXCEPT ![receipt] = v]
      PROVE  OneChargePerPurchase'
  BY <1>2, Clean DEF Inv, TypeOK, OneChargePerPurchase
<1>3. ASSUME NEW p \in Payments, NEW v, chain[p] = "sent", chain' = [chain EXCEPT ![p] = v]
      PROVE  OneChargePerPurchase'
  BY <1>3 DEF Inv, TypeOK, OneChargePerPurchase
<1>. QED
  BY <1>1, <1>2, <1>3, ChainSteps, Zenon

\* The budget holds, and a charge counts once.
LEMMA SpentKept ==
  ASSUME Inv, [Next]_vars
  PROVE  /\ Spent' <= Budget
         /\ UNCHANGED chain => Spent' = Spent
         /\ \A v : pc = "send" /\ chain' = [chain EXCEPT ![receipt] = v] =>
              Spent' = IF v = "settled" THEN Spent + 1 ELSE Spent
         /\ Spent = Budget => Spent' = Budget
<1>. USE DEF Budget
<1>1. UNCHANGED chain => Spent' = Spent
  BY DEF Spent
<1>2. ASSUME NEW v, pc = "send", chain' = [chain EXCEPT ![receipt] = v]
      PROVE  Spent' = IF v = "settled" THEN Spent + 1 ELSE Spent
  <2>1. TypeOK /\ receipt \in Payments /\ chain[receipt] # "settled"
    BY <1>2, Clean DEF Inv
  <2>. QED
    BY <1>2, <2>1, SpentChanges
<1>3. ASSUME NEW p \in Payments, NEW v, chain[p] = "sent", chain' = [chain EXCEPT ![p] = v]
      PROVE  Spent' = IF v = "settled" THEN Spent + 1 ELSE Spent
  BY <1>3, SpentChanges DEF Inv
<1>4. Spent \in Nat /\ Spent <= Budget
  BY SpentIsPaid DEF Inv, Counted
<1>5. \/ Spent' = Spent
      \/ Spent < Budget /\ Spent' = Spent + 1
  BY ChainSteps, <1>1, <1>2, <1>3
<1>6. Spent' <= Budget /\ (Spent = Budget => Spent' = Budget)
  BY <1>4, <1>5
<1>. QED
  BY <1>1, <1>2, <1>6, Zenon

LEMMA IndexSteps == ASSUME Inv, [Next]_vars PROVE nextIndex' \in {nextIndex, nextIndex + 1}
<1>1. CASE Hosted
  BY <1>1, HostedCases DEF Burns, Burn, Reopens, Reopen, Blocks, Blocked, Moves, Settles, Pends,
                           Accepts, Accept, Delivered, progress, Current
<1>2. CASE Other
  BY <1>2 DEF Other, progress
<1>. QED
  BY <1>1, <1>2, OtherSteps

LEMMA NumberedKept == Inv /\ [Next]_vars /\ TypeOK' => Numbered'
<1>. SUFFICES ASSUME Inv, [Next]_vars, TypeOK' PROVE Numbered'
  OBVIOUS
<1>. USE DEF Inv
<1>1. \A n \in Purchases : Used(n)' = {n} \X (0 .. Tries(n)' - 1)
  <2>1. CASE UNCHANGED chain
    BY <2>1, Zenon DEF Numbered, Used, Tries
  <2>2. ASSUME NEW v \in {"sent", "settled", "rejected"}, pc = "send",
               chain' = [chain EXCEPT ![receipt] = v]
        PROVE  \A n \in Purchases : Used(n)' = {n} \X (0 .. Tries(n)' - 1)
    BY <2>2, Clean, Tried
  <2>3. ASSUME NEW p \in Payments, NEW v \in {"settled", "rejected"}, chain[p] = "sent",
               chain' = [chain EXCEPT ![p] = v]
        PROVE  \A n \in Purchases : Used(n)' = {n} \X (0 .. Tries(n)' - 1)
    <3>1. \A n \in Purchases : Used(n)' = Used(n)
      BY <2>3 DEF Used, TypeOK
    <3>. QED
      BY <3>1, Zenon DEF Numbered, Tries
  <2>. QED
    BY <2>1, <2>2, <2>3, ChainSteps, Zenon
<1>2. /\ nextIndex \in Int /\ Current = nextIndex + 1
      /\ Current' = nextIndex' + 1 /\ Current' \in {Current, Current + 1}
  <2>1. nextIndex \in Int
    BY DEF TypeOK
  <2>. HIDE DEF Inv
  <2>. QED
    BY <2>1, IndexSteps DEF Current
<1>3. \A p \in Payments : p[1] \in Int
  BY DEF Payments, Purchases
<1>4. \A p \in Payments : p[1] > Current => chain'[p] = "none"
  BY <1>2, <1>3, Clean, ChainSteps DEF Numbered, TypeOK
<1>5. \A p \in Payments : p[1] > Current' => chain'[p] = "none"
  BY <1>2, <1>3, <1>4
<1>6. ASSUME Open', pc' \notin {"deliver", "recover"}, Current' \in Purchases
      PROVE  Tries(Current)' <= failures'
  <2>1. CASE Current' = Current + 1
    <3>1. Used(Current)' = {}
      BY <1>2, <1>3, <1>4, <2>1 DEF Used
    <3>. QED
      BY <3>1, FS_EmptySet DEF Tries, TypeOK
  <2>2. CASE /\ Current' = Current /\ Open /\ pc \notin {"deliver", "recover"}
             /\ failures' = failures /\ \A n \in Purchases : Used(n)' = Used(n)
    BY <1>6, <2>2 DEF Numbered, Tries
  <2>3. CASE Other
    <3>1. Open /\ pc \notin {"deliver", "recover"} /\ Current' = Current /\ failures' = failures
      BY <1>6, <2>3 DEF Other, Open, progress, Current
    <3>2. \A n \in Purchases : Used(n)' = Used(n)
      BY <2>3 DEF Other, Used, TypeOK
    <3>. QED
      BY <2>2, <3>1, <3>2
  <2>4. CASE Moves
    <3>1. Open /\ pc \notin {"deliver", "recover"} /\ Current' = Current /\ failures' = failures
      BY <2>4 DEF Moves, Open, progress, Current
    <3>2. \A n \in Purchases : Used(n)' = Used(n)
      BY <2>4 DEF Moves, Used
    <3>. QED
      BY <2>2, <3>1, <3>2
  <2>5. CASE Reopens
    <3>1. /\ Open /\ pc \notin {"deliver", "recover"} /\ Current' = Current /\ Current \in Purchases
          /\ failures' = failures + 1
      BY <1>6, <2>5 DEF Reopens, Reopen, Refused, Open, progress, Current
    <3>2. Tries(Current) <= failures /\ Tries(Current) \in Nat /\ failures \in Nat
      BY <3>1, TryNext DEF Numbered, TypeOK
    <3>3. Tries(Current)' \in {Tries(Current), Tries(Current) + 1}
      <4>1. CASE UNCHANGED chain
        BY <3>1, <4>1 DEF Tries, Used
      <4>2. CASE pc = "send" /\ chain' = [chain EXCEPT ![receipt] = "rejected"]
        BY <3>1, <4>2, Clean, Tried
      <4>. QED
        BY <2>5, <4>1, <4>2 DEF Reopens, Refused
    <3>. QED
      BY <3>1, <3>2, <3>3
  <2>6. CASE Burns \/ Blocks \/ Settles \/ Pends \/ Accepts
    <3>1. Current' = Current + 1
      BY <1>6, <2>6 DEF Burns, Burn, Finish, Blocks, Blocked, Settles, Pends, Accepts, Accept,
                        Delivered, Open, Current
    <3>. QED
      BY <2>1, <3>1
  <2>. QED
    BY <2>3, <2>4, <2>5, <2>6, OtherSteps, HostedCases, Zenon
<1>. QED
  BY <1>1, <1>5, <1>6 DEF Numbered

-----------------------------------------------------------------------------
(* The receipt, the merchant and the counts.                               *)

LEMMA RetainedKept == Inv /\ [Next]_vars => Retained'
<1>. SUFFICES ASSUME Inv, [Next]_vars PROVE Retained'
  OBVIOUS
<1>. USE DEF progress
<1>1. CASE Other
  <2>1. Current' = Current /\ receipt' = receipt /\ settled' = settled
    BY <1>1 DEF Other, Current
  <2>2. pc = "send" => NextPayment' = NextPayment
    <3>1. pc = "send" => chain' = chain
      BY <1>1 DEF Other, Inv, Reconciled, Open
    <3>. QED
      BY <2>1, <3>1 DEF NextPayment
  <2>3. \A p \in Payments :
          /\ chain[p] = "settled" => chain'[p] = "settled"
          /\ chain[p] # "none" => chain'[p] # "none"
    BY <1>1 DEF Other, Inv, TypeOK
  <2>4. Open' => Open
    BY <1>1 DEF Other, Open
  <2>5. Retained
    BY DEF Inv
  <2>6. \/ pc' = pc
        \/ pc \in {"idle", "forward"} /\ pc' \in {"idle", "request", "forward"} /\ Open
    BY <1>1 DEF Other, Open
  <2>7. Open' /\ pc' \in {"idle", "forward", "request", "pay"} => receipt' = None
    BY <2>1, <2>4, <2>5, <2>6 DEF Retained
  <2>8. pc' \notin {"idle", "forward", "request", "pay"} => pc' = pc
    BY <2>6
  <2>. QED
    BY <2>1, <2>2, <2>3, <2>5, <2>7, <2>8 DEF Retained
<1>2. CASE Burns
  BY <1>2 DEF Burns, Burn, Finish, Retained, Open
<1>3. CASE Reopens \/ Blocks
  BY <1>3 DEF Reopens, Reopen, Blocks, Blocked, Finish, Refused, Retained
<1>4. CASE Moves
  <2>1. NextPayment' = NextPayment /\ Current' = Current
    BY <1>4 DEF Moves, NextPayment, Current
  <2>2. pc = "pay" => NextPayment \in Payments /\ NextPayment[1] = Current
    BY NextReceipt
  <2>. QED
    BY <1>4, <2>1, <2>2 DEF Moves, Retained
<1>5. CASE pc = "send" /\ Settles
  BY <1>5, Clean DEF Settles, Retained, Current, Inv, TypeOK
<1>6. CASE Pends
  BY <1>6, Clean DEF Pends, Retained, Current, Inv, TypeOK
<1>7. CASE Accepts
  BY <1>7 DEF Accepts, Accept, Delivered, Finish, Retained
<1>. QED
  BY <1>1, <1>2, <1>3, <1>4, <1>5, <1>6, <1>7, OtherSteps, HostedCases, Zenon

LEMMA ReconciledKept == Inv /\ [Next]_vars => Reconciled'
<1>. SUFFICES ASSUME Inv, [Next]_vars, Open' PROVE Reconciled'
  BY DEF Reconciled
<1>. USE DEF progress
<1>0. /\ \A p \in Payments : p[1] \in Int
      /\ nextIndex \in Int /\ Current = nextIndex + 1
      /\ receipt \in Payments => receipt # None
  BY WorkspaceAssumption DEF Payments, Purchases, Inv, TypeOK, Current
<1>1. CASE Other
  <2>1. Open /\ receipt' = receipt /\ settled' = settled /\ nextIndex' = nextIndex /\ Current' = Current
    BY <1>1 DEF Other, Open, Current
  <2>2. \/ pc' = pc
        \/ pc \notin {"deliver", "recover"} /\ pc' \notin {"deliver", "recover"} /\ chain' = chain
    BY <1>1, <2>1 DEF Other, Inv, Reconciled
  <2>3. merchant \subseteq merchant'
    BY <1>1 DEF Other
  <2>4. \/ chain' = chain
        \/ /\ pc = "recover" /\ receipt \in Payments
           /\ \E v \in {"settled", "rejected"} : chain' = [chain EXCEPT ![receipt] = v]
    BY <1>1, <2>1 DEF Other, Inv, Reconciled, Retained
  <2>5. Reconciled /\ TypeOK
    BY DEF Inv
  <2>. QED
    BY <2>1, <2>2, <2>3, <2>4, <2>5 DEF Reconciled, TypeOK
<1>2. CASE Burns
  BY <1>2 DEF Burns, Burn, Finish, Open
<1>3. CASE Reopens
  BY <1>0, <1>3, Clean DEF Reopens, Reopen, Finish, Refused, Reconciled, Open, Inv, TypeOK, Current
<1>. DEFINE Concluded(pays) ==
       /\ nextIndex' = Current /\ settled' = settled /\ pc' = "idle" /\ merchant' = merchant \cup pays
       /\ \A p \in Payments : chain'[p] # "sent" /\ (chain'[p] = "settled" => p \in merchant \cup pays)
<1>4. ASSUME NEW pays, Concluded(pays), Open PROVE Reconciled'
  <2>1. Current' = Current + 1
    BY <1>4 DEF Current
  <2>2. \A p \in Payments : p[1] = Current + 1 => chain'[p] = "none"
    BY <1>0, Clean, ChainSteps DEF Inv, TypeOK, Numbered
  <2>3. \A n \in Purchases : n > Current => settled[n] = None
    BY <1>0, <1>4 DEF Inv, Reconciled, Purchases
  <2>. QED
    BY <1>4, <2>1, <2>2, <2>3 DEF Reconciled
<1>5. CASE Blocks
  <2>1. Concluded({}) /\ Open
    BY <1>0, <1>5, Clean DEF Blocks, Blocked, Finish, Refused, Reconciled, Open, Inv, TypeOK
  <2>. QED
    BY <2>1, <1>4
<1>6. CASE Moves
  BY <1>0, <1>6, NextReceipt DEF Moves, Reconciled, Open, Inv, TypeOK, Current
<1>7. CASE pc = "send" /\ Settles /\ UNCHANGED merchant
  BY <1>0, <1>7, Clean DEF Settles, Reconciled, Open, Inv, TypeOK, Current
<1>8. CASE Pends
  BY <1>0, <1>8, Clean DEF Pends, Reconciled, Retained, Open, Inv, TypeOK, Current
<1>9. CASE Accepts
  <2>1. Concluded({receipt}) /\ Open
    BY <1>0, <1>9 DEF Accepts, Accept, Delivered, Finish, Reconciled, Retained, Open, Inv, TypeOK
  <2>. QED
    BY <2>1, <1>4
<1>. QED
  BY <1>1, <1>2, <1>3, <1>5, <1>6, <1>7, <1>8, <1>9, OtherSteps, HostedCases, Zenon

LEMMA CountedKept == Inv /\ [Next]_vars => Counted'
<1>. SUFFICES ASSUME Inv, [Next]_vars PROVE Counted'
  OBVIOUS
<1>. USE DEF progress, Budget
<1>0. /\ nextIndex \in 0 .. 4 /\ Current = nextIndex + 1 /\ Spent \in Nat /\ Counted
      /\ served \in 0 .. 3 /\ (Buying => nextIndex <= 3)
  BY SpentIsPaid DEF Inv, TypeOK, Current, Counted
<1>1. CASE Other
  <2>1. /\ Buying' => nextIndex' <= 3
        /\ nextIndex' = nextIndex /\ served' = served /\ receipt' = receipt /\ (Open' => Open)
    BY <1>0, <1>1 DEF Other, Buying, Open, Purchases
  <2>2. pc' = pc \/ (pc \notin {"deliver", "recover"} /\ pc' \notin {"deliver", "recover"})
    BY <1>1 DEF Other
  <2>3. Spent' <= Budget
    BY SpentKept
  <2>4. Open' => Spent' = served' + (IF pc' \in {"deliver", "recover"} /\ chain'[receipt] = "settled" THEN 1 ELSE 0)
    <3>1. CASE UNCHANGED chain
      BY <1>0, <2>1, <2>2, <3>1, SpentKept DEF Counted
    <3>2. ASSUME NEW p \in Payments, NEW v \in {"settled", "rejected"}, Open', chain[p] = "sent",
                 chain' = [chain EXCEPT ![p] = v]
          PROVE  /\ pc = "recover" /\ pc' = pc /\ chain[receipt] = "sent" /\ chain'[receipt] = v
                 /\ Spent' = IF v = "settled" THEN Spent + 1 ELSE Spent
      <4>1. pc = "recover" /\ p = receipt
        BY <2>1, <3>2 DEF Inv, Reconciled
      <4>2. Spent' = IF v = "settled" THEN Spent + 1 ELSE Spent
        BY <3>2, SpentChanges DEF Inv
      <4>. QED
        BY <2>2, <3>2, <4>1, <4>2 DEF Inv, TypeOK
    <3>. QED
      BY <1>0, <1>1, <2>1, <3>1, <3>2 DEF Other, Counted
  <2>. QED
    BY <1>0, <2>1, <2>3, <2>4 DEF Counted
<1>2. CASE Burns
  BY <1>0, <1>2, SpentKept DEF Burns, Burn, Finish, Open, Buying, Counted
<1>. DEFINE Refusal ==
       /\ pc \notin {"deliver", "recover"} /\ Open /\ pc' = "idle" /\ served' = served
       /\ chain' = chain \/ (pc = "send" /\ chain' = [chain EXCEPT ![receipt] = "rejected"])
<1>3. ASSUME Refusal PROVE Spent' = served' /\ ~Buying'
  BY <1>0, <1>3, SpentKept DEF Counted, Buying
<1>4. CASE Reopens
  <2>1. Refusal /\ nextIndex' = nextIndex
    BY <1>4 DEF Reopens, Reopen, Finish, Refused, Open
  <2>. QED
    BY <1>0, <1>3, <2>1, SpentKept DEF Counted
<1>5. CASE Blocks
  <2>1. Refusal /\ nextIndex' = 4 /\ Spent = Budget
    BY <1>5 DEF Blocks, Blocked, Finish, Refused, Open
  <2>. QED
    BY <1>0, <1>3, <2>1, SpentKept DEF Counted
<1>6. CASE Moves
  BY <1>0, <1>6, SpentKept DEF Moves, Counted, Buying, Open
<1>7. CASE pc = "send" /\ Settles
  <2>1. Spent' = Spent + 1 /\ chain'[receipt] = "settled" /\ Spent = served
    <3>1. chain' = [chain EXCEPT ![receipt] = "settled"] /\ chain'[receipt] = "settled"
      BY <1>7, Clean DEF Settles, Inv, TypeOK
    <3>2. Spent' = Spent + 1
      BY <1>7, <3>1, SpentKept
    <3>3. Spent = served
      BY <1>0, <1>7 DEF Counted, Open
    <3>. QED
      BY <3>1, <3>2, <3>3
  <2>. QED
    BY <1>0, <1>7, <2>1, SpentKept DEF Settles, Counted, Buying, Open
<1>8. CASE Pends
  <2>1. CASE pc = "send"
    <3>1. Spent' = Spent /\ chain'[receipt] = "sent" /\ Spent = served
      BY <1>0, <1>8, <2>1, Clean, SpentKept, SMTT(30) DEF Pends, Counted, Open, Inv, TypeOK
    <3>. QED
      BY <1>0, <1>8, <2>1, <3>1, SpentKept DEF Pends, Counted, Buying
  <2>2. CASE pc = "deliver"
    BY <1>0, <1>8, <2>2, SpentKept DEF Pends, Counted, Buying, Open
  <2>. QED
    BY <1>8, <2>1, <2>2 DEF Pends
<1>9. CASE Accepts
  BY <1>0, <1>9, SpentKept DEF Accepts, Accept, Delivered, Finish, Counted, Buying, Open
<1>. QED
  BY <1>1, <1>2, <1>4, <1>5, <1>6, <1>7, <1>8, <1>9, OtherSteps, HostedCases, Zenon

-----------------------------------------------------------------------------
(* What clients were told, and the bridge.                                 *)

\* A new answer for the running operation, about the running purchase.
LEMMA AnswerKept ==
  ASSUME Inv, Buying, NEW response \in Responses, Answer(response), pc' = "idle",
         response.attempt = Current, nextIndex' = Current,
         merchant \subseteq merchant',
         \A p \in Payments : chain[p] = "settled" => chain'[p] = "settled",
         Spent = Budget => Spent' = Budget,
         response.outcome = "delivered" =>
           /\ response.tx \in Payments \cap merchant' /\ response.tx[1] = Current
           /\ chain'[response.tx] = "settled",
         response.outcome = "blocked" => Current = 4 /\ Spent' = Budget /\ response.tx = None
  PROVE  Answered'
<1>. USE DEF Inv
<1>1. operation \in Operations /\ stored[operation] = None /\ answers[operation] = {}
  BY DEF Answered
<1>2. /\ stored' = [stored EXCEPT ![operation] = response]
      /\ answers' = [answers EXCEPT ![operation] = {response}]
  BY <1>1 DEF Answer, TypeOK
<1>3. response # None /\ nextIndex \in Nat /\ Current = nextIndex + 1
  BY WorkspaceAssumption DEF TypeOK, Current
<1>4. \A o \in Operations :
        IF o = operation THEN stored'[o] = response /\ answers'[o] = {response}
                         ELSE stored'[o] = stored[o] /\ answers'[o] = answers[o]
  BY <1>1, <1>2 DEF TypeOK
<1>5. \A o \in Operations : stored[o] # None => stored[o].attempt \in Nat /\ stored[o].attempt <= nextIndex
  BY DEF Answered, TypeOK, Responses, Purchases
<1>6. ~Buying'
  BY DEF Buying
<1>7. \A o \in Operations :
        IF stored'[o] = None THEN answers'[o] = {} ELSE answers'[o] = {stored'[o]}
  BY <1>3, <1>4 DEF Answered
<1>8. \A o, q \in Operations :
        stored'[o] # None /\ stored'[q] # None /\ stored'[o].attempt = stored'[q].attempt => o = q
  BY <1>3, <1>4, <1>5 DEF Answered
<1>9. ASSUME NEW o \in Operations, stored'[o] # None
      PROVE  /\ stored'[o].attempt <= nextIndex'
             /\ stored'[o].outcome = "delivered" =>
                  /\ stored'[o].tx \in Payments \cap merchant'
                  /\ chain'[stored'[o].tx] = "settled"
                  /\ stored'[o].tx[1] = stored'[o].attempt
             /\ stored'[o].outcome = "blocked" =>
                  nextIndex' = 4 /\ Spent' = Budget /\ stored'[o].tx = None
  <2>1. CASE o = operation
    BY <1>3, <1>4, <2>1
  <2>2. CASE o # operation
    <3>1. stored'[o] = stored[o] /\ stored[o] # None
      BY <1>4, <1>9, <2>2
    <3>2. stored[o].outcome # "blocked"
      BY <3>1 DEF Answered, Counted
    <3>. QED
      BY <1>3, <1>5, <3>1, <3>2 DEF Answered
  <2>. QED
    BY <2>1, <2>2
<1>. QED
  BY <1>6, <1>7, <1>8, <1>9 DEF Answered

LEMMA AnsweredKept == Inv /\ [Next]_vars /\ TypeOK' => Answered'
<1>. SUFFICES ASSUME Inv, [Next]_vars, TypeOK' PROVE Answered'
  OBVIOUS
<1>. USE DEF progress, action
<1>1. /\ \A p \in Payments : chain[p] = "settled" => chain'[p] = "settled"
      /\ Spent = Budget => Spent' = Budget
  BY ChainSteps, Clean, SpentKept DEF Inv, TypeOK
<1>2. ASSUME UNCHANGED <<stored, nextIndex>>, merchant \subseteq merchant',
             Buying' => operation' \in Operations /\ stored[operation'] = None,
             \A o \in Operations :
               answers'[o] = answers[o] \/ (stored[o] # None /\ answers'[o] = answers[o] \cup {stored[o]})
      PROVE  Answered'
  BY <1>1, <1>2 DEF Answered, Inv
<1>3. CASE Burns \/ Reopens
  BY <1>2, <1>3 DEF Burns, Burn, Reopens, Reopen, Finish, Buying
<1>4. CASE Moves \/ Pends \/ (pc = "send" /\ Settles /\ UNCHANGED merchant)
  BY <1>2, <1>4 DEF Moves, Pends, Settles, Buying, Inv, Answered
<1>5. CASE Blocks
  <2>. DEFINE response == [outcome |-> "blocked", attempt |-> Current, tx |-> None]
  <2>1. response \in Responses
    BY <1>5 DEF Blocks, Responses, Purchases
  <2>2. Buying /\ Answer(response) /\ pc' = "idle" /\ nextIndex' = Current /\ merchant' = merchant
    BY <1>5 DEF Blocks, Blocked, Refused, Finish, Buying
  <2>3. Current = 4 /\ Spent' = Budget
    BY <1>1, <1>5 DEF Blocks
  <2>. QED
    BY <1>1, <2>1, <2>2, <2>3, AnswerKept
<1>6. CASE Accepts
  <2>. DEFINE response == [outcome |-> "delivered", attempt |-> Current, tx |-> receipt]
  <2>1. /\ receipt \in Payments /\ receipt[1] = Current /\ receipt \in merchant'
        /\ chain'[receipt] = "settled" /\ Current \in Purchases
    BY <1>6 DEF Accepts, Retained, Counted, Buying, Inv, TypeOK, Current, Purchases
  <2>2. response \in Responses
    BY <2>1 DEF Responses
  <2>3. Buying /\ Answer(response) /\ pc' = "idle" /\ nextIndex' = Current
    BY <1>6 DEF Accepts, Accept, Delivered, Finish, Buying
  <2>4. merchant \subseteq merchant'
    BY <1>6 DEF Accepts
  <2>. QED
    BY <1>1, <2>1, <2>2, <2>3, <2>4, AnswerKept
<1>7. CASE Other
  <2>1. \A o \in Operations :
          answers'[o] = answers[o] \/ (stored[o] # None /\ answers'[o] = answers[o] \cup {stored[o]})
    BY <1>7 DEF Other
  <2>2. Buying' => operation' \in Operations /\ stored[operation'] = None
    BY <1>7 DEF Other, Buying, Inv, Answered
  <2>. QED
    BY <1>2, <1>7, <2>1, <2>2 DEF Other
<1>. QED
  BY <1>3, <1>4, <1>5, <1>6, <1>7, OtherSteps, HostedCases, Zenon

LEMMA OutsideFinite ==
  ASSUME TypeOK
  PROVE  /\ IsFiniteSet(public)
         /\ \A m : LET S == {y \in external : MandateOf[y] = m} IN IsFiniteSet(S) /\ Cardinality(S) \in Nat
<1>1. \A S \in SUBSET Consumers : IsFiniteSet(S) /\ Cardinality(S) \in Nat
  BY WorkspaceAssumption, FS_Subset, FS_CardinalityType
<1>2. \A m : {y \in external : MandateOf[y] = m} \in SUBSET Consumers
  BY DEF TypeOK
<1>. QED
  BY <1>1, <1>2 DEF TypeOK

LEMMA BridgedKept == Inv /\ [Next]_vars /\ TypeOK' => Bridged'
<1>. SUFFICES ASSUME Inv, [Next]_vars, TypeOK' PROVE Bridged'
  OBVIOUS
<1>. USE DEF bridge, action
<1>1. TypeOK /\ Bridged
  BY DEF Inv
<1>2. ASSUME UNCHANGED <<public, report, external>>, merchant \subseteq merchant',
             pc' = "forward" => operation' \in external
      PROVE  Bridged'
  BY <1>1, <1>2 DEF Bridged
<1>3. CASE Hosted
  <2>1. /\ UNCHANGED <<public, report, external>>
        /\ Burns \/ Reopens \/ Blocks \/ Moves \/ (pc = "send" /\ Settles /\ UNCHANGED merchant)
             \/ Pends \/ Accepts
    BY <1>3, HostedCases
  <2>2. merchant \subseteq merchant' /\ pc' # "forward"
    BY <2>1 DEF Burns, Burn, Reopens, Reopen, Blocks, Blocked, Moves, Settles, Pends, Accepts, Accept,
                Delivered, Finish
  <2>. QED
    BY <1>2, <2>1, <2>2
<1>4. ASSUME NEW o \in Operations, NEW n \in Purchases, Purchase(o, n) \/ Replay(o, n)
      PROVE  Bridged'
  BY <1>1, <1>2, <1>4 DEF Purchase, Replay, Bridged
<1>5. ASSUME NEW p \in Payments, Execute(p) PROVE Bridged'
  BY <1>1, <1>2, <1>5 DEF Execute, Bridged
<1>6. ASSUME Abort \/ End \/ UNCHANGED vars PROVE Bridged'
  BY <1>1, <1>2, <1>6 DEF Abort, End, vars, Bridged
<1>7. ASSUME NEW x \in Consumers, Forward(x) PROVE Bridged'
  BY <1>2, <1>7 DEF Forward
<1>8. ASSUME NEW x \in Consumers, PayOutside(x) PROVE Bridged'
  <2>. DEFINE Of(m) == {y \in external : MandateOf[y] = m}
              OfNext(m) == {y \in external' : MandateOf[y] = m}
  <2>1. /\ x \notin external /\ external' = external \cup {x} /\ Cardinality(Of(MandateOf[x])) < Budget
        /\ UNCHANGED <<pc, operation, public, report, merchant>>
    BY <1>8 DEF PayOutside
  <2>2. \A m : OfNext(m) = IF m = MandateOf[x] THEN Of(m) \cup {x} ELSE Of(m)
    BY <2>1
  <2>3. /\ IsFiniteSet(Of(MandateOf[x])) /\ Cardinality(Of(MandateOf[x])) \in Nat
    BY <1>1, OutsideFinite
  <2>4. Cardinality(Of(MandateOf[x]) \cup {x}) = Cardinality(Of(MandateOf[x])) + 1
    BY <2>1, <2>3, FS_AddElement
  <2>5. ASSUME NEW m \in Mandates PROVE Cardinality(OfNext(m)) <= Budget
    <3>1. CASE m = MandateOf[x]
      BY <2>1, <2>2, <2>3, <2>4, <3>1 DEF Budget
    <3>2. CASE m # MandateOf[x]
      BY <1>1, <2>2, <3>2 DEF Bridged
    <3>. QED
      BY <3>1, <3>2
  <2>6. report # None => report # MandateOf[x] /\ Cardinality(OfNext(report)) = Budget
    <3>1. report # None => Cardinality(Of(report)) = Budget
      BY <1>1 DEF Bridged
    <3>2. report # None => report # MandateOf[x]
      BY <2>1, <2>3, <3>1 DEF Budget
    <3>. QED
      BY <2>2, <3>1, <3>2
  <2>. QED
    BY <1>1, <2>1, <2>5, <2>6 DEF Bridged
<1>9. ASSUME Forwarded PROVE Bridged'
  <2>1. /\ pc' = "idle" /\ UNCHANGED <<report, external>> /\ merchant \subseteq merchant'
        /\ operation \in external
        /\ public' = public \/ (public' = public \cup {operation} /\ operation \in merchant')
    BY <1>1, <1>9 DEF Forwarded, Finish, Bridged
  <2>2. Cardinality(public') >= 3 \/ ~(Cardinality(public) >= 3)
    <3>1. IsFiniteSet(public) /\ IsFiniteSet(public \cup {operation})
      BY <1>1, OutsideFinite, FS_AddElement
    <3>2. Cardinality(public) <= Cardinality(public \cup {operation})
      BY <3>1, FS_Subset
    <3>3. Cardinality(public) \in Nat /\ Cardinality(public \cup {operation}) \in Nat
      BY <3>1, FS_CardinalityType
    <3>4. Cardinality(public') \in {Cardinality(public), Cardinality(public \cup {operation})}
      BY <2>1, Zenon
    <3>. QED
      BY <3>2, <3>3, <3>4
  <2>. QED
    BY <1>1, <2>1, <2>2 DEF Bridged
<1>10. ASSUME NEW m \in Mandates, Report(m) PROVE Bridged'
  BY <1>1, <1>10 DEF Report, Bridged
<1>. QED
  BY <1>3, <1>4, <1>5, <1>6, <1>7, <1>8, <1>9, <1>10, Zenon DEF Next

-----------------------------------------------------------------------------

LEMMA InitInv == Init => Inv
<1>. SUFFICES ASSUME Init PROVE Inv
  OBVIOUS
<1>1. TypeOK
  <2>1. /\ failures \in 0 .. MaxFailures /\ served \in 0 .. Budget /\ nextIndex \in 0 .. 4
        /\ answers \in [Operations -> SUBSET Responses]
        /\ chain \in [Payments -> {"none", "sent", "settled", "rejected"}]
    BY WorkspaceAssumption DEF Init, Budget
  <2>. QED
    BY <2>1 DEF Init, TypeOK
<1>2. Spent = 0
  <2>1. {p \in Payments : chain[p] = "settled"} = {}
    BY DEF Init
  <2>. QED
    BY <2>1, FS_EmptySet DEF Spent
<1>3. \A n : Used(n) = {} /\ Tries(n) = 0
  <2>1. \A n : Used(n) = {}
    BY DEF Init, Used
  <2>. QED
    BY <2>1, FS_EmptySet DEF Tries
<1>4. Numbered
  BY <1>3 DEF Numbered, Init
<1>5. OneChargePerPurchase /\ Retained /\ Reconciled
  BY DEF Init, OneChargePerPurchase, Retained, Reconciled
<1>6. Counted /\ Answered
  BY <1>2 DEF Init, Counted, Answered, Buying, Budget
<1>7. Bridged
  <2>1. \A m : {x \in external : MandateOf[x] = m} = {}
    BY DEF Init
  <2>. QED
    BY <2>1, FS_EmptySet DEF Init, Bridged, Budget
<1>. QED
  BY <1>1, <1>4, <1>5, <1>6, <1>7 DEF Inv

THEOREM Invariance == Spec => []Inv
<1>1. Inv /\ [Next]_vars => Inv'
  BY TypeKept, OneChargeKept, NumberedKept, RetainedKept, ReconciledKept, CountedKept, AnsweredKept,
     BridgedKept, Zenon DEF Inv
<1>. QED
  BY <1>1, InitInv, PTL DEF Spec

\* Every variable of the workspace keeps its type.
THEOREM TypeCorrectness == Spec => []TypeOK
  BY Invariance, PTL DEF Inv

\* A purchase is charged once, however often it fails, is repeated or abandoned: a
\* second payment is signed only when the first was refused by the ledger.
THEOREM ChargedOnce == Spec => []OneChargePerPurchase
  BY Invariance, PTL DEF Inv

\* Between actions a workspace in the table owes nothing and is owed nothing.
THEOREM Reconciliation == Spec => []IdleIsReconciled
<1>1. Inv => IdleIsReconciled
  <2>. SUFFICES ASSUME Inv, alive, pc = "idle"
                PROVE  /\ receipt = None /\ served = Spent
                       /\ \A p \in Payments :
                            chain[p] # "sent" /\ (chain[p] = "settled" => p \in merchant)
    BY DEF IdleIsReconciled
  <2>1. receipt = None
    BY DEF Inv, Retained, Open
  <2>2. served = Spent
    BY DEF Inv, TypeOK, Counted, Open, Budget
  <2>3. \A p \in Payments : chain[p] # "sent" /\ (chain[p] = "settled" => p \in merchant)
    BY <2>1, WorkspaceAssumption DEF Inv, Reconciled, Open
  <2>. QED
    BY <2>1, <2>2, <2>3
<1>. QED
  BY <1>1, Invariance, PTL

\* An operation has one answer, and a delivery is told of the payment it was for.
THEOREM TruthfulAnswers == Spec => []AnswersAreTrue
<1>1. Inv => AnswersAreTrue
  <2>. SUFFICES ASSUME Inv, NEW o \in Operations, NEW r \in answers[o]
                PROVE  /\ answers[o] = {r}
                       /\ r.outcome = "delivered" =>
                            /\ chain[r.tx] = "settled"
                            /\ r.tx \in merchant
                            /\ r.tx[1] = r.attempt
                            /\ \A q \in Operations \ {o} : \A other \in answers[q] : other.tx # r.tx
    BY Zenon DEF AnswersAreTrue
  <2>1. stored[o] = r /\ r # None /\ answers[o] = {r}
    BY DEF Inv, Answered
  <2>2. r.outcome = "delivered" =>
          r.tx \in Payments /\ chain[r.tx] = "settled" /\ r.tx \in merchant /\ r.tx[1] = r.attempt
    BY <2>1 DEF Inv, Answered
  <2>3. ASSUME r.outcome = "delivered", NEW q \in Operations \ {o}, NEW other \in answers[q]
        PROVE  other.tx # r.tx
    <3>1. stored[q] = other /\ other # None /\ other.outcome \in {"delivered", "blocked"}
      BY DEF Inv, Answered, TypeOK, Responses
    <3>2. other.attempt # r.attempt
      BY <2>1, <3>1 DEF Inv, Answered
    <3>3. CASE other.outcome = "delivered"
      <4>1. other.tx[1] = other.attempt
        BY <3>1, <3>3 DEF Inv, Answered
      <4>. QED
        BY <2>2, <2>3, <3>2, <4>1
    <3>4. CASE other.outcome = "blocked"
      <4>1. other.tx = None
        BY <3>1, <3>4 DEF Inv, Answered
      <4>. QED
        BY <2>2, <2>3, <4>1, WorkspaceAssumption
    <3>. QED
      BY <3>1, <3>3, <3>4
  <2>. QED
    BY <2>1, <2>2, <2>3
<1>. QED
  BY <1>1, Invariance, PTL

\* The end is announced when the budget is used up, and only then.
THEOREM TruthfulEnd == Spec => []EndIsExhaustion
<1>1. Inv => EndIsExhaustion
  BY DEF Inv, EndIsExhaustion, Answered, Counted, Bridged
<1>. QED
  BY <1>1, Invariance, PTL
=============================================================================
