---------------------------- MODULE BoundRedemption ----------------------------
(***************************************************************************)
(* The merchant's paid route: fulfillment.mjs in front of the SDK's bound  *)
(* payment middleware and paid-JSON route, over the durable redemption     *)
(* store of storage.mjs, with the operator tool of operator-recovery.mjs.  *)
(*                                                                         *)
(* Several HTTP requests are served concurrently by one Node process; each *)
(* await is a point where another request runs.  The store serialises its  *)
(* operations (storage.mjs `serialized`), so every store call is one step. *)
(* A store call may fail, before or after its rename became durable.  The  *)
(* process may crash between any two steps; the redemption file survives.  *)
(***************************************************************************)
EXTENDS Naturals

CONSTANTS
  Tx,         \* settlement transactions the merchant may be shown
  Proofs,     \* well-formed bound proofs
  Requests,   \* HTTP requests; each carries one proof and is served once
  Results,    \* bodies the business callback can return
  Terminal,   \* the stored "paid fulfillment failed" body
  None,
  TxOf,       \* TxOf[p]: the transaction the proof p names
  Authentic,  \* proofs whose challenge carries this merchant's MAC
  Genuine,    \* proofs signed by the payer of exactly that payment
  TimeBound,  \* proofs whose transaction was time-bound to their quote
  MaxFaults   \* bound: crashes plus failing store writes of a behaviour

Answers == Results \cup {Terminal}

ASSUME ConstantsAssumption ==
  /\ TxOf \in [Proofs -> Tx]
  /\ Authentic \subseteq Proofs
  /\ Genuine \subseteq Proofs
  /\ TimeBound \subseteq Proofs
  /\ None \notin Proofs \cup Requests \cup Answers \cup Tx
  /\ MaxFaults \in Nat

VARIABLES
  settled,    \* transactions that succeeded on the ledger
  expired,    \* proofs whose challenge has expired
  record,     \* record[t]: the redemption record of t in the store
  aged,       \* executions older than the operator's minimum age
  pc,         \* pc[r]: where request r is
  proof,      \* proof[r]: the proof it carries
  late,       \* late[r]: served by handleLateBoundDelivery
  output,     \* output[r]: what the business callback produced for r
  operator,   \* the operator's captured identity
  faults,
  calls,      \* history: times the paid callback ran for t
  shown       \* history: <<proof, answer>> sent with status 200

vars == <<settled, expired, record, aged, pc, proof, late, output, operator,
          faults, calls, shown>>

world == <<settled, expired, aged>>

NoRecord == [state |-> "missing", proof |-> None, exec |-> None, answer |-> None]

Records == [state : {"missing", "executing", "completed"},
            proof : Proofs \cup {None},
            exec : Requests \cup {None},
            answer : Answers \cup {None}]

Idle == [step |-> "idle", tx |-> None, exec |-> None]

Steps == {"new", "lookup", "timing", "gate", "recover", "verify", "claim",
          "fulfill", "complete", "served", "refused", "conflict", "pending",
          "unavailable", "dead"}

InFlight == {"lookup", "timing", "gate", "recover", "verify", "claim",
             "fulfill", "complete"}

TypeOK ==
  /\ settled \subseteq Tx
  /\ expired \subseteq Proofs
  /\ record \in [Tx -> Records]
  /\ aged \subseteq Tx
  /\ pc \in [Requests -> Steps]
  /\ proof \in [Requests -> Proofs \cup {None}]
  /\ late \in [Requests -> BOOLEAN]
  /\ output \in [Requests -> Answers \cup {None}]
  /\ operator \in [step : {"idle", "inspected", "checked"},
                   tx : Tx \cup {None}, exec : Requests \cup {None}]
  /\ faults \in 0 .. MaxFaults
  /\ calls \in [Tx -> Nat]
  /\ shown \subseteq Proofs \X Answers

Init ==
  /\ settled = {}
  /\ expired = {}
  /\ record = [t \in Tx |-> NoRecord]
  /\ aged = {}
  /\ pc = [r \in Requests |-> "new"]
  /\ proof = [r \in Requests |-> None]
  /\ late = [r \in Requests |-> FALSE]
  /\ output = [r \in Requests |-> None]
  /\ operator = Idle
  /\ faults = 0
  /\ calls = [t \in Tx |-> 0]
  /\ shown = {}

Paid(r) == TxOf[proof[r]]

\* What the store answers for a proof: missing, conflict, executing, completed.
Lookup(p) ==
  LET stored == record[TxOf[p]] IN
  IF stored.state # "missing" /\ stored.proof # p THEN "conflict" ELSE stored.state

\* r stops with a reply that is not a delivery.
Reply(r, status) ==
  /\ pc' = [pc EXCEPT ![r] = status]
  /\ UNCHANGED <<record, proof, late, output, operator, calls, shown>>

Advance(r, step) == Reply(r, step)

\* r replies 200 with the stored answer.
SendStored(r) ==
  /\ pc' = [pc EXCEPT ![r] = "served"]
  /\ shown' = shown \cup {<<proof[r], record'[Paid(r)].answer>>}

Fault == faults < MaxFaults /\ faults' = faults + 1

------------------------------------------------------------------------------
(* The world outside the merchant *)

Settle(t) ==
  /\ t \notin settled
  /\ settled' = settled \cup {t}
  /\ UNCHANGED <<expired, record, aged, pc, proof, late, output, operator, faults, calls, shown>>

Expire(p) ==
  /\ p \notin expired
  /\ expired' = expired \cup {p}
  /\ UNCHANGED <<settled, record, aged, pc, proof, late, output, operator, faults, calls, shown>>

\* An execution becomes older than the operator's minimum age.
Age(t) ==
  /\ record[t].state = "executing"
  /\ t \notin aged
  /\ aged' = aged \cup {t}
  /\ UNCHANGED <<settled, expired, record, pc, proof, late, output, operator, faults, calls, shown>>

Arrive(r, p) ==
  /\ pc[r] = "new"
  /\ pc' = [pc EXCEPT ![r] = "lookup"]
  /\ proof' = [proof EXCEPT ![r] = p]
  /\ UNCHANGED <<world, record, late, output, operator, faults, calls, shown>>

------------------------------------------------------------------------------
(* The route's own lookup decides which of three ways a proof goes *)

RouteMissing(r) ==
  /\ pc[r] = "lookup"
  /\ Lookup(proof[r]) = "missing"
  /\ IF proof[r] \in Authentic \cap expired
       THEN /\ pc' = [pc EXCEPT ![r] = "timing"]
            /\ late' = [late EXCEPT ![r] = TRUE]
       ELSE /\ pc' = [pc EXCEPT ![r] = "gate"]
            /\ UNCHANGED late
  /\ UNCHANGED <<world, record, proof, output, operator, faults, calls, shown>>

RouteExisting(r) ==
  /\ pc[r] = "lookup"
  /\ Lookup(proof[r]) # "missing"
  /\ Advance(r, "recover")
  /\ UNCHANGED <<world, faults>>

RouteFails(r) ==
  /\ pc[r] = "lookup"
  /\ Reply(r, "unavailable")
  /\ UNCHANGED <<world, faults>>

\* A late proof needs ledger timing evidence that ties it to its quote.
Timing(r) ==
  /\ pc[r] = "timing"
  /\ \/ /\ Paid(r) \in settled
        /\ proof[r] \in TimeBound
        /\ Advance(r, "verify")
     \/ /\ Paid(r) \in settled
        /\ proof[r] \notin TimeBound
        /\ Reply(r, "refused")
     \/ Reply(r, "unavailable")
  /\ UNCHANGED <<world, faults>>

\* Mutant: any record found is sent, finished or not.
GateSendsUnfinished(r) ==
  /\ pc[r] \in {"gate", "recover"}
  /\ proof[r] \in Authentic
  /\ IF Lookup(proof[r]) \in {"executing", "completed"}
       THEN /\ UNCHANGED <<record, proof, late, output, operator, calls>>
            /\ SendStored(r)
       ELSE Reply(r, "refused")
  /\ UNCHANGED <<world, faults>>

\* The middleware repeats the lookup before it verifies anything.  It read the
\* clock before that lookup, so an expiry meanwhile may go unseen.
Gate(r) ==
  /\ pc[r] \in {"gate", "recover"}
  /\ \/ /\ proof[r] \notin Authentic
        /\ Reply(r, "refused")
     \/ /\ proof[r] \in Authentic
        /\ Lookup(proof[r]) = "conflict"
        /\ Reply(r, "conflict")
     \/ /\ proof[r] \in Authentic
        /\ Lookup(proof[r]) = "executing"
        /\ Reply(r, "pending")
     \/ /\ proof[r] \in Authentic
        /\ Lookup(proof[r]) = "completed"
        /\ UNCHANGED <<record, proof, late, output, operator, calls>>
        /\ SendStored(r)
     \/ /\ proof[r] \in Authentic
        /\ Lookup(proof[r]) = "missing"
        /\ \/ Advance(r, "verify")
           \/ proof[r] \in expired /\ Reply(r, "refused")
     \/ /\ proof[r] \in Authentic
        /\ Reply(r, "unavailable")
  /\ UNCHANGED <<world, faults>>

\* Mutant: chain evidence without the payer's signature check.
VerifyWithoutSignature(r) ==
  /\ pc[r] = "verify"
  /\ IF Paid(r) \in settled THEN Advance(r, "claim") ELSE Reply(r, "refused")
  /\ UNCHANGED <<world, faults>>

\* The ordinary verifier also refuses a payment older than its ledger window.
Verify(r) ==
  /\ pc[r] = "verify"
  /\ \/ /\ Paid(r) \in settled
        /\ proof[r] \in Genuine
        /\ Advance(r, "claim")
     \/ /\ Paid(r) \notin settled \/ proof[r] \notin Genuine \/ ~late[r]
        /\ Reply(r, "refused")
     \/ Reply(r, "unavailable")
  /\ UNCHANGED <<world, faults>>

------------------------------------------------------------------------------
(* claim: insert an executing record, or report what is there *)

Executing(r) == [state |-> "executing", proof |-> proof[r], exec |-> r, answer |-> None]

\* Mutant: a retry of the same proof takes over an unfinished execution.
ClaimTakesOver(r) ==
  /\ pc[r] = "claim"
  /\ Lookup(proof[r]) \in {"missing", "executing"}
  /\ record' = [record EXCEPT ![Paid(r)] = Executing(r)]
  /\ pc' = [pc EXCEPT ![r] = "fulfill"]
  /\ UNCHANGED <<world, proof, late, output, operator, faults, calls, shown>>

Claim(r) ==
  /\ pc[r] = "claim"
  /\ Lookup(proof[r]) = "missing"
  /\ record' = [record EXCEPT ![Paid(r)] = Executing(r)]
  /\ pc' = [pc EXCEPT ![r] = "fulfill"]
  /\ UNCHANGED <<world, proof, late, output, operator, faults, calls, shown>>

ClaimExisting(r) ==
  /\ pc[r] = "claim"
  /\ \/ Lookup(proof[r]) = "conflict" /\ Reply(r, "conflict")
     \/ Lookup(proof[r]) = "executing" /\ Reply(r, "pending")
     \/ /\ Lookup(proof[r]) = "completed"
        /\ UNCHANGED <<record, proof, late, output, operator, calls>>
        /\ SendStored(r)
  /\ UNCHANGED <<world, faults>>

\* The write fails; its rename may or may not have become durable.
ClaimFails(r) ==
  /\ pc[r] = "claim"
  /\ Lookup(proof[r]) = "missing"
  /\ Fault
  /\ \/ record' = [record EXCEPT ![Paid(r)] = Executing(r)]
     \/ UNCHANGED record
  /\ pc' = [pc EXCEPT ![r] = "unavailable"]
  /\ UNCHANGED <<world, proof, late, output, operator, calls, shown>>

\* Mutant: a callback that throws answers 503 and stores nothing.
FulfillThrowsThrough(r) ==
  /\ pc[r] = "fulfill"
  /\ calls' = [calls EXCEPT ![Paid(r)] = @ + 1]
  /\ \E a \in Answers : output' = [output EXCEPT ![r] = a]
  /\ pc' = [pc EXCEPT ![r] = IF output'[r] = Terminal THEN "unavailable" ELSE "complete"]
  /\ UNCHANGED <<world, record, proof, late, operator, faults, shown>>

\* The paid work.  A callback that throws is stored as the terminal failure.
Fulfill(r) ==
  /\ pc[r] = "fulfill"
  /\ calls' = [calls EXCEPT ![Paid(r)] = @ + 1]
  /\ \E a \in Answers : output' = [output EXCEPT ![r] = a]
  /\ pc' = [pc EXCEPT ![r] = "complete"]
  /\ UNCHANGED <<world, record, proof, late, operator, faults, shown>>

------------------------------------------------------------------------------
(* complete: executing -> completed for its own execution, once *)

CanComplete(t, exec) == record[t].state = "executing" /\ record[t].exec = exec

Completed(t, a) == [record EXCEPT ![t].state = "completed", ![t].answer = a]

Complete(r) ==
  /\ pc[r] = "complete"
  /\ CanComplete(Paid(r), r)
  /\ record' = Completed(Paid(r), output[r])
  /\ SendStored(r)
  /\ UNCHANGED <<world, proof, late, output, operator, faults, calls>>

\* Mutant: a completion that came second replies with its own output.
CompleteAgainRegardless(r) ==
  /\ pc[r] = "complete"
  /\ ~CanComplete(Paid(r), r)
  /\ pc' = [pc EXCEPT ![r] = "served"]
  /\ shown' = shown \cup {<<proof[r], output[r]>>}
  /\ UNCHANGED <<world, record, proof, late, output, operator, faults, calls>>

\* Someone else completed it: the same answer is idempotent, another conflicts.
CompleteAgain(r) ==
  /\ pc[r] = "complete"
  /\ ~CanComplete(Paid(r), r)
  /\ IF record[Paid(r)].exec = r /\ record[Paid(r)].answer = output[r]
       THEN /\ UNCHANGED <<record, proof, late, output, operator, calls>>
            /\ SendStored(r)
       ELSE Reply(r, "unavailable")
  /\ UNCHANGED <<world, faults>>

CompleteFails(r) ==
  /\ pc[r] = "complete"
  /\ CanComplete(Paid(r), r)
  /\ Fault
  /\ \/ record' = Completed(Paid(r), output[r])
     \/ UNCHANGED record
  /\ pc' = [pc EXCEPT ![r] = "unavailable"]
  /\ UNCHANGED <<world, proof, late, output, operator, calls, shown>>

------------------------------------------------------------------------------
(* The operator closes a stranded execution with the terminal answer *)

Inspect(t) ==
  /\ operator.step = "idle"
  /\ record[t].state = "executing"
  /\ operator' = [step |-> "inspected", tx |-> t, exec |-> record[t].exec]
  /\ UNCHANGED <<world, record, pc, proof, late, output, faults, calls, shown>>

\* Mutant: the age test is the wrong way round.
CheckYoung ==
  /\ operator.step = "inspected"
  /\ operator' = IF CanComplete(operator.tx, operator.exec) /\ operator.tx \notin aged
                   THEN [operator EXCEPT !.step = "checked"]
                   ELSE Idle
  /\ UNCHANGED <<world, record, pc, proof, late, output, faults, calls, shown>>

\* resolveInterruptedDelivery reads the record again and checks identity and age.
Check ==
  /\ operator.step = "inspected"
  /\ operator' = IF CanComplete(operator.tx, operator.exec) /\ operator.tx \in aged
                   THEN [operator EXCEPT !.step = "checked"]
                   ELSE Idle
  /\ UNCHANGED <<world, record, pc, proof, late, output, faults, calls, shown>>

Resolve ==
  /\ operator.step = "checked"
  /\ record' = IF CanComplete(operator.tx, operator.exec)
                 THEN Completed(operator.tx, Terminal)
                 ELSE record
  /\ operator' = Idle
  /\ UNCHANGED <<world, pc, proof, late, output, faults, calls, shown>>

ResolveFails ==
  /\ operator.step = "checked"
  /\ Fault
  /\ operator' = Idle
  /\ UNCHANGED <<world, record, pc, proof, late, output, calls, shown>>

Crash ==
  /\ Fault
  /\ pc' = [r \in Requests |-> IF pc[r] \in InFlight THEN "dead" ELSE pc[r]]
  /\ operator' = Idle
  /\ UNCHANGED <<world, record, proof, late, output, calls, shown>>

------------------------------------------------------------------------------
Serve(r) ==
  \/ RouteMissing(r) \/ RouteExisting(r) \/ RouteFails(r) \/ Timing(r) \/ Gate(r)
  \/ Verify(r) \/ Claim(r) \/ ClaimExisting(r) \/ Fulfill(r) \/ Complete(r) \/ CompleteAgain(r)

Next ==
  \/ \E t \in Tx : Settle(t) \/ Age(t) \/ Inspect(t)
  \/ \E p \in Proofs : Expire(p)
  \/ \E r \in Requests, p \in Proofs : Arrive(r, p)
  \/ \E r \in Requests : Serve(r) \/ ClaimFails(r) \/ CompleteFails(r)
  \/ Check \/ Resolve \/ ResolveFails \/ Crash

Spec == Init /\ [][Next]_vars

\* Node runs every request it accepted; executions age with the clock; a
\* diligent operator inspects and resolves what stays stranded.
Fairness ==
  /\ \A r \in Requests : WF_vars(Serve(r))
  /\ \A t \in Tx : WF_vars(Age(t)) /\ SF_vars(t \in aged /\ Inspect(t))
  /\ WF_vars(Check) /\ WF_vars(Resolve)

FairSpec == Spec /\ Fairness

------------------------------------------------------------------------------
(* What the route promises *)

\* The paid callback runs at most once for a settlement, whatever proofs,
\* retries, crashes and half-durable writes come together.
PaidWorkAtMostOnce == \A t \in Tx : calls[t] <= 1

\* Every 200 ever sent carried the one answer that is stored, and went to the
\* proof the settlement is bound to: a client that asks again gets the same.
EveryReplyIsTheStoredAnswer ==
  \A sent \in shown :
    LET stored == record[TxOf[sent[1]]] IN
    stored.state = "completed" /\ stored.proof = sent[1] /\ stored.answer = sent[2]

\* A record, and so any paid work, exists only for a payment that settled and a
\* proof that this merchant quoted and that payer signed.
OnlyGenuinePaymentsBind ==
  \A t \in Tx :
    \/ record[t].state = "missing" /\ calls[t] = 0
    \/ t \in settled /\ record[t].proof \in Authentic \cap Genuine

\* Without a crash or a failing write, paid work that has run and reported back
\* is answered.
RunIsAnswered ==
  \A t \in Tx :
    faults = 0 /\ calls[t] > 0 /\ (\A r \in Requests : pc[r] = "complete" => Paid(r) # t)
      => record[t].state = "completed"

\* Under any faults, the stored answer is what the callback of the execution
\* bound to the record returned.  The one exception is the operator's: an
\* execution past the minimum age may be given the terminal answer, even one
\* that is still running, and then its own output is dropped.
AnswerIsTheWork ==
  \A t \in Tx :
    record[t].state = "completed" =>
      \/ calls[t] > 0 /\ record[t].answer = output[record[t].exec]
      \/ t \in aged /\ record[t].answer = Terminal

\* Paid work that has run is answered while nothing fails, and with its own
\* output unless the operator resolved an execution old enough to be resolved.
WorkIsStored == RunIsAnswered /\ AnswerIsTheWork

\* A bound record stays bound to its proof and execution, and an answer, once
\* stored, is never replaced: not by the executor, not by the operator.
BindingIsForever ==
  [][\A t \in Tx :
       /\ record[t].state # "missing" =>
            record'[t].proof = record[t].proof /\ record'[t].exec = record[t].exec
       /\ record[t].state = "completed" => record'[t] = record[t]]_vars

\* Whatever was claimed is answered in the end, by its executor or, when that
\* one is gone, by the operator.
ClaimedIsAnswered ==
  \A t \in Tx : record[t].state = "executing" ~> record[t].state = "completed"

Stage == [missing |-> "open", executing |-> "claimed", completed |-> "answered"]

Delivery == INSTANCE OneShotDelivery WITH
  stage <- [t \in Tx |-> Stage[record[t].state]],
  owner <- [t \in Tx |-> record[t].proof],
  work <- calls,
  answer <- [t \in Tx |-> record[t].answer]

\* The route implements one-shot delivery.
ImplementsOneShotDelivery == Delivery!Spec
=============================================================================
