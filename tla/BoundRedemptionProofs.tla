------------------------- MODULE BoundRedemptionProofs -------------------------
(***************************************************************************)
(* What holds of the paid route for any number of settlements, proofs,     *)
(* requests and faults.  The inductive invariant ties every request at     *)
(* work to the record it claimed, and every record to a vetted proof.      *)
(***************************************************************************)
EXTENDS BoundRedemption, TLAPS

\* A request past its arrival carries a proof; only vetted proofs get to claim.
Vetted ==
  \A r \in Requests :
    /\ pc[r] # "new" => proof[r] \in Proofs
    /\ pc[r] \in {"timing", "verify", "claim"} => proof[r] \in Authentic
    /\ pc[r] = "claim" => proof[r] \in Genuine /\ Paid(r) \in settled

\* A request at work owns the record of its settlement, and works it once.
Owned ==
  \A r \in Requests :
    /\ pc[r] \in {"fulfill", "complete"} =>
         /\ record[Paid(r)].state # "missing"
         /\ record[Paid(r)].exec = r
         /\ record[Paid(r)].proof = proof[r]
    /\ pc[r] = "fulfill" => calls[Paid(r)] = 0
    /\ pc[r] = "complete" => output[r] \in Answers

\* A missing record is blank and unworked; any other is bound for good reasons.
Recorded ==
  \A t \in Tx :
    /\ record[t].state = "missing" => record[t] = NoRecord /\ calls[t] = 0
    /\ record[t].state # "missing" =>
         /\ t \in settled
         /\ record[t].proof \in Authentic \cap Genuine
         /\ TxOf[record[t].proof] = t
         /\ record[t].exec \in Requests
    /\ record[t].state = "completed" => record[t].answer \in Answers

Aimed == operator.step # "idle" => operator.tx \in Tx /\ operator.exec \in Requests

Inv ==
  /\ TypeOK
  /\ Vetted
  /\ Owned
  /\ Recorded
  /\ Aimed
  /\ PaidWorkAtMostOnce
  /\ EveryReplyIsTheStoredAnswer

LEMMA InitInv == ASSUME Init PROVE Inv
BY ConstantsAssumption
DEF Init, Inv, TypeOK, Vetted, Owned, Recorded, Aimed, PaidWorkAtMostOnce,
    EveryReplyIsTheStoredAnswer, NoRecord, Records, Idle, Steps

\* r moves on, and only into steps it is vetted for.
LEMMA MoveInv ==
  ASSUME Inv, NEW r \in Requests, pc[r] # "new",
         NEW step \in Steps \ {"new", "fulfill", "complete"},
         step \in {"timing", "verify", "claim"} => proof[r] \in Authentic,
         step = "claim" => proof[r] \in Genuine /\ Paid(r) \in settled,
         pc' = [pc EXCEPT ![r] = step],
         late' \in [Requests -> BOOLEAN],
         faults' \in 0 .. MaxFaults,
         UNCHANGED <<world, record, proof, output, operator, calls, shown>>
  PROVE  Inv'
<1> USE DEF Inv, TypeOK, world
<1>1. TypeOK'
  OBVIOUS
<1>2. Vetted'
  BY DEF Vetted, Paid
<1>3. Owned'
  BY DEF Owned, Paid
<1>4. Recorded' /\ Aimed' /\ PaidWorkAtMostOnce' /\ EveryReplyIsTheStoredAnswer'
  BY DEF Recorded, Aimed, PaidWorkAtMostOnce, EveryReplyIsTheStoredAnswer
<1> QED
  BY <1>1, <1>2, <1>3, <1>4

\* A reply that delivers nothing.
LEMMA ReplyInv ==
  ASSUME Inv, NEW r \in Requests, pc[r] # "new",
         NEW status \in {"refused", "conflict", "pending", "unavailable", "recover"},
         Reply(r, status), UNCHANGED <<world, faults>>
  PROVE  Inv'
BY MoveInv DEF Inv, TypeOK, Reply, Steps

\* Sending what the store holds for the request's own proof.
LEMMA SendStoredInv ==
  ASSUME Inv, NEW r \in Requests, pc[r] # "new",
         record[Paid(r)].state = "completed", record[Paid(r)].proof = proof[r],
         SendStored(r),
         UNCHANGED <<world, record, proof, late, output, operator, faults, calls>>
  PROVE  Inv'
<1>1. /\ proof[r] \in Proofs
      /\ Paid(r) \in Tx
      /\ record[Paid(r)].answer \in Answers
  BY ConstantsAssumption DEF Inv, Vetted, Recorded, Paid
<1>2. /\ shown' = shown \cup {<<proof[r], record[Paid(r)].answer>>}
      /\ pc' = [pc EXCEPT ![r] = "served"]
  BY DEF SendStored, Paid
<1>3. TypeOK'
  BY <1>1, <1>2 DEF Inv, TypeOK, Steps, world
<1>4. Vetted' /\ Owned' /\ Recorded' /\ Aimed' /\ PaidWorkAtMostOnce'
  BY <1>2 DEF Inv, TypeOK, Vetted, Owned, Recorded, Aimed, PaidWorkAtMostOnce, Paid, world
<1>5. EveryReplyIsTheStoredAnswer'
  BY <1>1, <1>2 DEF Inv, EveryReplyIsTheStoredAnswer, Paid
<1> QED
  BY <1>3, <1>4, <1>5 DEF Inv

LEMMA LookupCompleted ==
  ASSUME NEW r \in Requests, Lookup(proof[r]) = "completed"
  PROVE  record[Paid(r)].state = "completed" /\ record[Paid(r)].proof = proof[r]
BY DEF Lookup, Paid

\* A vetted request inserts the record; it may go on to work, or lose its way.
LEMMA ClaimInv ==
  ASSUME Inv, NEW r \in Requests, pc[r] = "claim", Lookup(proof[r]) = "missing",
         NEW step \in {"fulfill", "unavailable"},
         record' = [record EXCEPT ![Paid(r)] = Executing(r)],
         pc' = [pc EXCEPT ![r] = step],
         faults' \in 0 .. MaxFaults,
         UNCHANGED <<world, proof, late, output, operator, calls, shown>>
  PROVE  Inv'
<1> USE ConstantsAssumption DEF Inv, TypeOK, world, Executing
<1>1. /\ proof[r] \in Authentic \cap Genuine
      /\ Paid(r) \in Tx
      /\ Paid(r) \in settled
      /\ record[Paid(r)].state = "missing"
      /\ calls[Paid(r)] = 0
  BY DEF Vetted, Recorded, Lookup, Paid
<1>2. Executing(r) \in Records
  BY <1>1 DEF Records
<1>3. TypeOK'
  BY <1>1, <1>2 DEF Steps
<1>4. Vetted'
  BY DEF Vetted, Paid
<1>5. ASSUME NEW q \in Requests, pc'[q] \in {"fulfill", "complete"}, q # r
      PROVE  record'[Paid(q)] = record[Paid(q)]
  BY <1>1, <1>5 DEF Owned
<1>6. Owned'
  BY <1>1, <1>5 DEF Owned, Paid
<1>7. Recorded'
  BY <1>1 DEF Recorded, Paid, NoRecord, Records
<1>8. Aimed' /\ PaidWorkAtMostOnce'
  BY DEF Aimed, PaidWorkAtMostOnce
<1>9. EveryReplyIsTheStoredAnswer'
  BY <1>1 DEF EveryReplyIsTheStoredAnswer
<1> QED
  BY <1>3, <1>4, <1>6, <1>7, <1>8, <1>9

\* An answer is stored for the one execution that may complete t.
LEMMA AnswerInv ==
  ASSUME Inv, NEW t \in Tx, NEW exec, CanComplete(t, exec), NEW a \in Answers,
         record' = Completed(t, a),
         UNCHANGED <<world, proof, output, calls>>
  PROVE  /\ record' \in [Tx -> Records]
         /\ Recorded'
         /\ \A u \in Tx : /\ record'[u].state = "missing" <=> record[u].state = "missing"
                          /\ record'[u].exec = record[u].exec
                          /\ record'[u].proof = record[u].proof
                          /\ record[u].state = "completed" => record'[u] = record[u]
         /\ record'[t].state = "completed" /\ record'[t].answer = a
<1>1. record[t] \in Records /\ record[t].state = "executing"
  BY DEF CanComplete, Inv, TypeOK
<1>2. /\ record'[t] = [record[t] EXCEPT !.state = "completed", !.answer = a]
      /\ \A u \in Tx : u # t => record'[u] = record[u]
      /\ DOMAIN record' = Tx
  BY DEF Completed, Inv, TypeOK
<1>3. record'[t] \in Records /\ record'[t].state = "completed" /\ record'[t].answer = a
      /\ record'[t].exec = record[t].exec /\ record'[t].proof = record[t].proof
  BY <1>1, <1>2 DEF Records
<1>4. record' \in [Tx -> Records]
  BY <1>1, <1>3 DEF Completed, Inv, TypeOK, Records
<1>5. Recorded'
  <2> SUFFICES ASSUME NEW u \in Tx
               PROVE  /\ record'[u].state = "missing" => record'[u] = NoRecord' /\ calls'[u] = 0
                      /\ record'[u].state # "missing" =>
                           /\ u \in settled'
                           /\ record'[u].proof \in Authentic \cap Genuine
                           /\ TxOf[record'[u].proof] = u
                           /\ record'[u].exec \in Requests
                      /\ record'[u].state = "completed" => record'[u].answer \in Answers
    BY DEF Recorded
  <2>1. CASE u = t
    BY <1>1, <1>3, <2>1 DEF Inv, Recorded, world
  <2>2. CASE u # t
    BY <1>2, <2>2 DEF Inv, Recorded, world, NoRecord
  <2> QED
    BY <2>1, <2>2
<1> QED
  BY <1>1, <1>2, <1>3, <1>4, <1>5

\* A request stores its own output; the reply may or may not get out.
LEMMA CompleteInv ==
  ASSUME Inv, NEW r \in Requests, pc[r] = "complete", CanComplete(Paid(r), r),
         record' = Completed(Paid(r), output[r]),
         NEW step \in {"served", "unavailable"},
         pc' = [pc EXCEPT ![r] = step],
         \/ shown' = shown \cup {<<proof[r], record'[Paid(r)].answer>>}
         \/ shown' = shown,
         faults' \in 0 .. MaxFaults,
         UNCHANGED <<world, proof, late, output, operator, calls>>
  PROVE  Inv'
<1>1. /\ proof[r] \in Proofs
      /\ Paid(r) \in Tx
      /\ output[r] \in Answers
      /\ record[Paid(r)].proof = proof[r]
      /\ record[Paid(r)].state = "executing"
  BY ConstantsAssumption DEF Inv, Vetted, Owned, Paid, CanComplete
<1>2. /\ record' \in [Tx -> Records]
      /\ Recorded'
      /\ \A u \in Tx : /\ record'[u].state = "missing" <=> record[u].state = "missing"
                       /\ record'[u].exec = record[u].exec
                       /\ record'[u].proof = record[u].proof
                       /\ record[u].state = "completed" => record'[u] = record[u]
      /\ record'[Paid(r)].state = "completed"
      /\ record'[Paid(r)].answer = output[r]
  BY <1>1, AnswerInv
<1>3. shown' \subseteq shown \cup {<<proof[r], output[r]>>}
  BY <1>2
<1>4. TypeOK'
  BY <1>1, <1>2, <1>3 DEF Inv, TypeOK, Steps, world
<1>5. Vetted'
  BY DEF Inv, TypeOK, Vetted, Paid, world
<1>6. Owned'
  BY ConstantsAssumption, <1>2 DEF Inv, TypeOK, Vetted, Owned, Paid
<1>7. Aimed' /\ PaidWorkAtMostOnce'
  BY DEF Inv, Aimed, PaidWorkAtMostOnce
<1>8. EveryReplyIsTheStoredAnswer'
  <2>1. \A sent \in shown : TxOf[sent[1]] \in Tx
    BY ConstantsAssumption DEF Inv, TypeOK
  <2> QED
    BY <1>1, <1>2, <1>3, <2>1 DEF Inv, EveryReplyIsTheStoredAnswer, Paid
<1> QED
  BY <1>2, <1>4, <1>5, <1>6, <1>7, <1>8 DEF Inv

\* No step leaves the invariant.
LEMMA StepInv == ASSUME Inv, [Next]_vars PROVE Inv'
<1>1. ASSUME NEW t \in Tx, Settle(t) PROVE Inv'
  BY <1>1, ConstantsAssumption DEF Settle, Paid, Inv, TypeOK, Vetted, Owned, Recorded, Aimed,
      PaidWorkAtMostOnce, EveryReplyIsTheStoredAnswer, world
<1>2. ASSUME NEW t \in Tx, Age(t) PROVE Inv'
  BY <1>2, ConstantsAssumption DEF Age, Paid, Inv, TypeOK, Vetted, Owned, Recorded, Aimed,
      PaidWorkAtMostOnce, EveryReplyIsTheStoredAnswer, world
<1>3. ASSUME NEW t \in Tx, Inspect(t) PROVE Inv'
  BY <1>3, ConstantsAssumption DEF Inspect, Paid, Inv, TypeOK, Vetted, Owned, Recorded, Aimed,
      PaidWorkAtMostOnce, EveryReplyIsTheStoredAnswer, world
<1>4. ASSUME NEW p \in Proofs, Expire(p) PROVE Inv'
  BY <1>4, ConstantsAssumption DEF Expire, Paid, Inv, TypeOK, Vetted, Owned, Recorded, Aimed,
      PaidWorkAtMostOnce, EveryReplyIsTheStoredAnswer, world
<1>5. ASSUME NEW r \in Requests, NEW p \in Proofs, Arrive(r, p) PROVE Inv'
  BY <1>5, ConstantsAssumption DEF Arrive, Steps, Paid, Inv, TypeOK, Vetted, Owned, Recorded, Aimed,
      PaidWorkAtMostOnce, EveryReplyIsTheStoredAnswer, world
<1>6. ASSUME NEW r \in Requests, RouteMissing(r) PROVE Inv'
  <2>1. CASE proof[r] \in Authentic \cap expired
    <3>1. /\ pc' = [pc EXCEPT ![r] = "timing"]
          /\ late' \in [Requests -> BOOLEAN]
      BY <1>6, <2>1 DEF RouteMissing, Inv, TypeOK
    <3> QED
      BY <1>6, <2>1, <3>1, MoveInv DEF RouteMissing, Inv, TypeOK, Steps
  <2>2. CASE proof[r] \notin Authentic \cap expired
    BY <1>6, <2>2, MoveInv DEF RouteMissing, Inv, TypeOK, Steps, world
  <2> QED
    BY <2>1, <2>2
<1>7. ASSUME NEW r \in Requests, RouteExisting(r) PROVE Inv'
  BY <1>7, ReplyInv DEF RouteExisting, Advance
<1>8. ASSUME NEW r \in Requests, RouteFails(r) PROVE Inv'
  BY <1>8, ReplyInv DEF RouteFails
<1>9. ASSUME NEW r \in Requests, Timing(r) PROVE Inv'
  <2>1. CASE Advance(r, "verify")
    BY <1>9, <2>1, MoveInv DEF Timing, Advance, Reply, Inv, TypeOK, Vetted, Steps
  <2>2. CASE Reply(r, "refused") \/ Reply(r, "unavailable")
    BY <1>9, <2>2, ReplyInv DEF Timing
  <2> QED
    BY <1>9, <2>1, <2>2 DEF Timing
<1>10. ASSUME NEW r \in Requests, Gate(r) PROVE Inv'
  <2>0. pc[r] # "new" /\ UNCHANGED <<world, faults>>
    BY <1>10 DEF Gate
  <2>1. CASE proof[r] \in Authentic /\ Advance(r, "verify")
    BY <2>0, <2>1, MoveInv DEF Advance, Reply, Inv, TypeOK, Steps
  <2>2. CASE \E status \in {"refused", "conflict", "pending", "unavailable"} : Reply(r, status)
    BY <2>0, <2>2, ReplyInv
  <2>3. CASE /\ Lookup(proof[r]) = "completed"
             /\ UNCHANGED <<record, proof, late, output, operator, calls>>
             /\ SendStored(r)
    BY <2>0, <2>3, SendStoredInv, LookupCompleted
  <2> QED
    BY <1>10, <2>1, <2>2, <2>3 DEF Gate
<1>11. ASSUME NEW r \in Requests, Verify(r) PROVE Inv'
  <2>1. CASE Paid(r) \in settled /\ proof[r] \in Genuine /\ Advance(r, "claim")
    BY <1>11, <2>1, MoveInv DEF Verify, Advance, Reply, Inv, TypeOK, Vetted, Steps
  <2>2. CASE Reply(r, "refused") \/ Reply(r, "unavailable")
    BY <1>11, <2>2, ReplyInv DEF Verify
  <2> QED
    BY <1>11, <2>1, <2>2 DEF Verify
<1>12. ASSUME NEW r \in Requests, Claim(r) PROVE Inv'
  BY <1>12, ClaimInv DEF Claim, Inv, TypeOK
<1>13. ASSUME NEW r \in Requests, ClaimExisting(r) PROVE Inv'
  <2>1. CASE Reply(r, "conflict") \/ Reply(r, "pending")
    BY <1>13, <2>1, ReplyInv DEF ClaimExisting
  <2>2. CASE /\ Lookup(proof[r]) = "completed"
             /\ UNCHANGED <<record, proof, late, output, operator, calls>>
             /\ SendStored(r)
    BY <1>13, <2>2, SendStoredInv, LookupCompleted DEF ClaimExisting
  <2> QED
    BY <1>13, <2>1, <2>2 DEF ClaimExisting
<1>14. ASSUME NEW r \in Requests, ClaimFails(r) PROVE Inv'
  <2>1. faults' \in 0 .. MaxFaults
    BY <1>14, ConstantsAssumption DEF ClaimFails, Fault, Inv, TypeOK
  <2>2. CASE record' = [record EXCEPT ![Paid(r)] = Executing(r)]
    BY <1>14, <2>1, <2>2, ClaimInv DEF ClaimFails
  <2>3. CASE UNCHANGED record
    BY <1>14, <2>1, <2>3, MoveInv DEF ClaimFails, Inv, TypeOK, Steps
  <2> QED
    BY <1>14, <2>2, <2>3 DEF ClaimFails
<1>15. ASSUME NEW r \in Requests, Fulfill(r) PROVE Inv'
  BY <1>15, ConstantsAssumption DEF Fulfill, Answers, Steps, Paid, Inv, TypeOK, Vetted, Owned, Recorded, Aimed,
      PaidWorkAtMostOnce, EveryReplyIsTheStoredAnswer, world
<1>16. ASSUME NEW r \in Requests, Complete(r) PROVE Inv'
  BY <1>16, CompleteInv DEF Complete, SendStored, Inv, TypeOK
<1>17. ASSUME NEW r \in Requests, CompleteAgain(r) PROVE Inv'
  <2>1. CASE Reply(r, "unavailable")
    BY <1>17, <2>1, ReplyInv DEF CompleteAgain
  <2>2. CASE /\ UNCHANGED <<record, proof, late, output, operator, calls>>
             /\ SendStored(r)
    <3>1. Paid(r) \in Tx
      BY <1>17, ConstantsAssumption DEF CompleteAgain, Inv, Vetted, Paid
    <3>2. record[Paid(r)].state = "completed" /\ record[Paid(r)].proof = proof[r]
      BY <1>17, <3>1 DEF CompleteAgain, CanComplete, Inv, TypeOK, Owned, Records
    <3> QED
      BY <1>17, <2>2, <3>2, SendStoredInv DEF CompleteAgain
  <2> QED
    BY <1>17, <2>1, <2>2 DEF CompleteAgain
<1>18. ASSUME NEW r \in Requests, CompleteFails(r) PROVE Inv'
  <2>1. faults' \in 0 .. MaxFaults
    BY <1>18, ConstantsAssumption DEF CompleteFails, Fault, Inv, TypeOK
  <2>2. CASE record' = Completed(Paid(r), output[r])
    BY <1>18, <2>1, <2>2, CompleteInv DEF CompleteFails
  <2>3. CASE UNCHANGED record
    BY <1>18, <2>1, <2>3, MoveInv DEF CompleteFails, Inv, TypeOK, Steps
  <2> QED
    BY <1>18, <2>2, <2>3 DEF CompleteFails
<1>19. ASSUME Check PROVE Inv'
  <2>1. CASE operator' = [operator EXCEPT !.step = "checked"]
    BY <1>19, <2>1, ConstantsAssumption DEF Check, Paid, Inv, TypeOK, Vetted, Owned, Recorded, Aimed,
      PaidWorkAtMostOnce, EveryReplyIsTheStoredAnswer, world
  <2>2. CASE operator' = Idle
    BY <1>19, <2>2, ConstantsAssumption DEF Check, Idle, Paid, Inv, TypeOK, Vetted, Owned, Recorded, Aimed,
      PaidWorkAtMostOnce, EveryReplyIsTheStoredAnswer, world
  <2> QED
    BY <1>19, <2>1, <2>2 DEF Check
<1>20. ASSUME Resolve PROVE Inv'
  <2>1. CASE CanComplete(operator.tx, operator.exec)
    <3> DEFINE t == operator.tx
    <3>1. t \in Tx
      BY <1>20 DEF Resolve, Inv, Aimed
    <3>2. /\ record' \in [Tx -> Records]
          /\ Recorded'
          /\ \A u \in Tx : /\ record'[u].state = "missing" <=> record[u].state = "missing"
                           /\ record'[u].exec = record[u].exec
                           /\ record'[u].proof = record[u].proof
                           /\ record[u].state = "completed" => record'[u] = record[u]
      BY <1>20, <2>1, <3>1, AnswerInv DEF Resolve, Answers, world
    <3>3. TypeOK' /\ Vetted' /\ Aimed' /\ PaidWorkAtMostOnce'
      BY <1>20, <3>2 DEF Resolve, Idle, Inv, TypeOK, Vetted, Aimed, PaidWorkAtMostOnce, Paid, world
    <3>4. Owned'
      BY <1>20, <3>2, ConstantsAssumption DEF Resolve, Inv, TypeOK, Vetted, Owned, Paid
    <3>5. EveryReplyIsTheStoredAnswer'
      BY <1>20, <3>2, ConstantsAssumption DEF Resolve, Inv, TypeOK, EveryReplyIsTheStoredAnswer
    <3> QED
      BY <3>2, <3>3, <3>4, <3>5 DEF Inv
  <2>2. CASE ~CanComplete(operator.tx, operator.exec)
    BY <1>20, <2>2 DEF Resolve, Idle, Paid, Inv, TypeOK, Vetted, Owned, Recorded, Aimed,
      PaidWorkAtMostOnce, EveryReplyIsTheStoredAnswer, world
  <2> QED
    BY <2>1, <2>2
<1>21. ASSUME ResolveFails PROVE Inv'
  BY <1>21, ConstantsAssumption DEF ResolveFails, Idle, Fault, Paid, Inv, TypeOK, Vetted, Owned, Recorded, Aimed,
      PaidWorkAtMostOnce, EveryReplyIsTheStoredAnswer, world
<1>22. ASSUME Crash PROVE Inv'
  BY <1>22, ConstantsAssumption DEF Crash, Idle, Fault, Steps, InFlight, Paid, Inv, TypeOK, Vetted, Owned, Recorded, Aimed,
      PaidWorkAtMostOnce, EveryReplyIsTheStoredAnswer, world
<1>23. CASE UNCHANGED vars
  BY <1>23 DEF vars, Paid, Inv, TypeOK, Vetted, Owned, Recorded, Aimed,
      PaidWorkAtMostOnce, EveryReplyIsTheStoredAnswer, world
<1> QED
  BY <1>1, <1>2, <1>3, <1>4, <1>5, <1>6, <1>7, <1>8, <1>9, <1>10, <1>11,
     <1>12, <1>13, <1>14, <1>15, <1>16, <1>17, <1>18, <1>19, <1>20, <1>21,
     <1>22, <1>23 DEF Next, Serve

\* Every reachable state satisfies the inductive invariant.
LEMMA Invariance == Spec => []Inv
BY InitInv, StepInv, PTL DEF Spec

\* Every variable keeps its type.
THEOREM TypeCorrectness == Spec => []TypeOK
BY Invariance, PTL DEF Inv

\* The paid callback runs at most once for a settlement.
THEOREM PaidOnce == Spec => []PaidWorkAtMostOnce
BY Invariance, PTL DEF Inv

\* Every 200 carried the one stored answer, to the proof that owns it.
THEOREM RepliesAgree == Spec => []EveryReplyIsTheStoredAnswer
BY Invariance, PTL DEF Inv

\* Records and paid work exist only for settled, quoted and signed payments.
THEOREM OnlyGenuineBind == Spec => []OnlyGenuinePaymentsBind
<1>1. Inv => OnlyGenuinePaymentsBind
  BY DEF Inv, Recorded, OnlyGenuinePaymentsBind
<1> QED
  BY <1>1, Invariance, PTL

------------------------------------------------------------------------------
\* The store changes in two ways only: a claim of a missing record, and the
\* completion of an executing one.
LEMMA RecordStep ==
  ASSUME Inv, [Next]_vars
  PROVE  \/ UNCHANGED record
         \/ \E r \in Requests : /\ Paid(r) \in Tx
                                /\ record[Paid(r)].state = "missing"
                                /\ record' = [record EXCEPT ![Paid(r)] = Executing(r)]
         \/ \E t \in Tx, exec \in Requests, a \in Answers :
              CanComplete(t, exec) /\ record' = Completed(t, a)
<1>1. ASSUME NEW r \in Requests, pc[r] = "claim", Lookup(proof[r]) = "missing"
      PROVE  Paid(r) \in Tx /\ record[Paid(r)].state = "missing"
  BY <1>1, ConstantsAssumption DEF Inv, Vetted, Lookup, Paid
<1>2. ASSUME NEW r \in Requests, Claim(r) \/ ClaimFails(r)
      PROVE  \/ UNCHANGED record
             \/ record' = [record EXCEPT ![Paid(r)] = Executing(r)]
                /\ Paid(r) \in Tx /\ record[Paid(r)].state = "missing"
  BY <1>1, <1>2 DEF Claim, ClaimFails
<1>3. ASSUME NEW r \in Requests, pc[r] = "complete"
      PROVE  Paid(r) \in Tx /\ output[r] \in Answers
  BY <1>3, ConstantsAssumption DEF Inv, Vetted, Owned, Paid
<1>4. ASSUME NEW r \in Requests, Complete(r) \/ CompleteFails(r)
      PROVE  \/ UNCHANGED record
             \/ /\ CanComplete(Paid(r), r)
                /\ record' = Completed(Paid(r), output[r])
                /\ Paid(r) \in Tx
                /\ output[r] \in Answers
  BY <1>3, <1>4 DEF Complete, CompleteFails
<1>5. ASSUME Resolve
      PROVE  \/ UNCHANGED record
             \/ /\ CanComplete(operator.tx, operator.exec)
                /\ record' = Completed(operator.tx, Terminal)
                /\ operator.tx \in Tx
                /\ operator.exec \in Requests
                /\ Terminal \in Answers
  BY <1>5 DEF Resolve, Inv, Aimed, Answers
<1>6. CASE Next
  <2>1. ASSUME NEW t \in Tx, Settle(t) \/ Age(t) \/ Inspect(t) PROVE UNCHANGED record
    BY <2>1 DEF Settle, Age, Inspect
  <2>2. ASSUME NEW p \in Proofs, Expire(p) PROVE UNCHANGED record
    BY <2>2 DEF Expire
  <2>3. ASSUME NEW r \in Requests, NEW p \in Proofs, Arrive(r, p) PROVE UNCHANGED record
    BY <2>3 DEF Arrive
  <2>4. ASSUME NEW r \in Requests,
               RouteMissing(r) \/ RouteExisting(r) \/ RouteFails(r) \/ Timing(r) \/ Gate(r)
                 \/ Verify(r) \/ ClaimExisting(r) \/ Fulfill(r) \/ CompleteAgain(r)
        PROVE  UNCHANGED record
    BY <2>4 DEF RouteMissing, RouteExisting, RouteFails, Timing, Gate, Verify,
       ClaimExisting, Fulfill, CompleteAgain, Reply, Advance
  <2>5. ASSUME Check \/ ResolveFails \/ Crash PROVE UNCHANGED record
    BY <2>5 DEF Check, ResolveFails, Crash
  <2> QED
    BY <1>2, <1>4, <1>5, <1>6, <2>1, <2>2, <2>3, <2>4, <2>5 DEF Next, Serve
<1>7. CASE UNCHANGED vars
  BY <1>7 DEF vars
<1> QED
  BY <1>6, <1>7

\* A binding is never moved and a stored answer never replaced.
THEOREM BindingForever == Spec => BindingIsForever
<1> DEFINE Kept ==
      \A t \in Tx :
        /\ record[t].state # "missing" =>
             record'[t].proof = record[t].proof /\ record'[t].exec = record[t].exec
        /\ record[t].state = "completed" => record'[t] = record[t]
<1>1. ASSUME Inv, [Next]_vars PROVE Kept
  <2>1. CASE UNCHANGED record
    BY <2>1
  <2>2. ASSUME NEW r \in Requests, Paid(r) \in Tx, record[Paid(r)].state = "missing",
               record' = [record EXCEPT ![Paid(r)] = Executing(r)]
        PROVE  Kept
    BY <1>1, <2>2 DEF Inv, TypeOK
  <2>3. ASSUME NEW t \in Tx, NEW exec \in Requests, NEW a \in Answers,
               CanComplete(t, exec), record' = Completed(t, a)
        PROVE  Kept
    BY <1>1, <2>3 DEF Inv, TypeOK, Records, CanComplete, Completed
  <2> QED
    BY <1>1, <2>1, <2>2, <2>3, RecordStep
<1>2. Inv /\ [Next]_vars => [Kept]_vars
  BY <1>1
<1> QED
  BY <1>2, Invariance, PTL DEF Spec, BindingIsForever

------------------------------------------------------------------------------
\* A step without a fault leaves no reported run unanswered.
LEMMA RunIsAnsweredStep ==
  ASSUME Inv, RunIsAnswered, [Next]_vars
  PROVE  RunIsAnswered'
<1> DEFINE Keeps ==
      /\ calls' = calls
      /\ faults' = faults
      /\ \A q \in Requests :
           pc[q] = "complete" => pc'[q] = "complete" /\ proof'[q] = proof[q]
      /\ \A t \in Tx : record[t].state = "completed" => record'[t].state = "completed"
<1>1. ASSUME Keeps PROVE RunIsAnswered'
  BY <1>1 DEF RunIsAnswered, Paid
<1>2. ASSUME Fault PROVE RunIsAnswered'
  <2>1. faults' # 0
    BY <1>2, ConstantsAssumption DEF Fault, Inv, TypeOK
  <2> QED
    BY <2>1 DEF RunIsAnswered
<1>3. ASSUME NEW t \in Tx, Settle(t) \/ Age(t) \/ Inspect(t) PROVE Keeps
  BY <1>3 DEF Settle, Age, Inspect
<1>4. ASSUME NEW p \in Proofs, Expire(p) PROVE Keeps
  BY <1>4 DEF Expire
<1>5. ASSUME NEW r \in Requests, NEW p \in Proofs, Arrive(r, p) PROVE Keeps
  BY <1>5 DEF Arrive, world, Inv, TypeOK
<1>6. ASSUME NEW r \in Requests,
             \/ RouteMissing(r) \/ RouteExisting(r) \/ RouteFails(r) \/ Timing(r)
             \/ Gate(r) \/ Verify(r) \/ ClaimExisting(r)
      PROVE  Keeps
  <2>1. /\ pc[r] # "complete"
        /\ \A q \in Requests : q # r => pc'[q] = pc[q]
        /\ UNCHANGED <<calls, faults, proof, record>>
    BY <1>6 DEF RouteMissing, RouteExisting, RouteFails, Timing, Gate, Verify,
       ClaimExisting, Reply, Advance, SendStored, Inv, TypeOK
  <2> QED
    BY <2>1
<1>7. ASSUME NEW r \in Requests, Claim(r) PROVE Keeps
  <2>1. Paid(r) \in Tx /\ record[Paid(r)].state = "missing"
    BY <1>7, ConstantsAssumption DEF Claim, Inv, Vetted, Lookup, Paid
  <2> QED
    BY <1>7, <2>1 DEF Claim, Inv, TypeOK
<1>8. ASSUME NEW r \in Requests, Fulfill(r) PROVE RunIsAnswered'
  BY <1>8, ConstantsAssumption DEF Fulfill, RunIsAnswered, Inv, TypeOK, Vetted, Paid
<1>9. ASSUME NEW r \in Requests, Complete(r) \/ CompleteAgain(r) PROVE RunIsAnswered'
  <2>1. Paid(r) \in Tx /\ record[Paid(r)].state \in {"executing", "completed"}
        /\ record[Paid(r)].exec = r
    BY <1>9, ConstantsAssumption
       DEF Complete, CompleteAgain, Inv, TypeOK, Vetted, Owned, Records, Paid
  <2>2. /\ UNCHANGED <<calls, faults, proof>>
        /\ \A q \in Requests : q # r => pc'[q] = pc[q]
        /\ record'[Paid(r)].state = "completed"
        /\ \A t \in Tx : record[t].state = "completed" => record'[t].state = "completed"
    BY <1>9, <2>1 DEF Complete, CompleteAgain, CanComplete, Completed, Reply,
       SendStored, Inv, TypeOK, Records
  <2> QED
    BY <2>1, <2>2 DEF RunIsAnswered, Paid
<1>10. ASSUME Check PROVE Keeps
  BY <1>10 DEF Check
<1>11. ASSUME Resolve PROVE Keeps
  <2>1. \A t \in Tx : record[t].state = "completed" => record'[t].state = "completed"
    BY <1>11 DEF Resolve, CanComplete, Completed, Inv, TypeOK, Records
  <2> QED
    BY <1>11, <2>1 DEF Resolve
<1>12. ASSUME NEW r \in Requests, ClaimFails(r) \/ CompleteFails(r) PROVE Fault
  BY <1>12 DEF ClaimFails, CompleteFails
<1>13. ASSUME ResolveFails \/ Crash PROVE Fault
  BY <1>13 DEF ResolveFails, Crash
<1>14. CASE UNCHANGED vars
  BY <1>14, <1>1 DEF vars
<1> HIDE DEF Keeps
<1> QED
  BY <1>1, <1>2, <1>3, <1>4, <1>5, <1>6, <1>7, <1>8, <1>9, <1>10, <1>11, <1>12,
     <1>13, <1>14 DEF Next, Serve

\* What ties a stored answer to the work: a request that reports back has run, the
\* execution a record names carries the record's proof, and the operator goes on
\* only with an execution that is old enough.
Executed ==
  /\ \A r \in Requests : pc[r] = "complete" => calls[Paid(r)] > 0
  /\ \A t \in Tx :
       record[t].state # "missing" =>
         pc[record[t].exec] # "new" /\ proof[record[t].exec] = record[t].proof
  /\ operator.step = "checked" => operator.tx \in aged

Earned == Executed /\ AnswerIsTheWork

\* A step that neither claims, works nor stores keeps every answer earned.
LEMMA QuietKeepsEarned ==
  ASSUME Inv, Earned,
         UNCHANGED <<record, calls, output>>, aged \subseteq aged',
         \A q \in Requests : /\ pc'[q] = "complete" => pc[q] = "complete"
                             /\ pc[q] # "new" => pc'[q] # "new" /\ proof'[q] = proof[q],
         operator'.step = "checked" => operator'.tx \in aged
  PROVE  Earned'
<1>1. \A q \in Requests : pc'[q] = "complete" => calls'[TxOf[proof'[q]]] > 0
  BY DEF Earned, Executed, Paid
<1>2. \A t \in Tx : record[t].state # "missing" => record[t].exec \in Requests
  BY DEF Inv, Recorded
<1>3. \A t \in Tx :
        record'[t].state # "missing" =>
          pc'[record'[t].exec] # "new" /\ proof'[record'[t].exec] = record'[t].proof
  BY <1>2 DEF Earned, Executed
<1>4. AnswerIsTheWork'
  BY DEF Earned, AnswerIsTheWork
<1> QED
  BY <1>1, <1>3, <1>4 DEF Earned, Executed, Paid

\* A claim binds the record to the request that holds the proof.
LEMMA ClaimKeepsEarned ==
  ASSUME Inv, Earned, NEW r \in Requests, pc[r] = "claim", Lookup(proof[r]) = "missing",
         NEW step \in {"fulfill", "unavailable"},
         record' = [record EXCEPT ![Paid(r)] = Executing(r)],
         pc' = [pc EXCEPT ![r] = step],
         UNCHANGED <<world, proof, output, operator, calls>>
  PROVE  Earned'
<1>1. Paid(r) \in Tx
  BY ConstantsAssumption DEF Inv, Vetted, Paid
<1>2. /\ record'[Paid(r)] = Executing(r)
      /\ \A t \in Tx : t # Paid(r) => record'[t] = record[t]
      /\ pc'[r] = step
      /\ \A q \in Requests : q # r => pc'[q] = pc[q]
  BY <1>1 DEF Inv, TypeOK
<1>3. \A t \in Tx : record[t].state # "missing" => record[t].exec \in Requests
  BY DEF Inv, Recorded
<1>4. \A t \in Tx :
        record'[t].state # "missing" =>
          pc'[record'[t].exec] # "new" /\ proof'[record'[t].exec] = record'[t].proof
  BY <1>2, <1>3 DEF Executing, Earned, Executed
<1>5. \A q \in Requests : pc'[q] = "complete" => calls'[TxOf[proof'[q]]] > 0
  BY <1>2 DEF Earned, Executed, Paid
<1>6. AnswerIsTheWork'
  BY <1>2 DEF Executing, Earned, AnswerIsTheWork, world
<1> QED
  BY <1>4, <1>5, <1>6 DEF Earned, Executed, Paid, world

\* The work of r touches the answer of no other record: only its own names r, and
\* that one, if it is answered, was answered by the operator.
LEMMA FulfillKeepsEarned ==
  ASSUME Inv, Earned, NEW r \in Requests, Fulfill(r)
  PROVE  Earned'
<1>1. /\ Paid(r) \in Tx
      /\ calls[Paid(r)] = 0
      /\ calls'[Paid(r)] = 1
      /\ \A t \in Tx : t # Paid(r) => calls'[t] = calls[t]
  BY ConstantsAssumption DEF Fulfill, Inv, TypeOK, Vetted, Owned, Paid
<1>2. /\ \A q \in Requests : q # r => pc'[q] = pc[q] /\ output'[q] = output[q]
      /\ pc[r] # "new" /\ pc'[r] = "complete"
      /\ UNCHANGED <<aged, record, proof, operator>>
  BY DEF Fulfill, Inv, TypeOK, world
<1>3. \A q \in Requests : pc[q] = "complete" => Paid(q) \in Tx
  BY ConstantsAssumption DEF Inv, Vetted, Paid
<1>4. \A q \in Requests : pc'[q] = "complete" => calls'[TxOf[proof'[q]]] > 0
  BY <1>1, <1>2, <1>3 DEF Earned, Executed, Paid
<1>5. \A t \in Tx : record[t].state # "missing" =>
                      record[t].exec \in Requests /\ TxOf[record[t].proof] = t
  BY DEF Inv, Recorded
<1>6. \A t \in Tx :
        record'[t].state # "missing" =>
          pc'[record'[t].exec] # "new" /\ proof'[record'[t].exec] = record'[t].proof
  BY <1>2, <1>5 DEF Earned, Executed
<1>7. ASSUME NEW t \in Tx, record[t].state = "completed"
      PROVE  \/ calls'[t] > 0 /\ record[t].answer = output'[record[t].exec]
             \/ t \in aged /\ record[t].answer = Terminal
  <2>1. CASE t = Paid(r)
    BY <1>1, <1>7, <2>1 DEF Earned, AnswerIsTheWork
  <2>2. CASE t # Paid(r)
    <3>1. record[t].exec \in Requests /\ record[t].exec # r
      BY <1>5, <1>7, <2>2 DEF Earned, Executed, Paid
    <3> QED
      BY <1>1, <1>2, <1>7, <2>2, <3>1 DEF Earned, AnswerIsTheWork
  <2> QED
    BY <2>1, <2>2
<1>8. AnswerIsTheWork'
  BY <1>2, <1>7 DEF AnswerIsTheWork
<1> QED
  BY <1>2, <1>4, <1>6, <1>8 DEF Earned, Executed, Paid

\* An answer is stored by the execution that has run, or it is the operator's.
LEMMA AnswerKeepsEarned ==
  ASSUME Inv, Earned, NEW t \in Tx, NEW exec, CanComplete(t, exec), NEW a \in Answers,
         record' = Completed(t, a),
         \/ calls[t] > 0 /\ a = output[exec]
         \/ t \in aged /\ a = Terminal,
         UNCHANGED <<aged, proof, output, calls>>,
         \A q \in Requests : /\ pc'[q] = "complete" => pc[q] = "complete"
                             /\ pc[q] # "new" => pc'[q] # "new",
         operator'.step = "checked" => operator'.tx \in aged
  PROVE  Earned'
<1>1. record[t] \in Records /\ record[t].state = "executing" /\ record[t].exec = exec
  BY DEF CanComplete, Inv, TypeOK
<1>2. /\ record'[t] = [record[t] EXCEPT !.state = "completed", !.answer = a]
      /\ \A u \in Tx : u # t => record'[u] = record[u]
  BY DEF Completed, Inv, TypeOK
<1>3. /\ record'[t].state = "completed" /\ record'[t].answer = a
      /\ record'[t].exec = exec /\ record'[t].proof = record[t].proof
  BY <1>1, <1>2 DEF Records
<1>4. \A u \in Tx : record[u].state # "missing" => record[u].exec \in Requests
  BY DEF Inv, Recorded
<1>5. \A u \in Tx :
        record'[u].state # "missing" =>
          pc'[record'[u].exec] # "new" /\ proof'[record'[u].exec] = record'[u].proof
  <2>1. /\ pc'[record'[t].exec] # "new"
        /\ proof'[record'[t].exec] = record'[t].proof
    BY <1>1, <1>3, <1>4 DEF Earned, Executed
  <2>2. ASSUME NEW u \in Tx, u # t, record'[u].state # "missing"
        PROVE  pc'[record'[u].exec] # "new" /\ proof'[record'[u].exec] = record'[u].proof
    <3>1. record'[u] = record[u]
      BY <1>2, <2>2
    <3> QED
      BY <1>4, <2>2, <3>1 DEF Earned, Executed
  <2> QED
    BY <2>1, <2>2
<1>6. \A q \in Requests : pc'[q] = "complete" => calls'[TxOf[proof'[q]]] > 0
  BY DEF Earned, Executed, Paid
<1>7. AnswerIsTheWork'
  <2>1. \/ calls'[t] > 0 /\ record'[t].answer = output'[record'[t].exec]
        \/ t \in aged' /\ record'[t].answer = Terminal
    BY <1>3
  <2>2. ASSUME NEW u \in Tx, u # t, record'[u].state = "completed"
        PROVE  \/ calls'[u] > 0 /\ record'[u].answer = output'[record'[u].exec]
               \/ u \in aged' /\ record'[u].answer = Terminal
    <3>1. record'[u] = record[u]
      BY <1>2, <2>2
    <3> QED
      BY <2>2, <3>1 DEF Earned, AnswerIsTheWork
  <2> QED
    BY <2>1, <2>2 DEF AnswerIsTheWork
<1> QED
  BY <1>5, <1>6, <1>7 DEF Earned, Executed, Paid

\* No step stores an answer that was not earned.
LEMMA EarnedStep ==
  ASSUME Inv, Earned, [Next]_vars
  PROVE  Earned'
<1> DEFINE Quiet ==
      /\ UNCHANGED <<record, calls, output>>
      /\ aged \subseteq aged'
      /\ \A q \in Requests : /\ pc'[q] = "complete" => pc[q] = "complete"
                             /\ pc[q] # "new" => pc'[q] # "new" /\ proof'[q] = proof[q]
      /\ operator'.step = "checked" => operator'.tx \in aged
<1>0. operator.step = "checked" => operator.tx \in aged
  BY DEF Earned, Executed
<1>1. ASSUME NEW t \in Tx, Settle(t) \/ Age(t) PROVE Quiet
  BY <1>0, <1>1 DEF Settle, Age
<1>2. ASSUME NEW t \in Tx, Inspect(t) PROVE Quiet
  BY <1>2 DEF Inspect, world
<1>3. ASSUME NEW p \in Proofs, Expire(p) PROVE Quiet
  BY <1>0, <1>3 DEF Expire
<1>4. ASSUME NEW r \in Requests, NEW p \in Proofs, Arrive(r, p) PROVE Quiet
  BY <1>0, <1>4 DEF Arrive, world, Inv, TypeOK
<1>5. ASSUME NEW r \in Requests,
             \/ RouteMissing(r) \/ RouteExisting(r) \/ RouteFails(r) \/ Timing(r)
             \/ Gate(r) \/ Verify(r) \/ ClaimExisting(r) \/ CompleteAgain(r)
      PROVE  Quiet
  <2>1. /\ pc[r] # "new" /\ pc'[r] \notin {"new", "complete"}
        /\ \A q \in Requests : q # r => pc'[q] = pc[q]
        /\ UNCHANGED <<aged, operator, calls, output, proof, record>>
    BY <1>5 DEF RouteMissing, RouteExisting, RouteFails, Timing, Gate, Verify,
       ClaimExisting, CompleteAgain, Reply, Advance, SendStored, Inv, TypeOK, world
  <2> QED
    BY <1>0, <2>1
<1>6. ASSUME NEW r \in Requests, Claim(r) PROVE Earned'
  BY <1>6, ClaimKeepsEarned DEF Claim
<1>7. ASSUME NEW r \in Requests, ClaimFails(r) PROVE Quiet \/ Earned'
  <2>1. CASE UNCHANGED record
    BY <1>0, <1>7, <2>1 DEF ClaimFails, Inv, TypeOK, world
  <2>2. CASE record' = [record EXCEPT ![Paid(r)] = Executing(r)]
    BY <1>7, <2>2, ClaimKeepsEarned DEF ClaimFails
  <2> QED
    BY <1>7, <2>1, <2>2 DEF ClaimFails
<1>8. ASSUME NEW r \in Requests, Complete(r) \/ CompleteFails(r) PROVE Quiet \/ Earned'
  <2>1. /\ Paid(r) \in Tx /\ output[r] \in Answers /\ calls[Paid(r)] > 0
        /\ CanComplete(Paid(r), r)
    BY <1>8, ConstantsAssumption
       DEF Complete, CompleteFails, Inv, Vetted, Owned, Earned, Executed, Paid
  <2>2. /\ \A q \in Requests : /\ pc'[q] = "complete" => pc[q] = "complete"
                               /\ pc[q] # "new" => pc'[q] # "new"
        /\ UNCHANGED <<aged, operator, calls, output, proof>>
    BY <1>8 DEF Complete, CompleteFails, SendStored, Inv, TypeOK, world
  <2>3. CASE UNCHANGED record
    BY <1>0, <2>2, <2>3
  <2>4. CASE record' = Completed(Paid(r), output[r])
    BY <1>0, <2>1, <2>2, <2>4, AnswerKeepsEarned
  <2> QED
    BY <1>8, <2>3, <2>4 DEF Complete, CompleteFails
<1>9. ASSUME Check PROVE Quiet
  BY <1>0, <1>9 DEF Check, Idle, world, Inv, TypeOK
<1>10. ASSUME Resolve PROVE Quiet \/ Earned'
  <2>1. /\ operator.tx \in Tx /\ operator.tx \in aged /\ Terminal \in Answers
        /\ operator'.step # "checked"
        /\ UNCHANGED <<aged, pc, proof, output, calls>>
    BY <1>0, <1>10 DEF Resolve, Idle, Inv, Aimed, Answers, world
  <2>2. CASE CanComplete(operator.tx, operator.exec)
    BY <1>10, <2>1, <2>2, AnswerKeepsEarned DEF Resolve
  <2>3. CASE UNCHANGED record
    BY <2>1, <2>3
  <2> QED
    BY <1>10, <2>2, <2>3 DEF Resolve
<1>11. ASSUME ResolveFails \/ Crash PROVE Quiet
  BY <1>11 DEF ResolveFails, Crash, Idle, InFlight, world, Inv, TypeOK
<1>12. ASSUME UNCHANGED vars PROVE Quiet
  BY <1>0, <1>12 DEF vars
<1>13. CASE Quiet
  <2>1. /\ UNCHANGED <<record, calls, output>>
        /\ aged \subseteq aged'
        /\ operator'.step = "checked" => operator'.tx \in aged
    BY <1>13
  <2>2. \A q \in Requests : /\ pc'[q] = "complete" => pc[q] = "complete"
                            /\ pc[q] # "new" => pc'[q] # "new" /\ proof'[q] = proof[q]
    BY <1>13
  <2> HIDE DEF Quiet
  <2> QED
    BY <2>1, <2>2, QuietKeepsEarned, Zenon
<1> HIDE DEF Quiet
<1> QED
  BY <1>1, <1>2, <1>3, <1>4, <1>5, <1>6, <1>7, <1>8, <1>9, <1>10, <1>11, <1>12,
     <1>13, FulfillKeepsEarned DEF Next, Serve

\* Without a crash or a failing write, work that has run is answered; and whatever
\* fails, the answer is the work's own output, or the terminal one where the
\* operator resolved an execution past the minimum age.
THEOREM WorkStored == Spec => []WorkIsStored
<1>1. Init => RunIsAnswered
  BY DEF Init, RunIsAnswered
<1>2. Init => Earned
  BY DEF Init, NoRecord, Idle, Earned, Executed, AnswerIsTheWork
<1>3. RunIsAnswered /\ Earned => WorkIsStored
  BY DEF Earned, WorkIsStored
<1> QED
  BY <1>1, <1>2, <1>3, Invariance, RunIsAnsweredStep, EarnedStep, PTL DEF Spec

------------------------------------------------------------------------------
\* What each step of the route is, seen as one-shot delivery.
LEMMA QuietIsStutter ==
  ASSUME UNCHANGED <<record, calls, shown>>
  PROVE  UNCHANGED Delivery!vars
BY DEF Delivery!vars

LEMMA SendStoredIsShow ==
  ASSUME Inv, NEW r \in Requests, pc[r] # "new",
         record[Paid(r)].state = "completed", record[Paid(r)].proof = proof[r],
         SendStored(r), UNCHANGED <<record, calls>>
  PROVE  Delivery!Next
<1>1. proof[r] \in Proofs /\ TxOf[proof[r]] \in Tx
  BY ConstantsAssumption DEF Inv, Vetted
<1>2. Delivery!Show(proof[r])
  BY <1>1 DEF Delivery!Show, SendStored, Paid, Stage
<1> QED
  BY <1>1, <1>2 DEF Delivery!Next

LEMMA ClaimIsBind ==
  ASSUME Inv, NEW r \in Requests, pc[r] = "claim", Lookup(proof[r]) = "missing",
         record' = [record EXCEPT ![Paid(r)] = Executing(r)],
         UNCHANGED <<calls, shown>>
  PROVE  Delivery!Next
<1>1. proof[r] \in Proofs
  BY DEF Inv, Vetted
<1>2. PICK p \in Proofs : p = proof[r]
  BY <1>1
<1>3. TxOf[p] \in Tx /\ record[TxOf[p]] = NoRecord
  BY <1>2, ConstantsAssumption DEF Inv, Recorded, Lookup, Paid
<1>4. \A u \in Tx :
        record'[u] = IF u = TxOf[p]
                       THEN [state |-> "executing", proof |-> p, exec |-> r, answer |-> None]
                       ELSE record[u]
  BY <1>2, <1>3 DEF Executing, Paid, Inv, TypeOK
<1>5. \A u \in Tx :
        /\ Stage[record'[u].state] = IF u = TxOf[p] THEN "claimed" ELSE Stage[record[u].state]
        /\ record'[u].proof = IF u = TxOf[p] THEN p ELSE record[u].proof
        /\ record'[u].answer = record[u].answer
  BY <1>3, <1>4 DEF Stage, NoRecord
<1>6. Stage[record[TxOf[p]].state] = "open"
  BY <1>3 DEF Stage, NoRecord
<1>7. Delivery!Bind(p)
  BY <1>3, <1>5, <1>6, ZenonT(60) DEF Delivery!Bind
<1> QED
  BY <1>7 DEF Delivery!Next

LEMMA FulfillIsWork ==
  ASSUME Inv, NEW r \in Requests, Fulfill(r)
  PROVE  Delivery!Next
<1>1. Paid(r) \in Tx /\ calls[Paid(r)] = 0 /\ record[Paid(r)].state \in {"executing", "completed"}
  BY ConstantsAssumption DEF Fulfill, Inv, TypeOK, Records, Vetted, Owned, Paid
<1>2. Delivery!Work(Paid(r))
  BY <1>1 DEF Fulfill, Delivery!Work, Stage, Inv, TypeOK
<1> QED
  BY <1>1, <1>2 DEF Delivery!Next

LEMMA CompletedMaps ==
  ASSUME Inv, NEW t \in Tx, NEW exec, CanComplete(t, exec), NEW a \in Answers,
         record' = Completed(t, a)
  PROVE  /\ Stage[record[t].state] = "claimed"
         /\ [u \in Tx |-> Stage[record'[u].state]]
              = [[u \in Tx |-> Stage[record[u].state]] EXCEPT ![t] = "answered"]
         /\ [u \in Tx |-> record'[u].proof] = [u \in Tx |-> record[u].proof]
         /\ [u \in Tx |-> record'[u].answer]
              = [[u \in Tx |-> record[u].answer] EXCEPT ![t] = a]
<1>1. record \in [Tx -> Records] /\ record[t].state = "executing"
  BY DEF Inv, TypeOK, CanComplete
<1>2. Stage["executing"] = "claimed" /\ Stage["completed"] = "answered"
  BY DEF Stage
<1>3. /\ record'[t] = [record[t] EXCEPT !.state = "completed", !.answer = a]
      /\ \A u \in Tx : u # t => record'[u] = record[u]
  BY <1>1 DEF Completed
<1>4. /\ record'[t].state = "completed"
      /\ record'[t].answer = a
      /\ record'[t].proof = record[t].proof
  BY <1>1, <1>3 DEF Records
<1>5. \A u \in Tx :
        /\ Stage[record'[u].state] = IF u = t THEN "answered" ELSE Stage[record[u].state]
        /\ record'[u].proof = record[u].proof
        /\ record'[u].answer = IF u = t THEN a ELSE record[u].answer
  BY <1>2, <1>3, <1>4
<1> QED
  BY <1>1, <1>2, <1>5

LEMMA CompletedIsAnswer ==
  ASSUME Inv, NEW t \in Tx, NEW exec, CanComplete(t, exec), NEW a \in Answers,
         record' = Completed(t, a), UNCHANGED <<calls, shown>>
  PROVE  Delivery!Next
<1>1. Delivery!Answer(t, a)
  BY CompletedMaps DEF Delivery!Answer
<1> QED
  BY <1>1 DEF Delivery!Next

LEMMA CompleteIsAnswerAndShow ==
  ASSUME Inv, NEW r \in Requests, Complete(r)
  PROVE  Delivery!Next
<1>1. proof[r] \in Proofs /\ output[r] \in Answers
  BY DEF Complete, Inv, Vetted, Owned
<1>2. PICK p \in Proofs, a \in Answers : p = proof[r] /\ a = output[r]
  BY <1>1
<1>3. /\ TxOf[p] \in Tx
      /\ record[TxOf[p]].proof = p
      /\ CanComplete(TxOf[p], r)
      /\ record' = Completed(TxOf[p], a)
  BY <1>2, ConstantsAssumption DEF Complete, Inv, Owned, Paid
<1>4. record'[TxOf[p]].answer = a
  BY <1>3 DEF Completed, Inv, TypeOK, Records
<1>5. shown' = shown \cup {<<p, a>>} /\ UNCHANGED calls
  BY <1>2, <1>4 DEF Complete, SendStored, Paid
<1>6. Delivery!AnswerAndShow(p, a)
  BY <1>3, <1>5, CompletedMaps DEF Delivery!AnswerAndShow
<1> QED
  BY <1>6 DEF Delivery!Next

LEMMA StepRefines ==
  ASSUME Inv, [Next]_vars
  PROVE  [Delivery!Next]_(Delivery!vars)
<1> DEFINE Quiet == UNCHANGED <<record, calls, shown>>
<1>1. ASSUME NEW t \in Tx, Settle(t) \/ Age(t) \/ Inspect(t) PROVE Quiet
  BY <1>1 DEF Settle, Age, Inspect
<1>2. ASSUME NEW p \in Proofs, Expire(p) PROVE Quiet
  BY <1>2 DEF Expire
<1>3. ASSUME NEW r \in Requests, NEW p \in Proofs, Arrive(r, p) PROVE Quiet
  BY <1>3 DEF Arrive
<1>4. ASSUME NEW r \in Requests,
             \/ RouteMissing(r) \/ RouteExisting(r) \/ RouteFails(r) \/ Timing(r) \/ Verify(r)
      PROVE  Quiet
  BY <1>4 DEF RouteMissing, RouteExisting, RouteFails, Timing, Verify, Reply, Advance
<1>5. ASSUME NEW r \in Requests, Gate(r) \/ ClaimExisting(r) PROVE Quiet \/ Delivery!Next
  <2>1. CASE Lookup(proof[r]) = "completed" /\ SendStored(r) /\ UNCHANGED <<record, calls>>
    BY <1>5, <2>1, SendStoredIsShow, LookupCompleted DEF Gate, ClaimExisting
  <2> QED
    BY <1>5, <2>1 DEF Gate, ClaimExisting, Reply, Advance
<1>6. ASSUME NEW r \in Requests, Claim(r) \/ ClaimFails(r) PROVE Quiet \/ Delivery!Next
  BY <1>6, ClaimIsBind DEF Claim, ClaimFails
<1>7. ASSUME NEW r \in Requests, CompleteAgain(r) PROVE Quiet \/ Delivery!Next
  <2>1. CASE SendStored(r) /\ UNCHANGED <<record, calls>>
    <3>1. Paid(r) \in Tx
      BY <1>7, ConstantsAssumption DEF CompleteAgain, Inv, Vetted, Paid
    <3>2. record[Paid(r)].state = "completed" /\ record[Paid(r)].proof = proof[r]
      BY <1>7, <3>1 DEF CompleteAgain, CanComplete, Inv, TypeOK, Owned, Records
    <3> QED
      BY <1>7, <2>1, <3>2, SendStoredIsShow DEF CompleteAgain
  <2> QED
    BY <1>7, <2>1 DEF CompleteAgain, Reply
<1>8. ASSUME NEW r \in Requests, CompleteFails(r) PROVE Quiet \/ Delivery!Next
  <2>1. Paid(r) \in Tx /\ output[r] \in Answers
    BY <1>8, ConstantsAssumption DEF CompleteFails, Inv, Vetted, Owned, Paid
  <2> QED
    BY <1>8, <2>1, CompletedIsAnswer DEF CompleteFails
<1>9. ASSUME Resolve PROVE Quiet \/ Delivery!Next
  <2>1. operator.tx \in Tx /\ Terminal \in Answers
    BY <1>9 DEF Resolve, Inv, Aimed, Answers
  <2> QED
    BY <1>9, <2>1, CompletedIsAnswer DEF Resolve
<1>10. ASSUME Check \/ ResolveFails \/ Crash PROVE Quiet
  BY <1>10 DEF Check, ResolveFails, Crash
<1>11. CASE UNCHANGED vars
  BY <1>11, QuietIsStutter DEF vars
<1>12. CASE Next
  <2>1. Quiet \/ Delivery!Next
    <3> HIDE DEF Quiet
    <3> QED
      BY <1>1, <1>2, <1>3, <1>4, <1>5, <1>6, <1>7, <1>8, <1>9, <1>10, <1>12,
         FulfillIsWork, CompleteIsAnswerAndShow DEF Next, Serve
  <2> QED
    BY <2>1, QuietIsStutter
<1> QED
  BY <1>11, <1>12

\* The paid route implements one-shot delivery: bound once, worked once, answered
\* once, and never shown anything but that answer.
THEOREM Refinement == Spec => ImplementsOneShotDelivery
<1>1. Init => Delivery!Init
  BY DEF Init, Delivery!Init, NoRecord, Stage
<1> QED
  BY <1>1, Invariance, StepRefines, PTL DEF Spec, Delivery!Spec, ImplementsOneShotDelivery
=============================================================================
