---------------------------- MODULE StarterBuyerProofs ----------------------------
(***************************************************************************)
(* Proofs about StarterBuyer, for any number of runs, purchases,           *)
(* recoveries, kept runs and faults, if resets are quiet (QuietReset).     *)
(*                                                                         *)
(* Files are shared by all tasks, so that what a task has done for its     *)
(* receipt must survive what every other task does to the same files.      *)
(* It does because a receipt is handled by its own run while that run      *)
(* lives, and by recoveries only afterwards (Handled); the rest ties each  *)
(* task's step to the ledger, to the merchant's record and to the files.   *)
(***************************************************************************)
EXTENDS StarterBuyer, FiniteSetTheorems, SequenceTheorems, TLAPS

Shopping == {"shopping", "quoted", "saved", "sent", "refused", "paid", "working", "got", "committed",
             "closing", "finishing"}

Early == {"new", "checked"}

\* Who handles which receipt: a run its own, a recovery one of a run that is over.
Handled ==
  /\ \A b \in Buyers :
       /\ mode[b] = "json" /\ into[b] = b
       /\ at[b] # None => at[b][1] = b
       /\ pc[b] \in {"quoted", "saved", "sent", "refused", "paid", "working", "got", "committed"}
            => at[b] \in Receipts
       /\ pc[b] \in {"closing", "finishing"} \cup Early => at[b] = None
  /\ \A q \in Recoveries :
       /\ pc[q] \in {"new", "paid", "working", "got", "committed", "finishing", "failing"}
       /\ pc[q] \in {"paid", "working", "got", "committed"} => at[q] \in Receipts
       /\ at[q] # None => pc[at[q][1]] \in {"stopped", "done"}
       /\ into[q] \in {q} \cup Buyers
       /\ into[q] # q => pc[into[q]] \in {"stopped", "done"}

\* A run signs its payments in order, each once; nothing of it is served before it
\* settled.
Ordered ==
  \A r \in Receipts :
    /\ tx[r] # "none" =>
         /\ pc[r[1]] \notin Early
         /\ at[r[1]] # None =>
              r[2] < at[r[1]][2] \/ (r = at[r[1]] /\ pc[r[1]] \notin {"shopping", "quoted"})
    /\ r \in pending => tx[r] # "none"
    /\ sale[r] # "open" => tx[r] = "settled"
    /\ tx[r] \in {"sent", "settled"} => r \in pending \/ committed[r] # None

\* What each step of a task says of its receipt.
Stepwise ==
  \A t \in Tasks :
    /\ pc[t] = "saved" => at[t] \in pending /\ tx[at[t]] \in {"signed", "failed"}
    /\ pc[t] = "refused" => tx[at[t]] \in {"signed", "failed"}
    /\ pc[t] = "got" => got[t] \in Answers /\ got[t] = sale[at[t]]
    /\ pc[t] = "committed" => committed[at[t]] # None

\* The result file: a run of the starter is begun once, its deliveries are committed
\* somewhere, and while it lives they are its own and good.
RunIsTrue(run) ==
  /\ \A r \in run.accepted : committed[r] # None
  /\ run.by \in Buyers =>
       /\ pc[run.by] \notin Early
       /\ Live(run.by) \/ run.status = "complete" =>
            \A r \in run.accepted : r[1] = run.by /\ tx[r] = "settled" /\ sale[r] = "good"
       /\ run.status = "complete" => {run.by} \X (1 .. Plan[run.by]) \subseteq run.accepted
       /\ run.status = "running" /\ pc[run.by] \in Shopping =>
            \A r \in Receipts :
              /\ r[1] = run.by
              /\ at[run.by] # None =>
                   r[2] < at[run.by][2] \/ (r = at[run.by] /\ pc[run.by] = "committed")
              => r \in run.accepted

Recorded ==
  /\ \A i \in DOMAIN results : RunIsTrue(results[i])
  /\ \A i, j \in DOMAIN results :
       i # j =>
         /\ results[i].accepted \cap results[j].accepted = {}
         /\ results[i].by \in Buyers => results[i].by # results[j].by

SafeReset == reset = "safe" => Quiet /\ pending = {}

Inv == TypeOK /\ Handled /\ Ordered /\ Stepwise /\ Recorded /\ SafeReset

-----------------------------------------------------------------------------
(* Receipts and the result file.                                           *)

LEMMA ReceiptShape ==
  /\ \A r \in Receipts : r[1] \in Buyers /\ r[2] \in 1 .. Plan[r[1]] /\ r[2] \in Nat /\ r = <<r[1], r[2]>>
  /\ \A b \in Buyers : Plan[b] \in Nat \ {0} /\ <<b, 1>> \in Receipts
  /\ \A b \in Buyers, k \in Nat : k \in 1 .. Plan[b] => <<b, k>> \in Receipts
  /\ None \notin Receipts /\ None \notin Tasks /\ None \notin Answers
<1>1. \A r : r \in Receipts <=> \E b \in Buyers : r \in {b} \X (1 .. Plan[b])
  BY DEF Receipts
<1>2. \A b \in Buyers : Plan[b] \in Nat \ {0}
  BY ConstantsAssumption
<1>. QED
  BY <1>1, <1>2, ConstantsAssumption

\* Of finitely many positions one is the last.
LEMMA LastOf ==
  ASSUME NEW n \in Nat, NEW T \in SUBSET (1 .. n), T # {}
  PROVE  \E m \in T : \A j \in T : j <= m
<1>. DEFINE Above(i) == {j \in T : j > i}
            F == {Above(i) : i \in T}
<1>1. IsFiniteSet(T)
  <2>1. IsFiniteSet(1 .. n)
    <3>1. 1 \in Int /\ n \in Int
      OBVIOUS
    <3>. QED
      BY <3>1, FS_Interval, Zenon
  <2>. QED
    BY <2>1, FS_Subset
<1>2. F \subseteq FiniteSubsetsOf(T) /\ F # {}
  <2>1. F \subseteq SUBSET T /\ F # {}
    OBVIOUS
  <2>. QED
    BY <1>1, <2>1, FS_FiniteSubsetsOfFinite, Zenon
<1>3. PICK X \in F : \A Y \in F : ~ (<<Y, X>> \in StrictSubsetOrdering(T))
  <2>. HIDE DEF F
  <2>1. IsWellFoundedOn(StrictSubsetOrdering(T), FiniteSubsetsOf(T))
    BY FS_StrictSubsetOrderingWellFounded, Zenon
  <2>. QED
    BY <1>2, <2>1, WFMin, Zenon
<1>4. PICK m \in T : X = Above(m)
  BY <1>3
<1>5. ASSUME NEW j \in T, j > m PROVE FALSE
  <2>1. Above(j) \in F
    OBVIOUS
  <2>2. \A i \in T : i \in Nat
    OBVIOUS
  <2>3. ~ (j > j) /\ \A i \in T : i > j => i > m
    BY <1>5, <2>2
  <2>4. j \in Above(m)
    BY <1>5
  <2>5. j \notin Above(j)
    BY <2>3
  <2>6. Above(j) \subseteq Above(m)
    BY <2>3
  <2>7. Above(m) \subseteq T /\ Above(j) \subseteq T
    OBVIOUS
  <2>8. <<Above(j), Above(m)>> \in StrictSubsetOrdering(T)
    <3>. HIDE DEF Above
    <3>. QED
      BY <2>4, <2>5, <2>6, <2>7 DEF StrictSubsetOrdering
  <2>. QED
    BY <1>3, <1>4, <2>1, <2>8, Zenon
<1>. QED
  BY <1>5

LEMMA LatestIs ==
  ASSUME TypeOK, NEW t, Kept(t)
  PROVE  /\ Latest(t) \in 1 .. Len(results) /\ Latest(t) \in DOMAIN results
         /\ results[Latest(t)].by = t /\ results[Latest(t)].status = "running"
<1>1. DOMAIN results = 1 .. Len(results) /\ Len(results) \in Nat
  BY LenProperties DEF TypeOK
<1>2. RunOf(t) \in SUBSET (1 .. Len(results)) /\ RunOf(t) # {}
  BY <1>1 DEF RunOf, Kept
<1>3. \E i \in RunOf(t) : \A j \in RunOf(t) : j <= i
  BY <1>1, <1>2, LastOf, Zenon
<1>4. Latest(t) \in RunOf(t)
  BY <1>3, Zenon DEF Latest
<1>. QED
  BY <1>1, <1>4 DEF RunOf

\* A new run comes last; the others keep their order, and the first may go.
LEMMA BegunIs ==
  ASSUME TypeOK, NEW t \in Tasks
  PROVE  /\ Begun(t) \in Seq(Runs) /\ Len(Begun(t)) <= MaxRuns
         /\ \E d \in {0, 1} :
              /\ Len(Begun(t)) = Len(results) + 1 - d
              /\ \A i \in 1 .. Len(Begun(t)) :
                   IF i = Len(Begun(t)) THEN Begun(t)[i] = [by |-> t, status |-> "running", accepted |-> {}]
                                        ELSE i + d \in 1 .. Len(results) /\ Begun(t)[i] = results[i + d]
<1>. DEFINE new == [by |-> t, status |-> "running", accepted |-> {}]
            file == Append(results, new)
<1>1. new \in Runs
  BY DEF Runs
<1>2. /\ results \in Seq(Runs) /\ Len(results) \in Nat /\ Len(results) <= MaxRuns
      /\ MaxRuns \in Nat \ {0}
  BY ConstantsAssumption, LenProperties DEF TypeOK
<1>3. /\ file \in Seq(Runs) /\ Len(file) = Len(results) + 1
      /\ \A i \in 1 .. Len(file) : file[i] = IF i = Len(file) THEN new ELSE results[i]
  BY <1>1, <1>2
<1>4. CASE Len(file) > MaxRuns
  <2>1. Begun(t) = SubSeq(file, 2, Len(file))
    BY <1>4 DEF Begun
  <2>. HIDE DEF file, new
  <2>2. \A i \in 2 .. Len(file) : file[i] \in Runs
    BY <1>2, <1>3
  <2>3. 2 \in Int /\ Len(file) \in Int
    BY <1>2, <1>3
  <2>4. /\ SubSeq(file, 2, Len(file)) \in Seq(Runs)
        /\ Len(SubSeq(file, 2, Len(file))) = IF 2 <= Len(file) THEN Len(file) - 2 + 1 ELSE 0
        /\ \A i \in 1 .. Len(file) - 2 + 1 : SubSeq(file, 2, Len(file))[i] = file[2 + i - 1]
    BY <2>2, <2>3, SubSeqProperties
  <2>5. Len(Begun(t)) = Len(results) + 1 - 1 /\ Len(Begun(t)) = Len(results)
    BY <1>2, <1>3, <1>4, <2>1, <2>4
  <2>6. \A i \in 1 .. Len(Begun(t)) : Begun(t)[i] = file[i + 1]
    BY <1>2, <1>3, <2>1, <2>4, <2>5
  <2>7. \A i \in 1 .. Len(Begun(t)) :
          IF i = Len(Begun(t)) THEN Begun(t)[i] = new
                               ELSE i + 1 \in 1 .. Len(results) /\ Begun(t)[i] = results[i + 1]
    BY <1>2, <1>3, <2>5, <2>6
  <2>. QED
    BY <1>2, <2>1, <2>4, <2>5, <2>7 DEF new
<1>5. CASE ~(Len(file) > MaxRuns)
  <2>1. Begun(t) = file
    BY <1>5 DEF Begun
  <2>. HIDE DEF file, new
  <2>2. Len(Begun(t)) = Len(results) + 1 - 0
    BY <1>2, <1>3, <2>1
  <2>3. \A i \in 1 .. Len(Begun(t)) :
          IF i = Len(Begun(t)) THEN Begun(t)[i] = new
                               ELSE i + 0 \in 1 .. Len(results) /\ Begun(t)[i] = results[i + 0]
    BY <1>2, <1>3, <2>1
  <2>4. Begun(t) \in Seq(Runs) /\ Len(Begun(t)) <= MaxRuns
    BY <1>2, <1>3, <1>5, <2>1
  <2>5. \E d \in {0, 1} :
          /\ Len(Begun(t)) = Len(results) + 1 - d
          /\ \A i \in 1 .. Len(Begun(t)) :
               IF i = Len(Begun(t)) THEN Begun(t)[i] = new
                                    ELSE i + d \in 1 .. Len(results) /\ Begun(t)[i] = results[i + d]
    BY <2>2, <2>3, Zenon
  <2>. QED
    BY <2>4, <2>5 DEF new
<1>. QED
  BY <1>4, <1>5

-----------------------------------------------------------------------------
(* The steps.                                                              *)

LEMMA InitInv ==
  Init => Inv
<1>. SUFFICES ASSUME Init PROVE Inv
  OBVIOUS
<1>1. TypeOK
  <2>1. results \in Seq(Runs) /\ Len(results) <= MaxRuns
    BY EmptySeq, ConstantsAssumption DEF Init
  <2>2. faults \in 0 .. MaxFaults
    BY ConstantsAssumption DEF Init
  <2>3. /\ pending \subseteq Receipts
        /\ tx \in [Receipts -> {"none", "signed", "sent", "settled", "failed"}]
        /\ sale \in [Receipts -> {"open", "executing"} \cup Answers]
        /\ committed \in [Receipts -> Answers \cup {None}]
    BY DEF Init
  <2>4. /\ pc \in [Tasks -> Phases]
        /\ at \in [Tasks -> Receipts \cup {None}]
        /\ got \in [Tasks -> Answers \cup {None}]
        /\ mode \in [Tasks -> {"json", "terminal"}]
        /\ into \in [Tasks -> Tasks]
    BY DEF Init, Phases, Resting
  <2>. QED
    BY <2>1, <2>2, <2>3, <2>4 DEF TypeOK, Init
<1>2. Handled
  BY ConstantsAssumption DEF Init, Handled, Tasks, Early
<1>3. Ordered
  BY DEF Init, Ordered
<1>4. Stepwise /\ Recorded
  BY DEF Init, Stepwise, Recorded
<1>5. SafeReset
  BY DEF Init, SafeReset
<1>. QED
  BY <1>1, <1>2, <1>3, <1>4, <1>5 DEF Inv

\* What a write to one run of the file does to the file.
LEMMA Edited ==
  ASSUME TypeOK, NEW i \in DOMAIN results
  PROVE  /\ \A status \in {"complete", "failed"} :
              /\ [results EXCEPT ![i].status = status] \in Seq(Runs)
              /\ Len([results EXCEPT ![i].status = status]) = Len(results)
         /\ \A r \in Receipts :
              /\ [results EXCEPT ![i].accepted = @ \cup {r}] \in Seq(Runs)
              /\ Len([results EXCEPT ![i].accepted = @ \cup {r}]) = Len(results)
<1>1. results \in [1 .. Len(results) -> Runs] /\ Len(results) \in Nat
  BY LenProperties, ElementOfSeq DEF TypeOK
<1>2. results[i] \in Runs
  BY <1>1
<1>3. /\ \A status \in {"complete", "failed"} : [results[i] EXCEPT !.status = status] \in Runs
      /\ \A r \in Receipts : [results[i] EXCEPT !.accepted = @ \cup {r}] \in Runs
  BY <1>2 DEF Runs
<1>4. \A run \in Runs :
        /\ [results EXCEPT ![i] = run] \in Seq(Runs)
        /\ Len([results EXCEPT ![i] = run]) = Len(results)
  BY <1>1
<1>. QED
  BY <1>3, <1>4

\* The next purchase of a run, if its plan has one.
LEMMA NextIs ==
  ASSUME TypeOK, Handled, NEW b \in Buyers, pc[b] = "committed"
  PROVE  /\ at[b] \in Receipts /\ at[b][1] = b
         /\ NextPurchase(b) \in Receipts \cup {None}
         /\ NextPurchase(b) # None => NextPurchase(b)[1] = b /\ NextPurchase(b)[2] = at[b][2] + 1
         /\ NextPurchase(b) = None => at[b][2] = Plan[b]
<1>1. at[b] \in Receipts /\ at[b][1] = b
  BY ReceiptShape DEF Handled
<1>2. at[b][2] \in 1 .. Plan[b] /\ Plan[b] \in Nat
  BY <1>1, ReceiptShape
<1>3. CASE at[b][2] < Plan[b]
  <2>1. NextPurchase(b) = <<b, at[b][2] + 1>>
    BY <1>3 DEF NextPurchase
  <2>2. at[b][2] + 1 \in Nat /\ at[b][2] + 1 \in 1 .. Plan[b]
    BY <1>2, <1>3
  <2>3. <<b, at[b][2] + 1>> \in Receipts
    BY <2>2, ReceiptShape
  <2>. QED
    BY <1>1, <2>1, <2>3, ReceiptShape
<1>4. CASE ~ (at[b][2] < Plan[b])
  BY <1>1, <1>2, <1>4, ReceiptShape DEF NextPurchase
<1>. QED
  BY <1>3, <1>4

\* Everything but the result file and the bound on faults.
Typed ==
  /\ tx \in [Receipts -> {"none", "signed", "sent", "settled", "failed"}]
  /\ sale \in [Receipts -> {"open", "executing"} \cup Answers]
  /\ pending \subseteq Receipts
  /\ committed \in [Receipts -> Answers \cup {None}]
  /\ pc \in [Tasks -> Phases]
  /\ at \in [Tasks -> Receipts \cup {None}]
  /\ got \in [Tasks -> Answers \cup {None}]
  /\ mode \in [Tasks -> {"json", "terminal"}]
  /\ into \in [Tasks -> Tasks]
  /\ reset \in {"idle", "safe"}

LEMMA TypedKept ==
  ASSUME TypeOK, Handled, [Next]_vars
  PROVE  Typed'
<1>. USE DEF Go, Forget, Call, Fault, world, task, Typed
<1>1. Typed
  BY DEF TypeOK
<1>2. /\ Buyers \subseteq Tasks /\ Recoveries \subseteq Tasks
      /\ {"new", "checked", "shopping", "quoted", "saved", "sent", "refused", "paid", "working", "got",
          "committed", "closing", "finishing", "failing", "stopped", "done"} \subseteq Phases
      /\ {"good", "terminal"} \subseteq Answers
  BY DEF Tasks, Phases, Resting, Answers
<1>3. CASE UNCHANGED vars
  BY <1>1, <1>3 DEF vars
<1>4. ASSUME NEW r \in Receipts, Land(r) PROVE Typed'
  BY <1>1, <1>2, <1>4 DEF Land
<1>5. ASSUME NEW r \in Receipts, Lapse(r) PROVE Typed'
  BY <1>1, <1>2, <1>5 DEF Lapse
<1>6. ASSUME NEW r \in Receipts, Reconcile(r) PROVE Typed'
  BY <1>1, <1>2, <1>6 DEF Reconcile
<1>7. ASSUME NEW r \in Receipts, Resolve(r) PROVE Typed'
  BY <1>1, <1>2, <1>7 DEF Resolve
<1>8. ASSUME NEW b \in Buyers, Check(b) PROVE Typed'
  BY <1>1, <1>2, <1>8 DEF Check
<1>9. ASSUME NEW b \in Buyers, Begin(b) PROVE Typed'
  BY <1>1, <1>2, <1>9, ReceiptShape DEF Begin
<1>10. ASSUME NEW b \in Buyers, Quote(b) PROVE Typed'
  BY <1>1, <1>2, <1>10 DEF Quote
<1>11. ASSUME NEW b \in Buyers, Save(b) PROVE Typed'
  <2>1. at[b] \in Receipts
    BY <1>11 DEF Handled, Save
  <2>. QED
    BY <1>1, <1>2, <1>11, <2>1 DEF Save
<1>12. ASSUME NEW b \in Buyers, Send(b) PROVE Typed'
  BY <1>1, <1>2, <1>12 DEF Send
<1>13. ASSUME NEW b \in Buyers, Confirm(b) PROVE Typed'
  BY <1>1, <1>2, <1>13 DEF Confirm
<1>14. ASSUME NEW b \in Buyers, ClearRefused(b) PROVE Typed'
  BY <1>1, <1>2, <1>14 DEF ClearRefused
<1>15. ASSUME NEW b \in Buyers, Probe(b) PROVE Typed'
  BY <1>1, <1>2, <1>15 DEF Probe
<1>16. ASSUME NEW b \in Buyers, Close(b) PROVE Typed'
  BY <1>1, <1>2, <1>16 DEF Close
<1>17. ASSUME NEW t \in Tasks, Ask(t) PROVE Typed'
  BY <1>1, <1>2, <1>17 DEF Ask
<1>18. ASSUME NEW t \in Tasks, Serve(t) PROVE Typed'
  BY <1>1, <1>2, <1>18 DEF Serve
<1>19. ASSUME NEW t \in Tasks, Commit(t) PROVE Typed'
  BY <1>1, <1>2, <1>19 DEF Commit
<1>20. ASSUME NEW t \in Tasks, Acknowledge(t) PROVE Typed'
  <2>1. t \in Buyers => NextPurchase(t) \in Receipts \cup {None}
    BY <1>20, NextIs DEF Acknowledge
  <2>2. at' \in [Tasks -> Receipts \cup {None}]
    <3>1. at' = at \/ (t \in Buyers /\ at' = [at EXCEPT ![t] = NextPurchase(t)])
      BY <1>1, <1>20 DEF Acknowledge
    <3>. QED
      BY <1>1, <2>1, <3>1
  <2>3. /\ pc' \in [Tasks -> Phases] /\ got' \in [Tasks -> Answers \cup {None}]
        /\ pending' \subseteq Receipts
    BY <1>1, <1>2, <1>20 DEF Acknowledge, Onward
  <2>. QED
    BY <1>1, <1>20, <2>2, <2>3 DEF Acknowledge
<1>21. ASSUME NEW t \in Tasks, Finish(t) PROVE Typed'
  BY <1>1, <1>2, <1>21 DEF Finish, Rest
<1>22. ASSUME NEW t \in Tasks, Fail(t) PROVE Typed'
  BY <1>1, <1>2, <1>22 DEF Fail
<1>23. ASSUME NEW q \in Recoveries, NEW r \in Receipts, NEW how \in {"json", "terminal"},
        NEW t \in Tasks, Recover(q, r, how, t)
      PROVE  Typed'
  BY <1>1, <1>2, <1>23 DEF Recover
<1>24. CASE Inspect
  BY <1>1, <1>2, <1>24 DEF Inspect
<1>25. CASE Archive
  BY <1>1, <1>2, <1>25 DEF Archive
<1>26. CASE Crash
  BY <1>1, <1>2, <1>26 DEF Crash
<1>. QED
  BY <1>3, <1>4, <1>5, <1>6, <1>7, <1>8, <1>9, <1>10, <1>11, <1>12, <1>13, <1>14, <1>15, <1>16, <1>17, <1>18, <1>19, <1>20, <1>21, <1>22, <1>23, <1>24, <1>25, <1>26 DEF Next, Shop, Deliver

\* How a step may change the result file.  Only a commit makes a task's step
\* "committed".
NoCommit == \A t \in Tasks : pc'[t] = "committed" => pc[t] = "committed"

CommitEffect(t) ==
  /\ pc[t] = "got" /\ Acceptable(t) /\ Committable(t)
  /\ results' = [results EXCEPT ![Latest(into[t])].accepted = @ \cup {at[t]}]
  /\ committed' = [committed EXCEPT ![at[t]] = got[t]]
  /\ \A x \in Tasks \ {t} : pc'[x] = pc[x]
  /\ pc'[t] \in {"committed", "failing"}
  /\ UNCHANGED <<at, tx, sale>>

FileMoves ==
  \/ UNCHANGED results /\ NoCommit
  \/ \E t \in Tasks :
       /\ results' = Begun(t) /\ NoCommit
       /\ t \in Buyers => pc[t] = "checked" /\ at'[t] = <<t, 1>> /\ pc'[t] \in {"shopping", "stopped"}
  \/ \E t \in Tasks, status \in {"complete", "failed"} :
       /\ Kept(t) /\ results' = Finished(t, status) /\ NoCommit
       /\ status = "complete" => pc[t] = "finishing"
  \/ \E t \in Tasks : at[t] \in Receipts /\ CommitEffect(t)
  \/ results' = <<>>

LEMMA FileSteps ==
  ASSUME TypeOK, Handled, [Next]_vars
  PROVE  FileMoves
<1>. USE DEF FileMoves, Call, Go, NoCommit
<1>0. /\ pc \in [Tasks -> Phases] /\ at \in [Tasks -> Receipts \cup {None}]
      /\ Tasks = Buyers \cup Recoveries /\ Buyers \cap Recoveries = {}
  BY ConstantsAssumption DEF TypeOK, Tasks
<1>1. ASSUME NEW b \in Buyers, Begin(b) PROVE FileMoves
  BY <1>0, <1>1 DEF Begin
<1>2. ASSUME NEW t \in Tasks, Commit(t) PROVE FileMoves
  <2>1. at[t] \in Receipts
    BY <1>0, <1>2 DEF Commit, Handled
  <2>2. CASE results' = results /\ pc'[t] = "failing"
    BY <1>0, <1>2, <2>2 DEF Commit
  <2>3. CASE /\ Acceptable(t) /\ Committable(t) /\ pc'[t] \in {"committed", "failing"}
             /\ results' = [results EXCEPT ![Latest(into[t])].accepted = @ \cup {at[t]}]
             /\ committed' = [committed EXCEPT ![at[t]] = got[t]]
    <3>1. CommitEffect(t)
      BY <1>0, <1>2, <2>3 DEF Commit, CommitEffect, task, world
    <3>. QED
      BY <2>1, <3>1
  <2>. QED
    BY <1>0, <1>2, <2>2, <2>3 DEF Commit
<1>3. ASSUME NEW t \in Tasks, Finish(t) \/ Fail(t) PROVE FileMoves
  <2>1. NoCommit
    BY <1>0, <1>3 DEF Finish, Fail, Rest
  <2>. QED
    BY <1>3, <2>1 DEF Finish, Fail
<1>4. ASSUME NEW q \in Recoveries, NEW r \in Receipts, NEW how \in {"json", "terminal"},
             NEW t \in Tasks, Recover(q, r, how, t)
      PROVE  FileMoves
  BY <1>0, <1>4 DEF Recover
<1>5. CASE Archive
  BY <1>5 DEF Archive
<1>6. ASSUME NEW r \in Receipts, Land(r) \/ Lapse(r) \/ Reconcile(r) \/ Resolve(r) PROVE FileMoves
  BY <1>6 DEF Land, Lapse, Reconcile, Resolve
<1>7. ASSUME NEW b \in Buyers,
             Check(b) \/ Quote(b) \/ Save(b) \/ Send(b) \/ Confirm(b) \/ ClearRefused(b)
             \/ Probe(b) \/ Close(b)
      PROVE  FileMoves
  BY <1>0, <1>7 DEF Check, Quote, Save, Send, Confirm, ClearRefused, Probe, Close
<1>8. ASSUME NEW t \in Tasks, Ask(t) \/ Serve(t) PROVE FileMoves
  BY <1>0, <1>8 DEF Ask, Serve
<1>9. ASSUME NEW t \in Tasks, Acknowledge(t) PROVE FileMoves
  BY <1>0, <1>9 DEF Acknowledge, Onward
<1>10. CASE Inspect \/ Crash \/ UNCHANGED vars
  BY <1>0, <1>10 DEF Inspect, Crash, vars
<1>. HIDE DEF FileMoves, Call, Go, NoCommit
<1>. QED
  BY <1>1, <1>2, <1>3, <1>4, <1>5, <1>6, <1>7, <1>8, <1>9, <1>10 DEF Next, Shop, Deliver

LEMMA TypeKept ==
  ASSUME TypeOK, Handled, [Next]_vars
  PROVE  TypeOK'
<1>1. Typed'
  BY TypedKept
<1>2. results' \in Seq(Runs) /\ Len(results') <= MaxRuns
  <2>. USE DEF Committable, Finished, CommitEffect
  <2>1. CASE UNCHANGED results
    BY <2>1 DEF TypeOK
  <2>2. ASSUME NEW t \in Tasks, results' = Begun(t)
        PROVE  results' \in Seq(Runs) /\ Len(results') <= MaxRuns
    BY <2>2, BegunIs
  <2>3. ASSUME NEW t \in Tasks, NEW status \in {"complete", "failed"},
               Kept(t), results' = Finished(t, status)
        PROVE  results' \in Seq(Runs) /\ Len(results') <= MaxRuns
    <3>1. Latest(t) \in DOMAIN results
      BY <2>3, LatestIs
    <3>. QED
      BY <2>3, <3>1, Edited DEF TypeOK
  <2>4. ASSUME NEW t \in Tasks, at[t] \in Receipts, CommitEffect(t)
        PROVE  results' \in Seq(Runs) /\ Len(results') <= MaxRuns
    <3>1. Latest(into[t]) \in DOMAIN results
      BY <2>4, LatestIs
    <3>. QED
      BY <2>4, <3>1, Edited DEF TypeOK
  <2>5. CASE results' = <<>>
    BY <2>5, EmptySeq, ConstantsAssumption
  <2>. QED
    BY <2>1, <2>2, <2>3, <2>4, <2>5, FileSteps DEF FileMoves
<1>3. faults' \in 0 .. MaxFaults
  <2>1. faults' = faults \/ Fault
    BY ZenonT(60) DEF Next, Shop, Deliver, vars, Call, Land, Lapse, Check, Begin, Quote, Save, Send, Confirm, ClearRefused, Ask, Serve,
    Commit, Acknowledge, Probe, Close, Finish, Fail, Recover, Reconcile, Resolve, Inspect, Archive, Crash
  <2>. QED
    BY <2>1, ConstantsAssumption DEF Fault, TypeOK
<1>. QED
  BY <1>1, <1>2, <1>3 DEF Typed, TypeOK

LEMMA HandledKept ==
  ASSUME TypeOK, Handled, Ordered, [Next]_vars
  PROVE  Handled'
<1>. USE DEF Go, Forget, Call, Fault, world, task
<1>1. /\ tx \in [Receipts -> {"none", "signed", "sent", "settled", "failed"}]
      /\ pending \subseteq Receipts
      /\ pc \in [Tasks -> Phases] /\ at \in [Tasks -> Receipts \cup {None}]
      /\ mode \in [Tasks -> {"json", "terminal"}] /\ into \in [Tasks -> Tasks]
  BY DEF TypeOK
<1>2. /\ Tasks = Buyers \cup Recoveries /\ Buyers \cap Recoveries = {}
      /\ None \notin Receipts /\ \A r \in Receipts : r[1] \in Buyers
      /\ \A b \in Buyers : <<b, 1>> \in Receipts
  BY ReceiptShape, ConstantsAssumption DEF Tasks
<1>11. ASSUME NEW b \in Buyers, Check(b) PROVE Handled'
  BY <1>11, <1>1, <1>2 DEF Check, Handled, Live, Resting, Early
<1>12. ASSUME NEW b \in Buyers, Begin(b) PROVE Handled'
  BY <1>12, <1>1, <1>2 DEF Begin, Handled, Live, Resting, Early
<1>13. ASSUME NEW b \in Buyers, Quote(b) PROVE Handled'
  BY <1>13, <1>1, <1>2 DEF Quote, Handled, Live, Resting, Early
<1>14. ASSUME NEW b \in Buyers, Save(b) PROVE Handled'
  BY <1>14, <1>1, <1>2 DEF Save, Handled, Live, Resting, Early
<1>15. ASSUME NEW b \in Buyers, Send(b) PROVE Handled'
  BY <1>15, <1>1, <1>2 DEF Send, Handled, Live, Resting, Early
<1>16. ASSUME NEW b \in Buyers, Confirm(b) PROVE Handled'
  BY <1>16, <1>1, <1>2 DEF Confirm, Handled, Live, Resting, Early
<1>17. ASSUME NEW b \in Buyers, ClearRefused(b) PROVE Handled'
  BY <1>17, <1>1, <1>2 DEF ClearRefused, Handled, Live, Resting, Early
<1>18. ASSUME NEW b \in Buyers, Probe(b) PROVE Handled'
  BY <1>18, <1>1, <1>2 DEF Probe, Handled, Live, Resting, Early
<1>19. ASSUME NEW b \in Buyers, Close(b) PROVE Handled'
  BY <1>19, <1>1, <1>2 DEF Close, Handled, Live, Resting, Early
<1>20. ASSUME NEW t \in Tasks, Ask(t) PROVE Handled'
  BY <1>20, <1>1, <1>2 DEF Ask, Handled, Live, Resting, Early
<1>21. ASSUME NEW t \in Tasks, Serve(t) PROVE Handled'
  BY <1>21, <1>1, <1>2 DEF Serve, Handled, Live, Resting, Early
<1>22. ASSUME NEW t \in Tasks, Commit(t) PROVE Handled'
  BY <1>22, <1>1, <1>2 DEF Commit, Handled, Live, Resting, Early
<1>23. ASSUME NEW t \in Tasks, Acknowledge(t) PROVE Handled'
  <2>1. CASE t \in Buyers
    <3>1. /\ NextPurchase(t) \in Receipts \cup {None}
          /\ NextPurchase(t) # None => NextPurchase(t)[1] = t
      BY <1>23, <2>1, NextIs DEF Acknowledge
    <3>. QED
      BY <1>1, <1>2, <1>23, <2>1, <3>1 DEF Acknowledge, Onward, Handled, Early
  <2>2. CASE t \in Recoveries
    BY <1>1, <1>2, <1>23, <2>2 DEF Acknowledge, Onward, Handled, Early
  <2>. QED
    BY <1>2, <2>1, <2>2
<1>24. ASSUME NEW t \in Tasks, Finish(t) PROVE Handled'
  BY <1>24, <1>1, <1>2 DEF Finish, Rest, Handled, Live, Resting, Early
<1>25. ASSUME NEW t \in Tasks, Fail(t) PROVE Handled'
  BY <1>25, <1>1, <1>2 DEF Fail, Handled, Live, Resting, Early
<1>26. ASSUME NEW q \in Recoveries, NEW r \in Receipts, NEW how \in {"json", "terminal"},
        NEW t \in Tasks, Recover(q, r, how, t)
      PROVE  Handled'
  <2>1. r \in pending /\ pc[r[1]] \in {"new", "stopped", "done"} /\ r[1] \in Buyers
    BY <1>2, <1>26 DEF Recover, Live, Resting
  <2>2. pc[r[1]] \in {"stopped", "done"}
    BY <2>1 DEF Ordered, Early
  <2>3. t = q \/ t = r[1]
    BY <1>26 DEF Recover
  <2>. QED
    BY <1>1, <1>2, <1>26, <2>1, <2>2, <2>3 DEF Recover, Handled, Early
<1>27. CASE Crash
  BY <1>27, <1>1, <1>2 DEF Crash, Handled, Live, Resting, Early
<1>28. CASE \/ \E r \in Receipts : Land(r) \/ Lapse(r) \/ Reconcile(r) \/ Resolve(r)
        \/ Inspect \/ Archive \/ UNCHANGED vars
  BY <1>28 DEF Land, Lapse, Reconcile, Resolve, Inspect, Archive, vars, Handled, Live, Resting, Early
<1>. QED
  BY <1>11, <1>12, <1>13, <1>14, <1>15, <1>16, <1>17, <1>18, <1>19, <1>20, <1>21, <1>22, <1>23, <1>24, <1>25, <1>26, <1>27, <1>28 DEF Next, Shop, Deliver

LEMMA OrderedKept ==
  ASSUME Inv, QuietReset, [Next]_vars
  PROVE  Ordered'
<1>. USE DEF Go, Forget, Call, Fault, world, task
<1>1. /\ tx \in [Receipts -> {"none", "signed", "sent", "settled", "failed"}]
      /\ sale \in [Receipts -> {"open", "executing"} \cup Answers]
      /\ pending \subseteq Receipts
      /\ committed \in [Receipts -> Answers \cup {None}]
      /\ pc \in [Tasks -> Phases] /\ at \in [Tasks -> Receipts \cup {None}]
  BY DEF Inv, TypeOK
<1>2. /\ Tasks = Buyers \cup Recoveries /\ Buyers \cap Recoveries = {}
      /\ None \notin Receipts /\ None \notin Answers
      /\ \A r \in Receipts : r[1] \in Buyers /\ r[2] \in Nat
  BY ReceiptShape, ConstantsAssumption DEF Tasks
<1>3. Ordered
  BY DEF Inv
<1>4. \A t \in Tasks :
        pc[t] \in {"quoted", "saved", "sent", "refused", "paid", "working", "got", "committed"}
          => at[t] \in Receipts /\ (t \in Buyers => at[t][1] = t)
  BY <1>1, <1>2 DEF Inv, Handled
<1>11. ASSUME NEW r \in Receipts, Land(r) PROVE Ordered'
  BY <1>11, <1>1, <1>2, <1>3, <1>4 DEF Land, Ordered, Early, Live, Resting
<1>12. ASSUME NEW r \in Receipts, Lapse(r) PROVE Ordered'
  BY <1>12, <1>1, <1>2, <1>3, <1>4 DEF Lapse, Ordered, Early, Live, Resting
<1>13. ASSUME NEW r \in Receipts, Reconcile(r) PROVE Ordered'
  BY <1>13, <1>1, <1>2, <1>3, <1>4 DEF Reconcile, Ordered, Early, Live, Resting
<1>14. ASSUME NEW r \in Receipts, Resolve(r) PROVE Ordered'
  BY <1>14, <1>1, <1>2, <1>3, <1>4 DEF Resolve, Ordered, Early, Live, Resting
<1>15. ASSUME NEW b \in Buyers, Check(b) PROVE Ordered'
  BY <1>15, <1>1, <1>2, <1>3, <1>4 DEF Check, Ordered, Early, Live, Resting
<1>16. ASSUME NEW b \in Buyers, Begin(b) PROVE Ordered'
  BY <1>16, <1>1, <1>2, <1>3, <1>4 DEF Begin, Ordered, Early, Live, Resting
<1>17. ASSUME NEW b \in Buyers, Quote(b) PROVE Ordered'
  BY <1>17, <1>1, <1>2, <1>3, <1>4 DEF Quote, Ordered, Early, Live, Resting
<1>18. ASSUME NEW b \in Buyers, Save(b) PROVE Ordered'
  BY <1>18, <1>1, <1>2, <1>3, <1>4 DEF Save, Ordered, Early, Live, Resting
<1>19. ASSUME NEW b \in Buyers, Send(b) PROVE Ordered'
  <2>1. at[b] \in pending /\ at[b] \in Receipts
    BY <1>4, <1>19 DEF Inv, Stepwise, Send, Tasks
  <2>. QED
    BY <1>1, <1>2, <1>3, <1>4, <1>19, <2>1 DEF Send, Ordered, Early
<1>20. ASSUME NEW b \in Buyers, Confirm(b) PROVE Ordered'
  BY <1>20, <1>1, <1>2, <1>3, <1>4 DEF Confirm, Ordered, Early, Live, Resting
<1>21. ASSUME NEW b \in Buyers, ClearRefused(b) PROVE Ordered'
  <2>1. tx[at[b]] \in {"signed", "failed"} /\ at[b] \in Receipts
    BY <1>4, <1>21 DEF Inv, Stepwise, ClearRefused, Tasks
  <2>. QED
    BY <1>1, <1>2, <1>3, <1>4, <1>21, <2>1 DEF ClearRefused, Ordered, Early
<1>22. ASSUME NEW b \in Buyers, Probe(b) PROVE Ordered'
  BY <1>22, <1>1, <1>2, <1>3, <1>4 DEF Probe, Ordered, Early, Live, Resting
<1>23. ASSUME NEW b \in Buyers, Close(b) PROVE Ordered'
  BY <1>23, <1>1, <1>2, <1>3, <1>4 DEF Close, Ordered, Early, Live, Resting
<1>24. ASSUME NEW t \in Tasks, Ask(t) PROVE Ordered'
  BY <1>24, <1>1, <1>2, <1>3, <1>4 DEF Ask, Ordered, Early, Live, Resting
<1>25. ASSUME NEW t \in Tasks, Serve(t) PROVE Ordered'
  BY <1>25, <1>1, <1>2, <1>3, <1>4 DEF Serve, Ordered, Early, Live, Resting
<1>26. ASSUME NEW t \in Tasks, Commit(t) PROVE Ordered'
  <2>1. at[t] \in Receipts /\ pc[t] = "got"
    BY <1>4, <1>26 DEF Commit
  <2>2. committed' = committed \/ (committed' = [committed EXCEPT ![at[t]] = got[t]] /\ got[t] # None)
    BY <1>2, <1>26 DEF Commit, Acceptable, Answers
  <2>3. \A r \in Receipts : committed[r] # None => committed'[r] # None
    BY <1>1, <2>1, <2>2
  <2>4. UNCHANGED <<tx, sale, pending, at>>
    BY <1>26 DEF Commit
  <2>5. \A x \in Tasks : pc'[x] = pc[x] \/ (x = t /\ pc'[x] \in {"committed", "failing"})
    BY <1>1, <1>26 DEF Commit
  <2>. QED
    BY <1>2, <1>3, <2>1, <2>3, <2>4, <2>5 DEF Ordered, Early
<1>27. ASSUME NEW t \in Tasks, Acknowledge(t) PROVE Ordered'
  <2>1. committed[at[t]] # None /\ at[t] \in Receipts /\ pc[t] = "committed"
    BY <1>4, <1>27 DEF Inv, Stepwise, Acknowledge
  <2>2. UNCHANGED <<tx, sale, committed>> /\ pending \ {at[t]} \subseteq pending' /\ pending' \subseteq pending
    BY <1>27 DEF Acknowledge
  <2>3. \A x \in Tasks :
          \/ pc'[x] = pc[x] /\ at'[x] = at[x]
          \/ x = t /\ pc'[x] \in {"shopping", "finishing", "failing"}
             /\ at'[x] = IF pc'[x] = "shopping" THEN NextPurchase(x) ELSE at[x]
    BY <1>1, <1>2, <1>27 DEF Acknowledge, Onward
  <2>4. CASE t \in Buyers
    <3>1. /\ at[t] \in Receipts /\ at[t][1] = t
          /\ NextPurchase(t) # None => NextPurchase(t)[2] = at[t][2] + 1
      BY <2>1, <2>4, NextIs DEF Inv
    <3>. QED
      BY <1>2, <1>3, <2>1, <2>2, <2>3, <3>1 DEF Ordered, Early
  <2>5. CASE t \notin Buyers
    BY <1>2, <1>3, <2>1, <2>2, <2>3, <2>5 DEF Ordered, Early
  <2>. QED
    BY <2>4, <2>5
<1>28. ASSUME NEW t \in Tasks, Finish(t) PROVE Ordered'
  <2>1. UNCHANGED <<tx, sale, pending, committed>>
    BY <1>28 DEF Finish
  <2>2. \A x \in Tasks :
          \/ pc'[x] = pc[x] /\ at'[x] = at[x]
          \/ x = t /\ at'[x] = None /\ (x \in Buyers => pc'[x] \in {"done", "failing"})
    BY <1>1, <1>2, <1>28 DEF Finish, Rest
  <2>. QED
    BY <1>2, <1>3, <2>1, <2>2 DEF Ordered, Early
<1>29. ASSUME NEW t \in Tasks, Fail(t) PROVE Ordered'
  BY <1>29, <1>1, <1>2, <1>3, <1>4 DEF Fail, Ordered, Early, Live, Resting
<1>30. ASSUME NEW q \in Recoveries, NEW r \in Receipts, NEW how \in {"json", "terminal"},
        NEW t \in Tasks, Recover(q, r, how, t)
      PROVE  Ordered'
  BY <1>30, <1>1, <1>2, <1>3, <1>4 DEF Recover, Ordered, Early, Live, Resting
<1>31. CASE Inspect
  <2>1. \A r \in Accepted : committed[r] # None
    BY DEF Inv, Recorded, RunIsTrue, Accepted
  <2>. QED
    BY <1>1, <1>2, <1>3, <1>31, <2>1 DEF Inspect, Ordered, Early
<1>32. CASE Archive
  <2>1. pending = {} /\ pending' = {} /\ UNCHANGED <<tx, pc, at, committed>>
        /\ \A r \in Receipts : sale'[r] = "open"
    BY <1>32 DEF Inv, SafeReset, Archive
  <2>. QED
    BY <1>3, <2>1 DEF Ordered
<1>33. CASE Crash
  BY <1>33, <1>1, <1>2, <1>3, <1>4 DEF Crash, Ordered, Early, Live, Resting
<1>34. CASE \/ UNCHANGED vars
  BY <1>34, <1>1, <1>2, <1>3, <1>4 DEF vars, Ordered, Early, Live, Resting
<1>. QED
  BY <1>11, <1>12, <1>13, <1>14, <1>15, <1>16, <1>17, <1>18, <1>19, <1>20, <1>21, <1>22, <1>23, <1>24, <1>25, <1>26, <1>27, <1>28, <1>29, <1>30, <1>31, <1>32, <1>33, <1>34 DEF Next, Shop, Deliver

LEMMA StepwiseKept ==
  ASSUME Inv, QuietReset, [Next]_vars
  PROVE  Stepwise'
<1>. USE DEF Go, Forget, Call, Fault, world, task
<1>1. /\ tx \in [Receipts -> {"none", "signed", "sent", "settled", "failed"}]
      /\ sale \in [Receipts -> {"open", "executing"} \cup Answers]
      /\ pending \subseteq Receipts
      /\ committed \in [Receipts -> Answers \cup {None}]
      /\ pc \in [Tasks -> Phases] /\ at \in [Tasks -> Receipts \cup {None}]
      /\ got \in [Tasks -> Answers \cup {None}]
  BY DEF Inv, TypeOK
<1>2. /\ Tasks = Buyers \cup Recoveries /\ Buyers \cap Recoveries = {}
      /\ None \notin Receipts /\ None \notin Answers
      /\ Answers = {"good", "terminal"}
  BY ReceiptShape, ConstantsAssumption DEF Tasks, Answers
<1>3. Stepwise
  BY DEF Inv
<1>4. \A t \in Tasks :
        pc[t] \in {"quoted", "saved", "sent", "refused", "paid", "working", "got", "committed"}
          => at[t] \in Receipts /\ (t \in Buyers => at[t][1] = t)
  BY <1>1, <1>2 DEF Inv, Handled
<1>5. \A t \in Tasks : pc[t] \in {"quoted", "saved", "refused", "sent"} => t \in Buyers
  BY <1>2 DEF Inv, Handled
<1>11. ASSUME NEW r \in Receipts, Land(r) PROVE Stepwise'
  BY <1>11, <1>1, <1>2, <1>3, <1>4, <1>5 DEF Land, Stepwise, Live, Resting
<1>12. ASSUME NEW r \in Receipts, Lapse(r) PROVE Stepwise'
  BY <1>12, <1>1, <1>2, <1>3, <1>4, <1>5 DEF Lapse, Stepwise, Live, Resting
<1>13. ASSUME NEW r \in Receipts, Reconcile(r) PROVE Stepwise'
  BY <1>13, <1>1, <1>2, <1>3, <1>4, <1>5 DEF Reconcile, Stepwise, Live, Resting
<1>14. ASSUME NEW r \in Receipts, Resolve(r) PROVE Stepwise'
  BY <1>14, <1>1, <1>2, <1>3, <1>4, <1>5 DEF Resolve, Stepwise, Live, Resting
<1>15. ASSUME NEW b \in Buyers, Check(b) PROVE Stepwise'
  BY <1>15, <1>1, <1>2, <1>3, <1>4, <1>5 DEF Check, Stepwise, Live, Resting
<1>16. ASSUME NEW b \in Buyers, Begin(b) PROVE Stepwise'
  BY <1>16, <1>1, <1>2, <1>3, <1>4, <1>5 DEF Begin, Stepwise, Live, Resting
<1>17. ASSUME NEW b \in Buyers, Quote(b) PROVE Stepwise'
  BY <1>17, <1>1, <1>2, <1>3, <1>4, <1>5 DEF Quote, Stepwise, Live, Resting
<1>18. ASSUME NEW b \in Buyers, Save(b) PROVE Stepwise'
  BY <1>18, <1>1, <1>2, <1>3, <1>4, <1>5 DEF Save, Stepwise, Live, Resting
<1>19. ASSUME NEW b \in Buyers, Send(b) PROVE Stepwise'
  BY <1>19, <1>1, <1>2, <1>3, <1>4, <1>5 DEF Send, Stepwise, Live, Resting
<1>20. ASSUME NEW b \in Buyers, Confirm(b) PROVE Stepwise'
  BY <1>20, <1>1, <1>2, <1>3, <1>4, <1>5 DEF Confirm, Stepwise, Live, Resting
<1>21. ASSUME NEW b \in Buyers, ClearRefused(b) PROVE Stepwise'
  BY <1>21, <1>1, <1>2, <1>3, <1>4, <1>5 DEF ClearRefused, Stepwise, Live, Resting
<1>22. ASSUME NEW b \in Buyers, Probe(b) PROVE Stepwise'
  BY <1>22, <1>1, <1>2, <1>3, <1>4, <1>5 DEF Probe, Stepwise, Live, Resting
<1>23. ASSUME NEW b \in Buyers, Close(b) PROVE Stepwise'
  BY <1>23, <1>1, <1>2, <1>3, <1>4, <1>5 DEF Close, Stepwise, Live, Resting
<1>24. ASSUME NEW t \in Tasks, Ask(t) PROVE Stepwise'
  BY <1>24, <1>1, <1>2, <1>3, <1>4, <1>5 DEF Ask, Stepwise, Live, Resting
<1>25. ASSUME NEW t \in Tasks, Serve(t) PROVE Stepwise'
  BY <1>25, <1>1, <1>2, <1>3, <1>4, <1>5 DEF Serve, Stepwise, Live, Resting
<1>26. ASSUME NEW t \in Tasks, Commit(t) PROVE Stepwise'
  BY <1>26, <1>1, <1>2, <1>3, <1>4, <1>5 DEF Commit, Stepwise, Live, Resting
<1>27. ASSUME NEW t \in Tasks, Acknowledge(t) PROVE Stepwise'
  <2>1. at[t] \in Receipts /\ pc[t] = "committed"
    BY <1>4, <1>27 DEF Acknowledge
  <2>2. \A x \in Tasks : pc[x] = "saved" => at[x] # at[t]
    <3>1. CASE t \in Buyers
      BY <1>4, <1>5, <2>1, <3>1
    <3>2. CASE t \in Recoveries
      <4>1. pc[at[t][1]] \in {"stopped", "done"}
        BY <1>2, <2>1, <3>2 DEF Inv, Handled
      <4>. QED
        BY <1>4, <1>5, <4>1
    <3>. QED
      BY <1>2, <3>1, <3>2
  <2>3. UNCHANGED <<tx, sale, committed>> /\ pending \ {at[t]} \subseteq pending'
    BY <1>27 DEF Acknowledge
  <2>4. \A x \in Tasks :
          \/ pc'[x] = pc[x] /\ at'[x] = at[x] /\ got'[x] = got[x]
          \/ x = t /\ pc'[x] \in {"shopping", "finishing", "failing"}
    BY <1>1, <1>2, <1>27 DEF Acknowledge, Onward
  <2>. QED
    BY <1>3, <1>4, <2>2, <2>3, <2>4 DEF Stepwise
<1>28. ASSUME NEW t \in Tasks, Finish(t) PROVE Stepwise'
  <2>1. UNCHANGED <<tx, sale, pending, committed>>
    BY <1>28 DEF Finish
  <2>2. \A x \in Tasks :
          \/ pc'[x] = pc[x] /\ at'[x] = at[x] /\ got'[x] = got[x]
          \/ x = t /\ pc'[x] \in {"done", "new", "failing"}
    BY <1>1, <1>2, <1>28 DEF Finish, Rest
  <2>. QED
    BY <1>3, <2>1, <2>2 DEF Stepwise
<1>29. ASSUME NEW t \in Tasks, Fail(t) PROVE Stepwise'
  BY <1>29, <1>1, <1>2, <1>3, <1>4, <1>5 DEF Fail, Stepwise, Live, Resting
<1>30. ASSUME NEW q \in Recoveries, NEW r \in Receipts, NEW how \in {"json", "terminal"},
        NEW t \in Tasks, Recover(q, r, how, t)
      PROVE  Stepwise'
  BY <1>30, <1>1, <1>2, <1>3, <1>4, <1>5 DEF Recover, Stepwise, Live, Resting
<1>31. CASE Inspect
  <2>1. \A t \in Tasks : pc[t] \in {"new", "stopped", "done"} /\ pc'[t] = pc[t]
    BY <1>31 DEF Inspect, Quiet, Live, Resting
  <2>. QED
    BY <2>1 DEF Stepwise
<1>32. CASE Archive
  <2>1. \A t \in Tasks : pc[t] \in {"new", "stopped", "done"} /\ pc'[t] = pc[t]
    BY <1>32 DEF Archive, Inv, SafeReset, Quiet, Live, Resting
  <2>. QED
    BY <2>1 DEF Stepwise
<1>33. CASE Crash
  BY <1>33, <1>1, <1>2, <1>3, <1>4, <1>5 DEF Crash, Stepwise, Live, Resting
<1>34. CASE \/ UNCHANGED vars
  BY <1>34, <1>1, <1>2, <1>3, <1>4 DEF vars, Stepwise, Live, Resting
<1>. QED
  BY <1>11, <1>12, <1>13, <1>14, <1>15, <1>16, <1>17, <1>18, <1>19, <1>20, <1>21, <1>22, <1>23, <1>24, <1>25, <1>26, <1>27, <1>28, <1>29, <1>30, <1>31, <1>32, <1>33, <1>34 DEF Next, Shop, Deliver

LEMMA SafeResetKept ==
  ASSUME Inv, QuietReset, [Next]_vars
  PROVE  SafeReset'
<1>. USE DEF Go, Forget, Call, Fault, world, task
<1>1. SafeReset /\ pc \in [Tasks -> Phases] /\ Tasks = Buyers \cup Recoveries
  BY DEF Inv, TypeOK, Tasks
<1>2. \A b \in Buyers : pc[b] \in {"quoted", "saved", "sent", "refused"} => Live(b)
  BY DEF Live, Resting
<1>11. ASSUME NEW r \in Receipts, Land(r) PROVE SafeReset'
  BY <1>11, <1>1, <1>2 DEF Land, SafeReset, Quiet, Live, Resting, MayStart
<1>12. ASSUME NEW r \in Receipts, Lapse(r) PROVE SafeReset'
  BY <1>12, <1>1, <1>2 DEF Lapse, SafeReset, Quiet, Live, Resting, MayStart
<1>13. ASSUME NEW r \in Receipts, Reconcile(r) PROVE SafeReset'
  BY <1>13, <1>1, <1>2 DEF Reconcile, SafeReset, Quiet, Live, Resting, MayStart
<1>14. ASSUME NEW r \in Receipts, Resolve(r) PROVE SafeReset'
  BY <1>14, <1>1, <1>2 DEF Resolve, SafeReset, Quiet, Live, Resting, MayStart
<1>15. ASSUME NEW b \in Buyers, Check(b) PROVE SafeReset'
  BY <1>15, <1>1, <1>2 DEF Check, SafeReset, Quiet, Live, Resting, MayStart
<1>16. ASSUME NEW b \in Buyers, Begin(b) PROVE SafeReset'
  BY <1>16, <1>1, <1>2 DEF Begin, SafeReset, Quiet, Live, Resting, MayStart
<1>17. ASSUME NEW b \in Buyers, Quote(b) PROVE SafeReset'
  BY <1>17, <1>1, <1>2 DEF Quote, SafeReset, Quiet, Live, Resting, MayStart
<1>18. ASSUME NEW b \in Buyers, Save(b) PROVE SafeReset'
  BY <1>18, <1>1, <1>2 DEF Save, SafeReset, Quiet, Live, Resting, MayStart
<1>19. ASSUME NEW b \in Buyers, Send(b) PROVE SafeReset'
  BY <1>19, <1>1, <1>2 DEF Send, SafeReset, Quiet, Live, Resting, MayStart
<1>20. ASSUME NEW b \in Buyers, Confirm(b) PROVE SafeReset'
  BY <1>20, <1>1, <1>2 DEF Confirm, SafeReset, Quiet, Live, Resting, MayStart
<1>21. ASSUME NEW b \in Buyers, ClearRefused(b) PROVE SafeReset'
  BY <1>21, <1>1, <1>2 DEF ClearRefused, SafeReset, Quiet, Live, Resting, MayStart
<1>22. ASSUME NEW b \in Buyers, Probe(b) PROVE SafeReset'
  BY <1>22, <1>1, <1>2 DEF Probe, SafeReset, Quiet, Live, Resting, MayStart
<1>23. ASSUME NEW b \in Buyers, Close(b) PROVE SafeReset'
  BY <1>23, <1>1, <1>2 DEF Close, SafeReset, Quiet, Live, Resting, MayStart
<1>24. ASSUME NEW t \in Tasks, Ask(t) PROVE SafeReset'
  BY <1>24, <1>1, <1>2 DEF Ask, SafeReset, Quiet, Live, Resting, MayStart
<1>25. ASSUME NEW t \in Tasks, Serve(t) PROVE SafeReset'
  BY <1>25, <1>1, <1>2 DEF Serve, SafeReset, Quiet, Live, Resting, MayStart
<1>26. ASSUME NEW t \in Tasks, Commit(t) PROVE SafeReset'
  BY <1>26, <1>1, <1>2 DEF Commit, SafeReset, Quiet, Live, Resting, MayStart
<1>27. ASSUME NEW t \in Tasks, Acknowledge(t) PROVE SafeReset'
  BY <1>27, <1>1, <1>2 DEF Acknowledge, SafeReset, Quiet, Live, Resting, MayStart
<1>28. ASSUME NEW t \in Tasks, Finish(t) PROVE SafeReset'
  BY <1>28, <1>1, <1>2 DEF Finish, SafeReset, Quiet, Live, Resting, MayStart
<1>29. ASSUME NEW t \in Tasks, Fail(t) PROVE SafeReset'
  BY <1>29, <1>1, <1>2 DEF Fail, SafeReset, Quiet, Live, Resting, MayStart
<1>30. ASSUME NEW q \in Recoveries, NEW r \in Receipts, NEW how \in {"json", "terminal"},
        NEW t \in Tasks, Recover(q, r, how, t)
      PROVE  SafeReset'
  BY <1>30, <1>1, <1>2 DEF Recover, SafeReset, Quiet, Live, Resting, MayStart
<1>31. CASE Inspect
  BY <1>31, <1>1, <1>2 DEF Inspect, SafeReset, Quiet, Live, Resting, MayStart
<1>32. CASE Archive
  BY <1>32, <1>1, <1>2 DEF Archive, SafeReset, Quiet, Live, Resting, MayStart
<1>33. CASE Crash
  BY <1>33, <1>1, <1>2 DEF Crash, SafeReset, Quiet, Live, Resting, MayStart
<1>34. CASE \/ UNCHANGED vars
  BY <1>34, <1>1 DEF vars, SafeReset, Quiet, Live, Resting, MayStart
<1>. QED
  BY <1>11, <1>12, <1>13, <1>14, <1>15, <1>16, <1>17, <1>18, <1>19, <1>20, <1>21, <1>22, <1>23, <1>24, <1>25, <1>26, <1>27, <1>28, <1>29, <1>30, <1>31, <1>32, <1>33, <1>34 DEF Next, Shop, Deliver

\* What is never undone: a commit, a settlement, an answer; and how a run goes on.
StepsForward ==
  /\ \A r \in Receipts :
       /\ committed[r] # None => committed'[r] # None
       /\ tx[r] = "settled" => tx'[r] = "settled"
       /\ sale[r] = "good" => sale'[r] = "good"
  /\ \A b \in Buyers :
       pc[b] \notin Early =>
         /\ pc'[b] \notin Early
         /\ Live(b)' => Live(b)
         /\ pc'[b] \in Shopping =>
              /\ pc[b] \in Shopping
              /\ \/ at'[b] = at[b] /\ (pc[b] = "committed" => pc'[b] = "committed")
                 \/ /\ pc[b] = "committed" /\ pc'[b] = "shopping"
                    /\ at'[b] = NextPurchase(b)


LEMMA OnlyForward ==
  ASSUME Inv, [Next]_vars, ~ Archive
  PROVE  StepsForward
<1>. USE DEF Go, Forget, Call, Fault, world, task
<1>1. /\ tx \in [Receipts -> {"none", "signed", "sent", "settled", "failed"}]
      /\ sale \in [Receipts -> {"open", "executing"} \cup Answers]
      /\ committed \in [Receipts -> Answers \cup {None}]
      /\ pc \in [Tasks -> Phases] /\ at \in [Tasks -> Receipts \cup {None}]
      /\ got \in [Tasks -> Answers \cup {None}]
  BY DEF Inv, TypeOK
<1>2. /\ Tasks = Buyers \cup Recoveries /\ Buyers \cap Recoveries = {}
      /\ None \notin Receipts /\ None \notin Answers /\ Answers = {"good", "terminal"}
      /\ \A r \in Receipts : r[2] \in Nat /\ ~ (r[2] < r[2])
  BY ReceiptShape, ConstantsAssumption DEF Tasks, Answers
<1>3. \A t \in Tasks :
        pc[t] \in {"quoted", "saved", "sent", "refused", "paid", "working", "got", "committed"}
          => at[t] \in Receipts /\ (t \in Buyers => at[t][1] = t)
  BY <1>1, <1>2 DEF Inv, Handled
<1>4. \A b \in Buyers : pc[b] = "quoted" => tx[at[b]] = "none"
  BY <1>1, <1>2, <1>3 DEF Inv, Ordered, Tasks
<1>11. ASSUME NEW r \in Receipts, Land(r) PROVE StepsForward
  BY <1>11, <1>1, <1>2, <1>3, <1>4 DEF Land, StepsForward, Live, Resting, Early, Shopping
<1>12. ASSUME NEW r \in Receipts, Lapse(r) PROVE StepsForward
  BY <1>12, <1>1, <1>2, <1>3, <1>4 DEF Lapse, StepsForward, Live, Resting, Early, Shopping
<1>13. ASSUME NEW r \in Receipts, Reconcile(r) PROVE StepsForward
  BY <1>13, <1>1, <1>2, <1>3, <1>4 DEF Reconcile, StepsForward, Live, Resting, Early, Shopping
<1>14. ASSUME NEW r \in Receipts, Resolve(r) PROVE StepsForward
  BY <1>14, <1>1, <1>2, <1>3, <1>4 DEF Resolve, StepsForward, Live, Resting, Early, Shopping
<1>15. ASSUME NEW b \in Buyers, Check(b) PROVE StepsForward
  BY <1>15, <1>1, <1>2, <1>3, <1>4 DEF Check, StepsForward, Live, Resting, Early, Shopping
<1>16. ASSUME NEW b \in Buyers, Begin(b) PROVE StepsForward
  BY <1>16, <1>1, <1>2, <1>3, <1>4 DEF Begin, StepsForward, Live, Resting, Early, Shopping
<1>17. ASSUME NEW b \in Buyers, Quote(b) PROVE StepsForward
  BY <1>17, <1>1, <1>2, <1>3, <1>4 DEF Quote, StepsForward, Live, Resting, Early, Shopping
<1>18. ASSUME NEW b \in Buyers, Save(b) PROVE StepsForward
  BY <1>18, <1>1, <1>2, <1>3, <1>4 DEF Save, StepsForward, Live, Resting, Early, Shopping
<1>19. ASSUME NEW b \in Buyers, Send(b) PROVE StepsForward
  BY <1>19, <1>1, <1>2, <1>3, <1>4 DEF Send, StepsForward, Live, Resting, Early, Shopping
<1>20. ASSUME NEW b \in Buyers, Confirm(b) PROVE StepsForward
  BY <1>20, <1>1, <1>2, <1>3, <1>4 DEF Confirm, StepsForward, Live, Resting, Early, Shopping
<1>21. ASSUME NEW b \in Buyers, ClearRefused(b) PROVE StepsForward
  BY <1>21, <1>1, <1>2, <1>3, <1>4 DEF ClearRefused, StepsForward, Live, Resting, Early, Shopping
<1>22. ASSUME NEW b \in Buyers, Probe(b) PROVE StepsForward
  BY <1>22, <1>1, <1>2, <1>3, <1>4 DEF Probe, StepsForward, Live, Resting, Early, Shopping
<1>23. ASSUME NEW b \in Buyers, Close(b) PROVE StepsForward
  BY <1>23, <1>1, <1>2, <1>3, <1>4 DEF Close, StepsForward, Live, Resting, Early, Shopping
<1>24. ASSUME NEW t \in Tasks, Ask(t) PROVE StepsForward
  BY <1>24, <1>1, <1>2, <1>3, <1>4 DEF Ask, StepsForward, Live, Resting, Early, Shopping
<1>25. ASSUME NEW t \in Tasks, Serve(t) PROVE StepsForward
  BY <1>25, <1>1, <1>2, <1>3, <1>4 DEF Serve, StepsForward, Live, Resting, Early, Shopping
<1>26. ASSUME NEW t \in Tasks, Commit(t) PROVE StepsForward
  <2>1. pc[t] = "got" /\ UNCHANGED <<tx, sale, at>>
        /\ \A x \in Tasks : pc'[x] = pc[x] \/ (x = t /\ pc'[x] \in {"committed", "failing"})
    BY <1>1, <1>26 DEF Commit
  <2>2. committed' = committed \/ (committed' = [committed EXCEPT ![at[t]] = got[t]] /\ got[t] # None)
    BY <1>2, <1>26 DEF Commit, Acceptable
  <2>3. \A r \in Receipts : committed[r] # None => committed'[r] # None
    BY <1>1, <2>2
  <2>. QED
    BY <1>2, <2>1, <2>3 DEF StepsForward, Live, Resting, Early, Shopping
<1>27. ASSUME NEW t \in Tasks, Acknowledge(t) PROVE StepsForward
  <2>1. pc[t] = "committed" /\ UNCHANGED <<tx, sale, committed>>
    BY <1>27 DEF Acknowledge
  <2>2. \A x \in Tasks :
          \/ pc'[x] = pc[x] /\ at'[x] = at[x]
          \/ x = t /\ pc'[x] = "failing"
          \/ x = t /\ x \in Recoveries
          \/ x = t /\ pc'[x] = "shopping" /\ at'[x] = NextPurchase(x)
    BY <1>1, <1>2, <1>27 DEF Acknowledge, Onward
  <2>. QED
    BY <1>2, <2>1, <2>2 DEF StepsForward, Live, Resting, Early, Shopping
<1>28. ASSUME NEW t \in Tasks, Finish(t) PROVE StepsForward
  <2>1. pc[t] = "finishing" /\ UNCHANGED <<tx, sale, committed>>
    BY <1>28 DEF Finish
  <2>2. \A x \in Tasks :
          \/ pc'[x] = pc[x] /\ at'[x] = at[x]
          \/ x = t /\ (x \in Buyers => pc'[x] \in {"done", "failing"})
    BY <1>1, <1>2, <1>28 DEF Finish, Rest
  <2>. QED
    BY <1>2, <2>1, <2>2 DEF StepsForward, Live, Resting, Early, Shopping
<1>29. ASSUME NEW t \in Tasks, Fail(t) PROVE StepsForward
  BY <1>29, <1>1, <1>2, <1>3, <1>4 DEF Fail, StepsForward, Live, Resting, Early, Shopping
<1>30. ASSUME NEW q \in Recoveries, NEW r \in Receipts, NEW how \in {"json", "terminal"},
        NEW t \in Tasks, Recover(q, r, how, t)
      PROVE  StepsForward
  BY <1>30, <1>1, <1>2, <1>3, <1>4 DEF Recover, StepsForward, Live, Resting, Early, Shopping
<1>31. CASE Inspect
  BY <1>31, <1>1, <1>2, <1>3, <1>4 DEF Inspect, StepsForward, Live, Resting, Early, Shopping
<1>32. CASE Archive
  BY <1>32, <1>1, <1>2, <1>3, <1>4 DEF Archive, StepsForward, Live, Resting, Early, Shopping
<1>33. CASE Crash
  BY <1>33, <1>1, <1>2, <1>3, <1>4 DEF Crash, StepsForward, Live, Resting, Early, Shopping
<1>34. CASE \/ UNCHANGED vars
  BY <1>34, <1>1 DEF vars, StepsForward, Live, Resting, Early, Shopping
<1>. QED
  BY <1>11, <1>12, <1>13, <1>14, <1>15, <1>16, <1>17, <1>18, <1>19, <1>20, <1>21, <1>22, <1>23, <1>24, <1>25, <1>26, <1>27, <1>28, <1>29, <1>30, <1>31, <1>32, <1>33, <1>34 DEF Next, Shop, Deliver

\* A run the step does not write to stays true, unless its task goes on as if the
\* step had written to it.
LEMMA RunStays ==
  ASSUME Inv, [Next]_vars, ~ Archive, NEW run \in Runs, RunIsTrue(run),
         run.by \in Buyers /\ run.status = "running" /\ pc'[run.by] = "committed"
           => pc[run.by] = "committed"
  PROVE  RunIsTrue(run)'
<1>1. StepsForward
  BY OnlyForward
<1>2. run.accepted \subseteq Receipts
  BY DEF Runs
<1>3. \A r \in run.accepted : committed'[r] # None
  BY <1>1, <1>2 DEF RunIsTrue, StepsForward
<1>4. ASSUME run.by \in Buyers
      PROVE  /\ pc'[run.by] \notin Early
             /\ Live(run.by)' \/ run.status = "complete" =>
                  \A r \in run.accepted : r[1] = run.by /\ tx'[r] = "settled" /\ sale'[r] = "good"
             /\ run.status = "complete" => {run.by} \X (1 .. Plan[run.by]) \subseteq run.accepted
  BY <1>1, <1>2, <1>4 DEF RunIsTrue, StepsForward
<1>5. ASSUME run.by \in Buyers, run.status = "running", pc'[run.by] \in Shopping,
             NEW r \in Receipts, r[1] = run.by,
             at'[run.by] # None =>
               r[2] < at'[run.by][2] \/ (r = at'[run.by] /\ pc'[run.by] = "committed")
      PROVE  r \in run.accepted
  <2>. DEFINE b == run.by
  <2>1. /\ pc[b] \notin Early /\ pc[b] \in Shopping
        /\ \/ at'[b] = at[b] /\ (pc[b] = "committed" => pc'[b] = "committed")
           \/ pc[b] = "committed" /\ pc'[b] = "shopping" /\ at'[b] = NextPurchase(b)
    BY <1>1, <1>5 DEF RunIsTrue, StepsForward
  <2>2. CASE at'[b] = at[b] /\ (pc[b] = "committed" => pc'[b] = "committed")
    <3>1. pc'[b] = "committed" <=> pc[b] = "committed"
      BY <1>5, <2>2
    <3>. QED
      BY <1>5, <2>1, <2>2, <3>1 DEF RunIsTrue
  <2>3. CASE pc[b] = "committed" /\ pc'[b] = "shopping" /\ at'[b] = NextPurchase(b)
    <3>1. /\ at[b] \in Receipts /\ at[b][1] = b
          /\ at'[b] # None => at'[b][2] = at[b][2] + 1
          /\ at'[b] = None => at[b][2] = Plan[b]
      BY <1>5, <2>3, NextIs DEF Inv
    <3>2. /\ r[2] \in Nat /\ at[b][2] \in Nat /\ Plan[b] \in Nat /\ r[2] <= Plan[b]
          /\ r = <<r[1], r[2]>> /\ at[b] = <<at[b][1], at[b][2]>>
      <4>1. /\ r[2] \in 1 .. Plan[r[1]] /\ r[2] \in Nat /\ r = <<r[1], r[2]>>
            /\ at[b][2] \in Nat /\ at[b] = <<at[b][1], at[b][2]>>
            /\ Plan[r[1]] \in Nat \ {0}
        BY <3>1, ReceiptShape, Zenon
      <4>. QED
        BY <1>5, <4>1
    <3>3. at'[b] # None => r[2] < at'[b][2]
      BY <1>5, <2>3
    <3>4. r[2] <= at[b][2]
      BY <3>1, <3>2, <3>3
    <3>5. r[2] < at[b][2] \/ r = at[b]
      BY <1>5, <3>1, <3>2, <3>4
    <3>. QED
      BY <1>5, <2>1, <2>3, <3>5 DEF RunIsTrue
  <2>. QED
    BY <2>1, <2>2, <2>3
<1>. QED
  BY <1>3, <1>4, <1>5 DEF RunIsTrue

\* The run a task begins.
LEMMA RunBegins ==
  ASSUME Inv, NEW t \in Tasks,
         t \in Buyers => at'[t] = <<t, 1>> /\ pc'[t] \in {"shopping", "stopped"}
  PROVE  RunIsTrue([by |-> t, status |-> "running", accepted |-> {}])'
<1>1. \A r \in Receipts : ~ (r[2] < 1)
  BY ReceiptShape
<1>2. t \in Buyers => <<t, 1>> # None /\ <<t, 1>>[2] = 1
  BY ReceiptShape
<1>. QED
  BY <1>1, <1>2 DEF RunIsTrue, Early, Shopping

\* The run a task ends: only a run that bought its whole plan is complete.
LEMMA RunEnds ==
  ASSUME Inv, [Next]_vars, ~ Archive, NEW run \in Runs, RunIsTrue(run), RunIsTrue(run)',
         run.status = "running", NEW status \in {"complete", "failed"},
         status = "complete" => pc[run.by] = "finishing"
  PROVE  RunIsTrue([run EXCEPT !.status = status])'
<1>. DEFINE ended == [run EXCEPT !.status = status]
<1>1. ended.by = run.by /\ ended.accepted = run.accepted /\ ended.status = status
  BY DEF Runs
<1>2. run.accepted \subseteq Receipts
  BY DEF Runs
<1>3. ASSUME status = "complete", run.by \in Buyers
      PROVE  /\ {run.by} \X (1 .. Plan[run.by]) \subseteq run.accepted
             /\ \A r \in run.accepted : r[1] = run.by /\ tx'[r] = "settled" /\ sale'[r] = "good"
  <2>1. pc[run.by] = "finishing" /\ at[run.by] = None
    BY <1>3 DEF Inv, Handled
  <2>2. \A r \in Receipts : r[1] = run.by => r \in run.accepted
    BY <1>3, <2>1 DEF RunIsTrue, Shopping
  <2>3. {run.by} \X (1 .. Plan[run.by]) \subseteq Receipts
    BY <1>3 DEF Receipts
  <2>4. \A r \in {run.by} \X (1 .. Plan[run.by]) : r[1] = run.by
    OBVIOUS
  <2>5. Live(run.by)
    BY <2>1 DEF Live, Resting
  <2>6. \A r \in run.accepted : r[1] = run.by /\ tx[r] = "settled" /\ sale[r] = "good"
    BY <1>3, <2>5 DEF RunIsTrue
  <2>. QED
    BY <1>2, <2>2, <2>3, <2>4, <2>6, OnlyForward DEF StepsForward
<1>. HIDE DEF ended
<1>4. RunIsTrue(ended)'
  BY <1>1, <1>3 DEF RunIsTrue
<1>. QED
  BY <1>4 DEF ended

\* The run a delivery is committed to: a living run takes only its own, and good.
LEMMA RunCommits ==
  ASSUME Inv, [Next]_vars, ~ Archive, NEW t \in Tasks, CommitEffect(t),
         NEW taken \in Receipts, at[t] = taken,
         NEW run \in Runs, RunIsTrue(run), run.by = into[t], run.status = "running"
  PROVE  RunIsTrue([run EXCEPT !.accepted = @ \cup {taken}])'
<1>. DEFINE longer == [run EXCEPT !.accepted = @ \cup {taken}]
            b == run.by
<1>1. longer.by = b /\ longer.accepted = run.accepted \cup {taken} /\ longer.status = "running"
  BY DEF Runs
<1>2. run.accepted \subseteq Receipts
  BY DEF Runs
<1>3. StepsForward
  BY OnlyForward
<1>4. \A r \in longer.accepted : committed'[r] # None
  <2>1. committed'[taken] = got[t] /\ got[t] # None
    BY ConstantsAssumption DEF CommitEffect, Acceptable, Answers, Inv, TypeOK
  <2>. QED
    BY <1>1, <1>2, <1>3, <2>1 DEF RunIsTrue, StepsForward
<1>5. b \in Buyers /\ Live(b) => t = b /\ pc[b] = "got"
  BY DEF Inv, TypeOK, Handled, Live, Resting, Tasks, CommitEffect
<1>6. ASSUME b \in Buyers PROVE pc'[b] \notin Early
  BY <1>3, <1>6 DEF RunIsTrue, StepsForward
<1>7. ASSUME b \in Buyers, Live(b)'
      PROVE  \A r \in longer.accepted : r[1] = b /\ tx'[r] = "settled" /\ sale'[r] = "good"
  <2>1. Live(b)
    BY <1>3, <1>7 DEF RunIsTrue, StepsForward
  <2>2. t = b /\ pc[b] = "got" /\ mode[b] = "json" /\ at[b][1] = b
    BY <1>5, <1>7, <2>1, ReceiptShape DEF Inv, Handled
  <2>3. got[b] = "good" /\ sale[at[b]] = "good"
    BY <2>2 DEF CommitEffect, Acceptable, Inv, Stepwise
  <2>4. tx[at[b]] = "settled"
    BY <2>2, <2>3 DEF Inv, Ordered
  <2>5. \A r \in run.accepted : r[1] = b /\ tx[r] = "settled" /\ sale[r] = "good"
    BY <1>7, <2>1 DEF RunIsTrue
  <2>. QED
    BY <1>1, <2>2, <2>3, <2>4, <2>5 DEF CommitEffect
<1>8. ASSUME b \in Buyers, pc'[b] \in Shopping, NEW r \in Receipts, r[1] = b,
             at'[b] # None => r[2] < at'[b][2] \/ (r = at'[b] /\ pc'[b] = "committed")
      PROVE  r \in longer.accepted
  <2>1. pc[b] \in Shopping /\ at'[b] = at[b]
    BY <1>3, <1>8 DEF RunIsTrue, StepsForward, CommitEffect
  <2>2. t = b /\ pc[b] = "got"
    BY <1>5, <1>8, <2>1 DEF Live, Resting, Shopping
  <2>3. r[2] < at[b][2] => r \in run.accepted
    BY <1>8, <2>1, <2>2 DEF RunIsTrue
  <2>. QED
    BY <1>1, <1>8, <2>1, <2>2, <2>3, ReceiptShape
<1>. HIDE DEF longer
<1>9. ASSUME b \in Buyers
      PROVE  \A r \in Receipts :
               /\ pc'[b] \in Shopping /\ r[1] = b
               /\ at'[b] # None => r[2] < at'[b][2] \/ (r = at'[b] /\ pc'[b] = "committed")
               => r \in longer.accepted
  BY <1>8, <1>9
<1>10. RunIsTrue(longer)'
  <2>1. longer.status # "complete"
    BY <1>1
  <2>. QED
    BY <1>1, <1>4, <1>6, <1>7, <1>9, <2>1 DEF RunIsTrue
<1>. QED
  BY <1>10 DEF longer

LEMMA RecordedKept ==
  ASSUME Inv, [Next]_vars
  PROVE  Recorded'
<1>1. /\ results \in Seq(Runs) /\ Len(results) \in Nat /\ DOMAIN results = 1 .. Len(results)
      /\ \A i \in DOMAIN results : results[i] \in Runs /\ RunIsTrue(results[i])
      /\ results' \in Seq(Runs) /\ Len(results') \in Nat /\ DOMAIN results' = 1 .. Len(results')
  <2>1. results \in Seq(Runs) /\ results' \in Seq(Runs)
    BY TypeKept DEF Inv, TypeOK
  <2>. QED
    BY <2>1, LenProperties, ElementOfSeq DEF Inv, Recorded
<1>2. CASE results' = <<>>
  BY <1>2, EmptySeq DEF Recorded
<1>3. CASE Archive
  BY <1>2, <1>3 DEF Archive
<1>4. /\ \A i, j \in DOMAIN results :
           i # j =>
             /\ results[i].accepted \cap results[j].accepted = {}
             /\ results[i].by \in Buyers => results[i].by # results[j].by
      /\ \A run \in Runs : run.by \in Tasks
  BY DEF Inv, Recorded, Runs
<1>5. ASSUME ~ Archive, NoCommit, NEW run \in Runs, RunIsTrue(run) PROVE RunIsTrue(run)'
  BY <1>4, <1>5, RunStays DEF NoCommit
<1>6. CASE ~ Archive /\ UNCHANGED results /\ NoCommit
  <2>1. \A i \in DOMAIN results' : RunIsTrue(results[i])'
    BY <1>1, <1>5, <1>6
  <2>. QED
    BY <1>4, <1>6, <2>1 DEF Recorded
<1>7. ASSUME ~ Archive, NEW t \in Tasks, results' = Begun(t), NoCommit,
             t \in Buyers => pc[t] = "checked" /\ at'[t] = <<t, 1>> /\ pc'[t] \in {"shopping", "stopped"}
      PROVE  Recorded'
  <2>. DEFINE new == [by |-> t, status |-> "running", accepted |-> {}]
  <2>1. PICK d \in {0, 1} :
          /\ Len(results') = Len(results) + 1 - d
          /\ \A i \in 1 .. Len(results') :
               IF i = Len(results') THEN results'[i] = new
                                    ELSE i + d \in 1 .. Len(results) /\ results'[i] = results[i + d]
    BY <1>7, BegunIs DEF Inv
  <2>2. RunIsTrue(new)'
    BY <1>7, RunBegins
  <2>3. \A i \in DOMAIN results : results[i].by \in Buyers => results[i].by # t
    BY <1>1, <1>7 DEF RunIsTrue, Early
  <2>4. \A i \in DOMAIN results' : RunIsTrue(results[i])'
    BY <1>1, <1>5, <1>7, <2>1, <2>2
  <2>5. \A i, j \in DOMAIN results' :
          i # j =>
            /\ results'[i].accepted \cap results'[j].accepted = {}
            /\ results'[i].by \in Buyers => results'[i].by # results'[j].by
    <3>. SUFFICES ASSUME NEW i \in DOMAIN results', NEW j \in DOMAIN results', i # j
                  PROVE  /\ results'[i].accepted \cap results'[j].accepted = {}
                         /\ results'[i].by \in Buyers => results'[i].by # results'[j].by
      OBVIOUS
    <3>1. new.accepted = {} /\ new.by = t
      OBVIOUS
    <3>. HIDE DEF new
    <3>2. i \in 1 .. Len(results') /\ j \in 1 .. Len(results') /\ i + d # j + d
      BY <1>1
    <3>3. CASE i = Len(results')
      BY <1>1, <2>1, <2>3, <3>1, <3>2, <3>3
    <3>4. CASE j = Len(results')
      BY <1>1, <2>1, <2>3, <3>1, <3>2, <3>4
    <3>5. CASE i # Len(results') /\ j # Len(results')
      <4>1. /\ i + d \in DOMAIN results /\ results'[i] = results[i + d]
            /\ j + d \in DOMAIN results /\ results'[j] = results[j + d]
        BY <1>1, <2>1, <3>2, <3>5
      <4>. QED
        BY <1>4, <3>2, <4>1
    <3>. QED
      BY <3>3, <3>4, <3>5
  <2>. QED
    BY <2>4, <2>5 DEF Recorded
<1>8. ASSUME ~ Archive, NEW t \in Tasks, NEW status \in {"complete", "failed"}, Kept(t),
             results' = Finished(t, status), NoCommit, status = "complete" => pc[t] = "finishing"
      PROVE  Recorded'
  <2>1. PICK last \in DOMAIN results :
          /\ last = Latest(t) /\ results[last].by = t /\ results[last].status = "running"
    BY <1>8, LatestIs DEF Inv
  <2>2. /\ DOMAIN results' = DOMAIN results
        /\ \A i \in DOMAIN results :
             results'[i] = IF i = last THEN [results[i] EXCEPT !.status = status] ELSE results[i]
    BY <1>1, <1>8, <2>1 DEF Finished
  <2>3. \A run \in Runs : RunIsTrue(run) /\ run.by = t /\ run.status = "running"
                            => RunIsTrue([run EXCEPT !.status = status])'
    BY <1>5, <1>8, RunEnds
  <2>4. \A i \in DOMAIN results' : RunIsTrue(results[i])'
    BY <1>1, <1>5, <1>8, <2>1, <2>2, <2>3, ZenonT(60)
  <2>5. \A i \in DOMAIN results :
          results'[i].by = results[i].by /\ results'[i].accepted = results[i].accepted
    BY <1>1, <2>2 DEF Runs
  <2>. QED
    BY <1>4, <2>2, <2>4, <2>5 DEF Recorded
<1>9. ASSUME ~ Archive, NEW t \in Tasks, at[t] \in Receipts, CommitEffect(t)
      PROVE  Recorded'
  <2>1. PICK last \in DOMAIN results :
          /\ last = Latest(into[t]) /\ results[last].by = into[t] /\ results[last].status = "running"
    BY <1>9, LatestIs DEF Inv, CommitEffect, Committable
  <2>2. PICK taken \in Receipts : taken = at[t]
    BY <1>9
  <2>3. /\ DOMAIN results' = DOMAIN results
        /\ \A i \in DOMAIN results :
             results'[i] = IF i = last THEN [results[i] EXCEPT !.accepted = @ \cup {taken}] ELSE results[i]
    BY <1>1, <1>9, <2>1, <2>2 DEF CommitEffect
  <2>4. \A run \in Runs : RunIsTrue(run) /\ run.by = into[t] /\ run.status = "running"
                            => RunIsTrue([run EXCEPT !.accepted = @ \cup {taken}])'
    BY <1>9, <2>2, RunCommits
  <2>5. \A i \in DOMAIN results : i # last => RunIsTrue(results[i])'
    <3>1. \A run \in Runs : RunIsTrue(run) /\ (run.by \in Buyers => run.by # t) => RunIsTrue(run)'
      BY <1>4, <1>9, RunStays DEF CommitEffect
    <3>2. t \in Buyers => into[t] = t
      BY DEF Inv, Handled
    <3>3. \A i \in DOMAIN results : i # last /\ results[i].by \in Buyers => results[i].by # t
      BY <1>4, <2>1, <3>2
    <3>4. \A i \in DOMAIN results : i # last => results'[i] = results[i]
      BY <2>3
    <3>. QED
      BY <1>1, <3>1, <3>3, <3>4
  <2>6. \A i \in DOMAIN results' : RunIsTrue(results[i])'
    BY <1>1, <2>1, <2>3, <2>4, <2>5, ZenonT(60)
  <2>7. \A i \in DOMAIN results :
          /\ results'[i].by = results[i].by
          /\ results'[i].accepted = IF i = last THEN results[i].accepted \cup {taken}
                                                ELSE results[i].accepted
    BY <1>1, <2>3 DEF Runs
  <2>8. \A i \in DOMAIN results : i # last => taken \notin results[i].accepted
    BY <1>4, <1>9, <2>1, <2>2 DEF CommitEffect, Committable, Accepted
  <2>9. ASSUME NEW i \in DOMAIN results, NEW j \in DOMAIN results, i # j
        PROVE  results'[i].accepted \cap results'[j].accepted = {}
    <3>1. results[i].accepted \cap results[j].accepted = {}
      BY <1>4, <2>9
    <3>. QED
      BY <2>7, <2>8, <2>9, <3>1
  <2>10. \A i, j \in DOMAIN results :
           i # j /\ results'[i].by \in Buyers => results'[i].by # results'[j].by
    BY <1>4, <2>7
  <2>. QED
    BY <2>3, <2>6, <2>9, <2>10 DEF Recorded
<1>. QED
  BY <1>2, <1>3, <1>6, <1>7, <1>8, <1>9, FileSteps DEF FileMoves, Inv

-----------------------------------------------------------------------------
(* The theorems.                                                           *)

LEMMA InvKept ==
  QuietReset /\ Inv /\ [Next]_vars => Inv'
<1>. SUFFICES ASSUME QuietReset, Inv, [Next]_vars PROVE Inv'
  OBVIOUS
<1>1. TypeOK' /\ Handled'
  BY TypeKept, HandledKept DEF Inv
<1>2. Ordered' /\ Stepwise' /\ Recorded' /\ SafeReset'
  BY OrderedKept, StepwiseKept, RecordedKept, SafeResetKept
<1>. QED
  BY <1>1, <1>2 DEF Inv

LEMMA Invariance ==
  ASSUME QuietReset
  PROVE  Spec => []Inv
<1>1. QuietReset
  OBVIOUS
<1>2. Inv /\ [Next]_vars => Inv'
  BY <1>1, InvKept
<1>. QED
  BY <1>2, InitInv, PTL DEF Spec

\* The files, the ledger and the merchant's records stay well formed, and the result
\* file within its limit, whatever fails and however tasks interleave.
THEOREM TypeCorrectness ==
  ASSUME QuietReset
  PROVE  Spec => []TypeOK
<1>1. Inv => TypeOK
  BY DEF Inv
<1>. QED
  BY <1>1, Invariance, PTL

\* contract.mjs and storage.mjs lose no payment: one that is on its way or settled has
\* its receipt in the pending file, or its delivery was durably committed, for any
\* number of runs, recoveries, crashes and failing writes.
THEOREM Tracked ==
  ASSUME QuietReset
  PROVE  Spec => []PaidIsTracked
<1>1. Inv => PaidIsTracked
  BY DEF Inv, Ordered, PaidIsTracked
<1>. QED
  BY <1>1, Invariance, PTL

\* The result file tells the truth: a run it calls complete was paid for, answered and
\* delivered, purchase by purchase, and no payment counts for two runs.
THEOREM TruthfulResults ==
  ASSUME QuietReset
  PROVE  Spec => []ResultsAreTrue
<1>1. Inv => ResultsAreTrue
  BY DEF Inv, Recorded, RunIsTrue, ResultsAreTrue
<1>. QED
  BY <1>1, Invariance, PTL
=============================================================================
