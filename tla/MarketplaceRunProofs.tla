-------------------------- MODULE MarketplaceRunProofs --------------------------
(***************************************************************************)
(* Proofs about MarketplaceRun, for any number of callers and editors.     *)
(*                                                                         *)
(* The reservation leaves one caller that may change the row, the writer,  *)
(* and the evidence it keeps grows with its position.  Evidence that lets  *)
(* a run be completed is the last the writer keeps: that is why another    *)
(* caller can complete the run from it.                                    *)
(***************************************************************************)
EXTENDS MarketplaceRun, TLAPS

Writing == {"pay", "reading", "received", "rejected", "results", "review"}

Writer(c) == pc[c] \in Writing

\* The evidence a run is completed on.
Good ==
  /\ run.paid
  /\ run.evidence # None
  /\ run.evidence.delivery = "received"
  /\ run.evidence.ok
  /\ run.evidence.output
  /\ kind = "search" => run.evidence.results

\* The reservation: what is still true while nobody, or one caller, holds it.
Reserved ==
  /\ \A c, d \in Callers : Writer(c) /\ Writer(d) => c = d
  /\ \A c \in Callers : Writer(c) => run.status \in {"payment_pending", "marketplace_paid"}
  /\ \A c \in Callers : pc[c] = "compose" => run.status # "none"
  /\ run.status = "none" => payments = 0
  /\ \A c \in Callers : pc[c] = "pay" => payments = 0
  /\ payments <= 1

\* The evidence at each position of the writer.
Position(c) ==
  /\ pc[c] \in Writing \ {"results"} => ~Good
  /\ pc[c] = "results" => kind = "search" /\ answer[c].ok /\ ~run.evidence.results
  /\ pc[c] \in {"pay", "reading"} => run.evidence = None
  /\ pc[c] = "received" => run.evidence.delivery = "reading"
  /\ pc[c] \in {"reading", "received", "rejected", "results"} => answer[c] \in Answers
  /\ pc[c] \in {"received", "rejected", "results"} => run.evidence # None
  /\ pc[c] = "rejected" => ~answer[c].body \/ ~Usable(c)
  /\ pc[c] = "compose" => Good

EvidenceGrows ==
  /\ \A c \in Callers : Position(c)
  /\ run.status \in {"none", "payment_pending"} => run.evidence = None
  /\ run.status = "marketplace_paid" => run.paid /\ run.evidence # None
  /\ run.status = "complete" => Good

Rewriting ==
  /\ \A d, e \in Editors : pc[d] = "rewrite" /\ pc[e] = "rewrite" => d = e
  /\ \A e \in Editors : pc[e] = "rewrite" => rewrites = 0 /\ revision # "none"
  /\ revision = "none" => rewrites = 0
  /\ rewrites <= 1

Separate ==
  /\ \A c \in Callers : pc[c] \notin {"look", "insert", "rewrite", "update"}
  /\ \A e \in Editors : pc[e] \in {"look", "insert", "rewrite", "update", "done"}

Inv == TypeOK /\ Separate /\ Reserved /\ EvidenceGrows /\ Rewriting

USE DEF vars, Requests, Steps, Rows, Evidence, Reports, Answers

-----------------------------------------------------------------------------
(* The invariant holds initially and is kept by every step.                *)

LEMMA InitInv == Init => Inv
<1>. SUFFICES ASSUME Init PROVE Inv
  OBVIOUS
<1>. USE MarketplaceAssumption DEF Init
<1>1. TypeOK
  <2>1. run \in Rows
    OBVIOUS
  <2>2. pc \in [Requests -> Steps]
    OBVIOUS
  <2>3. stopped \subseteq Requests /\ payments \in Nat /\ rewrites \in Nat
    OBVIOUS
  <2>4. answer \in [Callers -> Answers \cup {None}]
    BY Zenon
  <2>5. got \in [Requests -> Reports \cup {None, "running", "succeeded", "failed", "uncertain"}]
    OBVIOUS
  <2>. QED
    BY <2>1, <2>2, <2>3, <2>4, <2>5 DEF TypeOK
<1>2. Separate
  BY DEF Separate
<1>3. Reserved
  BY DEF Reserved, Writer, Writing
<1>4. EvidenceGrows
  BY DEF EvidenceGrows, Position, Writing, Good
<1>5. Rewriting
  BY DEF Rewriting
<1>. QED
  BY <1>1, <1>2, <1>3, <1>4, <1>5 DEF Inv

\* A caller that neither writes nor completes has no part in the evidence.
LEMMA IdlePosition ==
  ASSUME NEW d, pc'[d] \notin Writing \cup {"compose"}
  PROVE  Position(d)'
  BY Zenon DEF Position, Writing

LEMMA StartKeeps ==
  ASSUME Inv, NEW c \in Callers, Start(c)
  PROVE  Inv'
<1>. USE MarketplaceAssumption, NoneAssumption DEF Inv, Separate, Goto, Return, Resumable, Start
<1>1. TypeOK' /\ Separate'
  BY DEF TypeOK
<1>2. Reserved'
  BY DEF TypeOK, Reserved, Writer, Writing
<1>3. EvidenceGrows'
  BY DEF TypeOK, Reserved, EvidenceGrows, Position, Writer, Writing, Good, Usable
<1>4. Rewriting'
  BY DEF TypeOK, Rewriting
<1>. QED
  BY <1>1, <1>2, <1>3, <1>4

LEMMA ReserveKeeps ==
  ASSUME Inv, NEW c \in Callers, Reserve(c)
  PROVE  Inv'
<1>. USE MarketplaceAssumption, NoneAssumption DEF Inv, Separate, Goto, Return, Reserve
<1>1. TypeOK' /\ Separate'
  BY DEF TypeOK
<1>2. Reserved'
  BY DEF TypeOK, Reserved, Writer, Writing
<1>3. EvidenceGrows'
  BY DEF TypeOK, Reserved, EvidenceGrows, Position, Writer, Writing, Good, Usable
<1>4. Rewriting'
  BY DEF TypeOK, Rewriting
<1>. QED
  BY <1>1, <1>2, <1>3, <1>4

LEMMA PayKeeps ==
  ASSUME Inv, NEW c \in Callers, Pay(c)
  PROVE  Inv'
<1>. USE MarketplaceAssumption, NoneAssumption DEF Inv, Separate, Goto, Return, Pay
<1>1. TypeOK' /\ Separate'
  BY DEF TypeOK
<1>2. Reserved'
  BY DEF TypeOK, Reserved, Writer, Writing
<1>3. EvidenceGrows'
  BY DEF TypeOK, Reserved, EvidenceGrows, Position, Writer, Writing, Good, Usable
<1>4. Rewriting'
  BY DEF TypeOK, Rewriting
<1>. QED
  BY <1>1, <1>2, <1>3, <1>4

LEMMA ReadingKeeps ==
  ASSUME Inv, NEW c \in Callers, Reading(c)
  PROVE  Inv'
<1>. DEFINE evidence == Kept(c, "reading", FALSE, FALSE)
            next == IF answer[c].body THEN "received" ELSE "rejected"
<1>. USE NoneAssumption DEF Inv, Separate, Reading
<1>1. run.status \in {"payment_pending", "marketplace_paid"}
  BY DEF Reserved, Writer, Writing
<1>2. answer[c] \in Answers
  BY DEF EvidenceGrows, Position
<1>3. evidence \in Evidence
  BY <1>2 DEF Kept
<1>4. next \in Steps
  OBVIOUS
<1>5. /\ run' \in Rows
      /\ run'.status = "marketplace_paid" /\ run'.paid /\ run'.evidence = evidence
      /\ pc' = [pc EXCEPT ![c] = next]
  BY <1>1, <1>3, ZenonT(60) DEF TypeOK, MarkPaid, Goto
<1>6. TypeOK' /\ Separate'
  BY <1>4, <1>5 DEF TypeOK
<1>7. Reserved'
  BY <1>1, <1>5 DEF TypeOK, Reserved, Writer, Writing
<1>8. EvidenceGrows'
  <2>1. Position(c)'
    BY <1>2, <1>3, <1>5, ZenonT(60) DEF TypeOK, EvidenceGrows, Position, Writing, Good, Usable, Kept
  <2>2. ASSUME NEW d \in Callers, d # c PROVE pc'[d] \notin Writing \cup {"compose"}
    <3>1. pc'[d] = pc[d]
      BY <1>5, <2>2 DEF TypeOK
    <3>2. pc[c] \in Writing /\ pc[d] \notin Writing
      BY <2>2 DEF Reserved, Writer, Writing
    <3>3. ~Good
      BY DEF EvidenceGrows, Position, Writing, Good
    <3>4. pc[d] # "compose"
      BY <3>3 DEF EvidenceGrows, Position
    <3>. QED
      BY <3>1, <3>2, <3>4
  <2>3. ASSUME NEW d \in Callers, d # c PROVE Position(d)'
    BY <2>2, <2>3, IdlePosition
  <2>. QED
    BY <1>3, <1>5, <2>1, <2>3 DEF EvidenceGrows
<1>9. Rewriting'
  BY <1>5 DEF TypeOK, Rewriting
<1>. QED
  BY <1>6, <1>7, <1>8, <1>9

LEMMA ReceivedKeeps ==
  ASSUME Inv, NEW c \in Callers, Received(c)
  PROVE  Inv'
<1>. DEFINE evidence == Kept(c, "received", TRUE, FALSE)
            next == IF ~Usable(c) THEN "rejected" ELSE IF kind = "search" THEN "results" ELSE "compose"
<1>. USE NoneAssumption DEF Inv, Separate, Received
<1>1. run.status \in {"payment_pending", "marketplace_paid"}
  BY DEF Reserved, Writer, Writing
<1>2. answer[c] \in Answers
  BY DEF EvidenceGrows, Position
<1>3. evidence \in Evidence
  BY <1>2 DEF Kept
<1>4. next \in Steps
  OBVIOUS
<1>5. /\ run' \in Rows
      /\ run'.status = "marketplace_paid" /\ run'.paid /\ run'.evidence = evidence
      /\ pc' = [pc EXCEPT ![c] = next]
  BY <1>1, <1>3, ZenonT(60) DEF TypeOK, MarkPaid, Goto
<1>6. TypeOK' /\ Separate'
  BY <1>4, <1>5 DEF TypeOK
<1>7. Reserved'
  BY <1>1, <1>5 DEF TypeOK, Reserved, Writer, Writing
<1>8. EvidenceGrows'
  <2>1. Position(c)'
    BY <1>2, <1>3, <1>5, ZenonT(60) DEF TypeOK, EvidenceGrows, Position, Writing, Good, Usable, Kept
  <2>2. ASSUME NEW d \in Callers, d # c PROVE pc'[d] \notin Writing \cup {"compose"}
    <3>1. pc'[d] = pc[d]
      BY <1>5, <2>2 DEF TypeOK
    <3>2. pc[c] \in Writing /\ pc[d] \notin Writing
      BY <2>2 DEF Reserved, Writer, Writing
    <3>3. ~Good
      BY DEF EvidenceGrows, Position, Writing, Good
    <3>4. pc[d] # "compose"
      BY <3>3 DEF EvidenceGrows, Position
    <3>. QED
      BY <3>1, <3>2, <3>4
  <2>3. ASSUME NEW d \in Callers, d # c PROVE Position(d)'
    BY <2>2, <2>3, IdlePosition
  <2>. QED
    BY <1>3, <1>5, <2>1, <2>3 DEF EvidenceGrows
<1>9. Rewriting'
  BY <1>5 DEF TypeOK, Rewriting
<1>. QED
  BY <1>6, <1>7, <1>8, <1>9

LEMMA RejectedKeeps ==
  ASSUME Inv, NEW c \in Callers, Rejected(c)
  PROVE  Inv'
<1>. DEFINE evidence == Kept(c, "rejected", answer[c].body, FALSE)
            next == "review"
<1>. USE NoneAssumption DEF Inv, Separate, Rejected
<1>1. run.status \in {"payment_pending", "marketplace_paid"}
  BY DEF Reserved, Writer, Writing
<1>2. answer[c] \in Answers
  BY DEF EvidenceGrows, Position
<1>3. evidence \in Evidence
  BY <1>2 DEF Kept
<1>4. next \in Steps
  OBVIOUS
<1>5. /\ run' \in Rows
      /\ run'.status = "marketplace_paid" /\ run'.paid /\ run'.evidence = evidence
      /\ pc' = [pc EXCEPT ![c] = next]
  BY <1>1, <1>3, ZenonT(60) DEF TypeOK, MarkPaid, Goto
<1>6. TypeOK' /\ Separate'
  BY <1>4, <1>5 DEF TypeOK
<1>7. Reserved'
  BY <1>1, <1>5 DEF TypeOK, Reserved, Writer, Writing
<1>8. EvidenceGrows'
  <2>1. Position(c)'
    BY <1>2, <1>3, <1>5 DEF TypeOK, EvidenceGrows, Position, Writing, Good, Usable, Kept
  <2>2. ASSUME NEW d \in Callers, d # c PROVE pc'[d] \notin Writing \cup {"compose"}
    <3>1. pc'[d] = pc[d]
      BY <1>5, <2>2 DEF TypeOK
    <3>2. pc[c] \in Writing /\ pc[d] \notin Writing
      BY <2>2 DEF Reserved, Writer, Writing
    <3>3. ~Good
      BY DEF EvidenceGrows, Position, Writing, Good
    <3>4. pc[d] # "compose"
      BY <3>3 DEF EvidenceGrows, Position
    <3>. QED
      BY <3>1, <3>2, <3>4
  <2>3. ASSUME NEW d \in Callers, d # c PROVE Position(d)'
    BY <2>2, <2>3, IdlePosition
  <2>. QED
    BY <1>3, <1>5, <2>1, <2>3 DEF EvidenceGrows
<1>9. Rewriting'
  BY <1>5 DEF TypeOK, Rewriting
<1>. QED
  BY <1>6, <1>7, <1>8, <1>9

LEMMA ResultsKeeps ==
  ASSUME Inv, NEW c \in Callers, Results(c)
  PROVE  Inv'
<1>. DEFINE evidence == Kept(c, "received", TRUE, TRUE)
            next == "compose"
<1>. USE NoneAssumption DEF Inv, Separate, Results
<1>1. run.status \in {"payment_pending", "marketplace_paid"}
  BY DEF Reserved, Writer, Writing
<1>2. answer[c] \in Answers
  BY DEF EvidenceGrows, Position
<1>3. evidence \in Evidence
  BY <1>2 DEF Kept
<1>4. next \in Steps
  OBVIOUS
<1>5. /\ run' \in Rows
      /\ run'.status = "marketplace_paid" /\ run'.paid /\ run'.evidence = evidence
      /\ pc' = [pc EXCEPT ![c] = next]
  BY <1>1, <1>3, ZenonT(60) DEF TypeOK, MarkPaid, Goto
<1>6. TypeOK' /\ Separate'
  BY <1>4, <1>5 DEF TypeOK
<1>7. Reserved'
  BY <1>1, <1>5 DEF TypeOK, Reserved, Writer, Writing
<1>8. EvidenceGrows'
  <2>1. Position(c)'
    BY <1>2, <1>3, <1>5, ZenonT(60) DEF TypeOK, EvidenceGrows, Position, Writing, Good, Usable, Kept
  <2>2. ASSUME NEW d \in Callers, d # c PROVE pc'[d] \notin Writing \cup {"compose"}
    <3>1. pc'[d] = pc[d]
      BY <1>5, <2>2 DEF TypeOK
    <3>2. pc[c] \in Writing /\ pc[d] \notin Writing
      BY <2>2 DEF Reserved, Writer, Writing
    <3>3. ~Good
      BY DEF EvidenceGrows, Position, Writing, Good
    <3>4. pc[d] # "compose"
      BY <3>3 DEF EvidenceGrows, Position
    <3>. QED
      BY <3>1, <3>2, <3>4
  <2>3. ASSUME NEW d \in Callers, d # c PROVE Position(d)'
    BY <2>2, <2>3, IdlePosition
  <2>. QED
    BY <1>3, <1>5, <2>1, <2>3 DEF EvidenceGrows
<1>9. Rewriting'
  BY <1>5 DEF TypeOK, Rewriting
<1>. QED
  BY <1>6, <1>7, <1>8, <1>9

LEMMA ComposeKeeps ==
  ASSUME Inv, NEW c \in Callers, Compose(c)
  PROVE  Inv'
<1>. USE NoneAssumption DEF Inv, Separate, Compose
<1>1. Good /\ \A d \in Callers : ~Writer(d) \/ pc[d] = "results"
  BY DEF EvidenceGrows, Position, Writer, Writing
<1>2. PICK report \in Reports : Complete(c, report)
  BY Zenon DEF Reports
<1>3. PICK done \in BOOLEAN :
        /\ run' = IF done THEN [run EXCEPT !.status = "complete", !.report = report] ELSE run
        /\ got' = IF done THEN [got EXCEPT ![c] = report] ELSE got
        /\ done => run.status \in {"marketplace_paid", "complete"}
        /\ pc' = [pc EXCEPT ![c] = "done"]
  BY <1>2 DEF Complete, Goto, Return
<1>4. TypeOK' /\ Separate'
  BY <1>3 DEF TypeOK
<1>5. Reserved'
  BY <1>3, <1>1 DEF TypeOK, Reserved, Writer, Writing, Good, EvidenceGrows, Position
<1>6. EvidenceGrows'
  BY <1>1, <1>3 DEF TypeOK, Reserved, EvidenceGrows, Position, Writer, Writing, Good, Usable
<1>7. Rewriting'
  BY <1>3 DEF TypeOK, Rewriting
<1>. QED
  BY <1>4, <1>5, <1>6, <1>7

LEMMA ReviewKeeps ==
  ASSUME Inv, NEW c \in Callers, Review(c)
  PROVE  Inv'
<1>. USE MarketplaceAssumption, NoneAssumption DEF Inv, Separate, Goto, Return, Review
<1>1. TypeOK' /\ Separate'
  BY DEF TypeOK
<1>2. Reserved'
  BY DEF TypeOK, Reserved, Writer, Writing
<1>3. EvidenceGrows'
  BY DEF TypeOK, Reserved, EvidenceGrows, Position, Writer, Writing, Good, Usable
<1>4. Rewriting'
  BY DEF TypeOK, Rewriting
<1>. QED
  BY <1>1, <1>2, <1>3, <1>4

LEMMA LookKeeps ==
  ASSUME Inv, NEW e \in Editors, Look(e)
  PROVE  Inv'
<1>. USE MarketplaceAssumption DEF Inv, Separate, Goto, Return, Look
<1>1. TypeOK' /\ Separate'
  BY DEF TypeOK, View
<1>2. Reserved' /\ EvidenceGrows'
  BY DEF TypeOK, Reserved, EvidenceGrows, Position, Writer, Writing, Good, Usable
<1>3. Rewriting'
  BY DEF TypeOK, Rewriting
<1>. QED
  BY <1>1, <1>2, <1>3

LEMMA InsertKeeps ==
  ASSUME Inv, NEW e \in Editors, Insert(e)
  PROVE  Inv'
<1>. USE MarketplaceAssumption DEF Inv, Separate, Goto, Return, Insert
<1>1. TypeOK' /\ Separate'
  BY DEF TypeOK, View
<1>2. Reserved' /\ EvidenceGrows'
  BY DEF TypeOK, Reserved, EvidenceGrows, Position, Writer, Writing, Good, Usable
<1>3. Rewriting'
  BY DEF TypeOK, Rewriting
<1>. QED
  BY <1>1, <1>2, <1>3

LEMMA RewriteKeeps ==
  ASSUME Inv, NEW e \in Editors, Rewrite(e)
  PROVE  Inv'
<1>. USE MarketplaceAssumption DEF Inv, Separate, Goto, Return, Rewrite
<1>1. TypeOK' /\ Separate'
  BY DEF TypeOK, View
<1>2. Reserved' /\ EvidenceGrows'
  BY DEF TypeOK, Reserved, EvidenceGrows, Position, Writer, Writing, Good, Usable
<1>3. Rewriting'
  BY DEF TypeOK, Rewriting
<1>. QED
  BY <1>1, <1>2, <1>3

LEMMA UpdateKeeps ==
  ASSUME Inv, NEW e \in Editors, Update(e)
  PROVE  Inv'
<1>. USE MarketplaceAssumption DEF Inv, Separate, Goto, Return, Update
<1>1. TypeOK' /\ Separate'
  BY DEF TypeOK, View
<1>2. Reserved' /\ EvidenceGrows'
  BY DEF TypeOK, Reserved, EvidenceGrows, Position, Writer, Writing, Good, Usable
<1>3. Rewriting'
  BY DEF TypeOK, Rewriting
<1>. QED
  BY <1>1, <1>2, <1>3

LEMMA StopKeeps ==
  ASSUME Inv, NEW k \in Requests, Stop(k)
  PROVE  Inv'
<1>. USE MarketplaceAssumption DEF Inv, Separate, Goto, Stop
<1>1. TypeOK' /\ Separate'
  BY DEF TypeOK
<1>2. Reserved' /\ EvidenceGrows'
  BY DEF TypeOK, Reserved, EvidenceGrows, Position, Writer, Writing, Good, Usable
<1>3. Rewriting'
  BY DEF TypeOK, Rewriting
<1>. QED
  BY <1>1, <1>2, <1>3

LEMMA QuietKeeps ==
  ASSUME Inv, GrowStale \/ UNCHANGED vars
  PROVE  Inv'
<1>. USE DEF Inv, GrowStale, vars
<1>1. TypeOK' /\ Separate'
  BY DEF TypeOK, Separate
<1>2. Reserved' /\ EvidenceGrows'
  BY DEF Reserved, EvidenceGrows, Position, Writer, Writing, Good, Usable
<1>3. Rewriting'
  BY DEF Rewriting
<1>. QED
  BY <1>1, <1>2, <1>3

LEMMA NextKeeps == Inv /\ [Next]_vars => Inv'
<1>. SUFFICES ASSUME Inv, [Next]_vars PROVE Inv'
  OBVIOUS
<1>1. CASE \E c \in Callers : Serve(c)
  BY <1>1, StartKeeps, ReserveKeeps, PayKeeps, ReadingKeeps, ReceivedKeeps, RejectedKeeps,
     ResultsKeeps, ComposeKeeps, ReviewKeeps, Zenon DEF Serve
<1>2. CASE \E e \in Editors : Edit(e)
  BY <1>2, LookKeeps, InsertKeeps, RewriteKeeps, UpdateKeeps, Zenon DEF Edit
<1>3. CASE \E k \in Requests : Stop(k)
  BY <1>3, StopKeeps, Zenon
<1>4. CASE GrowStale \/ UNCHANGED vars
  BY <1>4, QuietKeeps, Zenon
<1>. QED
  BY <1>1, <1>2, <1>3, <1>4, Zenon DEF Next

THEOREM Invariance == Spec => []Inv
  BY InitInv, NextKeeps, PTL DEF Spec

-----------------------------------------------------------------------------

\* Every variable keeps its type.
THEOREM TypeCorrectness == Spec => []TypeOK
  BY Invariance, PTL DEF Inv

\* For any number of callers and wherever any of them stops, a settlement pays
\* the marketplace at most once and has its report rewritten at most once.
THEOREM PaidOnce == Spec => []PaidAndRewrittenOnce
<1>1. Inv => PaidAndRewrittenOnce
  BY DEF Inv, Reserved, Rewriting, PaidAndRewrittenOnce
<1>. QED
  BY <1>1, Invariance, PTL

\* A run is complete only on a confirmed settlement with a usable response.
THEOREM CompletedProperly == Spec => []CompleteOnGoodEvidence
<1>1. Inv => CompleteOnGoodEvidence
  BY DEF Inv, EvidenceGrows, Good, CompleteOnGoodEvidence
<1>. QED
  BY <1>1, Invariance, PTL

\* Neither completion nor review is withdrawn, and their evidence stays.
THEOREM Concluded == Spec => ConcludedIsKept
<1>. DEFINE Keeps == run.status \in {"complete", "review_required"} =>
       run'.status = run.status /\ run'.paid = run.paid /\ run'.evidence = run.evidence
<1>1. ASSUME Inv, Next PROVE Keeps
  <2>. USE DEF Inv, Separate
  <2>1. ASSUME NEW c \in Callers, Writer(c)
        PROVE  run.status \notin {"complete", "review_required"}
    BY <1>1, <2>1 DEF Reserved, Writer
  <2>2. ASSUME NEW c \in Callers, Reading(c) \/ Received(c) \/ Rejected(c) \/ Results(c) \/ Review(c)
        PROVE  Keeps
    BY <2>2, <2>1 DEF Writer, Writing, Reading, Received, Rejected, Results, Review
  <2>3. ASSUME NEW c \in Callers, Start(c) \/ Reserve(c) \/ Pay(c)
        PROVE  Keeps
    BY <2>3 DEF Start, Reserve, Pay
  <2>4. ASSUME NEW c \in Callers, Compose(c)
        PROVE  Keeps
    <3>1. PICK report \in Reports : Complete(c, report)
      BY <2>4, Zenon DEF Compose, Reports
    <3>. QED
      BY <1>1, <3>1 DEF Complete, TypeOK, Goto, Return
  <2>5. ASSUME run' = run PROVE Keeps
    BY <2>5
  <2>6. ASSUME NEW e \in Editors, Edit(e) PROVE run' = run
    BY <2>6 DEF Edit, Look, Insert, Rewrite, Update
  <2>7. ASSUME NEW k \in Requests, Stop(k) PROVE run' = run
    BY <2>7 DEF Stop
  <2>8. ASSUME GrowStale PROVE run' = run
    BY <2>8 DEF GrowStale
  <2>. HIDE DEF Keeps
  <2>. QED
    BY <1>1, <2>2, <2>3, <2>4, <2>5, <2>6, <2>7, <2>8, Zenon DEF Next, Serve
<1>2. Inv /\ [Next]_vars => [Keeps]_vars
  BY <1>1
<1>. QED
  BY <1>2, Invariance, PTL DEF Spec, ConcludedIsKept
=============================================================================
