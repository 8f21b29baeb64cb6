----------------------------- MODULE MarketplaceRun -----------------------------
(***************************************************************************)
(* What one contract settlement buys at the marketplace.                   *)
(*                                                                         *)
(* runAgent402Tool and runAgent402Research (lib/wallet/agent402.ts) keep   *)
(* one row per settlement in ackrate_marketplace_runs (lib/wallet/         *)
(* journal.ts), so that a settlement pays the marketplace once whoever     *)
(* calls them again.  A report that came out plain may be rewritten, by    *)
(* one model call, through lib/wallet/report-retry.ts, which keeps one row *)
(* per settlement in ackrate_report_revisions.                             *)
(*                                                                         *)
(* Every database statement and every remote call is a step.  A failing    *)
(* statement ends its request just as a dying server does: Stop.           *)
(***************************************************************************)
EXTENDS Naturals, FiniteSets

CONSTANTS
  Callers,  \* requests that run the service for the settlement
  Editors,  \* requests to rewrite its report
  None,
  MaxStops  \* bound: requests that end half-way

ASSUME MarketplaceAssumption ==
  /\ Callers \cap Editors = {}
  /\ MaxStops \in Nat

VARIABLES
  kind,      \* the service: web search with a report, or any other tool
  run,       \* the row of ackrate_marketplace_runs
  revision,  \* the row of ackrate_report_revisions
  stale,     \* has the revision been running for more than two minutes?
  pc,
  answer,    \* answer[c]: the marketplace's response to caller c
  got,       \* got[k]: what request k returned
  stopped,   \* the requests that ended half-way
  payments,  \* history: paid requests sent to the marketplace
  rewrites   \* history: model calls made to rewrite the report

vars == <<kind, run, revision, stale, pc, answer, got, stopped, payments, rewrites>>

Requests == Callers \cup Editors

\* What the run keeps about the marketplace's response, None before there is one.
Evidence == [delivery : {"reading", "received", "rejected"},
             ok : BOOLEAN,       \* was the HTTP status a success?
             output : BOOLEAN,   \* is the output kept?
             results : BOOLEAN]  \* were search results found in it?

Reports == {"output", "plain", "edited"}

ASSUME NoneAssumption == None \notin Evidence

Rows == [status : {"none", "payment_pending", "marketplace_paid", "complete", "review_required"},
         paid : BOOLEAN,         \* marketplace_tx
         evidence : Evidence \cup {None},
         report : Reports \cup {None}]

\* A response carries a settlement that matches or not, and a body that can be
\* read as JSON or not and, for a search, in the supported format or not.
Answers == [settled : BOOLEAN, ok : BOOLEAN, body : BOOLEAN, format : BOOLEAN]

Steps == {"start", "reserve", "pay", "reading", "received", "rejected", "results", "compose",
          "complete", "review", "look", "insert", "rewrite", "update", "done"}

TypeOK ==
  /\ kind \in {"search", "tool"}
  /\ run \in Rows
  /\ revision \in {"none", "running", "succeeded", "failed"}
  /\ stale \in BOOLEAN
  /\ pc \in [Requests -> Steps]
  /\ answer \in [Callers -> Answers \cup {None}]
  /\ got \in [Requests -> Reports \cup {None, "running", "succeeded", "failed", "uncertain"}]
  /\ stopped \subseteq Requests
  /\ payments \in Nat
  /\ rewrites \in Nat

Init ==
  /\ kind \in {"search", "tool"}
  /\ run = [status |-> "none", paid |-> FALSE, evidence |-> None, report |-> None]
  /\ revision = "none"
  /\ stale = FALSE
  /\ pc = [k \in Requests |-> IF k \in Callers THEN "start" ELSE "look"]
  /\ answer = [c \in Callers |-> None]
  /\ got = [k \in Requests |-> None]
  /\ stopped = {}
  /\ payments = 0
  /\ rewrites = 0

Goto(k, step) == pc' = [pc EXCEPT ![k] = step]
Return(k, value) == Goto(k, "done") /\ got' = [got EXCEPT ![k] = value]

-----------------------------------------------------------------------------
(* The rows' own guards: a conditional UPDATE that matches no row throws.  *)

MarkPaid(c, evidence, next) ==
  IF run.status \in {"payment_pending", "marketplace_paid"}
    THEN /\ run' = [run EXCEPT !.status = "marketplace_paid", !.paid = TRUE,
                               !.evidence = evidence]
         /\ Goto(c, next)
    ELSE UNCHANGED run /\ Goto(c, "done")

Complete(c, report) ==
  IF run.status \in {"marketplace_paid", "complete"} /\ run.paid
    THEN /\ run' = [run EXCEPT !.status = "complete", !.report = report]
         /\ Return(c, report)
    ELSE UNCHANGED <<run, got>> /\ Goto(c, "done")

\* Is the kept response one that a later call may complete the run with?
\* A mutant: its HTTP status is not looked at.
ResumableWhateverStatus ==
  /\ run.status = "marketplace_paid"
  /\ run.evidence.delivery = "received"
  /\ run.evidence.output
  /\ kind = "search" => run.evidence.results

Resumable ==
  /\ run.status = "marketplace_paid"
  /\ run.evidence.delivery = "received"
  /\ run.evidence.ok
  /\ run.evidence.output
  /\ kind = "search" => run.evidence.results

-----------------------------------------------------------------------------
(* Running the service.                                                    *)

Start(c) ==
  /\ pc[c] = "start"
  /\ \/ /\ run.status = "none"
        /\ Goto(c, "reserve") \/ Goto(c, "done")
        /\ UNCHANGED got
     \/ run.status = "complete" /\ Return(c, run.report)
     \/ /\ run.status \notin {"none", "complete"}
        /\ Goto(c, IF Resumable THEN "compose" ELSE "done")
        /\ UNCHANGED got
  /\ UNCHANGED <<kind, run, revision, stale, answer, stopped, payments, rewrites>>

\* A mutant: the reservation is an upsert.
ReserveAnyway(c) ==
  /\ pc[c] = "reserve"
  /\ run' = [run EXCEPT !.status = "payment_pending"]
  /\ Goto(c, "pay")
  /\ UNCHANGED <<kind, revision, stale, answer, got, stopped, payments, rewrites>>

\* INSERT ... ON CONFLICT DO NOTHING decides who pays.
Reserve(c) ==
  /\ pc[c] = "reserve"
  /\ \/ /\ run.status = "none"
        /\ run' = [run EXCEPT !.status = "payment_pending"]
        /\ Goto(c, "pay")
        /\ UNCHANGED got
     \/ run.status = "complete" /\ Return(c, run.report) /\ UNCHANGED run
     \/ run.status \notin {"none", "complete"} /\ Goto(c, "done") /\ UNCHANGED <<run, got>>
  /\ UNCHANGED <<kind, revision, stale, answer, stopped, payments, rewrites>>

\* The paid request: its response may be lost, or may not prove the settlement.
Pay(c) ==
  /\ pc[c] = "pay"
  /\ payments' = payments + 1
  /\ \/ Goto(c, "review") /\ UNCHANGED answer
     \/ \E a \in Answers : /\ answer' = [answer EXCEPT ![c] = a]
                           /\ Goto(c, IF a.settled THEN "reading" ELSE "review")
  /\ UNCHANGED <<kind, run, revision, stale, got, stopped, rewrites>>

Kept(c, delivery, output, results) ==
  [delivery |-> delivery, ok |-> answer[c].ok, output |-> output, results |-> results]

\* The settlement is kept before the body is read.
Reading(c) ==
  /\ pc[c] = "reading"
  /\ MarkPaid(c, Kept(c, "reading", FALSE, FALSE),
              IF answer[c].body THEN "received" ELSE "rejected")
  /\ UNCHANGED <<kind, revision, stale, answer, got, stopped, payments, rewrites>>

Usable(c) == answer[c].ok /\ (kind = "search" => answer[c].format)

Received(c) ==
  /\ pc[c] = "received"
  /\ MarkPaid(c, Kept(c, "received", TRUE, FALSE),
              IF ~Usable(c) THEN "rejected" ELSE IF kind = "search" THEN "results" ELSE "compose")
  /\ UNCHANGED <<kind, revision, stale, answer, got, stopped, payments, rewrites>>

\* A mutant: a response that cannot be used is left as it is.
RejectedInSilence(c) ==
  /\ pc[c] = "rejected"
  /\ MarkPaid(c, Kept(c, "rejected", answer[c].body, FALSE), "done")
  /\ UNCHANGED <<kind, revision, stale, answer, got, stopped, payments, rewrites>>

Rejected(c) ==
  /\ pc[c] = "rejected"
  /\ MarkPaid(c, Kept(c, "rejected", answer[c].body, FALSE), "review")
  /\ UNCHANGED <<kind, revision, stale, answer, got, stopped, payments, rewrites>>

Results(c) ==
  /\ pc[c] = "results"
  /\ MarkPaid(c, Kept(c, "received", TRUE, TRUE), "compose")
  /\ UNCHANGED <<kind, revision, stale, answer, got, stopped, payments, rewrites>>

\* The report of a search is written by a model, or plainly when it fails; that
\* of another tool is its output.
Compose(c) ==
  /\ pc[c] = "compose"
  /\ \E report \in IF kind = "search" THEN {"plain", "edited"} ELSE {"output"} :
       Complete(c, report)
  /\ UNCHANGED <<kind, revision, stale, answer, stopped, payments, rewrites>>

Review(c) ==
  /\ pc[c] = "review"
  /\ run' = IF run.status \in {"payment_pending", "marketplace_paid"}
              THEN [run EXCEPT !.status = "review_required"] ELSE run
  /\ Goto(c, "done")
  /\ UNCHANGED <<kind, revision, stale, answer, got, stopped, payments, rewrites>>

-----------------------------------------------------------------------------
(* Rewriting a report.                                                     *)

View == IF revision = "running" /\ stale THEN "uncertain" ELSE revision

\* The report must have been delivered, from a completed search, and be plain.
Owned == run.status = "complete" /\ kind = "search" /\ \E c \in Callers : got[c] \in Reports
Eligible == \E c \in Callers : got[c] = "plain"

Look(e) ==
  /\ pc[e] = "look"
  /\ Owned
  /\ IF revision = "none"
       THEN UNCHANGED got /\ Goto(e, IF Eligible THEN "insert" ELSE "done")
       ELSE Return(e, View)
  /\ UNCHANGED <<kind, run, revision, stale, answer, stopped, payments, rewrites>>

\* A mutant: an attempt whose outcome is uncertain is made again.
InsertOverStale(e) ==
  /\ pc[e] = "insert"
  /\ IF revision = "none" \/ View = "uncertain"
       THEN revision' = "running" /\ stale' = FALSE /\ Goto(e, "rewrite") /\ UNCHANGED got
       ELSE Return(e, View) /\ UNCHANGED <<revision, stale>>
  /\ UNCHANGED <<kind, run, answer, stopped, payments, rewrites>>

Insert(e) ==
  /\ pc[e] = "insert"
  /\ IF revision = "none"
       THEN revision' = "running" /\ Goto(e, "rewrite") /\ UNCHANGED got
       ELSE Return(e, View) /\ UNCHANGED revision
  /\ UNCHANGED <<kind, run, stale, answer, stopped, payments, rewrites>>

Rewrite(e) ==
  /\ pc[e] = "rewrite"
  /\ rewrites' = rewrites + 1
  /\ Goto(e, "update")
  /\ UNCHANGED <<kind, run, revision, stale, answer, got, stopped, payments>>

\* A mutant: what the view says is written to the row.
UpdateFromView(e) ==
  /\ pc[e] = "update"
  /\ revision' = View
  /\ Return(e, View)
  /\ UNCHANGED <<kind, run, stale, answer, stopped, payments, rewrites>>

Update(e) ==
  /\ pc[e] = "update"
  /\ IF revision = "running"
       THEN \E outcome \in {"succeeded", "failed"} : revision' = outcome /\ Return(e, outcome)
       ELSE UNCHANGED <<revision, got>> /\ Goto(e, "done")
  /\ UNCHANGED <<kind, run, stale, answer, stopped, payments, rewrites>>

\* Two minutes pass.
GrowStale ==
  /\ revision = "running"
  /\ stale' = TRUE
  /\ UNCHANGED <<kind, run, revision, pc, answer, got, stopped, payments, rewrites>>

-----------------------------------------------------------------------------

Stop(k) ==
  /\ Cardinality(stopped) < MaxStops
  /\ pc[k] # "done"
  /\ stopped' = stopped \cup {k}
  /\ Goto(k, "done")
  /\ UNCHANGED <<kind, run, revision, stale, answer, got, payments, rewrites>>

Serve(c) ==
  Start(c) \/ Reserve(c) \/ Pay(c) \/ Reading(c) \/ Received(c) \/ Rejected(c) \/ Results(c)
  \/ Compose(c) \/ Review(c)

Edit(e) == Look(e) \/ Insert(e) \/ Rewrite(e) \/ Update(e)

Next ==
  \/ \E c \in Callers : Serve(c)
  \/ \E e \in Editors : Edit(e)
  \/ \E k \in Requests : Stop(k)
  \/ GrowStale

Spec == Init /\ [][Next]_vars
FairSpec == Spec /\ \A c \in Callers : WF_vars(Serve(c))

-----------------------------------------------------------------------------

\* However often the service is run for a settlement, and wherever a run stops,
\* the marketplace is paid for it at most once (the reservation); its report is
\* rewritten by at most one model call, whatever became of an earlier attempt.
PaidAndRewrittenOnce == payments <= 1 /\ rewrites <= 1

\* A run is complete only on a confirmed settlement with a usable response, also
\* when another call completes it while the paying one is still saving.
CompleteOnGoodEvidence ==
  run.status = "complete" =>
    /\ run.paid
    /\ run.evidence # None
    /\ run.evidence.delivery = "received"
    /\ run.evidence.ok
    /\ run.evidence.output
    /\ kind = "search" => run.evidence.results

\* Once a run is complete or under review nothing replaces its evidence, which
\* report retries are matched against by digest, and no review is withdrawn.
ConcludedIsKept ==
  [][run.status \in {"complete", "review_required"} =>
       run'.status = run.status /\ run'.paid = run.paid /\ run'.evidence = run.evidence]_vars

\* The run that a call reserved and pays for ends complete or under review, never
\* merely pending, unless that very call is cut short: what other calls and report
\* retries do, or where they stop, does not matter.
PaidIsConcluded ==
  \A c \in Callers :
    pc[c] = "pay" ~> c \in stopped \/ run.status \in {"complete", "review_required"}

=============================================================================
