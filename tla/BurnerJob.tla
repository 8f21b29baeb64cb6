------------------------------- MODULE BurnerJob -------------------------------
(***************************************************************************)
(* The one-off Mainnet test: lib/cli-test-burner-job.ts drives a single    *)
(* job row and a single session row through funding, one possible renewal, *)
(* a run of the CLI and at most two guarded repairs.                       *)
(*                                                                         *)
(* Every web server starts a controller.  They share nothing but the two   *)
(* rows, which they change by compare-and-swap on a version; each database *)
(* statement, chain read and submission is a step, and between two steps   *)
(* any other controller may run or this one may die.  A server restarts    *)
(* with a fresh controller.                                                *)
(***************************************************************************)
EXTENDS Naturals, FiniteSets

CONSTANTS
  Servers,
  None,
  KnownRun,    \* is this the one run whose registration may be resumed?
  MaxCrashes   \* bound: server restarts of a behaviour

ASSUME BurnerAssumption ==
  /\ KnownRun \in BOOLEAN
  /\ MaxCrashes \in Nat
  /\ None \notin {"original", "renewal"}

\* The two signed funding transactions there can be: same sequence number,
\* same operations, different time bounds.
Envelopes == {"original", "renewal"}

MaxAttempts == 3

Labels == {"first", "preflight-repair-1", "registered-setup-repair-1"}

Marks == {"refused", "rpc", "progress"}

VARIABLES
  job,        \* the row of ackrate_cli_burner_jobs
  row,        \* the row of ackrate_cli_test_runs
  pc,         \* pc[s]: where the controller of server s is
  seen,       \* seen[s]: the job row as s last read or wrote it
  got,        \* got[s]: the session row as s last read or wrote it
  landed,     \* the funding envelope the ledger applied, and whether it succeeded
  sequence,   \* is the owner's sequence number for the funding still unused?
  expired,    \* is the original envelope past its time bounds?
  actors,     \* what the three test accounts did on the ledger
  cooled,     \* has every packet of the last failed run expired?
  child,      \* child[l]: the CLI process launched under label l
  crashes,
  submitted,  \* history: submissions of each envelope
  launches    \* history: launches under each label

vars == <<job, row, pc, seen, got, landed, sequence, expired, actors, cooled, child,
          crashes, submitted, launches>>

ledger == <<landed, sequence, expired, actors>>
history == <<submitted, launches>>

Jobs == [state : {"absent", "initializing", "prepared", "funding", "funded", "running",
                  "succeeded", "failed", "blocked"},
         version : Nat,
         attached : BOOLEAN,                \* holds the session's capability
         signed : Envelopes \cup {None},    \* signedFundingXdr
         funding : Envelopes \cup {None},   \* funding_hash
         attempts : 0 .. MaxAttempts,       \* submitAttempts, 0 when absent
         renewed : BOOLEAN,                 \* the three permanent markers
         repaired : BOOLEAN,
         resumed : BOOLEAN]

Rows == [state : {"absent", "prepared", "funding", "funded", "running", "succeeded", "failed"},
         version : Nat,
         funding : Envelopes \cup {None},
         logs : SUBSET Marks]

NoJob == [state |-> "absent", version |-> 0, attached |-> FALSE, signed |-> None,
          funding |-> None, attempts |-> 0, renewed |-> FALSE, repaired |-> FALSE,
          resumed |-> FALSE]

NoRow == [state |-> "absent", version |-> 0, funding |-> None, logs |-> {}]

Steps == {"start", "create", "attach", "prepare", "record", "seal", "poll", "session",
          "prove repair", "claim repair", "repair row", "claim funding", "fund row",
          "submit", "reconcile", "settle", "prove unused", "claim renewal",
          "prepare renewal", "renew row", "seal renewal", "claim retry", "claim run",
          "run row", "launch", "finish", "block", "done"}

TypeOK ==
  /\ job \in Jobs
  /\ row \in Rows
  /\ pc \in [Servers -> Steps]
  /\ seen \in [Servers -> Jobs]
  /\ got \in [Servers -> Rows]
  /\ landed \in [envelope : Envelopes \cup {None}, ok : BOOLEAN]
  /\ sequence \in {"free", "used"}
  /\ expired \in BOOLEAN
  /\ actors \in {"absent", "initial", "registered", "spent"}
  /\ cooled \in BOOLEAN
  /\ child \in [Labels -> {"none", "alive", "orphan", "ended"}]
  /\ crashes \in 0 .. MaxCrashes
  /\ submitted \in [Envelopes -> Nat]
  /\ launches \in [Labels -> Nat]

Init ==
  /\ job = NoJob
  /\ row = NoRow
  /\ pc = [s \in Servers |-> "start"]
  /\ seen = [s \in Servers |-> NoJob]
  /\ got = [s \in Servers |-> NoRow]
  /\ landed = [envelope |-> None, ok |-> FALSE]
  /\ sequence = "free"
  /\ expired = FALSE
  /\ actors = "absent"
  /\ cooled = FALSE
  /\ child = [l \in Labels |-> "none"]
  /\ crashes = 0
  /\ submitted = [e \in Envelopes |-> 0]
  /\ launches = [l \in Labels |-> 0]

------------------------------------------------------------------------------
(* Steps of a controller *)

Goto(s, step) == pc' = [pc EXCEPT ![s] = step]

\* transition: the update applies only to the version that s read.
Transition(s, new) ==
  /\ job.version = seen[s].version
  /\ job' = [new EXCEPT !.version = job.version + 1]
  /\ seen' = [seen EXCEPT ![s] = job']

Superseded(s) == job.version # seen[s].version /\ UNCHANGED <<job, seen>>

\* store.update, likewise for the session row.
UpdateRow(s, base, new) ==
  /\ row.version = base.version
  /\ row' = [new EXCEPT !.version = row.version + 1]
  /\ got' = [got EXCEPT ![s] = row']

Elsewhere == UNCHANGED <<ledger, cooled, child, crashes, history>>

Begin(s) ==
  /\ pc[s] = "start"
  /\ \/ /\ job.state = "absent"
        /\ job' = [NoJob EXCEPT !.state = "initializing"]
        /\ seen' = [seen EXCEPT ![s] = job']
        /\ Goto(s, "create")
     \/ /\ job.state # "absent"
        /\ Goto(s, IF job.state = "initializing" THEN "done" ELSE "poll")
        /\ UNCHANGED <<job, seen>>
  /\ UNCHANGED <<row, got>> /\ Elsewhere

Create(s) ==
  /\ pc[s] = "create"
  /\ row' = [NoRow EXCEPT !.state = "prepared"]
  /\ got' = [got EXCEPT ![s] = row']
  /\ Goto(s, "attach")
  /\ UNCHANGED <<job, seen, ledger, cooled, child, crashes, submitted, launches>>

Attach(s) ==
  /\ pc[s] = "attach"
  /\ \/ /\ Transition(s, [seen[s] EXCEPT !.attached = TRUE])
        /\ Goto(s, "prepare")
     \/ /\ Superseded(s)
        /\ Goto(s, "done")
  /\ UNCHANGED <<row, got>> /\ Elsewhere

\* Signing needs the owner's account; the envelope takes its next sequence.
Prepare(s) ==
  /\ pc[s] = "prepare"
  /\ Goto(s, "record")
  /\ UNCHANGED <<job, seen, row, got>> /\ Elsewhere

RecordFunding(s) ==
  /\ pc[s] = "record"
  /\ UpdateRow(s, got[s], [got[s] EXCEPT !.funding = "original"])
  /\ Goto(s, "seal")
  /\ UNCHANGED <<job, seen>> /\ Elsewhere

Seal(s) ==
  /\ pc[s] = "seal"
  /\ \/ /\ Transition(s, [seen[s] EXCEPT !.state = "prepared", !.signed = "original",
                                         !.funding = "original"])
        /\ Goto(s, "poll")
     \/ /\ Superseded(s)
        /\ Goto(s, "done")
  /\ UNCHANGED <<row, got>> /\ Elsewhere

------------------------------------------------------------------------------
(* One round of the poll loop: load the job, then read its session *)

Poll(s) ==
  /\ pc[s] = "poll"
  /\ seen' = [seen EXCEPT ![s] = job]
  /\ Goto(s, IF job.state \in {"succeeded", "blocked", "initializing"} THEN "done" ELSE "session")
  /\ UNCHANGED <<job, row, got>> /\ Elsewhere

\* The loop ends after 360 rounds.
PollsExhausted(s) ==
  /\ pc[s] = "poll"
  /\ Goto(s, "done")
  /\ UNCHANGED <<job, seen, row, got>> /\ Elsewhere

NoProgress(logs) == "progress" \notin logs

UnstartedCandidate(r) == r.state = "failed" /\ "refused" \in r.logs /\ NoProgress(r.logs)
RegisteredCandidate(r) ==
  KnownRun /\ r.state = "failed" /\ "rpc" \in r.logs /\ NoProgress(r.logs)

Resumable(j, r) == j.repaired /\ ~j.resumed /\ RegisteredCandidate(r)
Repairable(j, r) == ~j.repaired /\ UnstartedCandidate(r)

\* Mutant: a run found running is taken to be interrupted, and launched again.
DecideRelaunches(j, r) ==
  CASE j.funding # None /\ r.funding # j.funding -> "throw"
    [] j.state = "prepared" -> IF r.state = "prepared" THEN "claim funding" ELSE "throw"
    [] j.state = "funding" -> IF r.state = "funding" THEN "reconcile" ELSE "settle"
    [] j.state = "funded" -> IF r.state = "funded" THEN "claim run" ELSE "done"
    [] j.state = "running" /\ r.state = "running" -> "launch"
    [] OTHER -> "done"

\* What to do next, from the job as loaded and the session as read.
Decide(j, r) ==
  CASE j.funding # None /\ r.funding # j.funding -> "throw"
    [] j.state = "failed" ->
         IF Resumable(j, r) \/ Repairable(j, r) THEN "prove repair" ELSE "done"
    [] j.state = "prepared" ->
         IF r.state = "prepared" /\ r.funding = j.signed THEN "claim funding" ELSE "throw"
    [] j.state = "funding" -> IF r.state = "funding" THEN "reconcile" ELSE "settle"
    [] j.state = "funded" -> IF r.state = "funded" THEN "claim run" ELSE "done"
    [] j.state = "running" ->
         IF r.state \in {"succeeded", "failed"} THEN "finish"
         ELSE IF r.state = "running" THEN "poll" ELSE "done"

\* An exception blocks a job that had not started to fund; any other job is left.
Thrown(j) == IF j.state \in {"initializing", "prepared"} THEN "block" ELSE "done"

Session(s) ==
  /\ pc[s] = "session"
  /\ LET next == Decide(seen[s], row) IN
     Goto(s, IF next = "throw" THEN Thrown(seen[s]) ELSE next)
  /\ got' = [got EXCEPT ![s] = row]
  /\ UNCHANGED <<job, seen, row>> /\ Elsewhere

Throw(s) ==
  /\ pc[s] \notin {"start", "block", "done"}
  /\ Goto(s, Thrown(seen[s]))
  /\ UNCHANGED <<job, seen, row, got>> /\ Elsewhere

Block(s) ==
  /\ pc[s] = "block"
  /\ \/ Transition(s, [seen[s] EXCEPT !.state = "blocked"])
     \/ Superseded(s)
  /\ Goto(s, "done")
  /\ UNCHANGED <<row, got>> /\ Elsewhere

------------------------------------------------------------------------------
(* Funding: claim an attempt in the job, then submit the retained envelope *)

ClaimFunding(s) ==
  /\ pc[s] = "claim funding"
  /\ \/ /\ Transition(s, [seen[s] EXCEPT !.state = "funding", !.attempts = 1])
        /\ Goto(s, "fund row")
     \/ /\ Superseded(s)
        /\ Goto(s, "poll")
  /\ UNCHANGED <<row, got>> /\ Elsewhere

FundRow(s) ==
  /\ pc[s] = "fund row"
  /\ UpdateRow(s, got[s], [got[s] EXCEPT !.state = "funding"])
  /\ Goto(s, "submit")
  /\ UNCHANGED <<job, seen>> /\ Elsewhere

\* Whether the envelope reaches the ledger is decided there, see Land.
Submit(s) ==
  /\ pc[s] = "submit"
  /\ submitted' = [submitted EXCEPT ![seen[s].signed] = @ + 1]
  /\ Goto(s, "poll")
  /\ UNCHANGED <<job, seen, row, got, ledger, cooled, child, crashes, launches>>

\* Mutant: any transaction the ledger reports is taken for a success.
ReconcileAnyOutcome(s) ==
  /\ pc[s] = "reconcile"
  /\ \/ /\ got[s].funding = landed.envelope
        /\ UpdateRow(s, got[s], [got[s] EXCEPT !.state = "funded"])
     \/ UNCHANGED <<row, got>>
  /\ Goto(s, "settle")
  /\ UNCHANGED <<job, seen>> /\ Elsewhere

\* reconcileFunding: what the ledger says of the hash in the row; without a
\* usable answer, or after a conflict, whatever the row says by now.
Reconcile(s) ==
  /\ pc[s] = "reconcile"
  /\ \/ /\ got[s].funding = landed.envelope
        /\ row.version = got[s].version
        /\ UpdateRow(s, got[s],
             [got[s] EXCEPT !.state = IF landed.ok THEN "funded" ELSE "failed"])
     \/ /\ got' = [got EXCEPT ![s] = row]     \* no answer, or a conflict
        /\ UNCHANGED row
     \/ UNCHANGED <<row, got>>                \* not found yet, or a refusal
  /\ Goto(s, "settle")
  /\ UNCHANGED <<job, seen>> /\ Elsewhere

SettleFunded(s) ==
  /\ pc[s] = "settle"
  /\ got[s].state = "funded"
  /\ Transition(s, [seen[s] EXCEPT !.state = "funded"]) \/ Superseded(s)
  /\ Goto(s, "poll")
  /\ UNCHANGED <<row, got>> /\ Elsewhere

SettleFailed(s) ==
  /\ pc[s] = "settle"
  /\ got[s].state = "failed"
  /\ Transition(s, [seen[s] EXCEPT !.state = "failed"]) \/ Superseded(s)
  /\ Goto(s, "done")
  /\ UNCHANGED <<row, got>> /\ Elsewhere

\* Mutant: one attempt too many.
SettleOpenOnceMore(s) ==
  /\ pc[s] = "settle"
  /\ got[s].state = "funding"
  /\ Goto(s, IF seen[s].attempts <= MaxAttempts THEN "claim retry" ELSE "poll")
  /\ UNCHANGED <<job, seen, row, got>> /\ Elsewhere

\* The server's clock tells whether the envelope is past its bounds; it may
\* differ from the ledger's, so either branch can be taken at any time.
SettleOpen(s) ==
  /\ pc[s] = "settle"
  /\ got[s].state \notin {"funded", "failed"}
  /\ \/ got[s].state # "funding" /\ Goto(s, "done")
     \/ got[s].state = "funding" /\ ~seen[s].renewed /\ Goto(s, "prove unused")
     \/ /\ got[s].state = "funding"
        /\ seen[s].attempts < MaxAttempts
        /\ Goto(s, IF got[s].funding = seen[s].signed THEN "claim retry" ELSE "done")
     \/ got[s].state = "funding" /\ seen[s].attempts = MaxAttempts /\ Goto(s, "poll")
  /\ UNCHANGED <<job, seen, row, got>> /\ Elsewhere

ClaimRetry(s) ==
  /\ pc[s] = "claim retry"
  /\ \/ /\ Transition(s, [seen[s] EXCEPT !.attempts = seen[s].attempts + 1])
        /\ Goto(s, "submit")
     \/ /\ Superseded(s)
        /\ Goto(s, "poll")
  /\ UNCHANGED <<row, got>> /\ Elsewhere

------------------------------------------------------------------------------
(* One renewal, once the original envelope is proven expired and unused *)

\* Mutant: an envelope that has not landed yet is taken for one that never will.
UnusedSoFar == sequence = "free" /\ actors = "absent"

ExpiredUnused == expired /\ sequence = "free" /\ actors = "absent"

ProveUnused(s) ==
  /\ pc[s] = "prove unused"
  /\ Goto(s, IF ExpiredUnused /\ got[s].funding = "original" THEN "claim renewal" ELSE "done")
  /\ UNCHANGED <<job, seen, row, got>> /\ Elsewhere

ClaimRenewal(s) ==
  /\ pc[s] = "claim renewal"
  /\ \/ /\ Transition(s, [seen[s] EXCEPT !.state = "initializing", !.renewed = TRUE])
        /\ Goto(s, "prepare renewal")
     \/ /\ Superseded(s)
        /\ Goto(s, "poll")
  /\ UNCHANGED <<row, got>> /\ Elsewhere

\* Signs for the same sequence number, after checking that it is still free.
PrepareRenewal(s) ==
  /\ pc[s] = "prepare renewal"
  /\ Goto(s, IF sequence = "free" /\ actors = "absent" THEN "renew row" ELSE "block")
  /\ UNCHANGED <<job, seen, row, got>> /\ Elsewhere

\* The row updates of a claimed step read the session again and try up to three
\* times; here the last try succeeds, or s gives up.
RenewRow(s) ==
  /\ pc[s] = "renew row"
  /\ \/ /\ row.state = "funding" /\ row.funding = got[s].funding
        /\ UpdateRow(s, row, [row EXCEPT !.state = "prepared", !.funding = "renewal"])
        /\ Goto(s, "seal renewal")
     \/ /\ Goto(s, "done")
        /\ UNCHANGED <<row, got>>
  /\ UNCHANGED <<job, seen>> /\ Elsewhere

SealRenewal(s) ==
  /\ pc[s] = "seal renewal"
  /\ \/ /\ Transition(s, [seen[s] EXCEPT !.state = "prepared", !.signed = "renewal",
                                         !.funding = "renewal", !.attempts = 0])
        /\ Goto(s, "poll")
     \/ /\ Superseded(s)
        /\ Goto(s, "done")
  /\ UNCHANGED <<row, got>> /\ Elsewhere

------------------------------------------------------------------------------
(* The paid run, and its repairs *)

ClaimRun(s) ==
  /\ pc[s] = "claim run"
  /\ \/ /\ Transition(s, [seen[s] EXCEPT !.state = "running"])
        /\ Goto(s, "run row")
     \/ /\ Superseded(s)
        /\ Goto(s, "poll")
  /\ UNCHANGED <<row, got>> /\ Elsewhere

RunRow(s) ==
  /\ pc[s] = "run row"
  /\ \/ /\ row.state = "funded" /\ row.funding = got[s].funding
        /\ UpdateRow(s, row, [row EXCEPT !.state = "running"])
        /\ Goto(s, "launch")
     \/ /\ Goto(s, "done")
        /\ UNCHANGED <<row, got>>
  /\ UNCHANGED <<job, seen>> /\ Elsewhere

Label(j) == IF j.resumed THEN "registered-setup-repair-1"
            ELSE IF j.repaired THEN "preflight-repair-1" ELSE "first"

Launch(s) ==
  /\ pc[s] = "launch"
  /\ child' = [child EXCEPT ![Label(seen[s])] = "alive"]
  /\ launches' = [launches EXCEPT ![Label(seen[s])] = @ + 1]
  /\ Goto(s, "poll")
  /\ UNCHANGED <<job, seen, row, got, ledger, cooled, crashes, submitted>>

\* The controller of a running job sees how the run ended.
Finish(s) ==
  /\ pc[s] = "finish"
  /\ Transition(s, [seen[s] EXCEPT !.state = got[s].state]) \/ Superseded(s)
  /\ Goto(s, IF got[s].state = "succeeded" THEN "done" ELSE "poll")
  /\ UNCHANGED <<row, got>> /\ Elsewhere

\* Mutant: repairs without waiting for the packets of the failed run to expire.
ProveRepairWarm(s) ==
  /\ pc[s] = "prove repair"
  /\ Goto(s, IF actors = IF seen[s].repaired THEN "registered" ELSE "initial"
               THEN "claim repair" ELSE "poll")
  /\ UNCHANGED <<job, seen, row, got>> /\ Elsewhere

\* The chain proof must match which repair this would be.
ProveRepair(s) ==
  /\ pc[s] = "prove repair"
  /\ Goto(s, IF cooled /\ actors = IF seen[s].repaired THEN "registered" ELSE "initial"
               THEN "claim repair" ELSE "poll")
  /\ UNCHANGED <<job, seen, row, got>> /\ Elsewhere

ClaimRepair(s) ==
  /\ pc[s] = "claim repair"
  /\ \/ /\ Transition(s, IF seen[s].repaired
                           THEN [seen[s] EXCEPT !.state = "funded", !.resumed = TRUE]
                           ELSE [seen[s] EXCEPT !.state = "funded", !.repaired = TRUE])
        /\ Goto(s, "repair row")
     \/ /\ Superseded(s)
        /\ Goto(s, "poll")
  /\ UNCHANGED <<row, got>> /\ Elsewhere

RepairRow(s) ==
  /\ pc[s] = "repair row"
  /\ \/ /\ row.state = "failed" /\ row.funding = got[s].funding
        /\ UpdateRow(s, row, [row EXCEPT !.state = "funded"])
        /\ Goto(s, "poll")
     \/ /\ Goto(s, "done")
        /\ UNCHANGED <<row, got>>
  /\ UNCHANGED <<job, seen>> /\ Elsewhere

------------------------------------------------------------------------------
(* The CLI process and its runner, lib/cli-test-runner.ts *)

Working == \E l \in Labels : child[l] \in {"alive", "orphan"}

\* The process, or a packet it left behind, registers the mandate or spends.
Act ==
  /\ Working \/ (~cooled /\ \E l \in Labels : child[l] = "ended")
  /\ \/ actors = "initial" /\ actors' = "registered"
     \/ actors = "registered" /\ actors' = "spent"
  /\ UNCHANGED <<job, row, pc, seen, got, landed, sequence, expired, cooled, child, crashes,
                 history>>

\* The runner stores how its process ended.  Setup errors, time-outs and failing
\* evidence writes are failures, whatever the log says by then.
End(l) ==
  /\ child[l] = "alive"
  /\ row.state = "running"
  /\ \/ actors = "spent"
        /\ row' = [row EXCEPT !.state = "succeeded", !.version = row.version + 1]
     \/ \E mark \in Marks :
          row' = [row EXCEPT !.state = "failed", !.version = row.version + 1,
                             !.logs = row.logs \cup {mark}]
  /\ child' = [child EXCEPT ![l] = "ended"]
  /\ cooled' = FALSE
  /\ UNCHANGED <<job, pc, seen, got, ledger, crashes, history>>

\* Ten minutes after a failed run every packet it could have signed has expired.
Cool ==
  /\ row.state = "failed"
  /\ ~Working
  /\ ~cooled
  /\ cooled' = TRUE
  /\ UNCHANGED <<job, row, pc, seen, got, ledger, child, crashes, history>>

------------------------------------------------------------------------------
(* The ledger, and the servers *)

Land(e) ==
  /\ submitted[e] > 0
  /\ e = "original" => ~expired
  /\ sequence = "free"
  /\ sequence' = "used"
  /\ \E ok \in BOOLEAN :
       /\ landed' = [envelope |-> e, ok |-> ok]
       /\ actors' = IF ok THEN "initial" ELSE actors
  /\ UNCHANGED <<job, row, pc, seen, got, expired, cooled, child, crashes, history>>

Expire ==
  /\ job.signed # None
  /\ ~expired
  /\ expired' = TRUE
  /\ UNCHANGED <<job, row, pc, seen, got, landed, sequence, actors, cooled, child, crashes,
                 history>>

\* The owner account does something else with the sequence number.
OwnerMoves ==
  /\ job.signed # None
  /\ sequence = "free"
  /\ sequence' = "used"
  /\ UNCHANGED <<job, row, pc, seen, got, landed, expired, actors, cooled, child, crashes,
                 history>>

\* Server s dies and starts again; its child process, if any, lives on unwatched.
Crash(s) ==
  /\ crashes < MaxCrashes
  /\ crashes' = crashes + 1
  /\ Goto(s, "start")
  /\ seen' = [seen EXCEPT ![s] = NoJob]
  /\ got' = [got EXCEPT ![s] = NoRow]
  /\ \E lost \in SUBSET {l \in Labels : child[l] = "alive"} :
       child' = [l \in Labels |-> IF l \in lost THEN "orphan" ELSE child[l]]
  /\ UNCHANGED <<job, row, ledger, cooled, history>>

------------------------------------------------------------------------------
Controller(s) ==
  \/ Begin(s) \/ Create(s) \/ Attach(s) \/ Prepare(s) \/ RecordFunding(s) \/ Seal(s)
  \/ Poll(s) \/ PollsExhausted(s) \/ Session(s) \/ Throw(s) \/ Block(s)
  \/ ClaimFunding(s) \/ FundRow(s) \/ Submit(s) \/ Reconcile(s)
  \/ SettleFunded(s) \/ SettleFailed(s) \/ SettleOpen(s) \/ ClaimRetry(s)
  \/ ProveUnused(s) \/ ClaimRenewal(s) \/ PrepareRenewal(s) \/ RenewRow(s) \/ SealRenewal(s)
  \/ ClaimRun(s) \/ RunRow(s) \/ Launch(s) \/ Finish(s)
  \/ ProveRepair(s) \/ ClaimRepair(s) \/ RepairRow(s)

Next ==
  \/ \E s \in Servers : Controller(s) \/ Crash(s)
  \/ \E e \in Envelopes : Land(e)
  \/ \E l \in Labels : End(l)
  \/ Expire \/ OwnerMoves \/ Act \/ Cool

Spec == Init /\ [][Next]_vars

------------------------------------------------------------------------------
(* What the one-off job promises *)

\* Money is treated as funding only when the envelope this job names is the one
\* the ledger applied, successfully; job and session name the same one.
FundedMeansLanded ==
  job.state \in {"funded", "running", "succeeded"} =>
    landed = [envelope |-> job.funding, ok |-> TRUE] /\ row.funding = job.funding

\* Whichever servers drive the job, an envelope is submitted at most three times,
\* each time on a claimed attempt, and a second envelope is signed only when the
\* first can no longer be applied.
FundingIsNotRepeated ==
  /\ \A e \in Envelopes : submitted[e] <= MaxAttempts
  /\ job.renewed => expired /\ landed.envelope # "original"

\* The CLI is launched at most once under each label, never beside another.
OneRunAtATime ==
  /\ \A l \in Labels : launches[l] <= 1
  /\ \A k, l \in Labels :
       child[k] \in {"alive", "orphan"} /\ child[l] \in {"alive", "orphan"} => k = l

\* A run starts on untouched accounts, or resumes the one registration; it never
\* starts after money was spent, nor while an earlier run may still spend.
LaunchOnUnspent ==
  [][launches' # launches =>
       /\ ~Working
       /\ actors = IF launches'["registered-setup-repair-1"] # 0 THEN "registered" ELSE "initial"
    ]_vars

Outside == INSTANCE OneOffTest WITH signed <- job.signed

\* Seen from the ledger, with the last envelope signed taken from the job, all the
\* servers with their two rows behave like one careful operator (OneOffTest): the
\* claims written to the job before each step (lib/cli-test-burner-job.ts:332,
\* 353, 374, 406, 416) let no two controllers, and none that restarts, do it twice.
ImplementsOneOffTest == Outside!Spec
==============================================================================
