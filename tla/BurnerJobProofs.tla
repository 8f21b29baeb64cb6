--------------------------- MODULE BurnerJobProofs ---------------------------
(***************************************************************************)
(* Proofs about BurnerJob, for any number of servers and of restarts.      *)
(*                                                                         *)
(* Three devices carry the argument.  A version number names one content   *)
(* of a row, so a compare-and-swap succeeds on what its controller read    *)
(* (JobSnapshots, RowSnapshots).  A claim written to the job leaves its    *)
(* controller alone until the write that follows (Alone), so the session   *)
(* is then as the claim found it (Finds).  And a snapshot of the job that  *)
(* is still current makes what was concluded from the session good         *)
(* (Views).  On these rest the agreement of the two rows (Agree), of the   *)
(* rows with the ledger (Ledger), of submissions with claimed attempts     *)
(* (Attempted), and of launches with the accounts (Runs).                  *)
(*                                                                         *)
(* The logs a failed run leaves are what a repair is claimed on (Proved),  *)
(* and mark the run as ended (Repairs): with these the whole implements    *)
(* OneOffTest, step by step (Refinement).                                  *)
(*                                                                         *)
(* A step is first put in terms of what it writes (Attaches for Attach,    *)
(* and so on), so that the rows need not be expanded in later proofs.      *)
(***************************************************************************)
EXTENDS BurnerJob, FiniteSetTheorems, TLAPS

\* Controllers that are about to submit an attempt they claimed.
Pending(e) == {s \in Servers : pc[s] \in {"fund row", "submit"} /\ seen[s].signed = e}

\* Has the job not changed since s last read or wrote it?
Fresh(s) == seen[s].state # "absent" /\ seen[s].version = job.version

\* A version number names one content of a row.
JobSnapshots ==
  /\ job.state = "absent" => job = NoJob /\ \A s \in Servers : seen[s].state = "absent"
  /\ \A s \in Servers :
       /\ seen[s].version <= job.version
       /\ Fresh(s) => seen[s] = job

RowSnapshots ==
  /\ row.state = "absent" => row = NoRow /\ \A s \in Servers : got[s].state = "absent"
  /\ \A s \in Servers :
       /\ got[s].version <= row.version
       /\ got[s].state # "absent" /\ got[s].version = row.version => got[s] = row

\* Before the first controller begins there is nothing.
Unopened ==
  job.state = "absent" => row.state = "absent" /\ \A s \in Servers : pc[s] = "start"

\* What every content of a row that was ever there satisfies.
SoundJob(j) ==
  /\ j.signed = j.funding
  /\ j.state \in {"prepared", "funding", "funded", "running", "succeeded", "failed"} =>
       j.funding # None
  /\ j.signed = "renewal" => j.renewed
  /\ j.resumed => j.repaired

SoundRow(r) == r.state \notin {"absent", "prepared"} => r.funding # None

SoundJobs == SoundJob(job) /\ \A s \in Servers : SoundJob(seen[s])

SoundRows == SoundRow(row) /\ \A s \in Servers : SoundRow(got[s])

Opening == {"create", "attach", "prepare", "record", "seal"}
Renewing == {"prepare renewal", "renew row", "seal renewal"}
Settling == {"reconcile", "settle", "claim retry", "prove unused", "claim renewal"}

\* What a controller knows where it stands.
Standing(p, j, r) ==
  /\ p = "start" => j.state = "absent"
  /\ p = "poll" => j.state # "initializing"
  /\ p \in {"attach", "prepare", "record", "fund row"} => r.state = "prepared"
  /\ p \in Opening =>
      j.state = "initializing" /\ ~j.renewed
  /\ p \in Renewing => j.state = "initializing" /\ j.renewed
  /\ p = "block" => j.state \in {"initializing", "prepared"}
  /\ p = "session" =>
      j.state \notin {"absent", "initializing", "succeeded", "blocked"}
  /\ p \in {"prove repair", "claim repair"} =>
      j.state = "failed" /\ (j.repaired => ~j.resumed)
  /\ p = "repair row" => j.state = "funded" /\ j.repaired
  /\ p = "claim funding" => j.state = "prepared" /\ r.state = "prepared"
  /\ p = "fund row" => j.state = "funding"
  /\ p \in Settling \cup {"submit"} => j.state = "funding" /\ j.signed # None
  /\ p \in {"reconcile", "prove unused", "claim renewal"} =>
      r.state = "funding" /\ r.funding # None
  /\ p = "claim retry" => j.attempts < MaxAttempts /\ r.state = "funding"
  /\ p \in {"prove unused", "claim renewal"} => ~j.renewed
  /\ p = "claim run" => j.state = "funded"
  /\ p \in {"run row", "launch", "finish"} => j.state = "running"
  /\ p = "finish" => r.state \in {"succeeded", "failed"}

Place == \A s \in Servers : Standing(pc[s], seen[s], got[s])

\* Between its claim and the write that follows a controller is alone.
Holds(p, j) ==
  \/ p \in Opening \cup Renewing \cup {"fund row", "run row", "launch", "repair row"}
  \/ p = "block" /\ j.state = "initializing"

Alone ==
  \A s \in Servers : Holds(pc[s], seen[s]) =>
    seen[s] = job /\ \A t \in Servers : Holds(pc[t], seen[t]) => t = s

\* The session as a controller finds it that holds the job.
Found(p) ==
  /\ p = "create" => row.state = "absent"
  /\ p \in {"attach", "prepare", "record", "seal"} => row.state = "prepared"
  /\ p = "seal" => row.funding = "original"
  /\ p \in {"prepare renewal", "renew row"} => row.state = "funding"
  /\ p \in {"seal renewal", "fund row"} => row.state = "prepared"
  /\ p = "run row" => row.state = "funded"
  /\ p = "launch" => row.state = "running" /\ launches[Label(job)] = 0
  /\ p = "repair row" => row.state = "failed"

Finds == \A s \in Servers : Found(pc[s])

\* The job and its session agree.
Agree ==
  /\ job.state = "initializing" /\ ~job.renewed =>
       job.signed = None /\ job.attempts = 0 /\ row.state \in {"absent", "prepared"}
  /\ job.state = "initializing" /\ job.renewed =>
       /\ job.signed = "original"
       /\ \/ row.state = "funding" /\ row.funding = "original"
          \/ row.state = "prepared" /\ row.funding = "renewal"
  /\ job.state = "prepared" => row.state = "prepared" /\ job.attempts = 0
  /\ job.state = "funding" => row.state \in {"prepared", "funding", "funded", "failed"}
  /\ job.state = "funded" => row.state \in {"funded", "failed"}
  /\ job.state = "running" => row.state \in {"funded", "running", "succeeded", "failed"}
  /\ job.state \in {"succeeded", "failed"} => row.state = job.state
  /\ job.state = "blocked" =>
       \/ row.state \in {"absent", "prepared"}
       \/ row.state = "funding" /\ row.funding = "original" /\ job.renewed
  /\ job.state \in {"prepared", "funding", "funded", "running", "succeeded", "failed"} =>
       row.funding = job.funding
  /\ job.repaired => job.state \in {"funded", "running", "succeeded", "failed"}

\* What the rows say of the ledger.
Ledger ==
  /\ sequence = "free" => landed.envelope = None
  /\ landed.envelope = None => ~landed.ok
  /\ ~landed.ok => actors = "absent"
  /\ landed.envelope # None => landed.envelope = job.funding
  /\ job.renewed => expired /\ landed.envelope # "original"
  /\ \A s \in Servers : pc[s] = "claim renewal" => expired /\ landed.envelope # "original"
  /\ job.state = "funding" /\ row.state \in {"funded", "failed"} =>
       landed.envelope = row.funding
  /\ row.state = "funded" => landed.ok
  /\ job.state \in {"funded", "running", "succeeded"} => landed.ok

\* Submissions and those under way are covered by claimed attempts.
Attempted ==
  /\ \A e \in Envelopes :
       /\ IsFiniteSet(Pending(e))
       /\ submitted[e] + Cardinality(Pending(e)) <= MaxAttempts
       /\ job.signed = e => submitted[e] + Cardinality(Pending(e)) <= job.attempts
  /\ job.signed = None => submitted["original"] = 0
  /\ job.signed # "renewal" => submitted["renewal"] = 0
  /\ \A s \in Servers :
       /\ seen[s].signed # None => job.signed # None
       /\ seen[s].signed = "renewal" => job.signed = "renewal"

\* A snapshot of the job that is still current makes that of the session good.
View(s) ==
  /\ pc[s] \in Settling /\ got[s].state \in {"funding", "funded", "failed"} =>
       row.state \in {"funding", "funded", "failed"}
  /\ pc[s] = "settle" /\ got[s].state \in {"funded", "failed"} => row.state = got[s].state
  /\ pc[s] = "claim run" => row.state = "funded"
  /\ pc[s] = "finish" => row.state = got[s].state
  /\ pc[s] = "claim repair" =>
       cooled /\ actors = IF seen[s].repaired THEN "registered" ELSE "initial"

Views == \A s \in Servers : Fresh(s) => View(s)

\* Launches and what they leave on the ledger.
Unlaunched ==
  \/ job.state \notin {"running", "succeeded", "failed"}
  \/ job.state = "running" /\ row.state = "funded"

Runs ==
  /\ \A l \in Labels :
       /\ launches[l] <= 1
       /\ child[l] = "none" <=> launches[l] = 0
       /\ child[l] \in {"alive", "orphan"} => row.state = "running" /\ l = Label(job)
  /\ row.state = "running" => job.state = "running"
  /\ ~job.repaired => launches["preflight-repair-1"] = 0
  /\ ~job.resumed => launches["registered-setup-repair-1"] = 0
  /\ Unlaunched => launches[Label(job)] = 0
  /\ (\A l \in Labels : child[l] = "none") /\ landed.ok => actors = "initial"
  /\ job.state = "funded" \/ (job.state = "running" /\ launches[Label(job)] = 0) =>
       /\ cooled \/ \A l \in Labels : child[l] = "none"
       /\ actors = IF job.resumed THEN "registered" ELSE "initial"

\* The inductive invariant.
Inv ==
  /\ TypeOK
  /\ JobSnapshots /\ RowSnapshots /\ Unopened
  /\ SoundJobs /\ SoundRows
  /\ Place /\ Alone /\ Finds
  /\ Agree /\ Ledger /\ Attempted /\ Views /\ Runs

\* s writes the job, which it knows as it is; or finds it changed.
Moved(s, st) ==
  /\ seen[s] = job
  /\ job' \in Jobs
  /\ job'.version = job.version + 1
  /\ job'.state = st
  /\ seen' = [seen EXCEPT ![s] = job']

Stays(s) == seen[s].version # job.version /\ job' = job /\ seen' = seen

KeepsMarks ==
  job'.renewed = job.renewed /\ job'.repaired = job.repaired /\ job'.resumed = job.resumed

KeepsFunding ==
  job'.signed = job.signed /\ job'.funding = job.funding /\ job'.attempts = job.attempts

\* s writes the session row.
RowMoved(s, st, f) ==
  /\ row' \in Rows
  /\ row'.version = row.version + 1
  /\ row'.state = st
  /\ row'.funding = f
  /\ got' = [got EXCEPT ![s] = row']

To(s, step) == pc' = [pc EXCEPT ![s] = step]

JobOnly ==
  UNCHANGED <<row, got, landed, sequence, expired, actors, cooled, child, crashes, submitted,
              launches>>

RowOnly ==
  UNCHANGED <<job, seen, landed, sequence, expired, actors, cooled, child, crashes, submitted,
              launches>>

------------------------------------------------------------------------------
(* The two rows *)

\* The types of the fields of a job row.
LEMMA JobFields ==
  ASSUME NEW j \in Jobs
  PROVE /\ j.version \in Nat /\ j.attempts \in 0 .. MaxAttempts
        /\ j.renewed \in BOOLEAN /\ j.repaired \in BOOLEAN /\ j.resumed \in BOOLEAN
        /\ j.signed \in Envelopes \cup {None} /\ j.funding \in Envelopes \cup {None}
  BY DEF Jobs

\* Raising the version of a job row changes none of its other fields.
LEMMA JobV ==
  ASSUME NEW j \in Jobs, NEW n \in Nat
  PROVE /\ [j EXCEPT !.version = n] \in Jobs
        /\ [j EXCEPT !.version = n].version = n
        /\ [j EXCEPT !.version = n].state = j.state
        /\ [j EXCEPT !.version = n].signed = j.signed
        /\ [j EXCEPT !.version = n].funding = j.funding
        /\ [j EXCEPT !.version = n].attempts = j.attempts
        /\ [j EXCEPT !.version = n].renewed = j.renewed
        /\ [j EXCEPT !.version = n].repaired = j.repaired
        /\ [j EXCEPT !.version = n].resumed = j.resumed
  BY DEF Jobs

\* What transition() writes: the job row as intended, one version on, by a
\* controller whose snapshot was current.
LEMMA TransitionWrites ==
  ASSUME TypeOK, NEW s \in Servers, NEW new \in Jobs, Transition(s, new),
         seen[s].state # "absent", JobSnapshots
  PROVE /\ Moved(s, new.state)
        /\ job'.signed = new.signed /\ job'.funding = new.funding /\ job'.attempts = new.attempts
        /\ job'.renewed = new.renewed /\ job'.repaired = new.repaired /\ job'.resumed = new.resumed
<1>1. seen[s] = job
  BY DEF Transition, JobSnapshots, Fresh
<1>2. job.version + 1 \in Nat
  BY JobFields DEF TypeOK
<1>3. job' = [new EXCEPT !.version = job.version + 1] /\ seen' = [seen EXCEPT ![s] = job']
  BY DEF Transition
<1>4. job' \in Jobs /\ job'.version = job.version + 1 /\ job'.state = new.state
      /\ job'.signed = new.signed /\ job'.funding = new.funding /\ job'.attempts = new.attempts
      /\ job'.renewed = new.renewed /\ job'.repaired = new.repaired /\ job'.resumed = new.resumed
  BY <1>2, <1>3, JobV
<1>. QED
  BY <1>1, <1>3, <1>4 DEF Moved

------------------------------------------------------------------------------
(* What each step writes *)

Attaches(s) ==
  /\ pc[s] = "attach"
  /\ \/ /\ Moved(s, "initializing") /\ KeepsMarks /\ KeepsFunding
        /\ To(s, "prepare")
     \/ Stays(s) /\ To(s, "done")
  /\ JobOnly

\* Attach, in terms of what it writes.
LEMMA AttachDoes ==
  ASSUME TypeOK, JobSnapshots, SoundJobs, Place, NEW s \in Servers, Attach(s)
  PROVE Attaches(s)
<1>. DEFINE new == [seen[s] EXCEPT !.attached = TRUE]
<1>1. CASE Transition(s, new)
  <2>1. seen[s] \in Jobs /\ got[s] \in Rows /\ seen[s].state # "absent"
    BY DEF TypeOK, Place, Standing, Attach, Opening, Renewing, Settling
  <2>2. new \in Jobs
    BY <2>1, JobFields DEF Jobs, Attach, Place, Standing
  <2>3. Moved(s, new.state)
        /\ job'.signed = new.signed /\ job'.funding = new.funding /\ job'.attempts = new.attempts
        /\ job'.renewed = new.renewed /\ job'.repaired = new.repaired /\ job'.resumed = new.resumed
    <3>. HIDE DEF new
    <3>. QED
      BY <1>1, <2>1, <2>2, TransitionWrites
  <2>4. seen[s] = job
    BY <2>3 DEF Moved
  <2>5. seen[s] = job /\ job \in Jobs
    BY <2>1, <2>4
  <2>6. /\ new.state = "initializing"
        /\ new.signed = job.signed
        /\ new.funding = job.funding
        /\ new.attempts = job.attempts
        /\ new.renewed = job.renewed
        /\ new.repaired = job.repaired
        /\ new.resumed = job.resumed
    BY <2>1, <2>5, JobFields DEF Jobs, Place, Standing, SoundJobs, SoundJob, Attach, Opening
  <2>7. Moved(s, "initializing") /\ KeepsMarks /\ KeepsFunding
    <3>. HIDE DEF new
    <3>. QED
      BY <2>3, <2>4, <2>6 DEF Moved, KeepsMarks, KeepsFunding
  <2>8. To(s, "prepare") /\ JobOnly
    BY <2>1, <2>3 DEF Attach, Transition, Superseded, Moved, To, Goto, Elsewhere, ledger,
       history, JobOnly
  <2>. QED
    BY <2>7, <2>8 DEF Attaches, Attach
<1>2. CASE Superseded(s)
  BY <1>2 DEF Attach, Attaches, JobOnly, Transition, Superseded, Stays, To, Goto, Elsewhere,
     ledger, history
<1>. QED
  BY <1>1, <1>2 DEF Attach

Seals(s) ==
  /\ pc[s] = "seal"
  /\ \/ /\ Moved(s, "prepared") /\ KeepsMarks
        /\ job'.signed = "original" /\ job'.funding = "original" /\ job'.attempts = job.attempts
        /\ To(s, "poll")
     \/ Stays(s) /\ To(s, "done")
  /\ JobOnly

\* Seal, in terms of what it writes.
LEMMA SealDoes ==
  ASSUME TypeOK, JobSnapshots, SoundJobs, Place, NEW s \in Servers, Seal(s)
  PROVE Seals(s)
<1>. DEFINE new == [seen[s] EXCEPT !.state = "prepared", !.signed = "original", !.funding = "original"]
<1>1. CASE Transition(s, new)
  <2>1. seen[s] \in Jobs /\ got[s] \in Rows /\ seen[s].state # "absent"
    BY DEF TypeOK, Place, Standing, Seal, Opening, Renewing, Settling
  <2>2. new \in Jobs
    BY <2>1, JobFields DEF Jobs, Seal, Place, Standing, Envelopes
  <2>3. Moved(s, new.state)
        /\ job'.signed = new.signed /\ job'.funding = new.funding /\ job'.attempts = new.attempts
        /\ job'.renewed = new.renewed /\ job'.repaired = new.repaired /\ job'.resumed = new.resumed
    <3>. HIDE DEF new
    <3>. QED
      BY <1>1, <2>1, <2>2, TransitionWrites
  <2>4. seen[s] = job
    BY <2>3 DEF Moved
  <2>5. seen[s] = job /\ job \in Jobs
    BY <2>1, <2>4
  <2>6. /\ new.state = "prepared"
        /\ new.signed = "original"
        /\ new.funding = "original"
        /\ new.attempts = job.attempts
        /\ new.renewed = job.renewed
        /\ new.repaired = job.repaired
        /\ new.resumed = job.resumed
    BY <2>1, <2>5, JobFields DEF Jobs
  <2>7. Moved(s, "prepared") /\ KeepsMarks
              /\ job'.signed = "original" /\ job'.funding = "original" /\ job'.attempts = job.attempts
    <3>. HIDE DEF new
    <3>. QED
      BY <2>3, <2>4, <2>6 DEF Moved, KeepsMarks, KeepsFunding
  <2>8. To(s, "poll") /\ JobOnly
    BY <2>1, <2>3 DEF Seal, Transition, Superseded, Moved, To, Goto, Elsewhere, ledger,
       history, JobOnly
  <2>. QED
    BY <2>7, <2>8 DEF Seals, Seal
<1>2. CASE Superseded(s)
  BY <1>2 DEF Seal, Seals, JobOnly, Transition, Superseded, Stays, To, Goto, Elsewhere, ledger,
     history
<1>. QED
  BY <1>1, <1>2 DEF Seal

Blocks(s) ==
  /\ pc[s] = "block"
  /\ \/ /\ Moved(s, "blocked") /\ KeepsMarks /\ KeepsFunding
        /\ To(s, "done")
     \/ Stays(s) /\ To(s, "done")
  /\ JobOnly

\* Block, in terms of what it writes.
LEMMA BlockDoes ==
  ASSUME TypeOK, JobSnapshots, SoundJobs, Place, NEW s \in Servers, Block(s)
  PROVE Blocks(s)
<1>. DEFINE new == [seen[s] EXCEPT !.state = "blocked"]
<1>1. CASE Transition(s, new)
  <2>1. seen[s] \in Jobs /\ got[s] \in Rows /\ seen[s].state # "absent"
    BY DEF TypeOK, Place, Standing, Block, Opening, Renewing, Settling
  <2>2. new \in Jobs
    BY <2>1, JobFields DEF Jobs, Block, Place, Standing
  <2>3. Moved(s, new.state)
        /\ job'.signed = new.signed /\ job'.funding = new.funding /\ job'.attempts = new.attempts
        /\ job'.renewed = new.renewed /\ job'.repaired = new.repaired /\ job'.resumed = new.resumed
    <3>. HIDE DEF new
    <3>. QED
      BY <1>1, <2>1, <2>2, TransitionWrites
  <2>4. seen[s] = job
    BY <2>3 DEF Moved
  <2>5. seen[s] = job /\ job \in Jobs
    BY <2>1, <2>4
  <2>6. /\ new.state = "blocked"
        /\ new.signed = job.signed
        /\ new.funding = job.funding
        /\ new.attempts = job.attempts
        /\ new.renewed = job.renewed
        /\ new.repaired = job.repaired
        /\ new.resumed = job.resumed
    BY <2>1, <2>5, JobFields DEF Jobs
  <2>7. Moved(s, "blocked") /\ KeepsMarks /\ KeepsFunding
    <3>. HIDE DEF new
    <3>. QED
      BY <2>3, <2>4, <2>6 DEF Moved, KeepsMarks, KeepsFunding
  <2>8. To(s, "done") /\ JobOnly
    BY <2>1, <2>3 DEF Block, Transition, Superseded, Moved, To, Goto, Elsewhere, ledger,
       history, JobOnly
  <2>. QED
    BY <2>7, <2>8 DEF Blocks, Block
<1>2. CASE Superseded(s)
  BY <1>2 DEF Block, Blocks, JobOnly, Transition, Superseded, Stays, To, Goto, Elsewhere,
     ledger, history
<1>. QED
  BY <1>1, <1>2 DEF Block

ClaimsFunding(s) ==
  /\ pc[s] = "claim funding"
  /\ \/ /\ Moved(s, "funding") /\ KeepsMarks
        /\ job'.signed = job.signed /\ job'.funding = job.funding /\ job'.attempts = 1
        /\ To(s, "fund row")
     \/ Stays(s) /\ To(s, "poll")
  /\ JobOnly

\* ClaimFunding, in terms of what it writes.
LEMMA ClaimFundingDoes ==
  ASSUME TypeOK, JobSnapshots, SoundJobs, Place, NEW s \in Servers, ClaimFunding(s)
  PROVE ClaimsFunding(s)
<1>. DEFINE new == [seen[s] EXCEPT !.state = "funding", !.attempts = 1]
<1>1. CASE Transition(s, new)
  <2>1. seen[s] \in Jobs /\ got[s] \in Rows /\ seen[s].state # "absent"
    BY DEF TypeOK, Place, Standing, ClaimFunding, Opening, Renewing, Settling
  <2>2. new \in Jobs
    <3>1. 1 \in 0 .. MaxAttempts
      BY DEF MaxAttempts
    <3>. HIDE DEF MaxAttempts
    <3>. QED
      BY <2>1, <3>1 DEF Jobs
  <2>3. Moved(s, new.state)
        /\ job'.signed = new.signed /\ job'.funding = new.funding /\ job'.attempts = new.attempts
        /\ job'.renewed = new.renewed /\ job'.repaired = new.repaired /\ job'.resumed = new.resumed
    <3>. HIDE DEF new
    <3>. QED
      BY <1>1, <2>1, <2>2, TransitionWrites
  <2>4. seen[s] = job
    BY <2>3 DEF Moved
  <2>5. seen[s] = job /\ job \in Jobs
    BY <2>1, <2>4
  <2>6. /\ new.state = "funding"
        /\ new.attempts = 1
        /\ new.signed = job.signed
        /\ new.funding = job.funding
        /\ new.renewed = job.renewed
        /\ new.repaired = job.repaired
        /\ new.resumed = job.resumed
    BY <2>1, <2>5, JobFields DEF Jobs
  <2>7. Moved(s, "funding") /\ KeepsMarks
              /\ job'.signed = job.signed /\ job'.funding = job.funding /\ job'.attempts = 1
    <3>. HIDE DEF new
    <3>. QED
      BY <2>3, <2>4, <2>6 DEF Moved, KeepsMarks, KeepsFunding
  <2>8. To(s, "fund row") /\ JobOnly
    BY <2>1, <2>3 DEF ClaimFunding, Transition, Superseded, Moved, To, Goto, Elsewhere, ledger,
       history, JobOnly
  <2>. QED
    BY <2>7, <2>8 DEF ClaimsFunding, ClaimFunding
<1>2. CASE Superseded(s)
  BY <1>2 DEF ClaimFunding, ClaimsFunding, JobOnly, Transition, Superseded, Stays, To, Goto,
     Elsewhere, ledger, history
<1>. QED
  BY <1>1, <1>2 DEF ClaimFunding

SettlesFunded(s) ==
  /\ pc[s] = "settle" /\ got[s].state = "funded"
  /\ \/ /\ Moved(s, "funded") /\ KeepsMarks /\ KeepsFunding
        /\ To(s, "poll")
     \/ Stays(s) /\ To(s, "poll")
  /\ JobOnly

\* SettleFunded, in terms of what it writes.
LEMMA SettleFundedDoes ==
  ASSUME TypeOK, JobSnapshots, SoundJobs, Place, NEW s \in Servers, SettleFunded(s)
  PROVE SettlesFunded(s)
<1>. DEFINE new == [seen[s] EXCEPT !.state = "funded"]
<1>1. CASE Transition(s, new)
  <2>1. seen[s] \in Jobs /\ got[s] \in Rows /\ seen[s].state # "absent"
    BY DEF TypeOK, Place, Standing, SettleFunded, Opening, Renewing, Settling
  <2>2. new \in Jobs
    BY <2>1, JobFields DEF Jobs, SettleFunded, Place, Standing
  <2>3. Moved(s, new.state)
        /\ job'.signed = new.signed /\ job'.funding = new.funding /\ job'.attempts = new.attempts
        /\ job'.renewed = new.renewed /\ job'.repaired = new.repaired /\ job'.resumed = new.resumed
    <3>. HIDE DEF new
    <3>. QED
      BY <1>1, <2>1, <2>2, TransitionWrites
  <2>4. seen[s] = job
    BY <2>3 DEF Moved
  <2>5. seen[s] = job /\ job \in Jobs
    BY <2>1, <2>4
  <2>6. /\ new.state = "funded"
        /\ new.signed = job.signed
        /\ new.funding = job.funding
        /\ new.attempts = job.attempts
        /\ new.renewed = job.renewed
        /\ new.repaired = job.repaired
        /\ new.resumed = job.resumed
    BY <2>1, <2>5, JobFields DEF Jobs
  <2>7. Moved(s, "funded") /\ KeepsMarks /\ KeepsFunding
    <3>. HIDE DEF new
    <3>. QED
      BY <2>3, <2>4, <2>6 DEF Moved, KeepsMarks, KeepsFunding
  <2>8. To(s, "poll") /\ JobOnly
    BY <2>1, <2>3 DEF SettleFunded, Transition, Superseded, Moved, To, Goto, Elsewhere, ledger,
       history, JobOnly
  <2>. QED
    BY <2>7, <2>8 DEF SettlesFunded, SettleFunded
<1>2. CASE Superseded(s)
  BY <1>2 DEF SettleFunded, SettlesFunded, JobOnly, Transition, Superseded, Stays, To, Goto,
     Elsewhere, ledger, history
<1>. QED
  BY <1>1, <1>2 DEF SettleFunded

SettlesFailed(s) ==
  /\ pc[s] = "settle" /\ got[s].state = "failed"
  /\ \/ /\ Moved(s, "failed") /\ KeepsMarks /\ KeepsFunding
        /\ To(s, "done")
     \/ Stays(s) /\ To(s, "done")
  /\ JobOnly

\* SettleFailed, in terms of what it writes.
LEMMA SettleFailedDoes ==
  ASSUME TypeOK, JobSnapshots, SoundJobs, Place, NEW s \in Servers, SettleFailed(s)
  PROVE SettlesFailed(s)
<1>. DEFINE new == [seen[s] EXCEPT !.state = "failed"]
<1>1. CASE Transition(s, new)
  <2>1. seen[s] \in Jobs /\ got[s] \in Rows /\ seen[s].state # "absent"
    BY DEF TypeOK, Place, Standing, SettleFailed, Opening, Renewing, Settling
  <2>2. new \in Jobs
    BY <2>1, JobFields DEF Jobs, SettleFailed, Place, Standing
  <2>3. Moved(s, new.state)
        /\ job'.signed = new.signed /\ job'.funding = new.funding /\ job'.attempts = new.attempts
        /\ job'.renewed = new.renewed /\ job'.repaired = new.repaired /\ job'.resumed = new.resumed
    <3>. HIDE DEF new
    <3>. QED
      BY <1>1, <2>1, <2>2, TransitionWrites
  <2>4. seen[s] = job
    BY <2>3 DEF Moved
  <2>5. seen[s] = job /\ job \in Jobs
    BY <2>1, <2>4
  <2>6. /\ new.state = "failed"
        /\ new.signed = job.signed
        /\ new.funding = job.funding
        /\ new.attempts = job.attempts
        /\ new.renewed = job.renewed
        /\ new.repaired = job.repaired
        /\ new.resumed = job.resumed
    BY <2>1, <2>5, JobFields DEF Jobs
  <2>7. Moved(s, "failed") /\ KeepsMarks /\ KeepsFunding
    <3>. HIDE DEF new
    <3>. QED
      BY <2>3, <2>4, <2>6 DEF Moved, KeepsMarks, KeepsFunding
  <2>8. To(s, "done") /\ JobOnly
    BY <2>1, <2>3 DEF SettleFailed, Transition, Superseded, Moved, To, Goto, Elsewhere, ledger,
       history, JobOnly
  <2>. QED
    BY <2>7, <2>8 DEF SettlesFailed, SettleFailed
<1>2. CASE Superseded(s)
  BY <1>2 DEF SettleFailed, SettlesFailed, JobOnly, Transition, Superseded, Stays, To, Goto,
     Elsewhere, ledger, history
<1>. QED
  BY <1>1, <1>2 DEF SettleFailed

ClaimsRetry(s) ==
  /\ pc[s] = "claim retry"
  /\ \/ /\ Moved(s, "funding") /\ KeepsMarks
        /\ job'.signed = job.signed /\ job'.funding = job.funding /\ job'.attempts = job.attempts + 1
        /\ To(s, "submit")
     \/ Stays(s) /\ To(s, "poll")
  /\ JobOnly

\* ClaimRetry, in terms of what it writes.
LEMMA ClaimRetryDoes ==
  ASSUME TypeOK, JobSnapshots, SoundJobs, Place, NEW s \in Servers, ClaimRetry(s)
  PROVE ClaimsRetry(s)
<1>. DEFINE new == [seen[s] EXCEPT !.attempts = seen[s].attempts + 1]
<1>1. CASE Transition(s, new)
  <2>1. seen[s] \in Jobs /\ got[s] \in Rows /\ seen[s].state # "absent"
    BY DEF TypeOK, Place, Standing, ClaimRetry, Opening, Renewing, Settling
  <2>2. new \in Jobs
    <3>1. seen[s].attempts + 1 \in 0 .. MaxAttempts
      <4>1. seen[s].attempts \in 0 .. MaxAttempts /\ seen[s].attempts < MaxAttempts
        BY <2>1, JobFields DEF ClaimRetry, Place, Standing
      <4>. QED
        BY <4>1 DEF MaxAttempts
    <3>. HIDE DEF MaxAttempts
    <3>. QED
      BY <2>1, <3>1 DEF Jobs
  <2>3. Moved(s, new.state)
        /\ job'.signed = new.signed /\ job'.funding = new.funding /\ job'.attempts = new.attempts
        /\ job'.renewed = new.renewed /\ job'.repaired = new.repaired /\ job'.resumed = new.resumed
    <3>. HIDE DEF new
    <3>. QED
      BY <1>1, <2>1, <2>2, TransitionWrites
  <2>4. seen[s] = job
    BY <2>3 DEF Moved
  <2>5. seen[s] = job /\ job \in Jobs
    BY <2>1, <2>4
  <2>6. /\ new.state = "funding"
        /\ new.attempts = job.attempts + 1
        /\ new.signed = job.signed
        /\ new.funding = job.funding
        /\ new.renewed = job.renewed
        /\ new.repaired = job.repaired
        /\ new.resumed = job.resumed
    BY <2>1, <2>5, JobFields DEF Jobs, Place, Standing, SoundJobs, SoundJob, ClaimRetry, Settling
  <2>7. Moved(s, "funding") /\ KeepsMarks
              /\ job'.signed = job.signed /\ job'.funding = job.funding /\ job'.attempts = job.attempts + 1
    <3>. HIDE DEF new
    <3>. QED
      BY <2>3, <2>4, <2>6 DEF Moved, KeepsMarks, KeepsFunding
  <2>8. To(s, "submit") /\ JobOnly
    BY <2>1, <2>3 DEF ClaimRetry, Transition, Superseded, Moved, To, Goto, Elsewhere, ledger,
       history, JobOnly
  <2>. QED
    BY <2>7, <2>8 DEF ClaimsRetry, ClaimRetry
<1>2. CASE Superseded(s)
  BY <1>2 DEF ClaimRetry, ClaimsRetry, JobOnly, Transition, Superseded, Stays, To, Goto,
     Elsewhere, ledger, history
<1>. QED
  BY <1>1, <1>2 DEF ClaimRetry

ClaimsRenewal(s) ==
  /\ pc[s] = "claim renewal"
  /\ \/ /\ Moved(s, "initializing") /\ KeepsFunding
        /\ job'.renewed /\ job'.repaired = job.repaired /\ job'.resumed = job.resumed
        /\ To(s, "prepare renewal")
     \/ Stays(s) /\ To(s, "poll")
  /\ JobOnly

\* ClaimRenewal, in terms of what it writes.
LEMMA ClaimRenewalDoes ==
  ASSUME TypeOK, JobSnapshots, SoundJobs, Place, NEW s \in Servers, ClaimRenewal(s)
  PROVE ClaimsRenewal(s)
<1>. DEFINE new == [seen[s] EXCEPT !.state = "initializing", !.renewed = TRUE]
<1>1. CASE Transition(s, new)
  <2>1. seen[s] \in Jobs /\ got[s] \in Rows /\ seen[s].state # "absent"
    BY DEF TypeOK, Place, Standing, ClaimRenewal, Opening, Renewing, Settling
  <2>2. new \in Jobs
    BY <2>1, JobFields DEF Jobs, ClaimRenewal, Place, Standing
  <2>3. Moved(s, new.state)
        /\ job'.signed = new.signed /\ job'.funding = new.funding /\ job'.attempts = new.attempts
        /\ job'.renewed = new.renewed /\ job'.repaired = new.repaired /\ job'.resumed = new.resumed
    <3>. HIDE DEF new
    <3>. QED
      BY <1>1, <2>1, <2>2, TransitionWrites
  <2>4. seen[s] = job
    BY <2>3 DEF Moved
  <2>5. seen[s] = job /\ job \in Jobs
    BY <2>1, <2>4
  <2>6. /\ new.state = "initializing"
        /\ new.renewed = TRUE
        /\ new.signed = job.signed
        /\ new.funding = job.funding
        /\ new.attempts = job.attempts
        /\ new.repaired = job.repaired
        /\ new.resumed = job.resumed
    BY <2>1, <2>5, JobFields DEF Jobs
  <2>7. Moved(s, "initializing") /\ KeepsFunding
              /\ job'.renewed /\ job'.repaired = job.repaired /\ job'.resumed = job.resumed
    <3>. HIDE DEF new
    <3>. QED
      BY <2>3, <2>4, <2>6 DEF Moved, KeepsMarks, KeepsFunding
  <2>8. To(s, "prepare renewal") /\ JobOnly
    BY <2>1, <2>3 DEF ClaimRenewal, Transition, Superseded, Moved, To, Goto, Elsewhere, ledger,
       history, JobOnly
  <2>. QED
    BY <2>7, <2>8 DEF ClaimsRenewal, ClaimRenewal
<1>2. CASE Superseded(s)
  BY <1>2 DEF ClaimRenewal, ClaimsRenewal, JobOnly, Transition, Superseded, Stays, To, Goto,
     Elsewhere, ledger, history
<1>. QED
  BY <1>1, <1>2 DEF ClaimRenewal

SealsRenewal(s) ==
  /\ pc[s] = "seal renewal"
  /\ \/ /\ Moved(s, "prepared") /\ KeepsMarks
        /\ job'.signed = "renewal" /\ job'.funding = "renewal" /\ job'.attempts = 0
        /\ To(s, "poll")
     \/ Stays(s) /\ To(s, "done")
  /\ JobOnly

\* SealRenewal, in terms of what it writes.
LEMMA SealRenewalDoes ==
  ASSUME TypeOK, JobSnapshots, SoundJobs, Place, NEW s \in Servers, SealRenewal(s)
  PROVE SealsRenewal(s)
<1>. DEFINE new == [seen[s] EXCEPT !.state = "prepared", !.signed = "renewal",
                                         !.funding = "renewal", !.attempts = 0]
<1>1. CASE Transition(s, new)
  <2>1. seen[s] \in Jobs /\ got[s] \in Rows /\ seen[s].state # "absent"
    BY DEF TypeOK, Place, Standing, SealRenewal, Opening, Renewing, Settling
  <2>2. new \in Jobs
    <3>1. 0 \in 0 .. MaxAttempts
      BY DEF MaxAttempts
    <3>. HIDE DEF MaxAttempts
    <3>. QED
      BY <2>1, <3>1 DEF Jobs, Envelopes
  <2>3. Moved(s, new.state)
        /\ job'.signed = new.signed /\ job'.funding = new.funding /\ job'.attempts = new.attempts
        /\ job'.renewed = new.renewed /\ job'.repaired = new.repaired /\ job'.resumed = new.resumed
    <3>. HIDE DEF new
    <3>. QED
      BY <1>1, <2>1, <2>2, TransitionWrites
  <2>4. seen[s] = job
    BY <2>3 DEF Moved
  <2>5. seen[s] = job /\ job \in Jobs
    BY <2>1, <2>4
  <2>6. /\ new.state = "prepared"
        /\ new.signed = "renewal"
        /\ new.funding = "renewal"
        /\ new.attempts = 0
        /\ new.renewed = job.renewed
        /\ new.repaired = job.repaired
        /\ new.resumed = job.resumed
    BY <2>1, <2>5, JobFields DEF Jobs
  <2>7. Moved(s, "prepared") /\ KeepsMarks
              /\ job'.signed = "renewal" /\ job'.funding = "renewal" /\ job'.attempts = 0
    <3>. HIDE DEF new
    <3>. QED
      BY <2>3, <2>4, <2>6 DEF Moved, KeepsMarks, KeepsFunding
  <2>8. To(s, "poll") /\ JobOnly
    BY <2>1, <2>3 DEF SealRenewal, Transition, Superseded, Moved, To, Goto, Elsewhere, ledger,
       history, JobOnly
  <2>. QED
    BY <2>7, <2>8 DEF SealsRenewal, SealRenewal
<1>2. CASE Superseded(s)
  BY <1>2 DEF SealRenewal, SealsRenewal, JobOnly, Transition, Superseded, Stays, To, Goto,
     Elsewhere, ledger, history
<1>. QED
  BY <1>1, <1>2 DEF SealRenewal

ClaimsRun(s) ==
  /\ pc[s] = "claim run"
  /\ \/ /\ Moved(s, "running") /\ KeepsMarks /\ KeepsFunding
        /\ To(s, "run row")
     \/ Stays(s) /\ To(s, "poll")
  /\ JobOnly

\* ClaimRun, in terms of what it writes.
LEMMA ClaimRunDoes ==
  ASSUME TypeOK, JobSnapshots, SoundJobs, Place, NEW s \in Servers, ClaimRun(s)
  PROVE ClaimsRun(s)
<1>. DEFINE new == [seen[s] EXCEPT !.state = "running"]
<1>1. CASE Transition(s, new)
  <2>1. seen[s] \in Jobs /\ got[s] \in Rows /\ seen[s].state # "absent"
    BY DEF TypeOK, Place, Standing, ClaimRun, Opening, Renewing, Settling
  <2>2. new \in Jobs
    BY <2>1, JobFields DEF Jobs, ClaimRun, Place, Standing
  <2>3. Moved(s, new.state)
        /\ job'.signed = new.signed /\ job'.funding = new.funding /\ job'.attempts = new.attempts
        /\ job'.renewed = new.renewed /\ job'.repaired = new.repaired /\ job'.resumed = new.resumed
    <3>. HIDE DEF new
    <3>. QED
      BY <1>1, <2>1, <2>2, TransitionWrites
  <2>4. seen[s] = job
    BY <2>3 DEF Moved
  <2>5. seen[s] = job /\ job \in Jobs
    BY <2>1, <2>4
  <2>6. /\ new.state = "running"
        /\ new.signed = job.signed
        /\ new.funding = job.funding
        /\ new.attempts = job.attempts
        /\ new.renewed = job.renewed
        /\ new.repaired = job.repaired
        /\ new.resumed = job.resumed
    BY <2>1, <2>5, JobFields DEF Jobs
  <2>7. Moved(s, "running") /\ KeepsMarks /\ KeepsFunding
    <3>. HIDE DEF new
    <3>. QED
      BY <2>3, <2>4, <2>6 DEF Moved, KeepsMarks, KeepsFunding
  <2>8. To(s, "run row") /\ JobOnly
    BY <2>1, <2>3 DEF ClaimRun, Transition, Superseded, Moved, To, Goto, Elsewhere, ledger,
       history, JobOnly
  <2>. QED
    BY <2>7, <2>8 DEF ClaimsRun, ClaimRun
<1>2. CASE Superseded(s)
  BY <1>2 DEF ClaimRun, ClaimsRun, JobOnly, Transition, Superseded, Stays, To, Goto, Elsewhere,
     ledger, history
<1>. QED
  BY <1>1, <1>2 DEF ClaimRun

Finishes(s) ==
  /\ pc[s] = "finish"
  /\ \/ /\ Moved(s, got[s].state) /\ KeepsMarks /\ KeepsFunding
        /\ To(s, IF got[s].state = "succeeded" THEN "done" ELSE "poll")
     \/ Stays(s) /\ To(s, IF got[s].state = "succeeded" THEN "done" ELSE "poll")
  /\ JobOnly

\* Finish, in terms of what it writes.
LEMMA FinishDoes ==
  ASSUME TypeOK, JobSnapshots, SoundJobs, Place, NEW s \in Servers, Finish(s)
  PROVE Finishes(s)
<1>. DEFINE new == [seen[s] EXCEPT !.state = got[s].state]
<1>1. CASE Transition(s, new)
  <2>1. seen[s] \in Jobs /\ got[s] \in Rows /\ seen[s].state # "absent"
    BY DEF TypeOK, Place, Standing, Finish, Opening, Renewing, Settling
  <2>2. new \in Jobs
    BY <2>1, JobFields DEF Jobs, Finish, Place, Standing
  <2>3. Moved(s, new.state)
        /\ job'.signed = new.signed /\ job'.funding = new.funding /\ job'.attempts = new.attempts
        /\ job'.renewed = new.renewed /\ job'.repaired = new.repaired /\ job'.resumed = new.resumed
    <3>. HIDE DEF new
    <3>. QED
      BY <1>1, <2>1, <2>2, TransitionWrites
  <2>4. seen[s] = job
    BY <2>3 DEF Moved
  <2>5. seen[s] = job /\ job \in Jobs
    BY <2>1, <2>4
  <2>6. /\ new.state = got[s].state
        /\ new.signed = job.signed
        /\ new.funding = job.funding
        /\ new.attempts = job.attempts
        /\ new.renewed = job.renewed
        /\ new.repaired = job.repaired
        /\ new.resumed = job.resumed
    BY <2>1, <2>5, JobFields DEF Jobs
  <2>7. Moved(s, got[s].state) /\ KeepsMarks /\ KeepsFunding
    <3>. HIDE DEF new
    <3>. QED
      BY <2>3, <2>4, <2>6 DEF Moved, KeepsMarks, KeepsFunding
  <2>8. To(s, IF got[s].state = "succeeded" THEN "done" ELSE "poll") /\ JobOnly
    BY <2>1, <2>3 DEF Finish, Transition, Superseded, Moved, To, Goto, Elsewhere, ledger,
       history, JobOnly
  <2>. QED
    BY <2>7, <2>8 DEF Finishes, Finish
<1>2. CASE Superseded(s)
  BY <1>2 DEF Finish, Finishes, JobOnly, Transition, Superseded, Stays, To, Goto, Elsewhere,
     ledger, history
<1>. QED
  BY <1>1, <1>2 DEF Finish

ClaimsRepair(s) ==
  /\ pc[s] = "claim repair"
  /\ \/ /\ Moved(s, "funded") /\ KeepsFunding /\ job'.renewed = job.renewed
        /\ job'.repaired /\ job'.resumed = job.repaired
        /\ To(s, "repair row")
     \/ Stays(s) /\ To(s, "poll")
  /\ JobOnly

\* ClaimRepair, in terms of what it writes.
LEMMA ClaimRepairDoes ==
  ASSUME TypeOK, JobSnapshots, SoundJobs, Place, NEW s \in Servers, ClaimRepair(s)
  PROVE ClaimsRepair(s)
<1>. DEFINE new == IF seen[s].repaired THEN [seen[s] EXCEPT !.state = "funded", !.resumed = TRUE]
                              ELSE [seen[s] EXCEPT !.state = "funded", !.repaired = TRUE]
<1>1. CASE Transition(s, new)
  <2>1. seen[s] \in Jobs /\ got[s] \in Rows /\ seen[s].state # "absent"
    BY DEF TypeOK, Place, Standing, ClaimRepair, Opening, Renewing, Settling
  <2>2. new \in Jobs
    BY <2>1, JobFields DEF Jobs, ClaimRepair, Place, Standing
  <2>3. Moved(s, new.state)
        /\ job'.signed = new.signed /\ job'.funding = new.funding /\ job'.attempts = new.attempts
        /\ job'.renewed = new.renewed /\ job'.repaired = new.repaired /\ job'.resumed = new.resumed
    <3>. HIDE DEF new
    <3>. QED
      BY <1>1, <2>1, <2>2, TransitionWrites
  <2>4. seen[s] = job
    BY <2>3 DEF Moved
  <2>5. seen[s] = job /\ job \in Jobs
    BY <2>1, <2>4
  <2>6. /\ new.state = "funded"
        /\ new.repaired = TRUE
        /\ new.resumed = job.repaired
        /\ new.signed = job.signed
        /\ new.funding = job.funding
        /\ new.attempts = job.attempts
        /\ new.renewed = job.renewed
    BY <2>1, <2>5, JobFields DEF Jobs, Place, Standing, SoundJobs, SoundJob, ClaimRepair
  <2>7. Moved(s, "funded") /\ KeepsFunding /\ job'.renewed = job.renewed
              /\ job'.repaired /\ job'.resumed = job.repaired
    <3>. HIDE DEF new
    <3>. QED
      BY <2>3, <2>4, <2>6 DEF Moved, KeepsMarks, KeepsFunding
  <2>8. To(s, "repair row") /\ JobOnly
    BY <2>1, <2>3 DEF ClaimRepair, Transition, Superseded, Moved, To, Goto, Elsewhere, ledger,
       history, JobOnly
  <2>. QED
    BY <2>7, <2>8 DEF ClaimsRepair, ClaimRepair
<1>2. CASE Superseded(s)
  BY <1>2 DEF ClaimRepair, ClaimsRepair, JobOnly, Transition, Superseded, Stays, To, Goto,
     Elsewhere, ledger, history
<1>. QED
  BY <1>1, <1>2 DEF ClaimRepair

\* The types of the fields of a session row, and raising its version changes no other.
LEMMA RowV ==
  ASSUME NEW r \in Rows
  PROVE /\ r.version \in Nat /\ r.funding \in Envelopes \cup {None}
        /\ \A n \in Nat :
             /\ [r EXCEPT !.version = n] \in Rows
             /\ [r EXCEPT !.version = n].version = n
             /\ [r EXCEPT !.version = n].state = r.state
             /\ [r EXCEPT !.version = n].funding = r.funding
  BY DEF Rows

\* What store.update writes: the session row as intended, one version on.
LEMMA UpdateWrites ==
  ASSUME TypeOK, NEW s \in Servers, NEW base, NEW new \in Rows, UpdateRow(s, base, new)
  PROVE RowMoved(s, new.state, new.funding) /\ row.version = base.version
<1>1. row.version + 1 \in Nat
  BY RowV DEF TypeOK
<1>2. row' = [new EXCEPT !.version = row.version + 1] /\ got' = [got EXCEPT ![s] = row']
      /\ row.version = base.version
  BY DEF UpdateRow
<1>. QED
  BY <1>1, <1>2, RowV DEF RowMoved

RecordsFunding(s) ==
  /\ pc[s] = "record"
  /\ got[s] = row
  /\ RowMoved(s, "prepared", "original") /\ To(s, "seal")
  /\ RowOnly

\* RecordFunding, in terms of what it writes.
LEMMA RecordFundingDoes ==
  ASSUME TypeOK, RowSnapshots, Place, NEW s \in Servers, RecordFunding(s)
  PROVE RecordsFunding(s)
<1>. DEFINE new == [got[s] EXCEPT !.funding = "original"]
<1>1. row \in Rows /\ got[s] = row /\ row.state = "prepared"
  BY DEF TypeOK, RowSnapshots, UpdateRow, Place, Standing, RecordFunding
<1>2. new \in Rows /\ new.state = row.state /\ new.funding = "original"
  BY <1>1, RowV DEF Rows, Envelopes
<1>3. UpdateRow(s, got[s], new) => RowMoved(s, new.state, new.funding)
  <2>. HIDE DEF new
  <2>. QED
    BY <1>2, UpdateWrites
<1>. QED
  BY <1>1, <1>2, <1>3 DEF RecordFunding, RecordsFunding, RowOnly, Goto, To, Elsewhere, ledger,
     history

FundsRow(s) ==
  /\ pc[s] = "fund row"
  /\ got[s] = row
  /\ RowMoved(s, "funding", row.funding) /\ To(s, "submit")
  /\ RowOnly

\* FundRow, in terms of what it writes.
LEMMA FundRowDoes ==
  ASSUME TypeOK, RowSnapshots, Place, NEW s \in Servers, FundRow(s)
  PROVE FundsRow(s)
<1>. DEFINE new == [got[s] EXCEPT !.state = "funding"]
<1>1. row \in Rows /\ got[s] = row
  BY DEF TypeOK, RowSnapshots, UpdateRow, Place, Standing, FundRow
<1>2. new \in Rows /\ new.state = "funding" /\ new.funding = row.funding
  BY <1>1, RowV DEF Rows
<1>3. UpdateRow(s, got[s], new) => RowMoved(s, new.state, new.funding)
  <2>. HIDE DEF new
  <2>. QED
    BY <1>2, UpdateWrites
<1>. QED
  BY <1>1, <1>2, <1>3 DEF FundRow, FundsRow, RowOnly, Goto, To, Elsewhere, ledger, history

RenewsRow(s) ==
  /\ pc[s] = "renew row"
  /\ \/ RowMoved(s, "prepared", "renewal") /\ To(s, "seal renewal") /\ row.state = "funding"
     \/ row' = row /\ got' = got /\ To(s, "done")
  /\ RowOnly

\* RenewRow, in terms of what it writes.
LEMMA RenewRowDoes ==
  ASSUME TypeOK, RowSnapshots, Place, NEW s \in Servers, RenewRow(s)
  PROVE RenewsRow(s)
<1>. DEFINE new == [row EXCEPT !.state = "prepared", !.funding = "renewal"]
<1>1. row \in Rows
  BY DEF TypeOK
<1>2. new \in Rows /\ new.state = "prepared" /\ new.funding = "renewal"
  BY <1>1, RowV DEF Rows, Envelopes
<1>3. UpdateRow(s, row, new) => RowMoved(s, new.state, new.funding)
  <2>. HIDE DEF new
  <2>. QED
    BY <1>2, UpdateWrites
<1>. QED
  BY <1>1, <1>2, <1>3 DEF RenewRow, RenewsRow, RowOnly, Goto, To, Elsewhere, ledger, history

RunsRow(s) ==
  /\ pc[s] = "run row"
  /\ \/ RowMoved(s, "running", row.funding) /\ To(s, "launch") /\ row.state = "funded"
     \/ row' = row /\ got' = got /\ To(s, "done")
  /\ RowOnly

\* RunRow, in terms of what it writes.
LEMMA RunRowDoes ==
  ASSUME TypeOK, RowSnapshots, Place, NEW s \in Servers, RunRow(s)
  PROVE RunsRow(s)
<1>. DEFINE new == [row EXCEPT !.state = "running"]
<1>1. row \in Rows
  BY DEF TypeOK
<1>2. new \in Rows /\ new.state = "running" /\ new.funding = row.funding
  BY <1>1, RowV DEF Rows
<1>3. UpdateRow(s, row, new) => RowMoved(s, new.state, new.funding)
  <2>. HIDE DEF new
  <2>. QED
    BY <1>2, UpdateWrites
<1>. QED
  BY <1>1, <1>2, <1>3 DEF RunRow, RunsRow, RowOnly, Goto, To, Elsewhere, ledger, history

RepairsRow(s) ==
  /\ pc[s] = "repair row"
  /\ \/ RowMoved(s, "funded", row.funding) /\ To(s, "poll") /\ row.state = "failed"
     \/ row' = row /\ got' = got /\ To(s, "done")
  /\ RowOnly

\* RepairRow, in terms of what it writes.
LEMMA RepairRowDoes ==
  ASSUME TypeOK, RowSnapshots, Place, NEW s \in Servers, RepairRow(s)
  PROVE RepairsRow(s)
<1>. DEFINE new == [row EXCEPT !.state = "funded"]
<1>1. row \in Rows
  BY DEF TypeOK
<1>2. new \in Rows /\ new.state = "funded" /\ new.funding = row.funding
  BY <1>1, RowV DEF Rows
<1>3. UpdateRow(s, row, new) => RowMoved(s, new.state, new.funding)
  <2>. HIDE DEF new
  <2>. QED
    BY <1>2, UpdateWrites
<1>. QED
  BY <1>1, <1>2, <1>3 DEF RepairRow, RepairsRow, RowOnly, Goto, To, Elsewhere, ledger, history

Reconciles(s) ==
  /\ pc[s] = "reconcile"
  /\ \/ /\ got[s].funding = landed.envelope
        /\ row.version = got[s].version
        /\ RowMoved(s, IF landed.ok THEN "funded" ELSE "failed", got[s].funding)
     \/ row' = row /\ got' = [got EXCEPT ![s] = row]
     \/ row' = row /\ got' = got
  /\ To(s, "settle")
  /\ RowOnly

\* What reconcileFunding does to the session.
LEMMA ReconcileDoes ==
  ASSUME TypeOK, NEW s \in Servers, Reconcile(s)
  PROVE Reconciles(s)
<1>. DEFINE st == IF landed.ok THEN "funded" ELSE "failed"
            new == [got[s] EXCEPT !.state = st]
<1>1. got[s] \in Rows
  BY DEF TypeOK
<1>2. new \in Rows /\ new.state = st /\ new.funding = got[s].funding
  BY <1>1 DEF Rows
<1>3. UpdateRow(s, got[s], new) => RowMoved(s, st, got[s].funding)
  <2>1. UpdateRow(s, got[s], new) => RowMoved(s, new.state, new.funding)
    <3>. HIDE DEF new
    <3>. QED
      BY <1>2, UpdateWrites
  <2>. QED
    BY <2>1, <1>2
<1>. QED
  BY <1>3 DEF Reconcile, Reconciles, RowOnly, Goto, To, Elsewhere, ledger, history

Begins(s) ==
  /\ pc[s] = "start"
  /\ \/ /\ job.state = "absent"
        /\ job' \in Jobs /\ job'.version = 0 /\ job'.state = "initializing"
        /\ job'.signed = None /\ job'.funding = None /\ job'.attempts = 0
        /\ ~job'.renewed /\ ~job'.repaired /\ ~job'.resumed
        /\ seen' = [seen EXCEPT ![s] = job']
        /\ To(s, "create")
     \/ /\ job.state # "absent" /\ job' = job /\ seen' = seen
        /\ To(s, IF job.state = "initializing" THEN "done" ELSE "poll")
  /\ JobOnly

\* What the insert that opens the job does, and a controller that finds a job.
LEMMA BeginDoes ==
  ASSUME TypeOK, NEW s \in Servers, Begin(s)
  PROVE Begins(s)
<1>1. 0 \in 0 .. MaxAttempts
  BY DEF MaxAttempts
<1>2. /\ NoJob.version = 0 /\ NoJob.signed = None /\ NoJob.funding = None /\ NoJob.attempts = 0
      /\ ~NoJob.renewed /\ ~NoJob.repaired /\ ~NoJob.resumed
  BY DEF NoJob
<1>3. NoJob \in Jobs
  <2>. HIDE DEF MaxAttempts
  <2>. QED
    BY <1>1 DEF NoJob, Jobs
<1>. DEFINE new == [NoJob EXCEPT !.state = "initializing"]
<1>4. /\ new \in Jobs /\ new.state = "initializing"
      /\ new.version = NoJob.version /\ new.signed = NoJob.signed /\ new.funding = NoJob.funding
      /\ new.attempts = NoJob.attempts /\ new.renewed = NoJob.renewed
      /\ new.repaired = NoJob.repaired /\ new.resumed = NoJob.resumed
  BY <1>3 DEF Jobs
<1>. HIDE DEF new
<1>. QED
  BY <1>2, <1>4 DEF Begin, Begins, JobOnly, Goto, To, Elsewhere, ledger, history, new

Creates(s) ==
  /\ pc[s] = "create"
  /\ row' \in Rows /\ row'.version = 0 /\ row'.state = "prepared" /\ row'.funding = None
  /\ got' = [got EXCEPT ![s] = row']
  /\ To(s, "attach")
  /\ RowOnly

\* What the insert of the session does.
LEMMA CreateDoes ==
  ASSUME TypeOK, NEW s \in Servers, Create(s)
  PROVE Creates(s)
<1>1. [NoRow EXCEPT !.state = "prepared"]
        = [state |-> "prepared", version |-> 0, funding |-> None, logs |-> {}]
  BY DEF NoRow
<1>2. [NoRow EXCEPT !.state = "prepared"] \in Rows
  BY <1>1 DEF Rows
<1>. QED
  BY <1>1, <1>2 DEF Create, Creates, RowOnly, Goto, To, ledger, history

Ends(l) ==
  /\ child[l] = "alive" /\ row.state = "running"
  /\ row' \in Rows /\ row'.version = row.version + 1
  /\ row'.state \in {"succeeded", "failed"} /\ row'.funding = row.funding
  /\ child' = [child EXCEPT ![l] = "ended"] /\ cooled' = FALSE
  /\ UNCHANGED <<job, pc, seen, got, landed, sequence, expired, actors, crashes,
                 submitted, launches>>

\* What the runner writes when its process ends.
LEMMA EndDoes ==
  ASSUME TypeOK, NEW l \in Labels, End(l)
  PROVE Ends(l)
<1>1. row \in Rows /\ row.version + 1 \in Nat
  BY RowV DEF TypeOK
<1>2. CASE row' = [row EXCEPT !.state = "succeeded", !.version = row.version + 1]
  <2>1. row' \in Rows /\ row'.version = row.version + 1 /\ row'.state = "succeeded"
        /\ row'.funding = row.funding
    BY <1>1, <1>2 DEF Rows
  <2>. QED
    BY <2>1 DEF End, Ends, ledger, history
<1>3. ASSUME NEW mark \in Marks,
             row' = [row EXCEPT !.state = "failed", !.version = row.version + 1,
                                !.logs = row.logs \cup {mark}]
      PROVE /\ row' \in Rows /\ row'.version = row.version + 1 /\ row'.state = "failed"
            /\ row'.funding = row.funding
  BY <1>1, <1>3 DEF Rows
<1>. QED
  BY <1>2, <1>3 DEF End, Ends, ledger, history

ServerStep(s) ==
  \/ Begins(s) \/ Creates(s) \/ Attaches(s) \/ Prepare(s) \/ RecordsFunding(s) \/ Seals(s)
  \/ Poll(s) \/ PollsExhausted(s) \/ Session(s) \/ Throw(s) \/ Blocks(s) \/ ClaimsFunding(s)
  \/ FundsRow(s) \/ Submit(s) \/ Reconciles(s) \/ SettlesFunded(s) \/ SettlesFailed(s)
  \/ SettleOpen(s) \/ ClaimsRetry(s) \/ ProveUnused(s) \/ ClaimsRenewal(s)
  \/ PrepareRenewal(s) \/ RenewsRow(s) \/ SealsRenewal(s) \/ ClaimsRun(s) \/ RunsRow(s)
  \/ Launch(s) \/ Finishes(s) \/ ProveRepair(s) \/ ClaimsRepair(s) \/ RepairsRow(s)
  \/ Crash(s)

Step ==
  \/ \E s \in Servers : ServerStep(s)
  \/ \E e \in Envelopes : Land(e)
  \/ \E l \in Labels : Ends(l)
  \/ Expire \/ OwnerMoves \/ Act \/ Cool

\* Every step of the job is one of the steps just described.
LEMMA StepsAre == Inv /\ Next => Step
  BY AttachDoes, SealDoes, BlockDoes, ClaimFundingDoes, SettleFundedDoes, SettleFailedDoes,
     ClaimRetryDoes, ClaimRenewalDoes, SealRenewalDoes, ClaimRunDoes, FinishDoes,
     ClaimRepairDoes, RecordFundingDoes, FundRowDoes, RenewRowDoes, RunRowDoes, RepairRowDoes,
     ReconcileDoes, BeginDoes, CreateDoes, EndDoes DEF Inv, Next, Controller, Step, ServerStep

------------------------------------------------------------------------------
(* Types *)

\* A step that writes a well-typed job row and nothing of the session keeps types.
LEMMA JobTyped ==
  ASSUME TypeOK, NEW s \in Servers, JobOnly, pc' \in [Servers -> Steps],
         \/ job' \in Jobs /\ seen' = [seen EXCEPT ![s] = job']
         \/ job' = job /\ seen' = seen
  PROVE  TypeOK'
  BY DEF TypeOK, JobOnly

\* What the poll loop can decide, for any job and any session.
LEMMA Decisions ==
  ASSUME NEW j \in Jobs, NEW r \in Rows, j.state \notin {"absent", "initializing", "succeeded",
         "blocked"}
  PROVE  Decide(j, r) \in {"throw", "prove repair", "done", "claim funding", "reconcile", "settle",
                           "claim run", "finish", "poll"}
<1>1. j.state \in {"prepared", "funding", "funded", "running", "failed"}
  BY DEF Jobs
<1>. QED
  BY <1>1 DEF Decide

\* The empty rows are rows.
LEMMA Blank == NoJob \in Jobs /\ NoRow \in Rows
<1>1. 0 \in 0 .. MaxAttempts
  BY DEF MaxAttempts
<1>. HIDE DEF MaxAttempts
<1>. QED
  BY <1>1 DEF NoJob, Jobs, NoRow, Rows

\* A step that writes a well-typed session row and nothing of the job keeps types.
LEMMA RowTyped ==
  ASSUME TypeOK, NEW s \in Servers, RowOnly, pc' \in [Servers -> Steps],
         \/ row' \in Rows /\ got' = [got EXCEPT ![s] = row']
         \/ row' = row /\ got' = got
  PROVE  TypeOK'
  BY DEF TypeOK, RowOnly

\* Every step keeps the types.
LEMMA Typed == Inv /\ [Next]_vars => TypeOK'
<1>. SUFFICES ASSUME Inv, Step \/ UNCHANGED vars PROVE TypeOK'
  BY StepsAre
<1>0. TypeOK /\ Place
  BY DEF Inv
<1>1. pc \in [Servers -> Steps]
  BY <1>0 DEF TypeOK
<1>2. ASSUME NEW s \in Servers, Begins(s) PROVE TypeOK'
  <2>1. pc' \in [Servers -> Steps]
    BY <1>1, <1>2 DEF Begins, To, Steps
  <2>2. JobOnly /\ \/ job' \in Jobs /\ seen' = [seen EXCEPT ![s] = job']
                   \/ job' = job /\ seen' = seen
    BY <1>2 DEF Begins
  <2>. QED
    BY <1>0, <2>1, <2>2, JobTyped
<1>3. ASSUME NEW s \in Servers, Creates(s) PROVE TypeOK'
  <2>1. pc' \in [Servers -> Steps]
    BY <1>1, <1>3 DEF Creates, To, Steps
  <2>2. RowOnly /\ \/ row' \in Rows /\ got' = [got EXCEPT ![s] = row']
                   \/ row' = row /\ got' = got
    BY <1>3 DEF Creates, RowMoved
  <2>. QED
    BY <1>0, <2>1, <2>2, RowTyped
<1>4. ASSUME NEW s \in Servers, Attaches(s) PROVE TypeOK'
  <2>1. pc' \in [Servers -> Steps]
    BY <1>1, <1>4 DEF Attaches, To, Steps
  <2>2. JobOnly /\ \/ job' \in Jobs /\ seen' = [seen EXCEPT ![s] = job']
                   \/ job' = job /\ seen' = seen
    BY <1>4 DEF Attaches, Moved, Stays
  <2>. QED
    BY <1>0, <2>1, <2>2, JobTyped
<1>5. ASSUME NEW s \in Servers, Prepare(s) PROVE TypeOK'
  <2>1. pc' \in [Servers -> Steps]
    BY <1>1, <1>5 DEF Prepare, Goto, Steps
  <2>. QED
    BY <1>0, <1>5, <2>1 DEF Prepare, TypeOK, Elsewhere, ledger, history
<1>6. ASSUME NEW s \in Servers, RecordsFunding(s) PROVE TypeOK'
  <2>1. pc' \in [Servers -> Steps]
    BY <1>1, <1>6 DEF RecordsFunding, To, Steps
  <2>2. RowOnly /\ \/ row' \in Rows /\ got' = [got EXCEPT ![s] = row']
                   \/ row' = row /\ got' = got
    BY <1>6 DEF RecordsFunding, RowMoved
  <2>. QED
    BY <1>0, <2>1, <2>2, RowTyped
<1>7. ASSUME NEW s \in Servers, Seals(s) PROVE TypeOK'
  <2>1. pc' \in [Servers -> Steps]
    BY <1>1, <1>7 DEF Seals, To, Steps
  <2>2. JobOnly /\ \/ job' \in Jobs /\ seen' = [seen EXCEPT ![s] = job']
                   \/ job' = job /\ seen' = seen
    BY <1>7 DEF Seals, Moved, Stays
  <2>. QED
    BY <1>0, <2>1, <2>2, JobTyped
<1>8. ASSUME NEW s \in Servers, Poll(s) PROVE TypeOK'
  <2>1. pc' \in [Servers -> Steps]
    BY <1>1, <1>8 DEF Poll, Goto, Steps
  <2>. QED
    BY <1>0, <1>8, <2>1 DEF Poll, TypeOK, Elsewhere, ledger, history
<1>9. ASSUME NEW s \in Servers, PollsExhausted(s) PROVE TypeOK'
  <2>1. pc' \in [Servers -> Steps]
    BY <1>1, <1>9 DEF PollsExhausted, Goto, Steps
  <2>. QED
    BY <1>0, <1>9, <2>1 DEF PollsExhausted, TypeOK, Elsewhere, ledger, history
<1>10. ASSUME NEW s \in Servers, Session(s) PROVE TypeOK'
  <2>1. Decide(seen[s], row) \in {"throw", "prove repair", "done", "claim funding", "reconcile",
                                   "settle", "claim run", "finish", "poll"}
    BY <1>0, <1>10, Decisions DEF Session, TypeOK, Place, Standing
  <2>2. pc' \in [Servers -> Steps]
    BY <1>1, <1>10, <2>1 DEF Session, Goto, Steps, Thrown
  <2>. QED
    BY <1>0, <1>10, <2>2 DEF Session, TypeOK, Elsewhere, ledger, history
<1>11. ASSUME NEW s \in Servers, Throw(s) PROVE TypeOK'
  <2>1. pc' \in [Servers -> Steps]
    BY <1>1, <1>11 DEF Throw, Goto, Steps, Thrown
  <2>. QED
    BY <1>0, <1>11, <2>1 DEF Throw, TypeOK, Elsewhere, ledger, history
<1>12. ASSUME NEW s \in Servers, Blocks(s) PROVE TypeOK'
  <2>1. pc' \in [Servers -> Steps]
    BY <1>1, <1>12 DEF Blocks, To, Steps
  <2>2. JobOnly /\ \/ job' \in Jobs /\ seen' = [seen EXCEPT ![s] = job']
                   \/ job' = job /\ seen' = seen
    BY <1>12 DEF Blocks, Moved, Stays
  <2>. QED
    BY <1>0, <2>1, <2>2, JobTyped
<1>13. ASSUME NEW s \in Servers, ClaimsFunding(s) PROVE TypeOK'
  <2>1. pc' \in [Servers -> Steps]
    BY <1>1, <1>13 DEF ClaimsFunding, To, Steps
  <2>2. JobOnly /\ \/ job' \in Jobs /\ seen' = [seen EXCEPT ![s] = job']
                   \/ job' = job /\ seen' = seen
    BY <1>13 DEF ClaimsFunding, Moved, Stays
  <2>. QED
    BY <1>0, <2>1, <2>2, JobTyped
<1>14. ASSUME NEW s \in Servers, FundsRow(s) PROVE TypeOK'
  <2>1. pc' \in [Servers -> Steps]
    BY <1>1, <1>14 DEF FundsRow, To, Steps
  <2>2. RowOnly /\ \/ row' \in Rows /\ got' = [got EXCEPT ![s] = row']
                   \/ row' = row /\ got' = got
    BY <1>14 DEF FundsRow, RowMoved
  <2>. QED
    BY <1>0, <2>1, <2>2, RowTyped
<1>15. ASSUME NEW s \in Servers, Submit(s) PROVE TypeOK'
  <2>1. pc' \in [Servers -> Steps]
    BY <1>1, <1>15 DEF Submit, Goto, Steps
  <2>2. seen[s].signed \in Envelopes
    BY <1>0, <1>15, JobFields DEF Submit, TypeOK, Place, Standing
  <2>3. submitted' \in [Envelopes -> Nat]
    BY <1>0, <1>15, <2>2 DEF Submit, TypeOK
  <2>. QED
    BY <1>0, <1>15, <2>1, <2>3 DEF Submit, TypeOK, ledger
<1>16. ASSUME NEW s \in Servers, Reconciles(s) PROVE TypeOK'
  <2>1. pc' \in [Servers -> Steps]
    BY <1>1, <1>16 DEF Reconciles, To, Steps
  <2>2. RowOnly /\ row' \in Rows /\ got' \in [Servers -> Rows]
    BY <1>0, <1>16 DEF Reconciles, RowMoved, TypeOK
  <2>. QED
    BY <1>0, <2>1, <2>2 DEF TypeOK, RowOnly
<1>17. ASSUME NEW s \in Servers, SettlesFunded(s) PROVE TypeOK'
  <2>1. pc' \in [Servers -> Steps]
    BY <1>1, <1>17 DEF SettlesFunded, To, Steps
  <2>2. JobOnly /\ \/ job' \in Jobs /\ seen' = [seen EXCEPT ![s] = job']
                   \/ job' = job /\ seen' = seen
    BY <1>17 DEF SettlesFunded, Moved, Stays
  <2>. QED
    BY <1>0, <2>1, <2>2, JobTyped
<1>18. ASSUME NEW s \in Servers, SettlesFailed(s) PROVE TypeOK'
  <2>1. pc' \in [Servers -> Steps]
    BY <1>1, <1>18 DEF SettlesFailed, To, Steps
  <2>2. JobOnly /\ \/ job' \in Jobs /\ seen' = [seen EXCEPT ![s] = job']
                   \/ job' = job /\ seen' = seen
    BY <1>18 DEF SettlesFailed, Moved, Stays
  <2>. QED
    BY <1>0, <2>1, <2>2, JobTyped
<1>19. ASSUME NEW s \in Servers, SettleOpen(s) PROVE TypeOK'
  <2>1. \E step \in Steps : pc' = [pc EXCEPT ![s] = step]
    BY <1>19 DEF SettleOpen, Goto, Steps
  <2>2. pc' \in [Servers -> Steps]
    BY <1>0, <2>1 DEF TypeOK
  <2>. QED
    BY <1>0, <1>19, <2>2 DEF SettleOpen, TypeOK, Elsewhere, ledger, history
<1>20. ASSUME NEW s \in Servers, ClaimsRetry(s) PROVE TypeOK'
  <2>1. pc' \in [Servers -> Steps]
    BY <1>1, <1>20 DEF ClaimsRetry, To, Steps
  <2>2. JobOnly /\ \/ job' \in Jobs /\ seen' = [seen EXCEPT ![s] = job']
                   \/ job' = job /\ seen' = seen
    BY <1>20 DEF ClaimsRetry, Moved, Stays
  <2>. QED
    BY <1>0, <2>1, <2>2, JobTyped
<1>21. ASSUME NEW s \in Servers, ProveUnused(s) PROVE TypeOK'
  <2>1. pc' \in [Servers -> Steps]
    BY <1>1, <1>21 DEF ProveUnused, Goto, Steps
  <2>. QED
    BY <1>0, <1>21, <2>1 DEF ProveUnused, TypeOK, Elsewhere, ledger, history
<1>22. ASSUME NEW s \in Servers, ClaimsRenewal(s) PROVE TypeOK'
  <2>1. pc' \in [Servers -> Steps]
    BY <1>1, <1>22 DEF ClaimsRenewal, To, Steps
  <2>2. JobOnly /\ \/ job' \in Jobs /\ seen' = [seen EXCEPT ![s] = job']
                   \/ job' = job /\ seen' = seen
    BY <1>22 DEF ClaimsRenewal, Moved, Stays
  <2>. QED
    BY <1>0, <2>1, <2>2, JobTyped
<1>23. ASSUME NEW s \in Servers, PrepareRenewal(s) PROVE TypeOK'
  <2>1. pc' \in [Servers -> Steps]
    BY <1>1, <1>23 DEF PrepareRenewal, Goto, Steps
  <2>. QED
    BY <1>0, <1>23, <2>1 DEF PrepareRenewal, TypeOK, Elsewhere, ledger, history
<1>24. ASSUME NEW s \in Servers, RenewsRow(s) PROVE TypeOK'
  <2>1. pc' \in [Servers -> Steps]
    BY <1>1, <1>24 DEF RenewsRow, To, Steps
  <2>2. RowOnly /\ \/ row' \in Rows /\ got' = [got EXCEPT ![s] = row']
                   \/ row' = row /\ got' = got
    BY <1>24 DEF RenewsRow, RowMoved
  <2>. QED
    BY <1>0, <2>1, <2>2, RowTyped
<1>25. ASSUME NEW s \in Servers, SealsRenewal(s) PROVE TypeOK'
  <2>1. pc' \in [Servers -> Steps]
    BY <1>1, <1>25 DEF SealsRenewal, To, Steps
  <2>2. JobOnly /\ \/ job' \in Jobs /\ seen' = [seen EXCEPT ![s] = job']
                   \/ job' = job /\ seen' = seen
    BY <1>25 DEF SealsRenewal, Moved, Stays
  <2>. QED
    BY <1>0, <2>1, <2>2, JobTyped
<1>26. ASSUME NEW s \in Servers, ClaimsRun(s) PROVE TypeOK'
  <2>1. pc' \in [Servers -> Steps]
    BY <1>1, <1>26 DEF ClaimsRun, To, Steps
  <2>2. JobOnly /\ \/ job' \in Jobs /\ seen' = [seen EXCEPT ![s] = job']
                   \/ job' = job /\ seen' = seen
    BY <1>26 DEF ClaimsRun, Moved, Stays
  <2>. QED
    BY <1>0, <2>1, <2>2, JobTyped
<1>27. ASSUME NEW s \in Servers, RunsRow(s) PROVE TypeOK'
  <2>1. pc' \in [Servers -> Steps]
    BY <1>1, <1>27 DEF RunsRow, To, Steps
  <2>2. RowOnly /\ \/ row' \in Rows /\ got' = [got EXCEPT ![s] = row']
                   \/ row' = row /\ got' = got
    BY <1>27 DEF RunsRow, RowMoved
  <2>. QED
    BY <1>0, <2>1, <2>2, RowTyped
<1>28. ASSUME NEW s \in Servers, Launch(s) PROVE TypeOK'
  <2>1. pc' \in [Servers -> Steps]
    BY <1>1, <1>28 DEF Launch, Goto, Steps
  <2>2. Label(seen[s]) \in Labels
    BY DEF Label, Labels
  <2>3. launches' \in [Labels -> Nat] /\ child' \in [Labels -> {"none", "alive", "orphan", "ended"}]
    BY <1>0, <1>28, <2>2 DEF Launch, TypeOK
  <2>. QED
    BY <1>0, <1>28, <2>1, <2>3 DEF Launch, TypeOK, ledger
<1>29. ASSUME NEW s \in Servers, Finishes(s) PROVE TypeOK'
  <2>1. pc' \in [Servers -> Steps]
    BY <1>1, <1>29 DEF Finishes, To, Steps
  <2>2. JobOnly /\ \/ job' \in Jobs /\ seen' = [seen EXCEPT ![s] = job']
                   \/ job' = job /\ seen' = seen
    BY <1>29 DEF Finishes, Moved, Stays
  <2>. QED
    BY <1>0, <2>1, <2>2, JobTyped
<1>30. ASSUME NEW s \in Servers, ProveRepair(s) PROVE TypeOK'
  <2>1. pc' \in [Servers -> Steps]
    BY <1>1, <1>30 DEF ProveRepair, Goto, Steps
  <2>. QED
    BY <1>0, <1>30, <2>1 DEF ProveRepair, TypeOK, Elsewhere, ledger, history
<1>31. ASSUME NEW s \in Servers, ClaimsRepair(s) PROVE TypeOK'
  <2>1. pc' \in [Servers -> Steps]
    BY <1>1, <1>31 DEF ClaimsRepair, To, Steps
  <2>2. JobOnly /\ \/ job' \in Jobs /\ seen' = [seen EXCEPT ![s] = job']
                   \/ job' = job /\ seen' = seen
    BY <1>31 DEF ClaimsRepair, Moved, Stays
  <2>. QED
    BY <1>0, <2>1, <2>2, JobTyped
<1>32. ASSUME NEW s \in Servers, RepairsRow(s) PROVE TypeOK'
  <2>1. pc' \in [Servers -> Steps]
    BY <1>1, <1>32 DEF RepairsRow, To, Steps
  <2>2. RowOnly /\ \/ row' \in Rows /\ got' = [got EXCEPT ![s] = row']
                   \/ row' = row /\ got' = got
    BY <1>32 DEF RepairsRow, RowMoved
  <2>. QED
    BY <1>0, <2>1, <2>2, RowTyped
<1>33. ASSUME NEW s \in Servers, Crash(s) PROVE TypeOK'
  <2>1. pc' \in [Servers -> Steps]
    BY <1>1, <1>33 DEF Crash, Goto, Steps
  <2>2. PICK lost \in SUBSET {l \in Labels : child[l] = "alive"} :
          child' = [l \in Labels |-> IF l \in lost THEN "orphan" ELSE child[l]]
    BY <1>33 DEF Crash
  <2>3. child' \in [Labels -> {"none", "alive", "orphan", "ended"}]
    BY <1>0, <2>2 DEF TypeOK
  <2>4. seen' \in [Servers -> Jobs] /\ got' \in [Servers -> Rows] /\ crashes' \in 0 .. MaxCrashes
    BY <1>0, <1>33, Blank, BurnerAssumption DEF Crash, TypeOK
  <2>. QED
    BY <1>0, <1>33, <2>1, <2>3, <2>4 DEF Crash, TypeOK, ledger, history
<1>34. ASSUME NEW e \in Envelopes, Land(e) PROVE TypeOK'
  BY <1>0, <1>34, <1>1 DEF Land, ledger, history, TypeOK, Envelopes
<1>35. ASSUME NEW l \in Labels, Ends(l) PROVE TypeOK'
  BY <1>0, <1>35, <1>1 DEF Ends, TypeOK
<1>36. CASE Expire
  BY <1>0, <1>36, <1>1 DEF Expire, ledger, history, TypeOK
<1>37. CASE OwnerMoves
  BY <1>0, <1>37, <1>1 DEF OwnerMoves, ledger, history, TypeOK
<1>38. CASE Act
  BY <1>0, <1>38, <1>1 DEF Act, ledger, history, TypeOK
<1>39. CASE Cool
  BY <1>0, <1>39, <1>1 DEF Cool, ledger, history, TypeOK
<1>40. CASE UNCHANGED vars
  BY <1>0, <1>1, <1>40 DEF vars, ledger, history, TypeOK
<1>. QED
  BY <1>2, <1>3, <1>4, <1>5, <1>6, <1>7, <1>8, <1>9, <1>10, <1>11, <1>12, <1>13, <1>14, <1>15,
     <1>16, <1>17, <1>18, <1>19, <1>20, <1>21, <1>22, <1>23, <1>24, <1>25, <1>26, <1>27, <1>28,
     <1>29, <1>30, <1>31, <1>32, <1>33, <1>34, <1>35, <1>36, <1>37, <1>38, <1>39, <1>40
     DEF Step, ServerStep

------------------------------------------------------------------------------
(* Versions *)

\* A write of the job by s, which raises its version, makes every other snapshot stale.
LEMMA JobKnown ==
  ASSUME JobSnapshots, NEW s \in Servers, seen \in [Servers -> Jobs], job.version \in Nat,
         \A t \in Servers : seen[t].version \in Nat,
         seen' = [seen EXCEPT ![s] = job'], job'.version = job.version + 1,
         job'.state # "absent"
  PROVE  JobSnapshots'
  BY DEF JobSnapshots, Fresh

\* The same for the session row.
LEMMA RowKnown ==
  ASSUME RowSnapshots, NEW s \in Servers, got \in [Servers -> Rows], row.version \in Nat,
         \A t \in Servers : got[t].version \in Nat,
         got' = [got EXCEPT ![s] = row'], row'.version = row.version + 1,
         row'.state # "absent"
  PROVE  RowSnapshots'
  BY DEF RowSnapshots

\* A version of the job names one content, whoever read it.
LEMMA JobRemembered == Inv /\ [Next]_vars => JobSnapshots'
<1>. SUFFICES ASSUME Inv, Step \/ UNCHANGED vars PROVE JobSnapshots'
  BY StepsAre
<1>0. TypeOK /\ JobSnapshots /\ Place
  BY DEF Inv
<1>1. /\ pc \in [Servers -> Steps] /\ seen \in [Servers -> Jobs] /\ got \in [Servers -> Rows]
      /\ job.version \in Nat /\ row.version \in Nat
      /\ \A u \in Servers : seen[u].version \in Nat /\ got[u].version \in Nat
  BY <1>0, JobFields, RowV DEF TypeOK
<1>2. ASSUME NEW s \in Servers, Begins(s) PROVE JobSnapshots'
  BY <1>0, <1>2, <1>1 DEF Begins, To, JobOnly, JobSnapshots, Fresh, NoJob
<1>3. ASSUME NEW s \in Servers, Creates(s) PROVE JobSnapshots'
  BY <1>0, <1>3, <1>1 DEF Creates, RowMoved, To, RowOnly, JobSnapshots, Fresh
<1>4. ASSUME NEW s \in Servers, Attaches(s) PROVE JobSnapshots'
  <2>1. CASE Stays(s)
    BY <1>0, <2>1 DEF Stays, JobSnapshots, Fresh
  <2>2. CASE ~Stays(s)
    <3>1. /\ seen' = [seen EXCEPT ![s] = job'] /\ job'.version = job.version + 1
          /\ job'.state # "absent"
      BY <1>0, <1>4, <2>2 DEF Attaches, Moved
    <3>. QED
      BY <1>0, <1>1, <3>1, JobKnown
  <2>. QED
    BY <2>1, <2>2
<1>5. ASSUME NEW s \in Servers, Prepare(s) PROVE JobSnapshots'
  BY <1>0, <1>5, <1>1 DEF Prepare, Goto, Elsewhere, ledger, history, JobSnapshots, Fresh
<1>6. ASSUME NEW s \in Servers, RecordsFunding(s) PROVE JobSnapshots'
  BY <1>0, <1>6, <1>1 DEF RecordsFunding, RowMoved, To, RowOnly, JobSnapshots, Fresh
<1>7. ASSUME NEW s \in Servers, Seals(s) PROVE JobSnapshots'
  <2>1. CASE Stays(s)
    BY <1>0, <2>1 DEF Stays, JobSnapshots, Fresh
  <2>2. CASE ~Stays(s)
    <3>1. /\ seen' = [seen EXCEPT ![s] = job'] /\ job'.version = job.version + 1
          /\ job'.state # "absent"
      BY <1>0, <1>7, <2>2 DEF Seals, Moved
    <3>. QED
      BY <1>0, <1>1, <3>1, JobKnown
  <2>. QED
    BY <2>1, <2>2
<1>8. ASSUME NEW s \in Servers, Poll(s) PROVE JobSnapshots'
  BY <1>0, <1>8, <1>1 DEF Poll, Goto, Elsewhere, ledger, history, JobSnapshots, Fresh
<1>9. ASSUME NEW s \in Servers, PollsExhausted(s) PROVE JobSnapshots'
  BY <1>0, <1>9, <1>1 DEF PollsExhausted, Goto, Elsewhere, ledger, history, JobSnapshots, Fresh
<1>10. ASSUME NEW s \in Servers, Session(s) PROVE JobSnapshots'
  BY <1>0, <1>10, <1>1 DEF Session, Goto, Elsewhere, ledger, history, JobSnapshots, Fresh
<1>11. ASSUME NEW s \in Servers, Throw(s) PROVE JobSnapshots'
  BY <1>0, <1>11, <1>1 DEF Throw, Goto, Elsewhere, ledger, history, Thrown, JobSnapshots, Fresh
<1>12. ASSUME NEW s \in Servers, Blocks(s) PROVE JobSnapshots'
  <2>1. CASE Stays(s)
    BY <1>0, <2>1 DEF Stays, JobSnapshots, Fresh
  <2>2. CASE ~Stays(s)
    <3>1. /\ seen' = [seen EXCEPT ![s] = job'] /\ job'.version = job.version + 1
          /\ job'.state # "absent"
      BY <1>0, <1>12, <2>2 DEF Blocks, Moved
    <3>. QED
      BY <1>0, <1>1, <3>1, JobKnown
  <2>. QED
    BY <2>1, <2>2
<1>13. ASSUME NEW s \in Servers, ClaimsFunding(s) PROVE JobSnapshots'
  <2>1. CASE Stays(s)
    BY <1>0, <2>1 DEF Stays, JobSnapshots, Fresh
  <2>2. CASE ~Stays(s)
    <3>1. /\ seen' = [seen EXCEPT ![s] = job'] /\ job'.version = job.version + 1
          /\ job'.state # "absent"
      BY <1>0, <1>13, <2>2 DEF ClaimsFunding, Moved
    <3>. QED
      BY <1>0, <1>1, <3>1, JobKnown
  <2>. QED
    BY <2>1, <2>2
<1>14. ASSUME NEW s \in Servers, FundsRow(s) PROVE JobSnapshots'
  BY <1>0, <1>14, <1>1 DEF FundsRow, RowMoved, To, RowOnly, JobSnapshots, Fresh
<1>15. ASSUME NEW s \in Servers, Submit(s) PROVE JobSnapshots'
  BY <1>0, <1>15, <1>1 DEF Submit, Goto, ledger, history, JobSnapshots, Fresh
<1>16. ASSUME NEW s \in Servers, Reconciles(s) PROVE JobSnapshots'
  BY <1>0, <1>16, <1>1 DEF Reconciles, RowMoved, To, RowOnly, JobSnapshots, Fresh
<1>17. ASSUME NEW s \in Servers, SettlesFunded(s) PROVE JobSnapshots'
  <2>1. CASE Stays(s)
    BY <1>0, <2>1 DEF Stays, JobSnapshots, Fresh
  <2>2. CASE ~Stays(s)
    <3>1. /\ seen' = [seen EXCEPT ![s] = job'] /\ job'.version = job.version + 1
          /\ job'.state # "absent"
      BY <1>0, <1>17, <2>2 DEF SettlesFunded, Moved
    <3>. QED
      BY <1>0, <1>1, <3>1, JobKnown
  <2>. QED
    BY <2>1, <2>2
<1>18. ASSUME NEW s \in Servers, SettlesFailed(s) PROVE JobSnapshots'
  <2>1. CASE Stays(s)
    BY <1>0, <2>1 DEF Stays, JobSnapshots, Fresh
  <2>2. CASE ~Stays(s)
    <3>1. /\ seen' = [seen EXCEPT ![s] = job'] /\ job'.version = job.version + 1
          /\ job'.state # "absent"
      BY <1>0, <1>18, <2>2 DEF SettlesFailed, Moved
    <3>. QED
      BY <1>0, <1>1, <3>1, JobKnown
  <2>. QED
    BY <2>1, <2>2
<1>19. ASSUME NEW s \in Servers, SettleOpen(s) PROVE JobSnapshots'
  BY <1>0, <1>19, <1>1 DEF SettleOpen, Goto, Elsewhere, ledger, history, JobSnapshots, Fresh
<1>20. ASSUME NEW s \in Servers, ClaimsRetry(s) PROVE JobSnapshots'
  <2>1. CASE Stays(s)
    BY <1>0, <2>1 DEF Stays, JobSnapshots, Fresh
  <2>2. CASE ~Stays(s)
    <3>1. /\ seen' = [seen EXCEPT ![s] = job'] /\ job'.version = job.version + 1
          /\ job'.state # "absent"
      BY <1>0, <1>20, <2>2 DEF ClaimsRetry, Moved
    <3>. QED
      BY <1>0, <1>1, <3>1, JobKnown
  <2>. QED
    BY <2>1, <2>2
<1>21. ASSUME NEW s \in Servers, ProveUnused(s) PROVE JobSnapshots'
  BY <1>0, <1>21, <1>1 DEF ProveUnused, Goto, Elsewhere, ledger, history, JobSnapshots, Fresh
<1>22. ASSUME NEW s \in Servers, ClaimsRenewal(s) PROVE JobSnapshots'
  <2>1. CASE Stays(s)
    BY <1>0, <2>1 DEF Stays, JobSnapshots, Fresh
  <2>2. CASE ~Stays(s)
    <3>1. /\ seen' = [seen EXCEPT ![s] = job'] /\ job'.version = job.version + 1
          /\ job'.state # "absent"
      BY <1>0, <1>22, <2>2 DEF ClaimsRenewal, Moved
    <3>. QED
      BY <1>0, <1>1, <3>1, JobKnown
  <2>. QED
    BY <2>1, <2>2
<1>23. ASSUME NEW s \in Servers, PrepareRenewal(s) PROVE JobSnapshots'
  BY <1>0, <1>23, <1>1 DEF PrepareRenewal, Goto, Elsewhere, ledger, history, JobSnapshots, Fresh
<1>24. ASSUME NEW s \in Servers, RenewsRow(s) PROVE JobSnapshots'
  BY <1>0, <1>24, <1>1 DEF RenewsRow, RowMoved, To, RowOnly, JobSnapshots, Fresh
<1>25. ASSUME NEW s \in Servers, SealsRenewal(s) PROVE JobSnapshots'
  <2>1. CASE Stays(s)
    BY <1>0, <2>1 DEF Stays, JobSnapshots, Fresh
  <2>2. CASE ~Stays(s)
    <3>1. /\ seen' = [seen EXCEPT ![s] = job'] /\ job'.version = job.version + 1
          /\ job'.state # "absent"
      BY <1>0, <1>25, <2>2 DEF SealsRenewal, Moved
    <3>. QED
      BY <1>0, <1>1, <3>1, JobKnown
  <2>. QED
    BY <2>1, <2>2
<1>26. ASSUME NEW s \in Servers, ClaimsRun(s) PROVE JobSnapshots'
  <2>1. CASE Stays(s)
    BY <1>0, <2>1 DEF Stays, JobSnapshots, Fresh
  <2>2. CASE ~Stays(s)
    <3>1. /\ seen' = [seen EXCEPT ![s] = job'] /\ job'.version = job.version + 1
          /\ job'.state # "absent"
      BY <1>0, <1>26, <2>2 DEF ClaimsRun, Moved
    <3>. QED
      BY <1>0, <1>1, <3>1, JobKnown
  <2>. QED
    BY <2>1, <2>2
<1>27. ASSUME NEW s \in Servers, RunsRow(s) PROVE JobSnapshots'
  BY <1>0, <1>27, <1>1 DEF RunsRow, RowMoved, To, RowOnly, JobSnapshots, Fresh
<1>28. ASSUME NEW s \in Servers, Launch(s) PROVE JobSnapshots'
  BY <1>0, <1>28, <1>1 DEF Launch, Goto, ledger, history, JobSnapshots, Fresh
<1>29. ASSUME NEW s \in Servers, Finishes(s) PROVE JobSnapshots'
  <2>1. CASE Stays(s)
    BY <1>0, <2>1 DEF Stays, JobSnapshots, Fresh
  <2>2. CASE ~Stays(s)
    <3>1. /\ seen' = [seen EXCEPT ![s] = job'] /\ job'.version = job.version + 1
          /\ job'.state # "absent"
      BY <1>0, <1>29, <2>2 DEF Finishes, Moved, Place, Standing
    <3>. QED
      BY <1>0, <1>1, <3>1, JobKnown
  <2>. QED
    BY <2>1, <2>2
<1>30. ASSUME NEW s \in Servers, ProveRepair(s) PROVE JobSnapshots'
  BY <1>0, <1>30, <1>1 DEF ProveRepair, Goto, Elsewhere, ledger, history, JobSnapshots, Fresh
<1>31. ASSUME NEW s \in Servers, ClaimsRepair(s) PROVE JobSnapshots'
  <2>1. CASE Stays(s)
    BY <1>0, <2>1 DEF Stays, JobSnapshots, Fresh
  <2>2. CASE ~Stays(s)
    <3>1. /\ seen' = [seen EXCEPT ![s] = job'] /\ job'.version = job.version + 1
          /\ job'.state # "absent"
      BY <1>0, <1>31, <2>2 DEF ClaimsRepair, Moved
    <3>. QED
      BY <1>0, <1>1, <3>1, JobKnown
  <2>. QED
    BY <2>1, <2>2
<1>32. ASSUME NEW s \in Servers, RepairsRow(s) PROVE JobSnapshots'
  BY <1>0, <1>32, <1>1 DEF RepairsRow, RowMoved, To, RowOnly, JobSnapshots, Fresh
<1>33. ASSUME NEW s \in Servers, Crash(s) PROVE JobSnapshots'
  BY <1>0, <1>33, <1>1 DEF Crash, Goto, ledger, history, JobSnapshots, Fresh, NoJob
<1>34. ASSUME NEW e \in Envelopes, Land(e) PROVE JobSnapshots'
  BY <1>0, <1>34, <1>1 DEF Land, ledger, history, JobSnapshots, Fresh
<1>35. ASSUME NEW l \in Labels, Ends(l) PROVE JobSnapshots'
  BY <1>0, <1>35, <1>1 DEF Ends, JobSnapshots, Fresh
<1>36. CASE Expire
  BY <1>0, <1>36, <1>1 DEF Expire, ledger, history, JobSnapshots, Fresh
<1>37. CASE OwnerMoves
  BY <1>0, <1>37, <1>1 DEF OwnerMoves, ledger, history, JobSnapshots, Fresh
<1>38. CASE Act
  BY <1>0, <1>38, <1>1 DEF Act, ledger, history, JobSnapshots, Fresh
<1>39. CASE Cool
  BY <1>0, <1>39, <1>1 DEF Cool, ledger, history, JobSnapshots, Fresh
<1>40. CASE UNCHANGED vars
  BY <1>0, <1>1, <1>40 DEF vars, ledger, history, JobSnapshots, Fresh
<1>. QED
  BY <1>2, <1>3, <1>4, <1>5, <1>6, <1>7, <1>8, <1>9, <1>10, <1>11, <1>12, <1>13, <1>14, <1>15,
     <1>16, <1>17, <1>18, <1>19, <1>20, <1>21, <1>22, <1>23, <1>24, <1>25, <1>26, <1>27, <1>28,
     <1>29, <1>30, <1>31, <1>32, <1>33, <1>34, <1>35, <1>36, <1>37, <1>38, <1>39, <1>40
     DEF Step, ServerStep

\* A version of the session names one content, whoever read it.
LEMMA RowRemembered == Inv /\ [Next]_vars => RowSnapshots'
<1>. SUFFICES ASSUME Inv, Step \/ UNCHANGED vars PROVE RowSnapshots'
  BY StepsAre
<1>0. TypeOK /\ RowSnapshots /\ Finds
  BY DEF Inv
<1>1. /\ pc \in [Servers -> Steps] /\ seen \in [Servers -> Jobs] /\ got \in [Servers -> Rows]
      /\ job.version \in Nat /\ row.version \in Nat
      /\ \A u \in Servers : seen[u].version \in Nat /\ got[u].version \in Nat
  BY <1>0, JobFields, RowV DEF TypeOK
<1>2. ASSUME NEW s \in Servers, Begins(s) PROVE RowSnapshots'
  BY <1>0, <1>2, <1>1 DEF Begins, To, JobOnly, RowSnapshots
<1>3. ASSUME NEW s \in Servers, Creates(s) PROVE RowSnapshots'
  <2>1. row.state = "absent"
    BY <1>0, <1>3 DEF Creates, Finds, Found
  <2>2. row.version = 0 /\ \A t \in Servers : got[t].state = "absent" /\ got[t].version <= 0
    BY <1>0, <1>1, <2>1 DEF RowSnapshots, NoRow
  <2>3. row'.version = 0 /\ row'.state = "prepared" /\ got' = [got EXCEPT ![s] = row']
    BY <1>3 DEF Creates
  <2>. QED
    BY <1>1, <2>2, <2>3 DEF RowSnapshots
<1>4. ASSUME NEW s \in Servers, Attaches(s) PROVE RowSnapshots'
  BY <1>0, <1>4, <1>1 DEF Attaches, Moved, Stays, KeepsMarks, KeepsFunding, To, JobOnly,
     RowSnapshots
<1>5. ASSUME NEW s \in Servers, Prepare(s) PROVE RowSnapshots'
  BY <1>0, <1>5, <1>1 DEF Prepare, Goto, Elsewhere, ledger, history, RowSnapshots
<1>6. ASSUME NEW s \in Servers, RecordsFunding(s) PROVE RowSnapshots'
  <2>1. CASE row' = row /\ got' = got
    BY <1>0, <2>1 DEF RowSnapshots
  <2>2. CASE ~(row' = row /\ got' = got)
    <3>1. /\ got' = [got EXCEPT ![s] = row'] /\ row'.version = row.version + 1
          /\ row'.state # "absent"
      BY <1>6, <2>2 DEF RecordsFunding, RowMoved
    <3>. QED
      BY <1>0, <1>1, <3>1, RowKnown
  <2>. QED
    BY <2>1, <2>2
<1>7. ASSUME NEW s \in Servers, Seals(s) PROVE RowSnapshots'
  BY <1>0, <1>7, <1>1 DEF Seals, Moved, Stays, KeepsMarks, KeepsFunding, To, JobOnly, RowSnapshots
<1>8. ASSUME NEW s \in Servers, Poll(s) PROVE RowSnapshots'
  BY <1>0, <1>8, <1>1 DEF Poll, Goto, Elsewhere, ledger, history, RowSnapshots
<1>9. ASSUME NEW s \in Servers, PollsExhausted(s) PROVE RowSnapshots'
  BY <1>0, <1>9, <1>1 DEF PollsExhausted, Goto, Elsewhere, ledger, history, RowSnapshots
<1>10. ASSUME NEW s \in Servers, Session(s) PROVE RowSnapshots'
  BY <1>0, <1>10, <1>1 DEF Session, Goto, Elsewhere, ledger, history, RowSnapshots
<1>11. ASSUME NEW s \in Servers, Throw(s) PROVE RowSnapshots'
  BY <1>0, <1>11, <1>1 DEF Throw, Goto, Elsewhere, ledger, history, Thrown, RowSnapshots
<1>12. ASSUME NEW s \in Servers, Blocks(s) PROVE RowSnapshots'
  BY <1>0, <1>12, <1>1 DEF Blocks, Moved, Stays, KeepsMarks, KeepsFunding, To, JobOnly,
     RowSnapshots
<1>13. ASSUME NEW s \in Servers, ClaimsFunding(s) PROVE RowSnapshots'
  BY <1>0, <1>13, <1>1 DEF ClaimsFunding, Moved, Stays, KeepsMarks, KeepsFunding, To, JobOnly,
     RowSnapshots
<1>14. ASSUME NEW s \in Servers, FundsRow(s) PROVE RowSnapshots'
  <2>1. CASE row' = row /\ got' = got
    BY <1>0, <2>1 DEF RowSnapshots
  <2>2. CASE ~(row' = row /\ got' = got)
    <3>1. /\ got' = [got EXCEPT ![s] = row'] /\ row'.version = row.version + 1
          /\ row'.state # "absent"
      BY <1>14, <2>2 DEF FundsRow, RowMoved
    <3>. QED
      BY <1>0, <1>1, <3>1, RowKnown
  <2>. QED
    BY <2>1, <2>2
<1>15. ASSUME NEW s \in Servers, Submit(s) PROVE RowSnapshots'
  BY <1>0, <1>15, <1>1 DEF Submit, Goto, ledger, history, RowSnapshots
<1>16. ASSUME NEW s \in Servers, Reconciles(s) PROVE RowSnapshots'
  BY <1>0, <1>16, <1>1 DEF Reconciles, RowMoved, To, RowOnly, RowSnapshots
<1>17. ASSUME NEW s \in Servers, SettlesFunded(s) PROVE RowSnapshots'
  BY <1>0, <1>17, <1>1 DEF SettlesFunded, Moved, Stays, KeepsMarks, KeepsFunding, To, JobOnly,
     RowSnapshots
<1>18. ASSUME NEW s \in Servers, SettlesFailed(s) PROVE RowSnapshots'
  BY <1>0, <1>18, <1>1 DEF SettlesFailed, Moved, Stays, KeepsMarks, KeepsFunding, To, JobOnly,
     RowSnapshots
<1>19. ASSUME NEW s \in Servers, SettleOpen(s) PROVE RowSnapshots'
  BY <1>0, <1>19, <1>1 DEF SettleOpen, Goto, Elsewhere, ledger, history, RowSnapshots
<1>20. ASSUME NEW s \in Servers, ClaimsRetry(s) PROVE RowSnapshots'
  BY <1>0, <1>20, <1>1 DEF ClaimsRetry, Moved, Stays, KeepsMarks, KeepsFunding, To, JobOnly,
     RowSnapshots
<1>21. ASSUME NEW s \in Servers, ProveUnused(s) PROVE RowSnapshots'
  BY <1>0, <1>21, <1>1 DEF ProveUnused, Goto, Elsewhere, ledger, history, RowSnapshots
<1>22. ASSUME NEW s \in Servers, ClaimsRenewal(s) PROVE RowSnapshots'
  BY <1>0, <1>22, <1>1 DEF ClaimsRenewal, Moved, Stays, KeepsMarks, KeepsFunding, To, JobOnly,
     RowSnapshots
<1>23. ASSUME NEW s \in Servers, PrepareRenewal(s) PROVE RowSnapshots'
  BY <1>0, <1>23, <1>1 DEF PrepareRenewal, Goto, Elsewhere, ledger, history, RowSnapshots
<1>24. ASSUME NEW s \in Servers, RenewsRow(s) PROVE RowSnapshots'
  <2>1. CASE row' = row /\ got' = got
    BY <1>0, <2>1 DEF RowSnapshots
  <2>2. CASE ~(row' = row /\ got' = got)
    <3>1. /\ got' = [got EXCEPT ![s] = row'] /\ row'.version = row.version + 1
          /\ row'.state # "absent"
      BY <1>24, <2>2 DEF RenewsRow, RowMoved
    <3>. QED
      BY <1>0, <1>1, <3>1, RowKnown
  <2>. QED
    BY <2>1, <2>2
<1>25. ASSUME NEW s \in Servers, SealsRenewal(s) PROVE RowSnapshots'
  BY <1>0, <1>25, <1>1 DEF SealsRenewal, Moved, Stays, KeepsMarks, KeepsFunding, To, JobOnly,
     RowSnapshots
<1>26. ASSUME NEW s \in Servers, ClaimsRun(s) PROVE RowSnapshots'
  BY <1>0, <1>26, <1>1 DEF ClaimsRun, Moved, Stays, KeepsMarks, KeepsFunding, To, JobOnly,
     RowSnapshots
<1>27. ASSUME NEW s \in Servers, RunsRow(s) PROVE RowSnapshots'
  <2>1. CASE row' = row /\ got' = got
    BY <1>0, <2>1 DEF RowSnapshots
  <2>2. CASE ~(row' = row /\ got' = got)
    <3>1. /\ got' = [got EXCEPT ![s] = row'] /\ row'.version = row.version + 1
          /\ row'.state # "absent"
      BY <1>27, <2>2 DEF RunsRow, RowMoved
    <3>. QED
      BY <1>0, <1>1, <3>1, RowKnown
  <2>. QED
    BY <2>1, <2>2
<1>28. ASSUME NEW s \in Servers, Launch(s) PROVE RowSnapshots'
  BY <1>0, <1>28, <1>1 DEF Launch, Goto, ledger, history, RowSnapshots
<1>29. ASSUME NEW s \in Servers, Finishes(s) PROVE RowSnapshots'
  BY <1>0, <1>29, <1>1 DEF Finishes, Moved, Stays, KeepsMarks, KeepsFunding, To, JobOnly,
     RowSnapshots
<1>30. ASSUME NEW s \in Servers, ProveRepair(s) PROVE RowSnapshots'
  BY <1>0, <1>30, <1>1 DEF ProveRepair, Goto, Elsewhere, ledger, history, RowSnapshots
<1>31. ASSUME NEW s \in Servers, ClaimsRepair(s) PROVE RowSnapshots'
  BY <1>0, <1>31, <1>1 DEF ClaimsRepair, Moved, Stays, KeepsMarks, KeepsFunding, To, JobOnly,
     RowSnapshots
<1>32. ASSUME NEW s \in Servers, RepairsRow(s) PROVE RowSnapshots'
  <2>1. CASE row' = row /\ got' = got
    BY <1>0, <2>1 DEF RowSnapshots
  <2>2. CASE ~(row' = row /\ got' = got)
    <3>1. /\ got' = [got EXCEPT ![s] = row'] /\ row'.version = row.version + 1
          /\ row'.state # "absent"
      BY <1>32, <2>2 DEF RepairsRow, RowMoved
    <3>. QED
      BY <1>0, <1>1, <3>1, RowKnown
  <2>. QED
    BY <2>1, <2>2
<1>33. ASSUME NEW s \in Servers, Crash(s) PROVE RowSnapshots'
  BY <1>0, <1>33, <1>1 DEF Crash, Goto, ledger, history, RowSnapshots, NoRow
<1>34. ASSUME NEW e \in Envelopes, Land(e) PROVE RowSnapshots'
  BY <1>0, <1>34, <1>1 DEF Land, ledger, history, RowSnapshots
<1>35. ASSUME NEW l \in Labels, Ends(l) PROVE RowSnapshots'
  BY <1>0, <1>35, <1>1 DEF Ends, RowSnapshots
<1>36. CASE Expire
  BY <1>0, <1>36, <1>1 DEF Expire, ledger, history, RowSnapshots
<1>37. CASE OwnerMoves
  BY <1>0, <1>37, <1>1 DEF OwnerMoves, ledger, history, RowSnapshots
<1>38. CASE Act
  BY <1>0, <1>38, <1>1 DEF Act, ledger, history, RowSnapshots
<1>39. CASE Cool
  BY <1>0, <1>39, <1>1 DEF Cool, ledger, history, RowSnapshots
<1>40. CASE UNCHANGED vars
  BY <1>0, <1>1, <1>40 DEF vars, ledger, history, RowSnapshots
<1>. QED
  BY <1>2, <1>3, <1>4, <1>5, <1>6, <1>7, <1>8, <1>9, <1>10, <1>11, <1>12, <1>13, <1>14, <1>15,
     <1>16, <1>17, <1>18, <1>19, <1>20, <1>21, <1>22, <1>23, <1>24, <1>25, <1>26, <1>27, <1>28,
     <1>29, <1>30, <1>31, <1>32, <1>33, <1>34, <1>35, <1>36, <1>37, <1>38, <1>39, <1>40
     DEF Step, ServerStep

------------------------------------------------------------------------------
(* Where the controllers stand *)

\* A step of server s leaves the controllers of the other servers where they are.
LEMMA Others ==
  ASSUME TypeOK, NEW s \in Servers, ServerStep(s), NEW t \in Servers, t # s
  PROVE  pc'[t] = pc[t] /\ seen'[t] = seen[t] /\ got'[t] = got[t]
<1>0. pc \in [Servers -> Steps] /\ seen \in [Servers -> Jobs] /\ got \in [Servers -> Rows]
  BY DEF TypeOK
<1>1. CASE Begins(s)
  BY <1>0, <1>1 DEF Begins, To, JobOnly
<1>2. CASE Creates(s)
  BY <1>0, <1>2 DEF Creates, RowMoved, To, RowOnly
<1>3. CASE Attaches(s)
  BY <1>0, <1>3 DEF Attaches, Moved, Stays, KeepsMarks, KeepsFunding, To, JobOnly
<1>4. CASE Prepare(s)
  BY <1>0, <1>4 DEF Prepare, Goto, Elsewhere, ledger, history
<1>5. CASE RecordsFunding(s)
  BY <1>0, <1>5 DEF RecordsFunding, RowMoved, To, RowOnly
<1>6. CASE Seals(s)
  BY <1>0, <1>6 DEF Seals, Moved, Stays, KeepsMarks, KeepsFunding, To, JobOnly
<1>7. CASE Poll(s)
  BY <1>0, <1>7 DEF Poll, Goto, Elsewhere, ledger, history
<1>8. CASE PollsExhausted(s)
  BY <1>0, <1>8 DEF PollsExhausted, Goto, Elsewhere, ledger, history
<1>9. CASE Session(s)
  BY <1>0, <1>9 DEF Session, Goto, Elsewhere, ledger, history
<1>10. CASE Throw(s)
  BY <1>0, <1>10 DEF Throw, Goto, Elsewhere, ledger, history, Thrown
<1>11. CASE Blocks(s)
  BY <1>0, <1>11 DEF Blocks, Moved, Stays, KeepsMarks, KeepsFunding, To, JobOnly
<1>12. CASE ClaimsFunding(s)
  BY <1>0, <1>12 DEF ClaimsFunding, Moved, Stays, KeepsMarks, KeepsFunding, To, JobOnly
<1>13. CASE FundsRow(s)
  BY <1>0, <1>13 DEF FundsRow, RowMoved, To, RowOnly
<1>14. CASE Submit(s)
  BY <1>0, <1>14 DEF Submit, Goto, ledger, history
<1>15. CASE Reconciles(s)
  BY <1>0, <1>15 DEF Reconciles, RowMoved, To, RowOnly
<1>16. CASE SettlesFunded(s)
  BY <1>0, <1>16 DEF SettlesFunded, Moved, Stays, KeepsMarks, KeepsFunding, To, JobOnly
<1>17. CASE SettlesFailed(s)
  BY <1>0, <1>17 DEF SettlesFailed, Moved, Stays, KeepsMarks, KeepsFunding, To, JobOnly
<1>18. CASE SettleOpen(s)
  BY <1>0, <1>18 DEF SettleOpen, Goto, Elsewhere, ledger, history
<1>19. CASE ClaimsRetry(s)
  BY <1>0, <1>19 DEF ClaimsRetry, Moved, Stays, KeepsMarks, KeepsFunding, To, JobOnly
<1>20. CASE ProveUnused(s)
  BY <1>0, <1>20 DEF ProveUnused, Goto, Elsewhere, ledger, history
<1>21. CASE ClaimsRenewal(s)
  BY <1>0, <1>21 DEF ClaimsRenewal, Moved, Stays, KeepsMarks, KeepsFunding, To, JobOnly
<1>22. CASE PrepareRenewal(s)
  BY <1>0, <1>22 DEF PrepareRenewal, Goto, Elsewhere, ledger, history
<1>23. CASE RenewsRow(s)
  BY <1>0, <1>23 DEF RenewsRow, RowMoved, To, RowOnly
<1>24. CASE SealsRenewal(s)
  BY <1>0, <1>24 DEF SealsRenewal, Moved, Stays, KeepsMarks, KeepsFunding, To, JobOnly
<1>25. CASE ClaimsRun(s)
  BY <1>0, <1>25 DEF ClaimsRun, Moved, Stays, KeepsMarks, KeepsFunding, To, JobOnly
<1>26. CASE RunsRow(s)
  BY <1>0, <1>26 DEF RunsRow, RowMoved, To, RowOnly
<1>27. CASE Launch(s)
  BY <1>0, <1>27 DEF Launch, Goto, ledger, history
<1>28. CASE Finishes(s)
  BY <1>0, <1>28 DEF Finishes, Moved, Stays, KeepsMarks, KeepsFunding, To, JobOnly
<1>29. CASE ProveRepair(s)
  BY <1>0, <1>29 DEF ProveRepair, Goto, Elsewhere, ledger, history
<1>30. CASE ClaimsRepair(s)
  BY <1>0, <1>30 DEF ClaimsRepair, Moved, Stays, KeepsMarks, KeepsFunding, To, JobOnly
<1>31. CASE RepairsRow(s)
  BY <1>0, <1>31 DEF RepairsRow, RowMoved, To, RowOnly
<1>32. CASE Crash(s)
  BY <1>0, <1>32 DEF Crash, Goto, ledger, history
<1>. QED
  BY <1>1, <1>2, <1>3, <1>4, <1>5, <1>6, <1>7, <1>8, <1>9, <1>10, <1>11, <1>12, <1>13, <1>14,
     <1>15, <1>16, <1>17, <1>18, <1>19, <1>20, <1>21, <1>22, <1>23, <1>24, <1>25, <1>26, <1>27,
     <1>28, <1>29, <1>30, <1>31, <1>32 DEF ServerStep

\* The ledger and the CLI process move no controller and do not write the job.
LEMMA Bystanders ==
  ASSUME Step, \A s \in Servers : ~ServerStep(s)
  PROVE  pc' = pc /\ seen' = seen /\ got' = got /\ job' = job
  BY DEF Step, Land, Ends, Expire, OwnerMoves, Act, Cool, ledger, history

\* Of the world outside the servers only the runner writes the session.
LEMMA RowBystanders ==
  ASSUME Step, \A s \in Servers : ~ServerStep(s), \A l \in Labels : ~Ends(l)
  PROVE  row' = row
  BY DEF Step, Land, Expire, OwnerMoves, Act, Cool, ledger, history

\* A controller knows what it should where it stands.
LEMMA Placed == Inv /\ [Next]_vars => Place'
<1>. SUFFICES ASSUME Inv, Step \/ UNCHANGED vars PROVE Place'
  BY StepsAre
<1>0. TypeOK /\ Unopened /\ SoundJobs /\ SoundRows /\ Place
  BY DEF Inv
<1>1. /\ pc \in [Servers -> Steps] /\ seen \in [Servers -> Jobs] /\ got \in [Servers -> Rows]
      /\ job.version \in Nat /\ row.version \in Nat
      /\ \A u \in Servers : seen[u].version \in Nat /\ got[u].version \in Nat
  BY <1>0, JobFields, RowV DEF TypeOK
<1>2. ASSUME NEW s \in Servers, ServerStep(s) PROVE Place'
  <2>1. Standing(pc'[s], seen'[s], got'[s])
    <3>1. CASE Begins(s)
      <4>1. pc'[s] \in {"create", "done", "poll"} /\ Standing(pc[s], seen[s], got[s])
        BY <1>0, <1>1, <3>1 DEF Begins, To, Place
      <4>2. CASE pc'[s] = "create"
        <5>1. seen'[s].state = "initializing" /\ ~seen'[s].renewed
          BY <1>0, <1>1, <4>1, <4>2, <3>1 DEF Begins, To, JobOnly, Standing, Opening, Renewing,
             Settling
        <5>. QED
          BY <4>2, <5>1 DEF Standing, Opening, Renewing, Settling
      <4>3. CASE pc'[s] = "done"
        BY <4>3 DEF Standing, Opening, Renewing, Settling
      <4>4. CASE pc'[s] = "poll"
        <5>1. seen'[s].state # "initializing"
          BY <1>0, <1>1, <4>1, <4>4, <3>1 DEF Begins, To, JobOnly, Standing, Opening, Renewing,
             Settling
        <5>. QED
          BY <4>4, <5>1 DEF Standing, Opening, Renewing, Settling
      <4>. QED
        BY <4>1, <4>2, <4>3, <4>4
    <3>2. CASE Creates(s)
      <4>1. pc'[s] \in {"attach"} /\ Standing(pc[s], seen[s], got[s])
        BY <1>0, <1>1, <3>2 DEF Creates, To, Place
      <4>2. CASE pc'[s] = "attach"
        <5>1. seen'[s].state = "initializing" /\ ~seen'[s].renewed /\ got'[s].state = "prepared"
          BY <1>0, <1>1, <4>1, <4>2, <3>2 DEF Creates, RowMoved, To, RowOnly, Standing,
             Opening, Renewing, Settling
        <5>. QED
          BY <4>2, <5>1 DEF Standing, Opening, Renewing, Settling
      <4>. QED
        BY <4>1, <4>2
    <3>3. CASE Attaches(s)
      <4>1. pc'[s] \in {"prepare", "done"} /\ Standing(pc[s], seen[s], got[s])
        BY <1>0, <1>1, <3>3 DEF Attaches, To, Place
      <4>2. CASE pc'[s] = "prepare"
        <5>1. seen'[s].state = "initializing" /\ ~seen'[s].renewed /\ got'[s].state = "prepared"
          BY <1>0, <1>1, <4>1, <4>2, <3>3 DEF Attaches, Moved, Stays, KeepsMarks, KeepsFunding,
             To, JobOnly, Standing, Opening, Renewing, Settling
        <5>. QED
          BY <4>2, <5>1 DEF Standing, Opening, Renewing, Settling
      <4>3. CASE pc'[s] = "done"
        BY <4>3 DEF Standing, Opening, Renewing, Settling
      <4>. QED
        BY <4>1, <4>2, <4>3
    <3>4. CASE Prepare(s)
      BY <1>0, <1>1, <3>4 DEF Prepare, Goto, Elsewhere, ledger, history, Place, Standing,
         Opening, Renewing, Settling
    <3>5. CASE RecordsFunding(s)
      BY <1>0, <1>1, <3>5 DEF RecordsFunding, RowMoved, To, RowOnly, Place, Standing, Opening,
         Renewing, Settling
    <3>6. CASE Seals(s)
      <4>1. pc'[s] \in {"poll", "done"} /\ Standing(pc[s], seen[s], got[s])
        BY <1>0, <1>1, <3>6 DEF Seals, To, Place
      <4>2. CASE pc'[s] = "poll"
        <5>1. seen'[s].state # "initializing"
          BY <1>0, <1>1, <4>1, <4>2, <3>6 DEF Seals, Moved, Stays, KeepsMarks, KeepsFunding,
             To, JobOnly, Standing, Opening, Renewing, Settling
        <5>. QED
          BY <4>2, <5>1 DEF Standing, Opening, Renewing, Settling
      <4>3. CASE pc'[s] = "done"
        BY <4>3 DEF Standing, Opening, Renewing, Settling
      <4>. QED
        BY <4>1, <4>2, <4>3
    <3>7. CASE Poll(s)
      BY <1>0, <1>1, <3>7 DEF Poll, Goto, Elsewhere, ledger, history, Place, Standing, Opening,
         Renewing, Settling, Unopened
    <3>8. CASE PollsExhausted(s)
      BY <1>0, <1>1, <3>8 DEF PollsExhausted, Goto, Elsewhere, ledger, history, Place,
         Standing, Opening, Renewing, Settling
    <3>9. CASE Session(s)
      <4>. DEFINE next == Decide(seen[s], row)
      <4>1. /\ pc[s] = "session" /\ seen'[s] = seen[s] /\ got'[s] = row
            /\ pc'[s] = IF next = "throw" THEN Thrown(seen[s]) ELSE next
        BY <1>1, <3>9 DEF Session, Goto
      <4>2. /\ seen[s].state \in {"prepared", "funding", "funded", "running", "failed"}
            /\ seen[s].funding # None /\ seen[s].signed = seen[s].funding
            /\ row.state # "absent" => row.funding # None \/ row.state = "prepared"
        <5>1. seen[s] \in Jobs /\ Standing("session", seen[s], got[s])
          BY <1>0, <1>1, <4>1 DEF Place
        <5>. QED
          BY <1>0, <5>1 DEF Jobs, Standing, Opening, Renewing, Settling, SoundJobs, SoundJob,
             SoundRows, SoundRow
      <4>3. CASE seen[s].state = "prepared"
        <5>1. pc'[s] \in {"claim funding", "block"} /\ (pc'[s] = "claim funding" => row.state = "prepared")
          BY <4>1, <4>3 DEF Decide, Thrown
        <5>. QED
          BY <4>1, <4>3, <5>1 DEF Standing, Opening, Renewing, Settling
      <4>4. CASE seen[s].state = "funding"
        <5>1. pc'[s] \in {"reconcile", "settle", "done"} /\ (pc'[s] = "reconcile" => row.state = "funding")
          BY <4>1, <4>4 DEF Decide, Thrown
        <5>. QED
          BY <4>1, <4>2, <4>4, <5>1 DEF Standing, Opening, Renewing, Settling
      <4>5. CASE seen[s].state = "funded"
        <5>1. pc'[s] \in {"claim run", "done"}
          BY <4>1, <4>5 DEF Decide, Thrown
        <5>. QED
          BY <4>1, <4>5, <5>1 DEF Standing, Opening, Renewing, Settling
      <4>6. CASE seen[s].state = "running"
        <5>1. /\ pc'[s] \in {"finish", "poll", "done"}
              /\ pc'[s] = "finish" => row.state \in {"succeeded", "failed"}
          BY <4>1, <4>6 DEF Decide, Thrown
        <5>. QED
          BY <4>1, <4>6, <5>1 DEF Standing, Opening, Renewing, Settling
      <4>7. CASE seen[s].state = "failed"
        <5>1. /\ pc'[s] \in {"prove repair", "done"}
              /\ pc'[s] = "prove repair" => (seen[s].repaired => ~seen[s].resumed)
          BY <4>1, <4>7 DEF Decide, Thrown, Resumable, Repairable
        <5>. QED
          BY <4>1, <4>7, <5>1 DEF Standing, Opening, Renewing, Settling
      <4>. QED
        BY <4>2, <4>3, <4>4, <4>5, <4>6, <4>7
    <3>10. CASE Throw(s)
      BY <1>0, <1>1, <3>10 DEF Throw, Goto, Elsewhere, ledger, history, Thrown, Place,
         Standing, Opening, Renewing, Settling
    <3>11. CASE Blocks(s)
      BY <1>0, <1>1, <3>11 DEF Blocks, Moved, Stays, KeepsMarks, KeepsFunding, To, JobOnly,
         Place, Standing, Opening, Renewing, Settling
    <3>12. CASE ClaimsFunding(s)
      <4>1. pc'[s] \in {"fund row", "poll"} /\ Standing(pc[s], seen[s], got[s])
        BY <1>0, <1>1, <3>12 DEF ClaimsFunding, To, Place
      <4>2. CASE pc'[s] = "fund row"
        <5>1. seen'[s].state = "funding" /\ got'[s].state = "prepared"
          BY <1>0, <1>1, <4>1, <4>2, <3>12 DEF ClaimsFunding, Moved, Stays, KeepsMarks,
             KeepsFunding, To, JobOnly, Standing, Opening, Renewing, Settling
        <5>. QED
          BY <4>2, <5>1 DEF Standing, Opening, Renewing, Settling
      <4>3. CASE pc'[s] = "poll"
        <5>1. seen'[s].state # "initializing"
          BY <1>0, <1>1, <4>1, <4>3, <3>12 DEF ClaimsFunding, Moved, Stays, KeepsMarks,
             KeepsFunding, To, JobOnly, Standing, Opening, Renewing, Settling
        <5>. QED
          BY <4>3, <5>1 DEF Standing, Opening, Renewing, Settling
      <4>. QED
        BY <4>1, <4>2, <4>3
    <3>13. CASE FundsRow(s)
      <4>1. pc'[s] \in {"submit"} /\ Standing(pc[s], seen[s], got[s])
        BY <1>0, <1>1, <3>13 DEF FundsRow, To, Place
      <4>2. CASE pc'[s] = "submit"
        <5>1. seen'[s].state = "funding" /\ seen'[s].signed # None
          BY <1>0, <1>1, <4>1, <4>2, <3>13 DEF FundsRow, RowMoved, To, RowOnly, Standing,
             Opening, Renewing, Settling, SoundJobs, SoundJob
        <5>. QED
          BY <4>2, <5>1 DEF Standing, Opening, Renewing, Settling
      <4>. QED
        BY <4>1, <4>2
    <3>14. CASE Submit(s)
      BY <1>0, <1>1, <3>14 DEF Submit, Goto, ledger, history, Place, Standing, Opening,
         Renewing, Settling
    <3>15. CASE Reconciles(s)
      BY <1>0, <1>1, <3>15 DEF Reconciles, RowMoved, To, RowOnly, Place, Standing, Opening,
         Renewing, Settling
    <3>16. CASE SettlesFunded(s)
      BY <1>0, <1>1, <3>16 DEF SettlesFunded, Moved, Stays, KeepsMarks, KeepsFunding, To,
         JobOnly, Place, Standing, Opening, Renewing, Settling
    <3>17. CASE SettlesFailed(s)
      BY <1>0, <1>1, <3>17 DEF SettlesFailed, Moved, Stays, KeepsMarks, KeepsFunding, To,
         JobOnly, Place, Standing, Opening, Renewing, Settling
    <3>18. CASE SettleOpen(s)
      <4>1. pc'[s] \in {"done", "prove unused", "claim retry", "poll"} /\ Standing(pc[s], seen[s], got[s])
        BY <1>0, <1>1, <3>18 DEF SettleOpen, Goto, Place
      <4>2. CASE pc'[s] = "done"
        BY <4>2 DEF Standing, Opening, Renewing, Settling
      <4>3. CASE pc'[s] = "prove unused"
        <5>1. Standing("prove unused", seen'[s], got'[s])
          BY <1>0, <1>1, <4>1, <4>3, <3>18 DEF SettleOpen, Goto, Elsewhere, ledger, history,
             Standing, Opening, Renewing, Settling, SoundRows, SoundRow
        <5>. QED
          BY <4>3, <5>1 DEF Standing, Opening, Renewing, Settling
      <4>4. CASE pc'[s] = "claim retry"
        <5>1. Standing("claim retry", seen'[s], got'[s])
          BY <1>0, <1>1, <4>1, <4>4, <3>18 DEF SettleOpen, Goto, Elsewhere, ledger, history,
             Standing, Opening, Renewing, Settling, SoundRows, SoundRow
        <5>. QED
          BY <4>4, <5>1 DEF Standing, Opening, Renewing, Settling
      <4>5. CASE pc'[s] = "poll"
        <5>1. seen'[s].state # "initializing"
          BY <1>0, <1>1, <4>1, <4>5, <3>18 DEF SettleOpen, Goto, Elsewhere, ledger, history,
             Standing, Opening, Renewing, Settling, SoundRows, SoundRow
        <5>. QED
          BY <4>5, <5>1 DEF Standing, Opening, Renewing, Settling
      <4>. QED
        BY <4>1, <4>2, <4>3, <4>4, <4>5
    <3>19. CASE ClaimsRetry(s)
      <4>1. pc'[s] = "submit" \/ pc'[s] = "poll"
        BY <1>1, <3>19 DEF ClaimsRetry, To
      <4>2. CASE pc'[s] = "submit"
        <5>1. Moved(s, "funding") /\ job'.signed = job.signed /\ pc[s] = "claim retry"
          BY <1>1, <3>19, <4>2 DEF ClaimsRetry, To
        <5>2. Standing("claim retry", job, got[s]) /\ seen'[s] = job' /\ job'.state = "funding"
          BY <1>0, <1>1, <5>1 DEF Place, Standing, Moved
        <5>3. job'.signed # None
          BY <5>1, <5>2 DEF Standing, Settling
        <5>. QED
          BY <4>2, <5>2, <5>3 DEF Standing, Opening, Renewing, Settling
      <4>3. CASE pc'[s] = "poll"
        <5>1. seen[s].state = "funding" /\ (seen'[s] = seen[s] \/ seen'[s].state = "funding")
          BY <1>0, <1>1, <3>19 DEF ClaimsRetry, Moved, Stays, Place, Standing, Settling
        <5>. QED
          BY <4>3, <5>1 DEF Standing, Opening, Renewing, Settling
      <4>. QED
        BY <4>1, <4>2, <4>3
    <3>20. CASE ProveUnused(s)
      BY <1>0, <1>1, <3>20 DEF ProveUnused, Goto, Elsewhere, ledger, history, Place, Standing,
         Opening, Renewing, Settling
    <3>21. CASE ClaimsRenewal(s)
      <4>1. pc'[s] \in {"prepare renewal", "poll"} /\ Standing(pc[s], seen[s], got[s])
        BY <1>0, <1>1, <3>21 DEF ClaimsRenewal, To, Place
      <4>2. CASE pc'[s] = "prepare renewal"
        <5>1. seen'[s].state = "initializing" /\ seen'[s].renewed
          BY <1>0, <1>1, <4>1, <4>2, <3>21 DEF ClaimsRenewal, Moved, Stays, KeepsMarks,
             KeepsFunding, To, JobOnly, Standing, Opening, Renewing, Settling
        <5>. QED
          BY <4>2, <5>1 DEF Standing, Opening, Renewing, Settling
      <4>3. CASE pc'[s] = "poll"
        <5>1. seen'[s].state # "initializing"
          BY <1>0, <1>1, <4>1, <4>3, <3>21 DEF ClaimsRenewal, Moved, Stays, KeepsMarks,
             KeepsFunding, To, JobOnly, Standing, Opening, Renewing, Settling
        <5>. QED
          BY <4>3, <5>1 DEF Standing, Opening, Renewing, Settling
      <4>. QED
        BY <4>1, <4>2, <4>3
    <3>22. CASE PrepareRenewal(s)
      BY <1>0, <1>1, <3>22 DEF PrepareRenewal, Goto, Elsewhere, ledger, history, Place,
         Standing, Opening, Renewing, Settling
    <3>23. CASE RenewsRow(s)
      BY <1>0, <1>1, <3>23 DEF RenewsRow, RowMoved, To, RowOnly, Place, Standing, Opening,
         Renewing, Settling
    <3>24. CASE SealsRenewal(s)
      <4>1. pc'[s] \in {"poll", "done"} /\ Standing(pc[s], seen[s], got[s])
        BY <1>0, <1>1, <3>24 DEF SealsRenewal, To, Place
      <4>2. CASE pc'[s] = "poll"
        <5>1. seen'[s].state # "initializing"
          BY <1>0, <1>1, <4>1, <4>2, <3>24 DEF SealsRenewal, Moved, Stays, KeepsMarks,
             KeepsFunding, To, JobOnly, Standing, Opening, Renewing, Settling
        <5>. QED
          BY <4>2, <5>1 DEF Standing, Opening, Renewing, Settling
      <4>3. CASE pc'[s] = "done"
        BY <4>3 DEF Standing, Opening, Renewing, Settling
      <4>. QED
        BY <4>1, <4>2, <4>3
    <3>25. CASE ClaimsRun(s)
      <4>1. pc'[s] \in {"run row", "poll"} /\ Standing(pc[s], seen[s], got[s])
        BY <1>0, <1>1, <3>25 DEF ClaimsRun, To, Place
      <4>2. CASE pc'[s] = "run row"
        <5>1. seen'[s].state = "running"
          BY <1>0, <1>1, <4>1, <4>2, <3>25 DEF ClaimsRun, Moved, Stays, KeepsMarks,
             KeepsFunding, To, JobOnly, Standing, Opening, Renewing, Settling
        <5>. QED
          BY <4>2, <5>1 DEF Standing, Opening, Renewing, Settling
      <4>3. CASE pc'[s] = "poll"
        <5>1. seen'[s].state # "initializing"
          BY <1>0, <1>1, <4>1, <4>3, <3>25 DEF ClaimsRun, Moved, Stays, KeepsMarks,
             KeepsFunding, To, JobOnly, Standing, Opening, Renewing, Settling
        <5>. QED
          BY <4>3, <5>1 DEF Standing, Opening, Renewing, Settling
      <4>. QED
        BY <4>1, <4>2, <4>3
    <3>26. CASE RunsRow(s)
      BY <1>0, <1>1, <3>26 DEF RunsRow, RowMoved, To, RowOnly, Place, Standing, Opening,
         Renewing, Settling
    <3>27. CASE Launch(s)
      BY <1>0, <1>1, <3>27 DEF Launch, Goto, ledger, history, Place, Standing, Opening,
         Renewing, Settling
    <3>28. CASE Finishes(s)
      <4>1. pc'[s] \in {"done", "poll"} /\ (seen'[s] = job' \/ seen'[s] = seen[s])
        BY <1>1, <3>28 DEF Finishes, Moved, Stays, To
      <4>2. seen[s].state = "running" /\ (seen'[s] = job' => job'.state = got[s].state \/ job' = job)
        BY <1>0, <3>28 DEF Finishes, Moved, Stays, Place, Standing
      <4>3. got[s].state \in {"succeeded", "failed"}
        BY <1>0, <3>28 DEF Finishes, Place, Standing
      <4>4. seen'[s].state # "initializing"
        BY <1>1, <3>28, <4>2, <4>3 DEF Finishes, Moved, Stays
      <4>. QED
        BY <4>1, <4>4 DEF Standing, Opening, Renewing, Settling
    <3>29. CASE ProveRepair(s)
      BY <1>0, <1>1, <3>29 DEF ProveRepair, Goto, Elsewhere, ledger, history, Place, Standing,
         Opening, Renewing, Settling
    <3>30. CASE ClaimsRepair(s)
      <4>1. pc'[s] \in {"repair row", "poll"} /\ Standing(pc[s], seen[s], got[s])
        BY <1>0, <1>1, <3>30 DEF ClaimsRepair, To, Place
      <4>2. CASE pc'[s] = "repair row"
        <5>1. seen'[s].state = "funded" /\ seen'[s].repaired
          BY <1>0, <1>1, <4>1, <4>2, <3>30 DEF ClaimsRepair, Moved, Stays, KeepsMarks,
             KeepsFunding, To, JobOnly, Standing, Opening, Renewing, Settling
        <5>. QED
          BY <4>2, <5>1 DEF Standing, Opening, Renewing, Settling
      <4>3. CASE pc'[s] = "poll"
        <5>1. seen'[s].state # "initializing"
          BY <1>0, <1>1, <4>1, <4>3, <3>30 DEF ClaimsRepair, Moved, Stays, KeepsMarks,
             KeepsFunding, To, JobOnly, Standing, Opening, Renewing, Settling
        <5>. QED
          BY <4>3, <5>1 DEF Standing, Opening, Renewing, Settling
      <4>. QED
        BY <4>1, <4>2, <4>3
    <3>31. CASE RepairsRow(s)
      BY <1>0, <1>1, <3>31 DEF RepairsRow, RowMoved, To, RowOnly, Place, Standing, Opening,
         Renewing, Settling
    <3>32. CASE Crash(s)
      BY <1>0, <1>1, <3>32 DEF Crash, Goto, ledger, history, Place, Standing, Opening,
         Renewing, Settling, NoJob
    <3>. QED
      BY <1>2, <3>1, <3>2, <3>3, <3>4, <3>5, <3>6, <3>7, <3>8, <3>9, <3>10, <3>11, <3>12,
         <3>13, <3>14, <3>15, <3>16, <3>17, <3>18, <3>19, <3>20, <3>21, <3>22, <3>23, <3>24,
         <3>25, <3>26, <3>27, <3>28, <3>29, <3>30, <3>31, <3>32 DEF ServerStep
  <2>2. ASSUME NEW t \in Servers PROVE Standing(pc'[t], seen'[t], got'[t])
    <3>1. CASE t = s
      BY <2>1, <3>1
    <3>2. CASE t # s
      <4>1. pc'[t] = pc[t] /\ seen'[t] = seen[t] /\ got'[t] = got[t]
        BY <1>0, <1>2, <3>2, Others
      <4>. QED
        BY <1>0, <4>1 DEF Place
    <3>. QED
      BY <3>1, <3>2
  <2>. QED
    BY <2>2 DEF Place
<1>3. CASE pc' = pc /\ seen' = seen /\ got' = got
  BY <1>0, <1>3 DEF Place
<1>. QED
  BY <1>2, <1>3, Bystanders DEF vars

\* Nothing happens before the first controller inserts the job.
LEMMA Opened == Inv /\ [Next]_vars => Unopened'
<1>. SUFFICES ASSUME Inv, Step \/ UNCHANGED vars PROVE Unopened'
  BY StepsAre
<1>0. TypeOK /\ Unopened /\ Place
  BY DEF Inv
<1>1. /\ pc \in [Servers -> Steps] /\ seen \in [Servers -> Jobs] /\ got \in [Servers -> Rows]
      /\ job.version \in Nat /\ row.version \in Nat
      /\ \A u \in Servers : seen[u].version \in Nat /\ got[u].version \in Nat
  BY <1>0, JobFields, RowV DEF TypeOK
<1>2. ASSUME NEW s \in Servers, Begins(s) PROVE Unopened'
  BY <1>0, <1>2, <1>1 DEF Begins, To, JobOnly, Unopened
<1>3. ASSUME NEW s \in Servers, Creates(s) PROVE Unopened'
  BY <1>0, <1>3, <1>1 DEF Creates, RowMoved, To, RowOnly, Unopened
<1>4. ASSUME NEW s \in Servers, Attaches(s) PROVE Unopened'
  BY <1>0, <1>4, <1>1 DEF Attaches, Moved, Stays, KeepsMarks, KeepsFunding, To, JobOnly, Unopened
<1>5. ASSUME NEW s \in Servers, Prepare(s) PROVE Unopened'
  BY <1>0, <1>5, <1>1 DEF Prepare, Goto, Elsewhere, ledger, history, Unopened
<1>6. ASSUME NEW s \in Servers, RecordsFunding(s) PROVE Unopened'
  BY <1>0, <1>6, <1>1 DEF RecordsFunding, RowMoved, To, RowOnly, Unopened
<1>7. ASSUME NEW s \in Servers, Seals(s) PROVE Unopened'
  BY <1>0, <1>7, <1>1 DEF Seals, Moved, Stays, KeepsMarks, KeepsFunding, To, JobOnly, Unopened
<1>8. ASSUME NEW s \in Servers, Poll(s) PROVE Unopened'
  BY <1>0, <1>8, <1>1 DEF Poll, Goto, Elsewhere, ledger, history, Unopened
<1>9. ASSUME NEW s \in Servers, PollsExhausted(s) PROVE Unopened'
  BY <1>0, <1>9, <1>1 DEF PollsExhausted, Goto, Elsewhere, ledger, history, Unopened
<1>10. ASSUME NEW s \in Servers, Session(s) PROVE Unopened'
  BY <1>0, <1>10, <1>1 DEF Session, Goto, Elsewhere, ledger, history, Unopened
<1>11. ASSUME NEW s \in Servers, Throw(s) PROVE Unopened'
  BY <1>0, <1>11, <1>1 DEF Throw, Goto, Elsewhere, ledger, history, Thrown, Unopened
<1>12. ASSUME NEW s \in Servers, Blocks(s) PROVE Unopened'
  BY <1>0, <1>12, <1>1 DEF Blocks, Moved, Stays, KeepsMarks, KeepsFunding, To, JobOnly, Unopened
<1>13. ASSUME NEW s \in Servers, ClaimsFunding(s) PROVE Unopened'
  BY <1>0, <1>13, <1>1 DEF ClaimsFunding, Moved, Stays, KeepsMarks, KeepsFunding, To, JobOnly,
     Unopened
<1>14. ASSUME NEW s \in Servers, FundsRow(s) PROVE Unopened'
  BY <1>0, <1>14, <1>1 DEF FundsRow, RowMoved, To, RowOnly, Unopened
<1>15. ASSUME NEW s \in Servers, Submit(s) PROVE Unopened'
  BY <1>0, <1>15, <1>1 DEF Submit, Goto, ledger, history, Unopened
<1>16. ASSUME NEW s \in Servers, Reconciles(s) PROVE Unopened'
  BY <1>0, <1>16, <1>1 DEF Reconciles, RowMoved, To, RowOnly, Unopened
<1>17. ASSUME NEW s \in Servers, SettlesFunded(s) PROVE Unopened'
  BY <1>0, <1>17, <1>1 DEF SettlesFunded, Moved, Stays, KeepsMarks, KeepsFunding, To, JobOnly,
     Unopened
<1>18. ASSUME NEW s \in Servers, SettlesFailed(s) PROVE Unopened'
  BY <1>0, <1>18, <1>1 DEF SettlesFailed, Moved, Stays, KeepsMarks, KeepsFunding, To, JobOnly,
     Unopened
<1>19. ASSUME NEW s \in Servers, SettleOpen(s) PROVE Unopened'
  BY <1>0, <1>19, <1>1 DEF SettleOpen, Goto, Elsewhere, ledger, history, Unopened
<1>20. ASSUME NEW s \in Servers, ClaimsRetry(s) PROVE Unopened'
  BY <1>0, <1>20, <1>1 DEF ClaimsRetry, Moved, Stays, KeepsMarks, KeepsFunding, To, JobOnly,
     Unopened
<1>21. ASSUME NEW s \in Servers, ProveUnused(s) PROVE Unopened'
  BY <1>0, <1>21, <1>1 DEF ProveUnused, Goto, Elsewhere, ledger, history, Unopened
<1>22. ASSUME NEW s \in Servers, ClaimsRenewal(s) PROVE Unopened'
  BY <1>0, <1>22, <1>1 DEF ClaimsRenewal, Moved, Stays, KeepsMarks, KeepsFunding, To, JobOnly,
     Unopened
<1>23. ASSUME NEW s \in Servers, PrepareRenewal(s) PROVE Unopened'
  BY <1>0, <1>23, <1>1 DEF PrepareRenewal, Goto, Elsewhere, ledger, history, Unopened
<1>24. ASSUME NEW s \in Servers, RenewsRow(s) PROVE Unopened'
  BY <1>0, <1>24, <1>1 DEF RenewsRow, RowMoved, To, RowOnly, Unopened
<1>25. ASSUME NEW s \in Servers, SealsRenewal(s) PROVE Unopened'
  BY <1>0, <1>25, <1>1 DEF SealsRenewal, Moved, Stays, KeepsMarks, KeepsFunding, To, JobOnly,
     Unopened
<1>26. ASSUME NEW s \in Servers, ClaimsRun(s) PROVE Unopened'
  BY <1>0, <1>26, <1>1 DEF ClaimsRun, Moved, Stays, KeepsMarks, KeepsFunding, To, JobOnly,
     Unopened
<1>27. ASSUME NEW s \in Servers, RunsRow(s) PROVE Unopened'
  BY <1>0, <1>27, <1>1 DEF RunsRow, RowMoved, To, RowOnly, Unopened
<1>28. ASSUME NEW s \in Servers, Launch(s) PROVE Unopened'
  BY <1>0, <1>28, <1>1 DEF Launch, Goto, ledger, history, Unopened
<1>29. ASSUME NEW s \in Servers, Finishes(s) PROVE Unopened'
  BY <1>0, <1>29, <1>1 DEF Finishes, Moved, Stays, KeepsMarks, KeepsFunding, To, JobOnly,
     Unopened, Place, Standing
<1>30. ASSUME NEW s \in Servers, ProveRepair(s) PROVE Unopened'
  BY <1>0, <1>30, <1>1 DEF ProveRepair, Goto, Elsewhere, ledger, history, Unopened
<1>31. ASSUME NEW s \in Servers, ClaimsRepair(s) PROVE Unopened'
  BY <1>0, <1>31, <1>1 DEF ClaimsRepair, Moved, Stays, KeepsMarks, KeepsFunding, To, JobOnly,
     Unopened
<1>32. ASSUME NEW s \in Servers, RepairsRow(s) PROVE Unopened'
  BY <1>0, <1>32, <1>1 DEF RepairsRow, RowMoved, To, RowOnly, Unopened
<1>33. ASSUME NEW s \in Servers, Crash(s) PROVE Unopened'
  BY <1>0, <1>33, <1>1 DEF Crash, Goto, ledger, history, Unopened
<1>34. ASSUME NEW e \in Envelopes, Land(e) PROVE Unopened'
  BY <1>0, <1>34, <1>1 DEF Land, ledger, history, Unopened
<1>35. ASSUME NEW l \in Labels, Ends(l) PROVE Unopened'
  BY <1>0, <1>35, <1>1 DEF Ends, Unopened
<1>36. CASE Expire
  BY <1>0, <1>36, <1>1 DEF Expire, ledger, history, Unopened
<1>37. CASE OwnerMoves
  BY <1>0, <1>37, <1>1 DEF OwnerMoves, ledger, history, Unopened
<1>38. CASE Act
  BY <1>0, <1>38, <1>1 DEF Act, ledger, history, Unopened
<1>39. CASE Cool
  BY <1>0, <1>39, <1>1 DEF Cool, ledger, history, Unopened
<1>40. CASE UNCHANGED vars
  BY <1>0, <1>1, <1>40 DEF vars, ledger, history, Unopened
<1>. QED
  BY <1>2, <1>3, <1>4, <1>5, <1>6, <1>7, <1>8, <1>9, <1>10, <1>11, <1>12, <1>13, <1>14, <1>15,
     <1>16, <1>17, <1>18, <1>19, <1>20, <1>21, <1>22, <1>23, <1>24, <1>25, <1>26, <1>27, <1>28,
     <1>29, <1>30, <1>31, <1>32, <1>33, <1>34, <1>35, <1>36, <1>37, <1>38, <1>39, <1>40
     DEF Step, ServerStep

\* The fields of the job, and of every snapshot of it, fit together.
LEMMA JobsSound == Inv /\ [Next]_vars => SoundJobs'
<1>. SUFFICES ASSUME Inv, Step \/ UNCHANGED vars PROVE SoundJobs'
  BY StepsAre
<1>0. TypeOK /\ SoundJobs /\ Place
  BY DEF Inv
<1>1. /\ pc \in [Servers -> Steps] /\ seen \in [Servers -> Jobs] /\ got \in [Servers -> Rows]
      /\ job.version \in Nat /\ row.version \in Nat
      /\ \A u \in Servers : seen[u].version \in Nat /\ got[u].version \in Nat
  BY <1>0, JobFields, RowV DEF TypeOK
<1>2. ASSUME NEW s \in Servers, ServerStep(s) PROVE SoundJobs'
  <2>1. SoundJob(job') /\ SoundJob(seen'[s])
    <3>1. CASE Begins(s)
      <4>1. CASE job.state = "absent"
        <5>1. job'.signed = None /\ job'.funding = None /\ ~job'.resumed /\ job'.state = "initializing" /\ seen'[s] = job'
          BY <1>1, <3>1, <4>1 DEF Begins
        <5>. QED
          BY <5>1, BurnerAssumption DEF SoundJob
      <4>2. CASE job.state # "absent"
        BY <1>0, <1>1, <3>1, <4>2 DEF Begins, SoundJobs
      <4>. QED
        BY <4>1, <4>2
    <3>2. CASE Creates(s)
      BY <1>0, <1>1, <3>2 DEF Creates, RowMoved, To, RowOnly, SoundJobs, SoundJob
    <3>3. CASE Attaches(s)
      <4>1. CASE Stays(s)
        BY <1>0, <1>1, <4>1 DEF Stays, SoundJobs
      <4>2. CASE ~Stays(s)
        <5>1. /\ seen[s] = job /\ seen'[s] = job'
              /\ SoundJob(job) /\ Standing(pc[s], job, got[s])
          BY <1>0, <1>1, <3>3, <4>2 DEF Attaches, Moved, Place, SoundJobs
        <5>2. SoundJob(job')
          BY <3>3, <4>2, <5>1 DEF Attaches, Moved, KeepsMarks, KeepsFunding, SoundJob,
             Standing, Opening, Renewing, Settling
        <5>. QED
          BY <5>1, <5>2
      <4>. QED
        BY <4>1, <4>2
    <3>4. CASE Prepare(s)
      BY <1>0, <1>1, <3>4 DEF Prepare, Goto, Elsewhere, ledger, history, SoundJobs, SoundJob
    <3>5. CASE RecordsFunding(s)
      BY <1>0, <1>1, <3>5 DEF RecordsFunding, RowMoved, To, RowOnly, SoundJobs, SoundJob
    <3>6. CASE Seals(s)
      <4>1. CASE Stays(s)
        BY <1>0, <1>1, <4>1 DEF Stays, SoundJobs
      <4>2. CASE ~Stays(s)
        <5>1. /\ seen[s] = job /\ seen'[s] = job'
              /\ SoundJob(job) /\ Standing(pc[s], job, got[s])
          BY <1>0, <1>1, <3>6, <4>2 DEF Seals, Moved, Place, SoundJobs
        <5>2. SoundJob(job')
          BY <3>6, <4>2, <5>1, BurnerAssumption DEF Seals, Moved, KeepsMarks, KeepsFunding,
             SoundJob, Standing, Opening, Renewing, Settling
        <5>. QED
          BY <5>1, <5>2
      <4>. QED
        BY <4>1, <4>2
    <3>7. CASE Poll(s)
      BY <1>0, <1>1, <3>7 DEF Poll, Goto, Elsewhere, ledger, history, SoundJobs, SoundJob
    <3>8. CASE PollsExhausted(s)
      BY <1>0, <1>1, <3>8 DEF PollsExhausted, Goto, Elsewhere, ledger, history, SoundJobs,
         SoundJob
    <3>9. CASE Session(s)
      BY <1>0, <1>1, <3>9 DEF Session, Goto, Elsewhere, ledger, history, SoundJobs, SoundJob
    <3>10. CASE Throw(s)
      BY <1>0, <1>1, <3>10 DEF Throw, Goto, Elsewhere, ledger, history, Thrown, SoundJobs,
         SoundJob
    <3>11. CASE Blocks(s)
      <4>1. CASE Stays(s)
        BY <1>0, <1>1, <4>1 DEF Stays, SoundJobs
      <4>2. CASE ~Stays(s)
        <5>1. /\ seen[s] = job /\ seen'[s] = job'
              /\ SoundJob(job) /\ Standing(pc[s], job, got[s])
          BY <1>0, <1>1, <3>11, <4>2 DEF Blocks, Moved, Place, SoundJobs
        <5>2. SoundJob(job')
          BY <3>11, <4>2, <5>1 DEF Blocks, Moved, KeepsMarks, KeepsFunding, SoundJob, Standing,
             Opening, Renewing, Settling
        <5>. QED
          BY <5>1, <5>2
      <4>. QED
        BY <4>1, <4>2
    <3>12. CASE ClaimsFunding(s)
      <4>1. CASE Stays(s)
        BY <1>0, <1>1, <4>1 DEF Stays, SoundJobs
      <4>2. CASE ~Stays(s)
        <5>1. /\ seen[s] = job /\ seen'[s] = job'
              /\ SoundJob(job) /\ Standing(pc[s], job, got[s])
          BY <1>0, <1>1, <3>12, <4>2 DEF ClaimsFunding, Moved, Place, SoundJobs
        <5>2. SoundJob(job')
          BY <3>12, <4>2, <5>1 DEF ClaimsFunding, Moved, KeepsMarks, KeepsFunding, SoundJob,
             Standing, Opening, Renewing, Settling
        <5>. QED
          BY <5>1, <5>2
      <4>. QED
        BY <4>1, <4>2
    <3>13. CASE FundsRow(s)
      BY <1>0, <1>1, <3>13 DEF FundsRow, RowMoved, To, RowOnly, SoundJobs, SoundJob
    <3>14. CASE Submit(s)
      BY <1>0, <1>1, <3>14 DEF Submit, Goto, ledger, history, SoundJobs, SoundJob
    <3>15. CASE Reconciles(s)
      BY <1>0, <1>1, <3>15 DEF Reconciles, RowMoved, To, RowOnly, SoundJobs, SoundJob
    <3>16. CASE SettlesFunded(s)
      <4>1. CASE Stays(s)
        BY <1>0, <1>1, <4>1 DEF Stays, SoundJobs
      <4>2. CASE ~Stays(s)
        <5>1. /\ seen[s] = job /\ seen'[s] = job'
              /\ SoundJob(job) /\ Standing(pc[s], job, got[s])
          BY <1>0, <1>1, <3>16, <4>2 DEF SettlesFunded, Moved, Place, SoundJobs
        <5>2. SoundJob(job')
          BY <3>16, <4>2, <5>1 DEF SettlesFunded, Moved, KeepsMarks, KeepsFunding, SoundJob,
             Standing, Opening, Renewing, Settling
        <5>. QED
          BY <5>1, <5>2
      <4>. QED
        BY <4>1, <4>2
    <3>17. CASE SettlesFailed(s)
      <4>1. CASE Stays(s)
        BY <1>0, <1>1, <4>1 DEF Stays, SoundJobs
      <4>2. CASE ~Stays(s)
        <5>1. /\ seen[s] = job /\ seen'[s] = job'
              /\ SoundJob(job) /\ Standing(pc[s], job, got[s])
          BY <1>0, <1>1, <3>17, <4>2 DEF SettlesFailed, Moved, Place, SoundJobs
        <5>2. SoundJob(job')
          BY <3>17, <4>2, <5>1 DEF SettlesFailed, Moved, KeepsMarks, KeepsFunding, SoundJob,
             Standing, Opening, Renewing, Settling
        <5>. QED
          BY <5>1, <5>2
      <4>. QED
        BY <4>1, <4>2
    <3>18. CASE SettleOpen(s)
      BY <1>0, <1>1, <3>18 DEF SettleOpen, Goto, Elsewhere, ledger, history, SoundJobs, SoundJob
    <3>19. CASE ClaimsRetry(s)
      <4>1. CASE Stays(s)
        BY <1>0, <1>1, <4>1 DEF Stays, SoundJobs
      <4>2. CASE ~Stays(s)
        <5>1. /\ seen[s] = job /\ seen'[s] = job'
              /\ SoundJob(job) /\ Standing(pc[s], job, got[s])
          BY <1>0, <1>1, <3>19, <4>2 DEF ClaimsRetry, Moved, Place, SoundJobs
        <5>2. SoundJob(job')
          BY <3>19, <4>2, <5>1 DEF ClaimsRetry, Moved, KeepsMarks, KeepsFunding, SoundJob,
             Standing, Opening, Renewing, Settling
        <5>. QED
          BY <5>1, <5>2
      <4>. QED
        BY <4>1, <4>2
    <3>20. CASE ProveUnused(s)
      BY <1>0, <1>1, <3>20 DEF ProveUnused, Goto, Elsewhere, ledger, history, SoundJobs, SoundJob
    <3>21. CASE ClaimsRenewal(s)
      <4>1. CASE Stays(s)
        BY <1>0, <1>1, <4>1 DEF Stays, SoundJobs
      <4>2. CASE ~Stays(s)
        <5>1. /\ seen[s] = job /\ seen'[s] = job'
              /\ SoundJob(job) /\ Standing(pc[s], job, got[s])
          BY <1>0, <1>1, <3>21, <4>2 DEF ClaimsRenewal, Moved, Place, SoundJobs
        <5>2. SoundJob(job')
          BY <3>21, <4>2, <5>1 DEF ClaimsRenewal, Moved, KeepsMarks, KeepsFunding, SoundJob,
             Standing, Opening, Renewing, Settling
        <5>. QED
          BY <5>1, <5>2
      <4>. QED
        BY <4>1, <4>2
    <3>22. CASE PrepareRenewal(s)
      BY <1>0, <1>1, <3>22 DEF PrepareRenewal, Goto, Elsewhere, ledger, history, SoundJobs,
         SoundJob
    <3>23. CASE RenewsRow(s)
      BY <1>0, <1>1, <3>23 DEF RenewsRow, RowMoved, To, RowOnly, SoundJobs, SoundJob
    <3>24. CASE SealsRenewal(s)
      <4>1. CASE Stays(s)
        BY <1>0, <1>1, <4>1 DEF Stays, SoundJobs
      <4>2. CASE ~Stays(s)
        <5>1. /\ seen[s] = job /\ seen'[s] = job'
              /\ SoundJob(job) /\ Standing(pc[s], job, got[s])
          BY <1>0, <1>1, <3>24, <4>2 DEF SealsRenewal, Moved, Place, SoundJobs
        <5>2. SoundJob(job')
          BY <3>24, <4>2, <5>1, BurnerAssumption DEF SealsRenewal, Moved, KeepsMarks,
             KeepsFunding, SoundJob, Standing, Opening, Renewing, Settling
        <5>. QED
          BY <5>1, <5>2
      <4>. QED
        BY <4>1, <4>2
    <3>25. CASE ClaimsRun(s)
      <4>1. CASE Stays(s)
        BY <1>0, <1>1, <4>1 DEF Stays, SoundJobs
      <4>2. CASE ~Stays(s)
        <5>1. /\ seen[s] = job /\ seen'[s] = job'
              /\ SoundJob(job) /\ Standing(pc[s], job, got[s])
          BY <1>0, <1>1, <3>25, <4>2 DEF ClaimsRun, Moved, Place, SoundJobs
        <5>2. SoundJob(job')
          BY <3>25, <4>2, <5>1 DEF ClaimsRun, Moved, KeepsMarks, KeepsFunding, SoundJob,
             Standing, Opening, Renewing, Settling
        <5>. QED
          BY <5>1, <5>2
      <4>. QED
        BY <4>1, <4>2
    <3>26. CASE RunsRow(s)
      BY <1>0, <1>1, <3>26 DEF RunsRow, RowMoved, To, RowOnly, SoundJobs, SoundJob
    <3>27. CASE Launch(s)
      BY <1>0, <1>1, <3>27 DEF Launch, Goto, ledger, history, SoundJobs, SoundJob
    <3>28. CASE Finishes(s)
      <4>1. CASE Stays(s)
        BY <1>0, <1>1, <4>1 DEF Stays, SoundJobs
      <4>2. CASE ~Stays(s)
        <5>1. /\ seen[s] = job /\ seen'[s] = job'
              /\ SoundJob(job) /\ Standing(pc[s], job, got[s])
          BY <1>0, <1>1, <3>28, <4>2 DEF Finishes, Moved, Place, SoundJobs
        <5>2. SoundJob(job')
          BY <3>28, <4>2, <5>1 DEF Finishes, Moved, KeepsMarks, KeepsFunding, SoundJob,
             Standing, Opening, Renewing, Settling
        <5>. QED
          BY <5>1, <5>2
      <4>. QED
        BY <4>1, <4>2
    <3>29. CASE ProveRepair(s)
      BY <1>0, <1>1, <3>29 DEF ProveRepair, Goto, Elsewhere, ledger, history, SoundJobs, SoundJob
    <3>30. CASE ClaimsRepair(s)
      <4>1. CASE Stays(s)
        BY <1>0, <1>1, <4>1 DEF Stays, SoundJobs
      <4>2. CASE ~Stays(s)
        <5>1. /\ seen[s] = job /\ seen'[s] = job'
              /\ SoundJob(job) /\ Standing(pc[s], job, got[s])
          BY <1>0, <1>1, <3>30, <4>2 DEF ClaimsRepair, Moved, Place, SoundJobs
        <5>2. SoundJob(job')
          BY <3>30, <4>2, <5>1 DEF ClaimsRepair, Moved, KeepsMarks, KeepsFunding, SoundJob,
             Standing, Opening, Renewing, Settling
        <5>. QED
          BY <5>1, <5>2
      <4>. QED
        BY <4>1, <4>2
    <3>31. CASE RepairsRow(s)
      BY <1>0, <1>1, <3>31 DEF RepairsRow, RowMoved, To, RowOnly, SoundJobs, SoundJob
    <3>32. CASE Crash(s)
      <4>1. SoundJob(NoJob)
        BY BurnerAssumption DEF SoundJob, NoJob
      <4>2. job' = job /\ seen'[s] = NoJob
        BY <1>1, <3>32 DEF Crash
      <4>. QED
        BY <1>0, <4>1, <4>2 DEF SoundJobs
    <3>. QED
      BY <1>2, <3>1, <3>2, <3>3, <3>4, <3>5, <3>6, <3>7, <3>8, <3>9, <3>10, <3>11, <3>12,
         <3>13, <3>14, <3>15, <3>16, <3>17, <3>18, <3>19, <3>20, <3>21, <3>22, <3>23, <3>24,
         <3>25, <3>26, <3>27, <3>28, <3>29, <3>30, <3>31, <3>32 DEF ServerStep
  <2>2. \A t \in Servers : t # s => seen'[t] = seen[t]
    BY <1>0, <1>2, Others
  <2>. QED
    BY <1>0, <2>1, <2>2 DEF SoundJobs
<1>3. CASE seen' = seen /\ job' = job
  BY <1>0, <1>3 DEF SoundJobs
<1>. QED
  BY <1>2, <1>3, Bystanders DEF vars

\* So do those of the session.
LEMMA RowsSound == Inv /\ [Next]_vars => SoundRows'
<1>. SUFFICES ASSUME Inv, Step \/ UNCHANGED vars PROVE SoundRows'
  BY StepsAre
<1>0. TypeOK /\ SoundRows /\ SoundJobs /\ Place /\ Agree /\ Alone
  BY DEF Inv
<1>1. /\ pc \in [Servers -> Steps] /\ seen \in [Servers -> Jobs] /\ got \in [Servers -> Rows]
      /\ job.version \in Nat /\ row.version \in Nat
      /\ \A u \in Servers : seen[u].version \in Nat /\ got[u].version \in Nat
  BY <1>0, JobFields, RowV DEF TypeOK
<1>2. ASSUME NEW s \in Servers, ServerStep(s) PROVE SoundRows'
  <2>1. SoundRow(row') /\ SoundRow(got'[s])
    <3>1. CASE Begins(s)
      BY <1>0, <1>1, <3>1 DEF Begins, To, JobOnly, SoundRows, SoundRow
    <3>2. CASE Creates(s)
      BY <1>0, <1>1, <3>2 DEF Creates, RowMoved, To, RowOnly, SoundRows, SoundRow
    <3>3. CASE Attaches(s)
      BY <1>0, <1>1, <3>3 DEF Attaches, Moved, Stays, KeepsMarks, KeepsFunding, To, JobOnly,
         SoundRows, SoundRow
    <3>4. CASE Prepare(s)
      BY <1>0, <1>1, <3>4 DEF Prepare, Goto, Elsewhere, ledger, history, SoundRows, SoundRow
    <3>5. CASE RecordsFunding(s)
      BY <1>0, <1>1, <3>5 DEF RecordsFunding, RowMoved, To, RowOnly, SoundRows, SoundRow
    <3>6. CASE Seals(s)
      BY <1>0, <1>1, <3>6 DEF Seals, Moved, Stays, KeepsMarks, KeepsFunding, To, JobOnly,
         SoundRows, SoundRow
    <3>7. CASE Poll(s)
      BY <1>0, <1>1, <3>7 DEF Poll, Goto, Elsewhere, ledger, history, SoundRows, SoundRow
    <3>8. CASE PollsExhausted(s)
      BY <1>0, <1>1, <3>8 DEF PollsExhausted, Goto, Elsewhere, ledger, history, SoundRows,
         SoundRow
    <3>9. CASE Session(s)
      BY <1>0, <1>1, <3>9 DEF Session, Goto, Elsewhere, ledger, history, SoundRows, SoundRow
    <3>10. CASE Throw(s)
      BY <1>0, <1>1, <3>10 DEF Throw, Goto, Elsewhere, ledger, history, Thrown, SoundRows,
         SoundRow
    <3>11. CASE Blocks(s)
      BY <1>0, <1>1, <3>11 DEF Blocks, Moved, Stays, KeepsMarks, KeepsFunding, To, JobOnly,
         SoundRows, SoundRow
    <3>12. CASE ClaimsFunding(s)
      BY <1>0, <1>1, <3>12 DEF ClaimsFunding, Moved, Stays, KeepsMarks, KeepsFunding, To,
         JobOnly, SoundRows, SoundRow
    <3>13. CASE FundsRow(s)
      <4>1. /\ seen[s] = job /\ got'[s] = row' /\ row'.state = "funding" /\ row'.funding = row.funding
            /\ pc[s] = "fund row" /\ Standing(pc[s], seen[s], got[s])
        BY <1>0, <1>1, <3>13 DEF FundsRow, RowMoved, Alone, Holds, Place, Standing
      <4>2. job.state = "funding"
        BY <4>1 DEF Standing
      <4>3. row.funding # None
        BY <1>0, <4>2 DEF Agree, SoundJobs, SoundJob
      <4>. QED
        BY <4>1, <4>3 DEF SoundRow
    <3>14. CASE Submit(s)
      BY <1>0, <1>1, <3>14 DEF Submit, Goto, ledger, history, SoundRows, SoundRow
    <3>15. CASE Reconciles(s)
      <4>1. got[s].funding # None
        <5>1. Standing("reconcile", seen[s], got[s])
          BY <1>0, <3>15 DEF Reconciles, Place, Standing
        <5>. QED
          BY <5>1 DEF Standing
      <4>2. \/ got'[s] = row' /\ row'.funding = got[s].funding
            \/ row' = row /\ got'[s] = row
            \/ row' = row /\ got' = got
        BY <1>1, <3>15 DEF Reconciles, RowMoved
      <4>. QED
        BY <1>0, <4>1, <4>2 DEF SoundRows, SoundRow
    <3>16. CASE SettlesFunded(s)
      BY <1>0, <1>1, <3>16 DEF SettlesFunded, Moved, Stays, KeepsMarks, KeepsFunding, To,
         JobOnly, SoundRows, SoundRow
    <3>17. CASE SettlesFailed(s)
      BY <1>0, <1>1, <3>17 DEF SettlesFailed, Moved, Stays, KeepsMarks, KeepsFunding, To,
         JobOnly, SoundRows, SoundRow
    <3>18. CASE SettleOpen(s)
      BY <1>0, <1>1, <3>18 DEF SettleOpen, Goto, Elsewhere, ledger, history, SoundRows, SoundRow
    <3>19. CASE ClaimsRetry(s)
      BY <1>0, <1>1, <3>19 DEF ClaimsRetry, Moved, Stays, KeepsMarks, KeepsFunding, To,
         JobOnly, SoundRows, SoundRow
    <3>20. CASE ProveUnused(s)
      BY <1>0, <1>1, <3>20 DEF ProveUnused, Goto, Elsewhere, ledger, history, SoundRows, SoundRow
    <3>21. CASE ClaimsRenewal(s)
      BY <1>0, <1>1, <3>21 DEF ClaimsRenewal, Moved, Stays, KeepsMarks, KeepsFunding, To,
         JobOnly, SoundRows, SoundRow
    <3>22. CASE PrepareRenewal(s)
      BY <1>0, <1>1, <3>22 DEF PrepareRenewal, Goto, Elsewhere, ledger, history, SoundRows,
         SoundRow
    <3>23. CASE RenewsRow(s)
      BY <1>0, <1>1, <3>23 DEF RenewsRow, RowMoved, To, RowOnly, SoundRows, SoundRow
    <3>24. CASE SealsRenewal(s)
      BY <1>0, <1>1, <3>24 DEF SealsRenewal, Moved, Stays, KeepsMarks, KeepsFunding, To,
         JobOnly, SoundRows, SoundRow
    <3>25. CASE ClaimsRun(s)
      BY <1>0, <1>1, <3>25 DEF ClaimsRun, Moved, Stays, KeepsMarks, KeepsFunding, To, JobOnly,
         SoundRows, SoundRow
    <3>26. CASE RunsRow(s)
      BY <1>0, <1>1, <3>26 DEF RunsRow, RowMoved, To, RowOnly, SoundRows, SoundRow
    <3>27. CASE Launch(s)
      BY <1>0, <1>1, <3>27 DEF Launch, Goto, ledger, history, SoundRows, SoundRow
    <3>28. CASE Finishes(s)
      BY <1>0, <1>1, <3>28 DEF Finishes, Moved, Stays, KeepsMarks, KeepsFunding, To, JobOnly,
         SoundRows, SoundRow
    <3>29. CASE ProveRepair(s)
      BY <1>0, <1>1, <3>29 DEF ProveRepair, Goto, Elsewhere, ledger, history, SoundRows, SoundRow
    <3>30. CASE ClaimsRepair(s)
      BY <1>0, <1>1, <3>30 DEF ClaimsRepair, Moved, Stays, KeepsMarks, KeepsFunding, To,
         JobOnly, SoundRows, SoundRow
    <3>31. CASE RepairsRow(s)
      BY <1>0, <1>1, <3>31 DEF RepairsRow, RowMoved, To, RowOnly, SoundRows, SoundRow
    <3>32. CASE Crash(s)
      BY <1>0, <1>1, <3>32 DEF Crash, Goto, ledger, history, SoundRows, SoundRow, NoRow
    <3>. QED
      BY <1>2, <3>1, <3>2, <3>3, <3>4, <3>5, <3>6, <3>7, <3>8, <3>9, <3>10, <3>11, <3>12,
         <3>13, <3>14, <3>15, <3>16, <3>17, <3>18, <3>19, <3>20, <3>21, <3>22, <3>23, <3>24,
         <3>25, <3>26, <3>27, <3>28, <3>29, <3>30, <3>31, <3>32 DEF ServerStep
  <2>2. \A t \in Servers : t # s => got'[t] = got[t]
    BY <1>0, <1>2, Others
  <2>. QED
    BY <1>0, <2>1, <2>2 DEF SoundRows
<1>3. ASSUME NEW l \in Labels, Ends(l) PROVE SoundRows'
  BY <1>0, <1>3 DEF Ends, SoundRows, SoundRow
<1>4. CASE got' = got /\ row' = row
  BY <1>0, <1>4 DEF SoundRows
<1>. QED
  BY <1>2, <1>3, <1>4, Bystanders, RowBystanders DEF vars

------------------------------------------------------------------------------
(* Claims *)

\* The states of the two rows in which a claimed step can be under way.
LEMMA HolderOf ==
  ASSUME Place, Alone, Finds, NEW t \in Servers, Holds(pc[t], seen[t])
  PROVE  \/ job.state = "initializing"
         \/ job.state = "funding" /\ row.state = "prepared"
         \/ job.state = "funded" /\ row.state = "failed"
         \/ job.state = "running" /\ row.state \in {"funded", "running"}
<1>1. seen[t] = job /\ Standing(pc[t], job, got[t]) /\ Found(pc[t])
  BY DEF Alone, Place, Standing, Finds
<1>. QED
  BY <1>1 DEF Holds, Standing, Found, Opening, Renewing, Settling

\* At most one controller is between a claim and the write that follows it.
LEMMA AloneKept == Inv /\ [Next]_vars => Alone'
<1>. SUFFICES ASSUME Inv, Step \/ UNCHANGED vars PROVE Alone'
  BY StepsAre
<1>0. TypeOK /\ JobSnapshots /\ Unopened /\ Place /\ Alone /\ Finds /\ Agree /\ Views
  BY DEF Inv
<1>1. /\ pc \in [Servers -> Steps] /\ seen \in [Servers -> Jobs] /\ got \in [Servers -> Rows]
      /\ job.version \in Nat /\ row.version \in Nat
      /\ \A u \in Servers : seen[u].version \in Nat /\ got[u].version \in Nat
  BY <1>0, JobFields, RowV DEF TypeOK
<1>2. ASSUME NEW s \in Servers, ServerStep(s) PROVE Alone'
  <2>. DEFINE Held == Holds(pc[s], seen[s])
              Free == \A t \in Servers : ~Holds(pc[t], seen[t])
  <2>1. /\ Holds(pc'[s], seen'[s]) => seen'[s] = job' /\ (Held \/ Free)
        /\ job' # job => Held \/ Free
    <3>1. CASE Begins(s)
      <4>1. CASE job.state = "absent"
        <5>1. Free
          BY <1>0, <4>1 DEF Unopened, Holds, Opening, Renewing
        <5>2. seen'[s] = job'
          BY <1>1, <3>1, <4>1 DEF Begins
        <5>. QED
          BY <5>1, <5>2
      <4>2. CASE job.state # "absent"
        BY <1>0, <1>1, <3>1, <4>2 DEF Begins, To, JobOnly, Holds, Opening, Renewing
      <4>. QED
        BY <4>1, <4>2
    <3>2. CASE Creates(s)
      BY <1>0, <1>1, <3>2 DEF Creates, RowMoved, To, RowOnly, Alone, Holds, Opening, Renewing
    <3>3. CASE Attaches(s)
      BY <1>0, <1>1, <3>3 DEF Attaches, Moved, Stays, KeepsMarks, KeepsFunding, To, JobOnly,
         Alone, Holds, Opening, Renewing, Place, Standing
    <3>4. CASE Prepare(s)
      BY <1>0, <1>1, <3>4 DEF Prepare, Goto, Elsewhere, ledger, history, Alone, Holds, Opening,
         Renewing
    <3>5. CASE RecordsFunding(s)
      BY <1>0, <1>1, <3>5 DEF RecordsFunding, RowMoved, To, RowOnly, Alone, Holds, Opening,
         Renewing
    <3>6. CASE Seals(s)
      BY <1>0, <1>1, <3>6 DEF Seals, Moved, Stays, KeepsMarks, KeepsFunding, To, JobOnly,
         Alone, Holds, Opening, Renewing
    <3>7. CASE Poll(s)
      BY <1>0, <1>1, <3>7 DEF Poll, Goto, Elsewhere, ledger, history, Alone, Holds, Opening,
         Renewing
    <3>8. CASE PollsExhausted(s)
      BY <1>0, <1>1, <3>8 DEF PollsExhausted, Goto, Elsewhere, ledger, history, Alone, Holds,
         Opening, Renewing
    <3>9. CASE Session(s)
      <4>1. Decide(seen[s], row) \in {"throw", "prove repair", "done", "claim funding", "reconcile",
                                      "settle", "claim run", "finish", "poll"}
        BY <1>0, <1>1, <3>9, Decisions DEF Session, TypeOK, Place, Standing
      <4>2. seen[s].state # "initializing" /\ seen'[s] = seen[s] /\ job' = job
        BY <1>0, <1>1, <3>9 DEF Session, Place, Standing
      <4>. QED
        BY <1>0, <1>1, <3>9, <4>1, <4>2 DEF Session, Goto, Thrown, Holds, Opening, Renewing
    <3>10. CASE Throw(s)
      <4>1. seen'[s] = seen[s] /\ job' = job /\ pc'[s] = Thrown(seen[s])
        BY <1>1, <3>10 DEF Throw, Goto
      <4>2. CASE seen[s].state = "initializing"
        <5>1. pc[s] \in Steps /\ pc[s] \notin {"start", "block", "done"} /\ Standing(pc[s], seen[s], got[s])
          BY <1>0, <1>1, <3>10 DEF Throw, Place, Standing
        <5>2. pc[s] \in Opening \cup Renewing
          BY <4>2, <5>1 DEF Steps, Standing, Opening, Renewing, Settling
        <5>3. Held
          BY <5>2 DEF Holds
        <5>. QED
          BY <1>0, <4>1, <5>3 DEF Alone
      <4>3. CASE seen[s].state # "initializing"
        BY <4>1, <4>3 DEF Thrown, Holds, Opening, Renewing
      <4>. QED
        BY <4>2, <4>3
    <3>11. CASE Blocks(s)
      <4>1. CASE Stays(s)
        BY <1>0, <1>1, <3>11, <4>1 DEF Blocks, Stays, Moved, To, Holds, Opening, Renewing
      <4>2. CASE ~Stays(s)
        <5>1. seen[s] = job /\ seen'[s] = job' /\ Fresh(s)
          BY <1>0, <1>1, <3>11, <4>2 DEF Blocks, Moved, Fresh, Place, Standing, Opening,
             Renewing, Settling
        <5>2. Held \/ Free
          BY <1>0, <1>1, <3>11, <5>1, HolderOf DEF Blocks, Views, View, Place, Standing, Agree,
             Settling, Holds
        <5>. QED
          BY <5>1, <5>2
      <4>. QED
        BY <4>1, <4>2
    <3>12. CASE ClaimsFunding(s)
      <4>1. CASE Stays(s)
        BY <1>0, <1>1, <3>12, <4>1 DEF ClaimsFunding, Stays, Moved, To, Holds, Opening, Renewing
      <4>2. CASE ~Stays(s)
        <5>1. seen[s] = job /\ seen'[s] = job' /\ Fresh(s)
          BY <1>0, <1>1, <3>12, <4>2 DEF ClaimsFunding, Moved, Fresh, Place, Standing, Opening,
             Renewing, Settling
        <5>2. Held \/ Free
          BY <1>0, <1>1, <3>12, <5>1, HolderOf DEF ClaimsFunding, Views, View, Place, Standing,
             Agree, Settling, Holds
        <5>. QED
          BY <5>1, <5>2
      <4>. QED
        BY <4>1, <4>2
    <3>13. CASE FundsRow(s)
      BY <1>0, <1>1, <3>13 DEF FundsRow, RowMoved, To, RowOnly, Alone, Holds, Opening, Renewing
    <3>14. CASE Submit(s)
      BY <1>0, <1>1, <3>14 DEF Submit, Goto, ledger, history, Alone, Holds, Opening, Renewing
    <3>15. CASE Reconciles(s)
      BY <1>0, <1>1, <3>15 DEF Reconciles, RowMoved, To, RowOnly, Alone, Holds, Opening, Renewing
    <3>16. CASE SettlesFunded(s)
      <4>1. CASE Stays(s)
        BY <1>0, <1>1, <3>16, <4>1 DEF SettlesFunded, Stays, Moved, To, Holds, Opening, Renewing
      <4>2. CASE ~Stays(s)
        <5>1. seen[s] = job /\ seen'[s] = job' /\ Fresh(s)
          BY <1>0, <1>1, <3>16, <4>2 DEF SettlesFunded, Moved, Fresh, Place, Standing, Opening,
             Renewing, Settling
        <5>2. Held \/ Free
          BY <1>0, <1>1, <3>16, <5>1, HolderOf DEF SettlesFunded, Views, View, Place, Standing,
             Agree, Settling, Holds
        <5>. QED
          BY <5>1, <5>2
      <4>. QED
        BY <4>1, <4>2
    <3>17. CASE SettlesFailed(s)
      <4>1. CASE Stays(s)
        BY <1>0, <1>1, <3>17, <4>1 DEF SettlesFailed, Stays, Moved, To, Holds, Opening, Renewing
      <4>2. CASE ~Stays(s)
        <5>1. seen[s] = job /\ seen'[s] = job' /\ Fresh(s)
          BY <1>0, <1>1, <3>17, <4>2 DEF SettlesFailed, Moved, Fresh, Place, Standing, Opening,
             Renewing, Settling
        <5>2. Held \/ Free
          BY <1>0, <1>1, <3>17, <5>1, HolderOf DEF SettlesFailed, Views, View, Place, Standing,
             Agree, Settling, Holds
        <5>. QED
          BY <5>1, <5>2
      <4>. QED
        BY <4>1, <4>2
    <3>18. CASE SettleOpen(s)
      <4>1. pc'[s] \in {"done", "prove unused", "claim retry", "poll"} /\ job' = job
        BY <1>1, <3>18 DEF SettleOpen, Goto
      <4>. QED
        BY <4>1 DEF Holds, Opening, Renewing
    <3>19. CASE ClaimsRetry(s)
      <4>1. CASE Stays(s)
        BY <1>0, <1>1, <3>19, <4>1 DEF ClaimsRetry, Stays, Moved, To, Holds, Opening, Renewing
      <4>2. CASE ~Stays(s)
        <5>1. seen[s] = job /\ seen'[s] = job' /\ Fresh(s)
          BY <1>0, <1>1, <3>19, <4>2 DEF ClaimsRetry, Moved, Fresh, Place, Standing, Opening,
             Renewing, Settling
        <5>2. Held \/ Free
          BY <1>0, <1>1, <3>19, <5>1, HolderOf DEF ClaimsRetry, Views, View, Place, Standing,
             Agree, Settling, Holds
        <5>. QED
          BY <5>1, <5>2
      <4>. QED
        BY <4>1, <4>2
    <3>20. CASE ProveUnused(s)
      BY <1>0, <1>1, <3>20 DEF ProveUnused, Goto, Elsewhere, ledger, history, Alone, Holds,
         Opening, Renewing
    <3>21. CASE ClaimsRenewal(s)
      <4>1. CASE Stays(s)
        BY <1>0, <1>1, <3>21, <4>1 DEF ClaimsRenewal, Stays, Moved, To, Holds, Opening, Renewing
      <4>2. CASE ~Stays(s)
        <5>1. seen[s] = job /\ seen'[s] = job' /\ Fresh(s)
          BY <1>0, <1>1, <3>21, <4>2 DEF ClaimsRenewal, Moved, Fresh, Place, Standing, Opening,
             Renewing, Settling
        <5>2. Held \/ Free
          BY <1>0, <1>1, <3>21, <5>1, HolderOf DEF ClaimsRenewal, Views, View, Place, Standing,
             Agree, Settling, Holds
        <5>. QED
          BY <5>1, <5>2
      <4>. QED
        BY <4>1, <4>2
    <3>22. CASE PrepareRenewal(s)
      BY <1>0, <1>1, <3>22 DEF PrepareRenewal, Goto, Elsewhere, ledger, history, Alone, Holds,
         Opening, Renewing
    <3>23. CASE RenewsRow(s)
      BY <1>0, <1>1, <3>23 DEF RenewsRow, RowMoved, To, RowOnly, Alone, Holds, Opening, Renewing
    <3>24. CASE SealsRenewal(s)
      BY <1>0, <1>1, <3>24 DEF SealsRenewal, Moved, Stays, KeepsMarks, KeepsFunding, To,
         JobOnly, Alone, Holds, Opening, Renewing
    <3>25. CASE ClaimsRun(s)
      <4>1. CASE Stays(s)
        BY <1>0, <1>1, <3>25, <4>1 DEF ClaimsRun, Stays, Moved, To, Holds, Opening, Renewing
      <4>2. CASE ~Stays(s)
        <5>1. seen[s] = job /\ seen'[s] = job' /\ Fresh(s)
          BY <1>0, <1>1, <3>25, <4>2 DEF ClaimsRun, Moved, Fresh, Place, Standing, Opening,
             Renewing, Settling
        <5>2. Held \/ Free
          BY <1>0, <1>1, <3>25, <5>1, HolderOf DEF ClaimsRun, Views, View, Place, Standing,
             Agree, Settling, Holds
        <5>. QED
          BY <5>1, <5>2
      <4>. QED
        BY <4>1, <4>2
    <3>26. CASE RunsRow(s)
      BY <1>0, <1>1, <3>26 DEF RunsRow, RowMoved, To, RowOnly, Alone, Holds, Opening, Renewing
    <3>27. CASE Launch(s)
      BY <1>0, <1>1, <3>27 DEF Launch, Goto, ledger, history, Alone, Holds, Opening, Renewing
    <3>28. CASE Finishes(s)
      <4>1. CASE Stays(s)
        BY <1>0, <1>1, <3>28, <4>1 DEF Finishes, Stays, Moved, To, Holds, Opening, Renewing
      <4>2. CASE ~Stays(s)
        <5>1. seen[s] = job /\ seen'[s] = job' /\ Fresh(s)
          BY <1>0, <1>1, <3>28, <4>2 DEF Finishes, Moved, Fresh, Place, Standing, Opening,
             Renewing, Settling
        <5>2. Held \/ Free
          BY <1>0, <1>1, <3>28, <5>1, HolderOf DEF Finishes, Views, View, Place, Standing,
             Agree, Settling, Holds
        <5>. QED
          BY <5>1, <5>2
      <4>. QED
        BY <4>1, <4>2
    <3>29. CASE ProveRepair(s)
      BY <1>0, <1>1, <3>29 DEF ProveRepair, Goto, Elsewhere, ledger, history, Alone, Holds,
         Opening, Renewing
    <3>30. CASE ClaimsRepair(s)
      <4>1. CASE Stays(s)
        BY <1>0, <1>1, <3>30, <4>1 DEF ClaimsRepair, Stays, Moved, To, Holds, Opening, Renewing
      <4>2. CASE ~Stays(s)
        <5>1. seen[s] = job /\ seen'[s] = job' /\ Fresh(s)
          BY <1>0, <1>1, <3>30, <4>2 DEF ClaimsRepair, Moved, Fresh, Place, Standing, Opening,
             Renewing, Settling
        <5>2. Held \/ Free
          BY <1>0, <1>1, <3>30, <5>1, HolderOf DEF ClaimsRepair, Views, View, Place, Standing,
             Agree, Settling, Holds
        <5>. QED
          BY <5>1, <5>2
      <4>. QED
        BY <4>1, <4>2
    <3>31. CASE RepairsRow(s)
      BY <1>0, <1>1, <3>31 DEF RepairsRow, RowMoved, To, RowOnly, Alone, Holds, Opening, Renewing
    <3>32. CASE Crash(s)
      BY <1>0, <1>1, <3>32 DEF Crash, Goto, ledger, history, Alone, Holds, Opening, Renewing
    <3>. QED
      BY <1>2, <3>1, <3>2, <3>3, <3>4, <3>5, <3>6, <3>7, <3>8, <3>9, <3>10, <3>11, <3>12,
         <3>13, <3>14, <3>15, <3>16, <3>17, <3>18, <3>19, <3>20, <3>21, <3>22, <3>23, <3>24,
         <3>25, <3>26, <3>27, <3>28, <3>29, <3>30, <3>31, <3>32 DEF ServerStep
  <2>2. \A t \in Servers : t # s => pc'[t] = pc[t] /\ seen'[t] = seen[t]
    BY <1>0, <1>2, Others
  <2>3. ASSUME NEW t \in Servers, Holds(pc'[t], seen'[t])
        PROVE  seen'[t] = job' /\ \A u \in Servers : Holds(pc'[u], seen'[u]) => u = t
    <3>. HIDE DEF Held, Free
    <3>1. CASE t = s
      <4>1. seen'[s] = job' /\ (Held \/ Free)
        BY <2>1, <2>3, <3>1
      <4>2. \A u \in Servers : u # s => ~Holds(pc'[u], seen'[u])
        BY <1>0, <2>2, <4>1 DEF Alone, Held, Free
      <4>. QED
        BY <3>1, <4>1, <4>2
    <3>2. CASE t # s
      <4>1. Holds(pc[t], seen[t]) /\ seen'[t] = seen[t]
        BY <2>2, <2>3, <3>2
      <4>2. seen[t] = job /\ ~Held /\ ~Free /\ \A u \in Servers : Holds(pc[u], seen[u]) => u = t
        BY <1>0, <3>2, <4>1 DEF Alone, Held, Free
      <4>3. job' = job /\ ~Holds(pc'[s], seen'[s])
        BY <2>1, <4>2
      <4>. QED
        BY <2>2, <4>1, <4>2, <4>3
    <3>. QED
      BY <3>1, <3>2
  <2>. QED
    BY <2>3 DEF Alone
<1>3. CASE pc' = pc /\ seen' = seen /\ job' = job
  BY <1>0, <1>3 DEF Alone
<1>. QED
  BY <1>2, <1>3, Bystanders DEF vars

\* While one controller holds a claim no other server changes either row.
LEMMA Undisturbed ==
  ASSUME Inv, Alone', NEW s \in Servers, ServerStep(s),
         NEW t \in Servers, t # s, Holds(pc[t], seen[t])
  PROVE  job' = job /\ row' = row /\ launches' = launches
<1>0. TypeOK /\ RowSnapshots /\ Place /\ Alone /\ Agree /\ Ledger /\ Finds
  BY DEF Inv
<1>1. /\ pc \in [Servers -> Steps] /\ seen \in [Servers -> Jobs] /\ got \in [Servers -> Rows]
      /\ job.version \in Nat /\ row.version \in Nat
      /\ \A u \in Servers : seen[u].version \in Nat /\ got[u].version \in Nat
  BY <1>0, JobFields, RowV DEF TypeOK
<1>2. pc'[t] = pc[t] /\ seen'[t] = seen[t] /\ got'[t] = got[t]
  BY <1>0, Others
<1>3. seen[t] = job /\ seen'[t] = job'
  BY <1>0, <1>2 DEF Alone
<1>4. ~Holds(pc[s], seen[s])
  BY <1>0 DEF Alone
<1>5. \/ job.state = "initializing"
      \/ job.state = "funding" /\ row.state = "prepared"
      \/ job.state = "funded" /\ row.state = "failed"
      \/ job.state = "running" /\ row.state \in {"funded", "running"}
  BY <1>0, HolderOf
<1>6. row' = row /\ launches' = launches
  <2>1. CASE Begins(s)
    BY <1>4, <2>1 DEF Begins, To, JobOnly, Holds, Opening, Renewing
  <2>2. CASE Creates(s)
    BY <1>4, <2>2 DEF Creates, RowMoved, To, RowOnly, Holds, Opening, Renewing
  <2>3. CASE Attaches(s)
    BY <1>4, <2>3 DEF Attaches, Moved, Stays, KeepsMarks, KeepsFunding, To, JobOnly, Holds,
       Opening, Renewing
  <2>4. CASE Prepare(s)
    BY <1>4, <2>4 DEF Prepare, Goto, Elsewhere, ledger, history, Holds, Opening, Renewing
  <2>5. CASE RecordsFunding(s)
    BY <1>4, <2>5 DEF RecordsFunding, RowMoved, To, RowOnly, Holds, Opening, Renewing
  <2>6. CASE Seals(s)
    BY <1>4, <2>6 DEF Seals, Moved, Stays, KeepsMarks, KeepsFunding, To, JobOnly, Holds,
       Opening, Renewing
  <2>7. CASE Poll(s)
    BY <1>4, <2>7 DEF Poll, Goto, Elsewhere, ledger, history, Holds, Opening, Renewing
  <2>8. CASE PollsExhausted(s)
    BY <1>4, <2>8 DEF PollsExhausted, Goto, Elsewhere, ledger, history, Holds, Opening, Renewing
  <2>9. CASE Session(s)
    BY <1>4, <2>9 DEF Session, Goto, Elsewhere, ledger, history, Holds, Opening, Renewing
  <2>10. CASE Throw(s)
    BY <1>4, <2>10 DEF Throw, Goto, Elsewhere, ledger, history, Thrown, Holds, Opening, Renewing
  <2>11. CASE Blocks(s)
    BY <1>4, <2>11 DEF Blocks, Moved, Stays, KeepsMarks, KeepsFunding, To, JobOnly, Holds,
       Opening, Renewing
  <2>12. CASE ClaimsFunding(s)
    BY <1>4, <2>12 DEF ClaimsFunding, Moved, Stays, KeepsMarks, KeepsFunding, To, JobOnly,
       Holds, Opening, Renewing
  <2>13. CASE FundsRow(s)
    BY <1>4, <2>13 DEF FundsRow, RowMoved, To, RowOnly, Holds, Opening, Renewing
  <2>14. CASE Submit(s)
    BY <1>4, <2>14 DEF Submit, Goto, ledger, history, Holds, Opening, Renewing
  <2>15. CASE Reconciles(s)
    <3>1. Standing("reconcile", seen[s], got[s])
      BY <1>0, <2>15 DEF Reconciles, Place, Standing
    <3>2. got[s].state = "funding"
      BY <3>1 DEF Standing
    <3>3. CASE got[s] = row /\ got[s].funding = landed.envelope
      <4>1. job.state = "initializing" /\ row.state = "funding"
        BY <1>5, <3>2, <3>3
      <4>2. job.renewed /\ row.funding = "original"
        BY <1>0, <4>1 DEF Agree
      <4>. QED
        BY <1>0, <3>3, <4>2 DEF Ledger
    <3>4. row' = row \/ (got[s] = row /\ got[s].funding = landed.envelope)
      <4>1. \/ row' = row
            \/ row.version = got[s].version /\ got[s].funding = landed.envelope
        BY <2>15 DEF Reconciles
      <4>. QED
        BY <1>0, <3>2, <4>1 DEF RowSnapshots
    <3>. QED
      BY <3>3, <3>4, <2>15 DEF Reconciles, RowOnly
  <2>16. CASE SettlesFunded(s)
    BY <1>4, <2>16 DEF SettlesFunded, Moved, Stays, KeepsMarks, KeepsFunding, To, JobOnly,
       Holds, Opening, Renewing
  <2>17. CASE SettlesFailed(s)
    BY <1>4, <2>17 DEF SettlesFailed, Moved, Stays, KeepsMarks, KeepsFunding, To, JobOnly,
       Holds, Opening, Renewing
  <2>18. CASE SettleOpen(s)
    BY <1>4, <2>18 DEF SettleOpen, Goto, Elsewhere, ledger, history, Holds, Opening, Renewing
  <2>19. CASE ClaimsRetry(s)
    BY <1>4, <2>19 DEF ClaimsRetry, Moved, Stays, KeepsMarks, KeepsFunding, To, JobOnly, Holds,
       Opening, Renewing
  <2>20. CASE ProveUnused(s)
    BY <1>4, <2>20 DEF ProveUnused, Goto, Elsewhere, ledger, history, Holds, Opening, Renewing
  <2>21. CASE ClaimsRenewal(s)
    BY <1>4, <2>21 DEF ClaimsRenewal, Moved, Stays, KeepsMarks, KeepsFunding, To, JobOnly,
       Holds, Opening, Renewing
  <2>22. CASE PrepareRenewal(s)
    BY <1>4, <2>22 DEF PrepareRenewal, Goto, Elsewhere, ledger, history, Holds, Opening, Renewing
  <2>23. CASE RenewsRow(s)
    BY <1>4, <2>23 DEF RenewsRow, RowMoved, To, RowOnly, Holds, Opening, Renewing
  <2>24. CASE SealsRenewal(s)
    BY <1>4, <2>24 DEF SealsRenewal, Moved, Stays, KeepsMarks, KeepsFunding, To, JobOnly,
       Holds, Opening, Renewing
  <2>25. CASE ClaimsRun(s)
    BY <1>4, <2>25 DEF ClaimsRun, Moved, Stays, KeepsMarks, KeepsFunding, To, JobOnly, Holds,
       Opening, Renewing
  <2>26. CASE RunsRow(s)
    BY <1>4, <2>26 DEF RunsRow, RowMoved, To, RowOnly, Holds, Opening, Renewing
  <2>27. CASE Launch(s)
    BY <1>4, <2>27 DEF Launch, Goto, ledger, history, Holds, Opening, Renewing
  <2>28. CASE Finishes(s)
    BY <1>4, <2>28 DEF Finishes, Moved, Stays, KeepsMarks, KeepsFunding, To, JobOnly, Holds,
       Opening, Renewing
  <2>29. CASE ProveRepair(s)
    BY <1>4, <2>29 DEF ProveRepair, Goto, Elsewhere, ledger, history, Holds, Opening, Renewing
  <2>30. CASE ClaimsRepair(s)
    BY <1>4, <2>30 DEF ClaimsRepair, Moved, Stays, KeepsMarks, KeepsFunding, To, JobOnly,
       Holds, Opening, Renewing
  <2>31. CASE RepairsRow(s)
    BY <1>4, <2>31 DEF RepairsRow, RowMoved, To, RowOnly, Holds, Opening, Renewing
  <2>32. CASE Crash(s)
    BY <1>4, <2>32 DEF Crash, Goto, ledger, history, Holds, Opening, Renewing
  <2>. QED
    BY <2>1, <2>2, <2>3, <2>4, <2>5, <2>6, <2>7, <2>8, <2>9, <2>10, <2>11, <2>12, <2>13, <2>14,
       <2>15, <2>16, <2>17, <2>18, <2>19, <2>20, <2>21, <2>22, <2>23, <2>24, <2>25, <2>26,
       <2>27, <2>28, <2>29, <2>30, <2>31, <2>32 DEF ServerStep
<1>. QED
  BY <1>2, <1>3, <1>6

\* A controller that holds a claim finds the session as the claim promised.
LEMMA FindsKept == Inv /\ [Next]_vars => Finds'
<1>. SUFFICES ASSUME Inv, [Next]_vars, Step \/ UNCHANGED vars PROVE Finds'
  BY StepsAre
<1>0. /\ TypeOK /\ JobSnapshots /\ Unopened /\ SoundJobs /\ Place /\ Alone /\ Finds /\ Agree /\ Ledger
      /\ Views /\ Runs
  BY DEF Inv
<1>a. Alone'
  BY AloneKept
<1>1. /\ pc \in [Servers -> Steps] /\ seen \in [Servers -> Jobs] /\ got \in [Servers -> Rows]
      /\ job.version \in Nat /\ row.version \in Nat
      /\ \A u \in Servers : seen[u].version \in Nat /\ got[u].version \in Nat
  BY <1>0, JobFields, RowV DEF TypeOK
<1>2. ASSUME NEW s \in Servers, ServerStep(s) PROVE Finds'
  <2>0. Found(pc[s]) /\ Standing(pc[s], seen[s], got[s])
    BY <1>0 DEF Finds, Place, Standing
  <2>1. Found(pc[s])'
    <3>1. CASE Begins(s)
      <4>1. job.state = "absent" => row.state = "absent"
        BY <1>0 DEF Unopened
      <4>. QED
        BY <1>1, <4>1, <3>1 DEF Begins, To, JobOnly, Found
    <3>2. CASE Creates(s)
      BY <1>1, <2>0, <3>2 DEF Creates, RowMoved, To, RowOnly, Found
    <3>3. CASE Attaches(s)
      BY <1>1, <2>0, <3>3 DEF Attaches, Moved, Stays, KeepsMarks, KeepsFunding, To, JobOnly, Found
    <3>4. CASE Prepare(s)
      BY <1>1, <2>0, <3>4 DEF Prepare, Goto, Elsewhere, ledger, history, Found
    <3>5. CASE RecordsFunding(s)
      BY <1>1, <2>0, <3>5 DEF RecordsFunding, RowMoved, To, RowOnly, Found
    <3>6. CASE Seals(s)
      BY <1>1, <2>0, <3>6 DEF Seals, Moved, Stays, KeepsMarks, KeepsFunding, To, JobOnly, Found
    <3>7. CASE Poll(s)
      BY <1>1, <2>0, <3>7 DEF Poll, Goto, Elsewhere, ledger, history, Found
    <3>8. CASE PollsExhausted(s)
      BY <1>1, <2>0, <3>8 DEF PollsExhausted, Goto, Elsewhere, ledger, history, Found
    <3>9. CASE Session(s)
      <4>1. seen[s] \in Jobs /\ row \in Rows
        BY <1>0, <1>1 DEF TypeOK
      <4>2. Decide(seen[s], row) \in {"throw", "prove repair", "done", "claim funding", "reconcile",
                                      "settle", "claim run", "finish", "poll"}
        BY <2>0, <4>1, <3>9, Decisions DEF Session, Standing
      <4>3. pc'[s] \in {"block", "prove repair", "done", "claim funding", "reconcile",
                        "settle", "claim run", "finish", "poll"}
        BY <1>1, <4>2, <3>9 DEF Session, Goto, Thrown
      <4>. QED
        BY <4>3 DEF Found
    <3>10. CASE Throw(s)
      BY <1>1, <2>0, <3>10 DEF Throw, Goto, Elsewhere, ledger, history, Thrown, Found
    <3>11. CASE Blocks(s)
      BY <1>1, <2>0, <3>11 DEF Blocks, Moved, Stays, KeepsMarks, KeepsFunding, To, JobOnly, Found
    <3>12. CASE ClaimsFunding(s)
      <4>1. \/ pc'[s] = "poll" /\ row' = row
            \/ Moved(s, "funding") /\ To(s, "fund row") /\ row' = row
        BY <1>1, <3>12 DEF ClaimsFunding, To, JobOnly
      <4>2. CASE pc'[s] = "poll"
        BY <4>2 DEF Found
      <4>3. CASE Moved(s, "funding") /\ To(s, "fund row") /\ row' = row
        <5>1. seen[s] = job /\ pc'[s] = "fund row"
          BY <1>1, <4>3 DEF Moved, To
        <5>2. job.state = "prepared"
          BY <2>0, <5>1, <3>12 DEF ClaimsFunding, Standing
        <5>3. row.state = "prepared"
          BY <1>0, <5>2 DEF Agree
        <5>. QED
          BY <4>3, <5>1, <5>3 DEF Found
      <4>. QED
        BY <4>1, <4>2, <4>3
    <3>13. CASE FundsRow(s)
      BY <1>1, <2>0, <3>13 DEF FundsRow, RowMoved, To, RowOnly, Found
    <3>14. CASE Submit(s)
      BY <1>1, <2>0, <3>14 DEF Submit, Goto, ledger, history, Found
    <3>15. CASE Reconciles(s)
      BY <1>1, <2>0, <3>15 DEF Reconciles, RowMoved, To, RowOnly, Found
    <3>16. CASE SettlesFunded(s)
      BY <1>1, <2>0, <3>16 DEF SettlesFunded, Moved, Stays, KeepsMarks, KeepsFunding, To,
         JobOnly, Found
    <3>17. CASE SettlesFailed(s)
      BY <1>1, <2>0, <3>17 DEF SettlesFailed, Moved, Stays, KeepsMarks, KeepsFunding, To,
         JobOnly, Found
    <3>18. CASE SettleOpen(s)
      <4>1. pc'[s] \in {"done", "prove unused", "claim retry", "poll"}
        BY <1>1, <3>18 DEF SettleOpen, Goto
      <4>. QED
        BY <4>1 DEF Found
    <3>19. CASE ClaimsRetry(s)
      BY <1>1, <2>0, <3>19 DEF ClaimsRetry, Moved, Stays, KeepsMarks, KeepsFunding, To,
         JobOnly, Found
    <3>20. CASE ProveUnused(s)
      BY <1>1, <2>0, <3>20 DEF ProveUnused, Goto, Elsewhere, ledger, history, Found
    <3>21. CASE ClaimsRenewal(s)
      <4>1. \/ pc'[s] = "poll" /\ row' = row
            \/ Moved(s, "initializing") /\ To(s, "prepare renewal") /\ row' = row
        BY <1>1, <3>21 DEF ClaimsRenewal, To, JobOnly
      <4>2. CASE pc'[s] = "poll"
        BY <4>2 DEF Found
      <4>3. CASE Moved(s, "initializing") /\ To(s, "prepare renewal") /\ row' = row
        <5>1. seen[s] = job /\ pc'[s] = "prepare renewal"
          BY <1>1, <4>3 DEF Moved, To
        <5>2. job.state = "funding" /\ ~job.renewed /\ job.signed # None /\ got[s].state = "funding" /\ Fresh(s)
          BY <2>0, <5>1, <3>21 DEF ClaimsRenewal, Standing, Settling, Fresh
        <5>3. row.state \in {"funding", "funded", "failed"}
          BY <1>0, <5>2, <3>21 DEF Views, View, ClaimsRenewal, Settling
        <5>4. job.signed = "original"
          BY <1>0, <5>2, JobFields DEF SoundJobs, SoundJob, TypeOK, Envelopes
        <5>5. row.funding = "original"
          BY <1>0, <5>2, <5>4 DEF Agree, SoundJobs, SoundJob
        <5>6. row.state = "funding"
          BY <1>0, <5>2, <5>3, <5>5, <3>21 DEF Ledger, ClaimsRenewal
        <5>. QED
          BY <4>3, <5>1, <5>6 DEF Found
      <4>. QED
        BY <4>1, <4>2, <4>3
    <3>22. CASE PrepareRenewal(s)
      BY <1>1, <2>0, <3>22 DEF PrepareRenewal, Goto, Elsewhere, ledger, history, Found
    <3>23. CASE RenewsRow(s)
      BY <1>1, <2>0, <3>23 DEF RenewsRow, RowMoved, To, RowOnly, Found
    <3>24. CASE SealsRenewal(s)
      BY <1>1, <2>0, <3>24 DEF SealsRenewal, Moved, Stays, KeepsMarks, KeepsFunding, To,
         JobOnly, Found
    <3>25. CASE ClaimsRun(s)
      <4>1. \/ pc'[s] = "poll" /\ row' = row
            \/ Moved(s, "running") /\ To(s, "run row") /\ row' = row
        BY <1>1, <3>25 DEF ClaimsRun, To, JobOnly
      <4>2. CASE pc'[s] = "poll"
        BY <4>2 DEF Found
      <4>3. CASE Moved(s, "running") /\ To(s, "run row") /\ row' = row
        <5>1. seen[s] = job /\ pc'[s] = "run row"
          BY <1>1, <4>3 DEF Moved, To
        <5>2. Fresh(s)
          BY <2>0, <5>1, <3>25 DEF ClaimsRun, Standing, Fresh
        <5>3. row.state = "funded"
          BY <1>0, <5>2, <3>25 DEF Views, View, ClaimsRun
        <5>. QED
          BY <4>3, <5>1, <5>3 DEF Found
      <4>. QED
        BY <4>1, <4>2, <4>3
    <3>26. CASE RunsRow(s)
      <4>1. \/ pc'[s] = "done"
            \/ /\ pc'[s] = "launch" /\ row'.state = "running" /\ row.state = "funded"
               /\ job' = job /\ launches' = launches
        BY <1>1, <3>26 DEF RunsRow, RowMoved, To, RowOnly
      <4>2. job.state = "running"
        BY <1>0, <2>0, <3>26 DEF RunsRow, Standing, Alone, Holds
      <4>3. row.state = "funded" => launches[Label(job)] = 0
        BY <1>0, <4>2 DEF Runs, Unlaunched
      <4>. QED
        BY <4>1, <4>3 DEF Found, Label
    <3>27. CASE Launch(s)
      BY <1>1, <2>0, <3>27 DEF Launch, Goto, ledger, history, Found
    <3>28. CASE Finishes(s)
      BY <1>1, <2>0, <3>28 DEF Finishes, Moved, Stays, KeepsMarks, KeepsFunding, To, JobOnly,
         Found
    <3>29. CASE ProveRepair(s)
      BY <1>1, <2>0, <3>29 DEF ProveRepair, Goto, Elsewhere, ledger, history, Found
    <3>30. CASE ClaimsRepair(s)
      <4>1. \/ pc'[s] = "poll" /\ row' = row
            \/ Moved(s, "funded") /\ To(s, "repair row") /\ row' = row
        BY <1>1, <3>30 DEF ClaimsRepair, To, JobOnly
      <4>2. CASE pc'[s] = "poll"
        BY <4>2 DEF Found
      <4>3. CASE Moved(s, "funded") /\ To(s, "repair row") /\ row' = row
        <5>1. seen[s] = job /\ pc'[s] = "repair row"
          BY <1>1, <4>3 DEF Moved, To
        <5>2. job.state = "failed"
          BY <2>0, <5>1, <3>30 DEF ClaimsRepair, Standing
        <5>3. row.state = "failed"
          BY <1>0, <5>2 DEF Agree
        <5>. QED
          BY <4>3, <5>1, <5>3 DEF Found
      <4>. QED
        BY <4>1, <4>2, <4>3
    <3>31. CASE RepairsRow(s)
      BY <1>1, <2>0, <3>31 DEF RepairsRow, RowMoved, To, RowOnly, Found
    <3>32. CASE Crash(s)
      BY <1>1, <2>0, <3>32 DEF Crash, Goto, ledger, history, Found
    <3>. QED
      BY <1>2, <3>1, <3>2, <3>3, <3>4, <3>5, <3>6, <3>7, <3>8, <3>9, <3>10, <3>11, <3>12,
         <3>13, <3>14, <3>15, <3>16, <3>17, <3>18, <3>19, <3>20, <3>21, <3>22, <3>23, <3>24,
         <3>25, <3>26, <3>27, <3>28, <3>29, <3>30, <3>31, <3>32 DEF ServerStep
  <2>2. ASSUME NEW t \in Servers, t # s PROVE Found(pc[t])'
    <3>1. pc'[t] = pc[t]
      BY <1>0, <1>2, <2>2, Others
    <3>2. CASE Holds(pc[t], seen[t])
      <4>1. job' = job /\ row' = row /\ launches' = launches
        BY <1>a, <1>2, <2>2, <3>2, Undisturbed
      <4>2. Found(pc[t])
        BY <1>0 DEF Finds
      <4>. QED
        BY <3>1, <4>1, <4>2 DEF Found, Label
    <3>3. CASE ~Holds(pc[t], seen[t])
      BY <3>1, <3>3 DEF Found, Holds, Opening, Renewing
    <3>. QED
      BY <3>2, <3>3
  <2>. QED
    BY <2>1, <2>2 DEF Finds
<1>3. ASSUME NEW l \in Labels, Ends(l) PROVE Finds'
  <2>1. row.state = "running" /\ pc' = pc /\ child[l] = "alive" /\ job' = job /\ launches' = launches
    BY <1>3 DEF Ends
  <2>2. launches[Label(job)] # 0
    BY <1>0, <2>1, <1>3 DEF Runs
  <2>3. ASSUME NEW t \in Servers PROVE Found(pc[t])'
    <3>1. Found(pc[t])
      BY <1>0 DEF Finds
    <3>. QED
      BY <2>1, <2>2, <3>1 DEF Found
  <2>. QED
    BY <2>3 DEF Finds
<1>4. CASE pc' = pc /\ row' = row /\ job' = job /\ launches' = launches
  BY <1>0, <1>4 DEF Finds, Found, Label
<1>5. ASSUME Step, \A s \in Servers : ~ServerStep(s), \A l \in Labels : ~Ends(l)
      PROVE  launches' = launches
  BY <1>5 DEF Step, Land, Expire, OwnerMoves, Act, Cool, history
<1>. QED
  BY <1>2, <1>3, <1>4, <1>5, Bystanders, RowBystanders DEF vars

------------------------------------------------------------------------------
(* The two rows and the ledger *)

\* The job and its session stay in states that fit together.
LEMMA AgreeKept == Inv /\ [Next]_vars => Agree'
<1>. SUFFICES ASSUME Inv, [Next]_vars, Step \/ UNCHANGED vars PROVE Agree'
  BY StepsAre
<1>0. /\ TypeOK /\ JobSnapshots /\ RowSnapshots /\ Unopened /\ SoundJobs /\ SoundRows /\ Place /\ Alone
      /\ Finds /\ Agree /\ Ledger /\ Views /\ Runs
  BY DEF Inv
<1>a. Finds'
  BY FindsKept
<1>1. /\ pc \in [Servers -> Steps] /\ seen \in [Servers -> Jobs] /\ got \in [Servers -> Rows]
      /\ job.version \in Nat /\ row.version \in Nat
      /\ \A u \in Servers : seen[u].version \in Nat /\ got[u].version \in Nat
  BY <1>0, JobFields, RowV DEF TypeOK
<1>2. ASSUME NEW s \in Servers, ServerStep(s) PROVE Agree'
  <2>0. Found(pc[s]) /\ Standing(pc[s], seen[s], got[s])
    BY <1>0 DEF Finds, Place, Standing
  <2>1. Agree'
    <3>1. CASE Begins(s)
      <4>1. CASE job.state = "absent"
        <5>1. row.state = "absent"
          BY <1>0, <4>1 DEF Unopened
        <5>. QED
          BY <4>1, <5>1, <3>1 DEF Begins, JobOnly, Agree
      <4>2. CASE job.state # "absent"
        BY <1>0, <4>2, <3>1 DEF Begins, JobOnly, Agree
      <4>. QED
        BY <4>1, <4>2
    <3>2. CASE Creates(s)
      <4>1. job.state = "initializing" /\ ~job.renewed
        BY <1>0, <2>0, <3>2 DEF Creates, Standing, Opening, Alone, Holds
      <4>. QED
        BY <1>0, <4>1, <3>2 DEF Creates, RowOnly, Agree
    <3>3. CASE Attaches(s)
      <4>1. CASE Stays(s)
        BY <1>0, <4>1, <3>3 DEF Attaches, Stays, JobOnly, Agree
      <4>2. CASE ~Stays(s)
        <5>1. /\ seen[s] = job /\ row' = row /\ Fresh(s) /\ seen'[s] = job'
              /\ Standing(pc[s], job, got[s])
          BY <1>1, <2>0, <4>2, <3>3 DEF Attaches, Moved, JobOnly, Fresh, Standing, Settling,
             Opening, Renewing
        <5>2. job.state = "initializing" /\ ~job.renewed
          BY <5>1, <3>3 DEF Attaches, Standing, Opening
        <5>. QED
          BY <1>0, <4>2, <5>1, <5>2, <3>3 DEF Attaches, Moved, KeepsMarks, KeepsFunding, Agree
      <4>. QED
        BY <4>1, <4>2
    <3>4. CASE Prepare(s)
      BY <1>0, <3>4 DEF Prepare, Goto, Elsewhere, ledger, history, Agree
    <3>5. CASE RecordsFunding(s)
      <4>1. job.state = "initializing" /\ ~job.renewed
        BY <1>0, <2>0, <3>5 DEF RecordsFunding, Standing, Opening, Renewing, Alone, Holds
      <4>. QED
        BY <1>0, <4>1, <3>5 DEF RecordsFunding, RowMoved, RowOnly, Agree
    <3>6. CASE Seals(s)
      <4>1. CASE Stays(s)
        BY <1>0, <4>1, <3>6 DEF Seals, Stays, JobOnly, Agree
      <4>2. CASE ~Stays(s)
        <5>1. /\ seen[s] = job /\ row' = row /\ Fresh(s) /\ seen'[s] = job'
              /\ Standing(pc[s], job, got[s])
          BY <1>1, <2>0, <4>2, <3>6 DEF Seals, Moved, JobOnly, Fresh, Standing, Settling,
             Opening, Renewing
        <5>2. job.state = "initializing" /\ ~job.renewed /\ row.state = "prepared" /\ row.funding = "original"
          BY <2>0, <5>1, <3>6 DEF Seals, Standing, Opening, Found
        <5>. QED
          BY <1>0, <4>2, <5>1, <5>2, <3>6 DEF Seals, Moved, KeepsMarks, KeepsFunding, Agree
      <4>. QED
        BY <4>1, <4>2
    <3>7. CASE Poll(s)
      BY <1>0, <3>7 DEF Poll, Goto, Elsewhere, ledger, history, Agree
    <3>8. CASE PollsExhausted(s)
      BY <1>0, <3>8 DEF PollsExhausted, Goto, Elsewhere, ledger, history, Agree
    <3>9. CASE Session(s)
      BY <1>0, <3>9 DEF Session, Goto, Elsewhere, ledger, history, Agree
    <3>10. CASE Throw(s)
      BY <1>0, <3>10 DEF Throw, Goto, Elsewhere, ledger, history, Thrown, Agree
    <3>11. CASE Blocks(s)
      <4>1. CASE Stays(s)
        BY <1>0, <4>1, <3>11 DEF Blocks, Stays, JobOnly, Agree
      <4>2. CASE ~Stays(s)
        <5>1. /\ seen[s] = job /\ row' = row /\ Fresh(s) /\ seen'[s] = job'
              /\ Standing(pc[s], job, got[s])
          BY <1>1, <2>0, <4>2, <3>11 DEF Blocks, Moved, JobOnly, Fresh, Standing, Settling,
             Opening, Renewing
        <5>2. job.state \in {"initializing", "prepared"}
          BY <5>1, <3>11 DEF Blocks, Standing
        <5>. QED
          BY <1>0, <4>2, <5>1, <5>2, <3>11 DEF Blocks, Moved, KeepsMarks, KeepsFunding, Agree
      <4>. QED
        BY <4>1, <4>2
    <3>12. CASE ClaimsFunding(s)
      <4>1. CASE Stays(s)
        BY <1>0, <4>1, <3>12 DEF ClaimsFunding, Stays, JobOnly, Agree
      <4>2. CASE ~Stays(s)
        <5>1. /\ seen[s] = job /\ row' = row /\ Fresh(s) /\ seen'[s] = job'
              /\ Standing(pc[s], job, got[s])
          BY <1>1, <2>0, <4>2, <3>12 DEF ClaimsFunding, Moved, JobOnly, Fresh, Standing,
             Settling, Opening, Renewing
        <5>2. job.state = "prepared"
          BY <5>1, <3>12 DEF ClaimsFunding, Standing
        <5>. QED
          BY <1>0, <4>2, <5>1, <5>2, <3>12 DEF ClaimsFunding, Moved, KeepsMarks, KeepsFunding,
             Agree
      <4>. QED
        BY <4>1, <4>2
    <3>13. CASE FundsRow(s)
      <4>1. job.state = "funding"
        BY <1>0, <2>0, <3>13 DEF FundsRow, Standing, Opening, Renewing, Alone, Holds
      <4>. QED
        BY <1>0, <4>1, <3>13 DEF FundsRow, RowMoved, RowOnly, Agree
    <3>14. CASE Submit(s)
      BY <1>0, <3>14 DEF Submit, Goto, ledger, history, Agree
    <3>15. CASE Reconciles(s)
      <4>1. Standing("reconcile", seen[s], got[s])
        BY <2>0, <3>15 DEF Reconciles
      <4>2. got[s].state = "funding"
        BY <4>1 DEF Standing
      <4>3. CASE got[s] = row /\ RowMoved(s, IF landed.ok THEN "funded" ELSE "failed", row.funding)
                 /\ row.funding = landed.envelope
        <5>1. row.state = "funding" /\ row'.state \in {"funded", "failed"} /\ row'.funding = row.funding /\ job' = job
          BY <4>2, <4>3, <3>15 DEF RowMoved, Reconciles, RowOnly
        <5>2. ~(job.renewed /\ row.funding = "original")
          BY <1>0, <4>3 DEF Ledger
        <5>3. job.state \in {"absent", "initializing", "prepared", "funding", "funded", "running",
                            "succeeded", "failed", "blocked"}
          BY <1>0 DEF TypeOK, Jobs
        <5>4. job.state = "funding"
          BY <1>0, <5>1, <5>2, <5>3 DEF Agree, Unopened
        <5>. QED
          BY <1>0, <5>1, <5>4 DEF Agree
      <4>4. CASE row' = row
        BY <1>0, <4>4, <3>15 DEF Reconciles, RowOnly, Agree
      <4>5. \/ row' = row
            \/ /\ row.version = got[s].version /\ got[s].funding = landed.envelope
               /\ RowMoved(s, IF landed.ok THEN "funded" ELSE "failed", got[s].funding)
        BY <3>15 DEF Reconciles
      <4>6. row.version = got[s].version => got[s] = row
        BY <1>0, <4>2 DEF RowSnapshots
      <4>. QED
        BY <4>3, <4>4, <4>5, <4>6
    <3>16. CASE SettlesFunded(s)
      <4>1. CASE Stays(s)
        BY <1>0, <4>1, <3>16 DEF SettlesFunded, Stays, JobOnly, Agree
      <4>2. CASE ~Stays(s)
        <5>1. /\ seen[s] = job /\ row' = row /\ Fresh(s) /\ seen'[s] = job'
              /\ Standing(pc[s], job, got[s])
          BY <1>1, <2>0, <4>2, <3>16 DEF SettlesFunded, Moved, JobOnly, Fresh, Standing,
             Settling, Opening, Renewing
        <5>2. job.state = "funding"
          BY <5>1, <3>16 DEF SettlesFunded, Standing, Settling
        <5>3. row.state = "funded"
          BY <1>0, <5>1, <3>16 DEF Views, View, SettlesFunded
        <5>. QED
          BY <1>0, <4>2, <5>1, <5>2, <5>3, <3>16 DEF SettlesFunded, Moved, KeepsMarks,
             KeepsFunding, Agree
      <4>. QED
        BY <4>1, <4>2
    <3>17. CASE SettlesFailed(s)
      <4>1. CASE Stays(s)
        BY <1>0, <4>1, <3>17 DEF SettlesFailed, Stays, JobOnly, Agree
      <4>2. CASE ~Stays(s)
        <5>1. /\ seen[s] = job /\ row' = row /\ Fresh(s) /\ seen'[s] = job'
              /\ Standing(pc[s], job, got[s])
          BY <1>1, <2>0, <4>2, <3>17 DEF SettlesFailed, Moved, JobOnly, Fresh, Standing,
             Settling, Opening, Renewing
        <5>2. job.state = "funding"
          BY <5>1, <3>17 DEF SettlesFailed, Standing, Settling
        <5>3. row.state = "failed"
          BY <1>0, <5>1, <3>17 DEF Views, View, SettlesFailed
        <5>. QED
          BY <1>0, <4>2, <5>1, <5>2, <5>3, <3>17 DEF SettlesFailed, Moved, KeepsMarks,
             KeepsFunding, Agree
      <4>. QED
        BY <4>1, <4>2
    <3>18. CASE SettleOpen(s)
      BY <1>0, <3>18 DEF SettleOpen, Goto, Elsewhere, ledger, history, Agree
    <3>19. CASE ClaimsRetry(s)
      <4>1. CASE Stays(s)
        BY <1>0, <4>1, <3>19 DEF ClaimsRetry, Stays, JobOnly, Agree
      <4>2. CASE ~Stays(s)
        <5>1. /\ seen[s] = job /\ row' = row /\ Fresh(s) /\ seen'[s] = job'
              /\ Standing(pc[s], job, got[s])
          BY <1>1, <2>0, <4>2, <3>19 DEF ClaimsRetry, Moved, JobOnly, Fresh, Standing,
             Settling, Opening, Renewing
        <5>2. job.state = "funding"
          BY <5>1, <3>19 DEF ClaimsRetry, Standing, Settling
        <5>. QED
          BY <1>0, <4>2, <5>1, <5>2, <3>19 DEF ClaimsRetry, Moved, KeepsMarks, KeepsFunding, Agree
      <4>. QED
        BY <4>1, <4>2
    <3>20. CASE ProveUnused(s)
      BY <1>0, <3>20 DEF ProveUnused, Goto, Elsewhere, ledger, history, Agree
    <3>21. CASE ClaimsRenewal(s)
      <4>1. CASE Stays(s)
        BY <1>0, <4>1, <3>21 DEF ClaimsRenewal, Stays, JobOnly, Agree
      <4>2. CASE ~Stays(s)
        <5>1. /\ seen[s] = job /\ row' = row /\ Fresh(s) /\ seen'[s] = job'
              /\ Standing(pc[s], job, got[s])
          BY <1>1, <2>0, <4>2, <3>21 DEF ClaimsRenewal, Moved, JobOnly, Fresh, Standing,
             Settling, Opening, Renewing
        <5>2. job.state = "funding" /\ ~job.renewed /\ job.signed # None
          BY <5>1, <3>21 DEF ClaimsRenewal, Standing, Settling
        <5>3. job.signed = "original"
          BY <1>0, <5>2, JobFields DEF SoundJobs, SoundJob, TypeOK, Envelopes
        <5>4. row.funding = "original"
          BY <1>0, <5>2, <5>3 DEF Agree, SoundJobs, SoundJob
        <5>5. pc'[s] = "prepare renewal"
          BY <1>1, <4>2, <3>21 DEF ClaimsRenewal, To
        <5>6. row.state = "funding"
          <6>1. Found(pc[s])'
            BY <1>a DEF Finds
          <6>. QED
            BY <5>1, <5>5, <6>1 DEF Found
        <5>. QED
          BY <1>0, <4>2, <5>1, <5>2, <5>3, <5>4, <5>6, <3>21 DEF ClaimsRenewal, Moved,
             KeepsMarks, KeepsFunding, Agree
      <4>. QED
        BY <4>1, <4>2
    <3>22. CASE PrepareRenewal(s)
      BY <1>0, <3>22 DEF PrepareRenewal, Goto, Elsewhere, ledger, history, Agree
    <3>23. CASE RenewsRow(s)
      <4>1. job.state = "initializing" /\ job.renewed
        BY <1>0, <2>0, <3>23 DEF RenewsRow, Standing, Opening, Renewing, Alone, Holds
      <4>. QED
        BY <1>0, <4>1, <3>23 DEF RenewsRow, RowMoved, RowOnly, Agree
    <3>24. CASE SealsRenewal(s)
      <4>1. CASE Stays(s)
        BY <1>0, <4>1, <3>24 DEF SealsRenewal, Stays, JobOnly, Agree
      <4>2. CASE ~Stays(s)
        <5>1. /\ seen[s] = job /\ row' = row /\ Fresh(s) /\ seen'[s] = job'
              /\ Standing(pc[s], job, got[s])
          BY <1>1, <2>0, <4>2, <3>24 DEF SealsRenewal, Moved, JobOnly, Fresh, Standing,
             Settling, Opening, Renewing
        <5>2. job.state = "initializing" /\ job.renewed /\ row.state = "prepared"
          BY <2>0, <5>1, <3>24 DEF SealsRenewal, Standing, Renewing, Found
        <5>3. row.funding = "renewal"
          BY <1>0, <5>2 DEF Agree
        <5>. QED
          BY <1>0, <4>2, <5>1, <5>2, <5>3, <3>24 DEF SealsRenewal, Moved, KeepsMarks,
             KeepsFunding, Agree
      <4>. QED
        BY <4>1, <4>2
    <3>25. CASE ClaimsRun(s)
      <4>1. CASE Stays(s)
        BY <1>0, <4>1, <3>25 DEF ClaimsRun, Stays, JobOnly, Agree
      <4>2. CASE ~Stays(s)
        <5>1. /\ seen[s] = job /\ row' = row /\ Fresh(s) /\ seen'[s] = job'
              /\ Standing(pc[s], job, got[s])
          BY <1>1, <2>0, <4>2, <3>25 DEF ClaimsRun, Moved, JobOnly, Fresh, Standing, Settling,
             Opening, Renewing
        <5>2. job.state = "funded"
          BY <5>1, <3>25 DEF ClaimsRun, Standing
        <5>3. row.state = "funded"
          BY <1>0, <5>1, <3>25 DEF Views, View, ClaimsRun
        <5>. QED
          BY <1>0, <4>2, <5>1, <5>2, <5>3, <3>25 DEF ClaimsRun, Moved, KeepsMarks,
             KeepsFunding, Agree
      <4>. QED
        BY <4>1, <4>2
    <3>26. CASE RunsRow(s)
      <4>1. job.state = "running"
        BY <1>0, <2>0, <3>26 DEF RunsRow, Standing, Opening, Renewing, Alone, Holds
      <4>. QED
        BY <1>0, <4>1, <3>26 DEF RunsRow, RowMoved, RowOnly, Agree
    <3>27. CASE Launch(s)
      BY <1>0, <3>27 DEF Launch, Goto, ledger, history, Agree
    <3>28. CASE Finishes(s)
      <4>1. CASE Stays(s)
        BY <1>0, <4>1, <3>28 DEF Finishes, Stays, JobOnly, Agree
      <4>2. CASE ~Stays(s)
        <5>1. /\ seen[s] = job /\ row' = row /\ Fresh(s) /\ seen'[s] = job'
              /\ Standing(pc[s], job, got[s])
          BY <1>1, <2>0, <4>2, <3>28 DEF Finishes, Moved, JobOnly, Fresh, Standing, Settling,
             Opening, Renewing
        <5>2. job.state = "running" /\ got[s].state \in {"succeeded", "failed"}
          BY <5>1, <3>28 DEF Finishes, Standing
        <5>3. row.state = got[s].state
          BY <1>0, <5>1, <3>28 DEF Views, View, Finishes
        <5>. QED
          BY <1>0, <4>2, <5>1, <5>2, <5>3, <3>28 DEF Finishes, Moved, KeepsMarks, KeepsFunding,
             Agree
      <4>. QED
        BY <4>1, <4>2
    <3>29. CASE ProveRepair(s)
      BY <1>0, <3>29 DEF ProveRepair, Goto, Elsewhere, ledger, history, Agree
    <3>30. CASE ClaimsRepair(s)
      <4>1. CASE Stays(s)
        BY <1>0, <4>1, <3>30 DEF ClaimsRepair, Stays, JobOnly, Agree
      <4>2. CASE ~Stays(s)
        <5>1. /\ seen[s] = job /\ row' = row /\ Fresh(s) /\ seen'[s] = job'
              /\ Standing(pc[s], job, got[s])
          BY <1>1, <2>0, <4>2, <3>30 DEF ClaimsRepair, Moved, JobOnly, Fresh, Standing,
             Settling, Opening, Renewing
        <5>2. job.state = "failed"
          BY <5>1, <3>30 DEF ClaimsRepair, Standing
        <5>3. row.state = "failed"
          BY <1>0, <5>2 DEF Agree
        <5>. QED
          BY <1>0, <4>2, <5>1, <5>2, <5>3, <3>30 DEF ClaimsRepair, Moved, KeepsMarks,
             KeepsFunding, Agree
      <4>. QED
        BY <4>1, <4>2
    <3>31. CASE RepairsRow(s)
      <4>1. job.state = "funded"
        BY <1>0, <2>0, <3>31 DEF RepairsRow, Standing, Opening, Renewing, Alone, Holds
      <4>. QED
        BY <1>0, <4>1, <3>31 DEF RepairsRow, RowMoved, RowOnly, Agree
    <3>32. CASE Crash(s)
      BY <1>0, <3>32 DEF Crash, Goto, ledger, history, Agree
    <3>. QED
      BY <1>2, <3>1, <3>2, <3>3, <3>4, <3>5, <3>6, <3>7, <3>8, <3>9, <3>10, <3>11, <3>12,
         <3>13, <3>14, <3>15, <3>16, <3>17, <3>18, <3>19, <3>20, <3>21, <3>22, <3>23, <3>24,
         <3>25, <3>26, <3>27, <3>28, <3>29, <3>30, <3>31, <3>32 DEF ServerStep
  <2>. QED
    BY <2>1
<1>3. ASSUME NEW l \in Labels, Ends(l) PROVE Agree'
  <2>1. job.state = "running"
    BY <1>0, <1>3 DEF Ends, Runs
  <2>. QED
    BY <1>0, <1>3, <2>1 DEF Ends, Agree
<1>4. CASE job' = job /\ row' = row
  BY <1>0, <1>4 DEF Agree
<1>. QED
  BY <1>2, <1>3, <1>4, Bystanders, RowBystanders DEF vars

\* What the two rows say of the funding is so on the ledger.
LEMMA LedgerKept == Inv /\ [Next]_vars => Ledger'
<1>. SUFFICES ASSUME Inv, [Next]_vars, Step \/ UNCHANGED vars PROVE Ledger'
  BY StepsAre
<1>0. /\ TypeOK /\ JobSnapshots /\ RowSnapshots /\ Unopened /\ SoundJobs /\ SoundRows /\ Place /\ Alone
      /\ Finds /\ Agree /\ Ledger /\ Attempted /\ Views /\ Runs
  BY DEF Inv
<1>a. Agree' /\ SoundJobs'
  BY AgreeKept, JobsSound
<1>1. /\ pc \in [Servers -> Steps] /\ seen \in [Servers -> Jobs] /\ got \in [Servers -> Rows]
      /\ job.version \in Nat /\ row.version \in Nat
      /\ \A u \in Servers : seen[u].version \in Nat /\ got[u].version \in Nat
  BY <1>0, JobFields, RowV DEF TypeOK
<1>2. ASSUME NEW s \in Servers, ServerStep(s) PROVE Ledger'
  <2>0. Found(pc[s]) /\ Standing(pc[s], seen[s], got[s])
    BY <1>0 DEF Finds, Place, Standing
  <2>2. \A t \in Servers : t # s => pc'[t] = pc[t]
    BY <1>0, <1>2, Others
  <2>1. Ledger'
    <3>1. CASE Begins(s)
      <4>1. CASE job.state = "absent"
        <5>1. row.state = "absent" /\ job.funding = None
          BY <1>0, <4>1 DEF Unopened, JobSnapshots, NoJob
        <5>2. landed.envelope = None
          BY <1>0, <5>1 DEF Ledger
        <5>. QED
          BY <1>0, <1>1, <2>2, <4>1, <5>1, <5>2, <3>1 DEF Begins, To, JobOnly, Ledger
      <4>2. CASE job.state # "absent"
        BY <1>0, <1>1, <2>2, <4>2, <3>1 DEF Begins, To, JobOnly, Ledger
      <4>. QED
        BY <4>1, <4>2
    <3>2. CASE Creates(s)
      <4>1. job.state = "initializing"
        BY <1>0, <2>0, <3>2 DEF Creates, Standing, Opening, Renewing, Alone, Holds
      <4>. QED
        BY <1>0, <1>1, <2>2, <4>1, <3>2 DEF Creates, RowMoved, RowOnly, To, Ledger
    <3>3. CASE Attaches(s)
      <4>1. CASE Stays(s)
        BY <1>0, <1>1, <2>2, <4>1, <3>3 DEF Attaches, Stays, JobOnly, To, Ledger
      <4>2. CASE ~Stays(s)
        <5>1. /\ seen[s] = job /\ row' = row /\ Fresh(s) /\ seen'[s] = job'
              /\ Standing(pc[s], job, got[s])
          BY <1>1, <2>0, <4>2, <3>3 DEF Attaches, Moved, JobOnly, Fresh, Standing, Settling,
             Opening, Renewing
        <5>5. /\ job'.funding = job.funding /\ job'.renewed = job.renewed
              /\ job'.state = "initializing"
              /\ row' = row /\ landed' = landed
              /\ sequence' = sequence /\ expired' = expired /\ actors' = actors
          BY <4>2, <5>1, <3>3 DEF Attaches, Moved, JobOnly, KeepsMarks, KeepsFunding
        <5>6. pc'[s] # "claim renewal"
          BY <1>1, <3>3 DEF Attaches, To
        <5>. QED
          BY <1>0, <1>1, <2>2, <5>5, <5>6 DEF Ledger
      <4>. QED
        BY <4>1, <4>2
    <3>4. CASE Prepare(s)
      BY <1>0, <1>1, <2>2, <3>4 DEF Prepare, Goto, Elsewhere, ledger, history, Ledger
    <3>5. CASE RecordsFunding(s)
      <4>1. job.state = "initializing"
        BY <1>0, <2>0, <3>5 DEF RecordsFunding, Standing, Opening, Renewing, Alone, Holds
      <4>. QED
        BY <1>0, <1>1, <2>2, <4>1, <3>5 DEF RecordsFunding, RowMoved, RowOnly, To, Ledger
    <3>6. CASE Seals(s)
      <4>1. CASE Stays(s)
        BY <1>0, <1>1, <2>2, <4>1, <3>6 DEF Seals, Stays, JobOnly, To, Ledger
      <4>2. CASE ~Stays(s)
        <5>1. /\ seen[s] = job /\ row' = row /\ Fresh(s) /\ seen'[s] = job'
              /\ Standing(pc[s], job, got[s])
          BY <1>1, <2>0, <4>2, <3>6 DEF Seals, Moved, JobOnly, Fresh, Standing, Settling,
             Opening, Renewing
        <5>2. job.state = "initializing" /\ ~job.renewed /\ row.state = "prepared"
          BY <2>0, <5>1, <3>6 DEF Seals, Standing, Opening, Found
        <5>3. job.funding = None
          BY <1>0, <5>2 DEF Agree, SoundJobs, SoundJob
        <5>4. landed.envelope = None
          BY <1>0, <5>3 DEF Ledger
        <5>5. /\ job'.renewed = job.renewed
              /\ job'.state = "prepared" /\ landed.envelope = None
              /\ row' = row /\ landed' = landed
              /\ sequence' = sequence /\ expired' = expired /\ actors' = actors
          BY <4>2, <5>1, <5>2, <5>3, <5>4, <3>6 DEF Seals, Moved, JobOnly, KeepsMarks,
             KeepsFunding
        <5>6. pc'[s] # "claim renewal"
          BY <1>1, <3>6 DEF Seals, To
        <5>. QED
          BY <1>0, <1>1, <2>2, <5>5, <5>6 DEF Ledger
      <4>. QED
        BY <4>1, <4>2
    <3>7. CASE Poll(s)
      BY <1>0, <1>1, <2>2, <3>7 DEF Poll, Goto, Elsewhere, ledger, history, Ledger
    <3>8. CASE PollsExhausted(s)
      BY <1>0, <1>1, <2>2, <3>8 DEF PollsExhausted, Goto, Elsewhere, ledger, history, Ledger
    <3>9. CASE Session(s)
      <4>1. seen[s] \in Jobs /\ row \in Rows
        BY <1>0, <1>1 DEF TypeOK
      <4>2. Decide(seen[s], row) \in {"throw", "prove repair", "done", "claim funding", "reconcile",
                                      "settle", "claim run", "finish", "poll"}
        BY <2>0, <4>1, <3>9, Decisions DEF Session, Standing
      <4>3. pc'[s] # "claim renewal"
        BY <1>1, <4>2, <3>9 DEF Session, Goto, Thrown
      <4>. QED
        BY <1>0, <1>1, <2>2, <4>3, <3>9 DEF Session, Elsewhere, ledger, Ledger
    <3>10. CASE Throw(s)
      BY <1>0, <1>1, <2>2, <3>10 DEF Throw, Goto, Elsewhere, ledger, history, Thrown, Ledger
    <3>11. CASE Blocks(s)
      <4>1. CASE Stays(s)
        BY <1>0, <1>1, <2>2, <4>1, <3>11 DEF Blocks, Stays, JobOnly, To, Ledger
      <4>2. CASE ~Stays(s)
        <5>1. /\ seen[s] = job /\ row' = row /\ Fresh(s) /\ seen'[s] = job'
              /\ Standing(pc[s], job, got[s])
          BY <1>1, <2>0, <4>2, <3>11 DEF Blocks, Moved, JobOnly, Fresh, Standing, Settling,
             Opening, Renewing
        <5>5. /\ job'.funding = job.funding /\ job'.renewed = job.renewed
              /\ job'.state = "blocked"
              /\ row' = row /\ landed' = landed
              /\ sequence' = sequence /\ expired' = expired /\ actors' = actors
          BY <4>2, <5>1, <3>11 DEF Blocks, Moved, JobOnly, KeepsMarks, KeepsFunding
        <5>6. pc'[s] # "claim renewal"
          BY <1>1, <3>11 DEF Blocks, To
        <5>. QED
          BY <1>0, <1>1, <2>2, <5>5, <5>6 DEF Ledger
      <4>. QED
        BY <4>1, <4>2
    <3>12. CASE ClaimsFunding(s)
      <4>1. CASE Stays(s)
        BY <1>0, <1>1, <2>2, <4>1, <3>12 DEF ClaimsFunding, Stays, JobOnly, To, Ledger
      <4>2. CASE ~Stays(s)
        <5>1. /\ seen[s] = job /\ row' = row /\ Fresh(s) /\ seen'[s] = job'
              /\ Standing(pc[s], job, got[s])
          BY <1>1, <2>0, <4>2, <3>12 DEF ClaimsFunding, Moved, JobOnly, Fresh, Standing,
             Settling, Opening, Renewing
        <5>2. job.state = "prepared"
          BY <5>1, <3>12 DEF ClaimsFunding, Standing
        <5>3. row.state = "prepared"
          BY <1>0, <5>2 DEF Agree
        <5>5. /\ job'.funding = job.funding /\ job'.renewed = job.renewed
              /\ job'.state = "funding" /\ row.state = "prepared"
              /\ row' = row /\ landed' = landed
              /\ sequence' = sequence /\ expired' = expired /\ actors' = actors
          BY <4>2, <5>1, <5>2, <5>3, <3>12 DEF ClaimsFunding, Moved, JobOnly, KeepsMarks,
             KeepsFunding
        <5>6. pc'[s] # "claim renewal"
          BY <1>1, <3>12 DEF ClaimsFunding, To
        <5>. QED
          BY <1>0, <1>1, <2>2, <5>5, <5>6 DEF Ledger
      <4>. QED
        BY <4>1, <4>2
    <3>13. CASE FundsRow(s)
      <4>1. job.state = "funding"
        BY <1>0, <2>0, <3>13 DEF FundsRow, Standing, Opening, Renewing, Alone, Holds
      <4>. QED
        BY <1>0, <1>1, <2>2, <4>1, <3>13 DEF FundsRow, RowMoved, RowOnly, To, Ledger
    <3>14. CASE Submit(s)
      BY <1>0, <1>1, <2>2, <3>14 DEF Submit, Goto, ledger, history, Ledger
    <3>15. CASE Reconciles(s)
      <4>1. Standing("reconcile", seen[s], got[s])
        BY <2>0, <3>15 DEF Reconciles
      <4>2. got[s].state = "funding"
        BY <4>1 DEF Standing
      <4>3. CASE got[s] = row /\ RowMoved(s, IF landed.ok THEN "funded" ELSE "failed", row.funding)
                 /\ row.funding = landed.envelope
        <5>1. row.state = "funding" /\ row'.funding = row.funding /\ job' = job
              /\ row'.state = IF landed.ok THEN "funded" ELSE "failed"
          BY <4>2, <4>3, <3>15 DEF RowMoved, Reconciles, RowOnly
        <5>. QED
          BY <1>0, <1>1, <2>2, <4>3, <5>1, <3>15 DEF Ledger, Reconciles, To, RowOnly
      <4>4. CASE row' = row
        BY <1>0, <1>1, <2>2, <4>4, <3>15 DEF Reconciles, To, RowOnly, Ledger
      <4>5. \/ row' = row
            \/ /\ row.version = got[s].version /\ got[s].funding = landed.envelope
               /\ RowMoved(s, IF landed.ok THEN "funded" ELSE "failed", got[s].funding)
        BY <3>15 DEF Reconciles
      <4>6. row.version = got[s].version => got[s] = row
        BY <1>0, <4>2 DEF RowSnapshots
      <4>. QED
        BY <4>3, <4>4, <4>5, <4>6
    <3>16. CASE SettlesFunded(s)
      <4>1. CASE Stays(s)
        BY <1>0, <1>1, <2>2, <4>1, <3>16 DEF SettlesFunded, Stays, JobOnly, To, Ledger
      <4>2. CASE ~Stays(s)
        <5>1. /\ seen[s] = job /\ row' = row /\ Fresh(s) /\ seen'[s] = job'
              /\ Standing(pc[s], job, got[s])
          BY <1>1, <2>0, <4>2, <3>16 DEF SettlesFunded, Moved, JobOnly, Fresh, Standing,
             Settling, Opening, Renewing
        <5>2. row.state = "funded"
          BY <1>0, <5>1, <3>16 DEF Views, View, SettlesFunded
        <5>3. landed.ok
          BY <1>0, <5>2 DEF Ledger
        <5>4. /\ job'.funding = job.funding /\ job'.renewed = job.renewed /\ job'.state # "funding"
              /\ row' = row /\ landed' = landed
              /\ sequence' = sequence /\ expired' = expired /\ actors' = actors
          BY <1>0, <4>2, <5>1, <3>16 DEF SettlesFunded, Moved, JobOnly, KeepsMarks, KeepsFunding
        <5>5. pc'[s] # "claim renewal"
          BY <1>1, <3>16 DEF SettlesFunded, To
        <5>. QED
          BY <1>0, <1>1, <2>2, <5>3, <5>4, <5>5 DEF Ledger
      <4>. QED
        BY <4>1, <4>2
    <3>17. CASE SettlesFailed(s)
      <4>1. CASE Stays(s)
        BY <1>0, <1>1, <2>2, <4>1, <3>17 DEF SettlesFailed, Stays, JobOnly, To, Ledger
      <4>2. CASE ~Stays(s)
        <5>1. /\ seen[s] = job /\ row' = row /\ Fresh(s) /\ seen'[s] = job'
              /\ Standing(pc[s], job, got[s])
          BY <1>1, <2>0, <4>2, <3>17 DEF SettlesFailed, Moved, JobOnly, Fresh, Standing,
             Settling, Opening, Renewing
        <5>5. /\ job'.funding = job.funding /\ job'.renewed = job.renewed
              /\ job'.state = "failed"
              /\ row' = row /\ landed' = landed
              /\ sequence' = sequence /\ expired' = expired /\ actors' = actors
          BY <4>2, <5>1, <3>17 DEF SettlesFailed, Moved, JobOnly, KeepsMarks, KeepsFunding
        <5>6. pc'[s] # "claim renewal"
          BY <1>1, <3>17 DEF SettlesFailed, To
        <5>. QED
          BY <1>0, <1>1, <2>2, <5>5, <5>6 DEF Ledger
      <4>. QED
        BY <4>1, <4>2
    <3>18. CASE SettleOpen(s)
      <4>1. pc'[s] # "claim renewal"
        BY <1>1, <3>18 DEF SettleOpen, Goto
      <4>. QED
        BY <1>0, <1>1, <2>2, <4>1, <3>18 DEF SettleOpen, Elsewhere, ledger, Ledger
    <3>19. CASE ClaimsRetry(s)
      <4>1. CASE Stays(s)
        BY <1>0, <1>1, <2>2, <4>1, <3>19 DEF ClaimsRetry, Stays, JobOnly, To, Ledger
      <4>2. CASE ~Stays(s)
        <5>1. /\ seen[s] = job /\ row' = row /\ Fresh(s) /\ seen'[s] = job'
              /\ Standing(pc[s], job, got[s])
          BY <1>1, <2>0, <4>2, <3>19 DEF ClaimsRetry, Moved, JobOnly, Fresh, Standing,
             Settling, Opening, Renewing
        <5>2. job.state = "funding"
          BY <5>1, <3>19 DEF ClaimsRetry, Standing, Settling
        <5>5. /\ job'.funding = job.funding /\ job'.renewed = job.renewed
              /\ job'.state = "funding" /\ job.state = "funding"
              /\ row' = row /\ landed' = landed
              /\ sequence' = sequence /\ expired' = expired /\ actors' = actors
          BY <4>2, <5>1, <5>2, <3>19 DEF ClaimsRetry, Moved, JobOnly, KeepsMarks, KeepsFunding
        <5>6. pc'[s] # "claim renewal"
          BY <1>1, <3>19 DEF ClaimsRetry, To
        <5>. QED
          BY <1>0, <1>1, <2>2, <5>5, <5>6 DEF Ledger
      <4>. QED
        BY <4>1, <4>2
    <3>20. CASE ProveUnused(s)
      <4>1. pc'[s] = "claim renewal" => expired /\ landed.envelope # "original"
        BY <1>0, <1>1, <3>20, BurnerAssumption DEF ProveUnused, Goto, ExpiredUnused, Ledger
      <4>. QED
        BY <1>0, <1>1, <2>2, <4>1, <3>20 DEF ProveUnused, Elsewhere, ledger, Ledger
    <3>21. CASE ClaimsRenewal(s)
      <4>1. CASE Stays(s)
        BY <1>0, <1>1, <2>2, <4>1, <3>21 DEF ClaimsRenewal, Stays, JobOnly, To, Ledger
      <4>2. CASE ~Stays(s)
        <5>1. /\ seen[s] = job /\ row' = row /\ Fresh(s) /\ seen'[s] = job'
              /\ Standing(pc[s], job, got[s])
          BY <1>1, <2>0, <4>2, <3>21 DEF ClaimsRenewal, Moved, JobOnly, Fresh, Standing,
             Settling, Opening, Renewing
        <5>. QED
          BY <1>0, <1>1, <2>2, <4>2, <5>1, <3>21 DEF ClaimsRenewal, Moved, To, JobOnly,
             KeepsMarks, KeepsFunding, Ledger
      <4>. QED
        BY <4>1, <4>2
    <3>22. CASE PrepareRenewal(s)
      BY <1>0, <1>1, <2>2, <3>22 DEF PrepareRenewal, Goto, Elsewhere, ledger, history, Ledger
    <3>23. CASE RenewsRow(s)
      <4>1. job.state = "initializing"
        BY <1>0, <2>0, <3>23 DEF RenewsRow, Standing, Opening, Renewing, Alone, Holds
      <4>. QED
        BY <1>0, <1>1, <2>2, <4>1, <3>23 DEF RenewsRow, RowMoved, RowOnly, To, Ledger
    <3>24. CASE SealsRenewal(s)
      <4>1. CASE Stays(s)
        BY <1>0, <1>1, <2>2, <4>1, <3>24 DEF SealsRenewal, Stays, JobOnly, To, Ledger
      <4>2. CASE ~Stays(s)
        <5>1. /\ seen[s] = job /\ row' = row /\ Fresh(s) /\ seen'[s] = job'
              /\ Standing(pc[s], job, got[s])
          BY <1>1, <2>0, <4>2, <3>24 DEF SealsRenewal, Moved, JobOnly, Fresh, Standing,
             Settling, Opening, Renewing
        <5>2. job.state = "initializing" /\ job.renewed /\ row.state = "prepared"
          BY <2>0, <5>1, <3>24 DEF SealsRenewal, Standing, Renewing, Found
        <5>3. job.funding = "original"
          BY <1>0, <5>2 DEF Agree, SoundJobs, SoundJob
        <5>4. landed.envelope = None
          BY <1>0, <5>2, <5>3 DEF Ledger
        <5>. QED
          BY <1>0, <1>1, <2>2, <4>2, <5>1, <5>2, <5>4, <3>24 DEF SealsRenewal, Moved, To,
             JobOnly, KeepsMarks, KeepsFunding, Ledger
      <4>. QED
        BY <4>1, <4>2
    <3>25. CASE ClaimsRun(s)
      <4>1. CASE Stays(s)
        BY <1>0, <1>1, <2>2, <4>1, <3>25 DEF ClaimsRun, Stays, JobOnly, To, Ledger
      <4>2. CASE ~Stays(s)
        <5>1. /\ seen[s] = job /\ row' = row /\ Fresh(s) /\ seen'[s] = job'
              /\ Standing(pc[s], job, got[s])
          BY <1>1, <2>0, <4>2, <3>25 DEF ClaimsRun, Moved, JobOnly, Fresh, Standing, Settling,
             Opening, Renewing
        <5>2. job.state = "funded"
          BY <5>1, <3>25 DEF ClaimsRun, Standing
        <5>3. landed.ok
          BY <1>0, <5>2 DEF Ledger
        <5>4. /\ job'.funding = job.funding /\ job'.renewed = job.renewed /\ job'.state # "funding"
              /\ row' = row /\ landed' = landed
              /\ sequence' = sequence /\ expired' = expired /\ actors' = actors
          BY <1>0, <4>2, <5>1, <3>25 DEF ClaimsRun, Moved, JobOnly, KeepsMarks, KeepsFunding
        <5>5. pc'[s] # "claim renewal"
          BY <1>1, <3>25 DEF ClaimsRun, To
        <5>. QED
          BY <1>0, <1>1, <2>2, <5>3, <5>4, <5>5 DEF Ledger
      <4>. QED
        BY <4>1, <4>2
    <3>26. CASE RunsRow(s)
      <4>1. job.state = "running"
        BY <1>0, <2>0, <3>26 DEF RunsRow, Standing, Opening, Renewing, Alone, Holds
      <4>. QED
        BY <1>0, <1>1, <2>2, <4>1, <3>26 DEF RunsRow, RowMoved, RowOnly, To, Ledger
    <3>27. CASE Launch(s)
      BY <1>0, <1>1, <2>2, <3>27 DEF Launch, Goto, ledger, history, Ledger
    <3>28. CASE Finishes(s)
      <4>1. CASE Stays(s)
        BY <1>0, <1>1, <2>2, <4>1, <3>28 DEF Finishes, Stays, JobOnly, To, Ledger
      <4>2. CASE ~Stays(s)
        <5>1. /\ seen[s] = job /\ row' = row /\ Fresh(s) /\ seen'[s] = job'
              /\ Standing(pc[s], job, got[s])
          BY <1>1, <2>0, <4>2, <3>28 DEF Finishes, Moved, JobOnly, Fresh, Standing, Settling,
             Opening, Renewing
        <5>2. job.state = "running" /\ got[s].state \in {"succeeded", "failed"}
          BY <5>1, <3>28 DEF Finishes, Standing
        <5>3. landed.ok
          BY <1>0, <5>2 DEF Ledger
        <5>4. /\ job'.funding = job.funding /\ job'.renewed = job.renewed /\ job'.state # "funding"
              /\ row' = row /\ landed' = landed
              /\ sequence' = sequence /\ expired' = expired /\ actors' = actors
          BY <1>0, <4>2, <5>1, <5>2, <3>28 DEF Finishes, Moved, JobOnly, KeepsMarks, KeepsFunding
        <5>5. pc'[s] # "claim renewal"
          BY <1>1, <3>28 DEF Finishes, To
        <5>. QED
          BY <1>0, <1>1, <2>2, <5>3, <5>4, <5>5 DEF Ledger
      <4>. QED
        BY <4>1, <4>2
    <3>29. CASE ProveRepair(s)
      BY <1>0, <1>1, <2>2, <3>29 DEF ProveRepair, Goto, Elsewhere, ledger, history, Ledger
    <3>30. CASE ClaimsRepair(s)
      <4>1. CASE Stays(s)
        BY <1>0, <1>1, <2>2, <4>1, <3>30 DEF ClaimsRepair, Stays, JobOnly, To, Ledger
      <4>2. CASE ~Stays(s)
        <5>1. /\ seen[s] = job /\ row' = row /\ Fresh(s) /\ seen'[s] = job'
              /\ Standing(pc[s], job, got[s])
          BY <1>1, <2>0, <4>2, <3>30 DEF ClaimsRepair, Moved, JobOnly, Fresh, Standing,
             Settling, Opening, Renewing
        <5>2. actors # "absent"
          BY <1>0, <5>1, <3>30 DEF Views, View, ClaimsRepair
        <5>3. landed.ok
          BY <1>0, <5>2 DEF Ledger, TypeOK
        <5>4. /\ job'.funding = job.funding /\ job'.renewed = job.renewed /\ job'.state # "funding"
              /\ row' = row /\ landed' = landed
              /\ sequence' = sequence /\ expired' = expired /\ actors' = actors
          BY <1>0, <4>2, <5>1, <3>30 DEF ClaimsRepair, Moved, JobOnly, KeepsMarks, KeepsFunding
        <5>5. pc'[s] # "claim renewal"
          BY <1>1, <3>30 DEF ClaimsRepair, To
        <5>. QED
          BY <1>0, <1>1, <2>2, <5>3, <5>4, <5>5 DEF Ledger
      <4>. QED
        BY <4>1, <4>2
    <3>31. CASE RepairsRow(s)
      <4>1. job.state = "funded"
        BY <1>0, <2>0, <3>31 DEF RepairsRow, Standing, Opening, Renewing, Alone, Holds
      <4>. QED
        BY <1>0, <1>1, <2>2, <4>1, <3>31 DEF RepairsRow, RowMoved, RowOnly, To, Ledger
    <3>32. CASE Crash(s)
      BY <1>0, <1>1, <2>2, <3>32 DEF Crash, Goto, ledger, history, Ledger
    <3>. QED
      BY <1>2, <3>1, <3>2, <3>3, <3>4, <3>5, <3>6, <3>7, <3>8, <3>9, <3>10, <3>11, <3>12,
         <3>13, <3>14, <3>15, <3>16, <3>17, <3>18, <3>19, <3>20, <3>21, <3>22, <3>23, <3>24,
         <3>25, <3>26, <3>27, <3>28, <3>29, <3>30, <3>31, <3>32 DEF ServerStep
  <2>. QED
    BY <2>1
<1>3. ASSUME NEW e \in Envelopes, Land(e) PROVE Ledger'
  <2>1. submitted[e] > 0 /\ (e = "original" => ~expired) /\ sequence = "free" /\ sequence' = "used"
    BY <1>3 DEF Land
  <2>2. landed.envelope = None /\ ~landed.ok /\ actors = "absent"
    BY <1>0, <2>1 DEF Ledger
  <2>3. PICK ok \in BOOLEAN : landed' = [envelope |-> e, ok |-> ok]
                              /\ actors' = IF ok THEN "initial" ELSE actors
    BY <1>3 DEF Land
  <2>4. /\ job' = job /\ row' = row /\ pc' = pc /\ expired' = expired
    BY <1>3 DEF Land
  <2>5. landed'.envelope = e /\ landed'.ok = ok
    BY <2>3
  <2>6. job.funding = e
    <3>1. CASE e = "original"
      <4>1. job.signed # None
        BY <1>0, <2>1, <3>1 DEF Attempted
      <4>2. ~job.renewed
        BY <1>0, <2>1, <3>1 DEF Ledger
      <4>3. job.signed \in Envelopes \cup {None}
        BY <1>0, JobFields DEF TypeOK
      <4>. QED
        BY <1>0, <3>1, <4>1, <4>2, <4>3 DEF SoundJobs, SoundJob, Envelopes
    <3>2. CASE e = "renewal"
      BY <1>0, <2>1, <3>2 DEF Attempted, SoundJobs, SoundJob
    <3>. QED
      BY <3>1, <3>2 DEF Envelopes
  <2>7. ~job.renewed \/ e # "original"
    BY <1>0, <2>1 DEF Ledger
  <2>8. ~(job.state = "funding" /\ row.state \in {"funded", "failed"})
    BY <1>0, <2>2, <2>6, BurnerAssumption DEF Ledger, Agree, Envelopes
  <2>9. row.state # "funded" /\ job.state \notin {"funded", "running", "succeeded"}
    BY <1>0, <2>2 DEF Ledger
  <2>10. e # None
    BY BurnerAssumption DEF Envelopes
  <2>11. ok => actors' = "initial"
    BY <2>3
  <2>12. ~ok => actors' = "absent"
    BY <2>2, <2>3
  <2>13. \A s \in Servers : pc[s] = "claim renewal" => expired /\ e # "original"
    BY <1>0, <2>1 DEF Ledger
  <2>14. job.renewed => expired
    BY <1>0 DEF Ledger
  <2>. QED
    BY <2>1, <2>4, <2>5, <2>6, <2>7, <2>8, <2>9, <2>10, <2>12, <2>13, <2>14 DEF Ledger
<1>4. ASSUME NEW l \in Labels, Ends(l) PROVE Ledger'
  <2>1. job.state = "running"
    BY <1>0, <1>4 DEF Ends, Runs
  <2>. QED
    BY <1>0, <1>4, <2>1 DEF Ends, Ledger
<1>5. CASE Expire
  BY <1>0, <1>5 DEF Expire, Ledger, ledger, history
<1>6. CASE OwnerMoves
  BY <1>0, <1>6 DEF OwnerMoves, Ledger, ledger, history
<1>7. CASE Act
  BY <1>0, <1>7 DEF Act, Ledger, ledger, history
<1>8. CASE Cool
  BY <1>0, <1>8 DEF Cool, Ledger, ledger, history
<1>9. CASE UNCHANGED vars
  BY <1>0, <1>9 DEF vars, Ledger
<1>. QED
  BY <1>2, <1>3, <1>4, <1>5, <1>6, <1>7, <1>8, <1>9 DEF Step

------------------------------------------------------------------------------
(* Attempts *)

\* s claims an attempt; or submits; or signs an envelope; or does none of these.
Claims(s) ==
  /\ seen[s] = job /\ seen'[s] = job' /\ job.state \in {"prepared", "funding"}
  /\ job'.signed = job.signed /\ job'.attempts = job.attempts + 1
  /\ pc[s] \notin {"fund row", "submit"}
  /\ submitted' = submitted

Signs(s) ==
  /\ seen[s] = job /\ seen'[s] = job' /\ job.state = "initializing"
  /\ pc'[s] = "poll"
  /\ \/ pc[s] = "seal" /\ job'.signed = "original"
     \/ pc[s] = "seal renewal" /\ job'.signed = "renewal"
  /\ submitted' = submitted

Else(s) ==
  /\ pc'[s] \in {"fund row", "submit"} => pc[s] \in {"fund row", "submit"} /\ seen'[s] = seen[s]
  /\ job'.signed = job.signed /\ job'.attempts = job.attempts
  /\ seen'[s].signed \in {seen[s].signed, job.signed, None}
  /\ submitted' = submitted

\* A step claims a submission attempt, signs an envelope, submits, or does none of these.
LEMMA Kinds ==
  ASSUME Inv, NEW s \in Servers, ServerStep(s)
  PROVE  Claims(s) \/ Signs(s) \/ Submit(s) \/ Else(s)
<1>0. /\ TypeOK /\ JobSnapshots /\ Unopened /\ Place /\ Alone /\ Agree
  BY DEF Inv
<1>1. /\ pc \in [Servers -> Steps] /\ seen \in [Servers -> Jobs] /\ got \in [Servers -> Rows]
      /\ job.version \in Nat /\ row.version \in Nat
      /\ \A u \in Servers : seen[u].version \in Nat /\ got[u].version \in Nat
  BY <1>0, JobFields, RowV DEF TypeOK
<1>a. Standing(pc[s], seen[s], got[s])
  BY <1>0 DEF Place
<1>2. ASSUME ~Submit(s) PROVE Claims(s) \/ Signs(s) \/ Else(s)
  <2>1. CASE Begins(s)
      <4>1. CASE job.state = "absent"
        <5>1. job.signed = None /\ job.attempts = 0
          BY <1>0, <4>1 DEF JobSnapshots, NoJob
        <5>. QED
          BY <1>1, <4>1, <5>1, <2>1 DEF Begins, To, JobOnly, Else
      <4>2. CASE job.state # "absent"
        BY <1>1, <4>2, <2>1 DEF Begins, To, JobOnly, Else
      <4>. QED
        BY <4>1, <4>2
  <2>2. CASE Creates(s)
    BY <1>1, <2>2 DEF Creates, RowMoved, To, RowOnly, Else
  <2>3. CASE Attaches(s)
      <4>1. pc'[s] \notin {"fund row", "submit"} /\ submitted' = submitted
        BY <1>1, <2>3 DEF Attaches, To, JobOnly
      <4>2. job'.signed = job.signed /\ job'.attempts = job.attempts
        BY <2>3 DEF Attaches, Moved, Stays, KeepsFunding
      <4>3. seen'[s] = seen[s] \/ seen'[s].signed = job.signed
        BY <1>1, <4>2, <2>3 DEF Attaches, Moved, Stays
      <4>. QED
        BY <4>1, <4>2, <4>3 DEF Else
  <2>4. CASE Prepare(s)
    BY <1>1, <2>4 DEF Prepare, Goto, Elsewhere, ledger, history, Else
  <2>5. CASE RecordsFunding(s)
    BY <1>1, <2>5 DEF RecordsFunding, RowMoved, To, RowOnly, Else
  <2>6. CASE Seals(s)
      <4>1. CASE Stays(s) /\ To(s, "done")
        BY <1>1, <4>1, <2>6 DEF Seals, Stays, To, JobOnly, Else
      <4>2. CASE ~(Stays(s) /\ To(s, "done"))
        <5>1. /\ seen[s] = job /\ seen'[s] = job' /\ submitted' = submitted
              /\ Standing(pc[s], job, got[s])
          BY <1>1, <1>a, <4>2, <2>6 DEF Seals, Moved, JobOnly
        <5>2. job.state = "initializing"
          BY <5>1, <2>6 DEF Seals, Standing, Opening
        <5>. QED
          BY <1>1, <4>2, <5>1, <5>2, <2>6 DEF Seals, To, Signs
      <4>. QED
        BY <4>1, <4>2
  <2>7. CASE Poll(s)
    BY <1>1, <2>7 DEF Poll, Goto, Elsewhere, ledger, history, Else
  <2>8. CASE PollsExhausted(s)
    BY <1>1, <2>8 DEF PollsExhausted, Goto, Elsewhere, ledger, history, Else
  <2>9. CASE Session(s)
      <4>1. seen[s] \in Jobs /\ row \in Rows
        BY <1>0, <1>1 DEF TypeOK
      <4>2. Decide(seen[s], row) \in {"throw", "prove repair", "done", "claim funding", "reconcile",
                                      "settle", "claim run", "finish", "poll"}
        BY <1>a, <4>1, <2>9, Decisions DEF Session, Standing
      <4>3. pc'[s] \notin {"fund row", "submit"}
        BY <1>1, <4>2, <2>9 DEF Session, Goto, Thrown
      <4>. QED
        BY <4>3, <2>9 DEF Session, Elsewhere, history, Else
  <2>10. CASE Throw(s)
    BY <1>1, <2>10 DEF Throw, Goto, Elsewhere, ledger, history, Thrown, Else
  <2>11. CASE Blocks(s)
      <4>1. pc'[s] \notin {"fund row", "submit"} /\ submitted' = submitted
        BY <1>1, <2>11 DEF Blocks, To, JobOnly
      <4>2. job'.signed = job.signed /\ job'.attempts = job.attempts
        BY <2>11 DEF Blocks, Moved, Stays, KeepsFunding
      <4>3. seen'[s] = seen[s] \/ seen'[s].signed = job.signed
        BY <1>1, <4>2, <2>11 DEF Blocks, Moved, Stays
      <4>. QED
        BY <4>1, <4>2, <4>3 DEF Else
  <2>12. CASE ClaimsFunding(s)
      <4>1. CASE Stays(s) /\ To(s, "poll")
        BY <1>1, <4>1, <2>12 DEF ClaimsFunding, Stays, To, JobOnly, Else
      <4>2. CASE ~(Stays(s) /\ To(s, "poll"))
        <5>1. /\ seen[s] = job /\ seen'[s] = job' /\ submitted' = submitted
              /\ Standing(pc[s], job, got[s])
          BY <1>1, <1>a, <4>2, <2>12 DEF ClaimsFunding, Moved, JobOnly
        <5>2. job.state = "prepared"
          BY <5>1, <2>12 DEF ClaimsFunding, Standing
        <5>3. job.attempts = 0
          BY <1>0, <5>2 DEF Agree
        <5>4. job'.attempts = 1 /\ job'.signed = job.signed
          BY <4>2, <2>12 DEF ClaimsFunding
        <5>5. job'.attempts = job.attempts + 1
          BY <5>3, <5>4
        <5>6. pc[s] = "claim funding"
          BY <2>12 DEF ClaimsFunding
        <5>. QED
          BY <5>1, <5>2, <5>4, <5>5, <5>6 DEF Claims
      <4>. QED
        BY <4>1, <4>2
  <2>13. CASE FundsRow(s)
    BY <1>1, <2>13 DEF FundsRow, RowMoved, To, RowOnly, Else
  <2>14. CASE Submit(s)
      BY <1>2, <2>14
  <2>15. CASE Reconciles(s)
    BY <1>1, <2>15 DEF Reconciles, RowMoved, To, RowOnly, Else
  <2>16. CASE SettlesFunded(s)
      <4>1. pc'[s] \notin {"fund row", "submit"} /\ submitted' = submitted
        BY <1>1, <2>16 DEF SettlesFunded, To, JobOnly
      <4>2. job'.signed = job.signed /\ job'.attempts = job.attempts
        BY <2>16 DEF SettlesFunded, Moved, Stays, KeepsFunding
      <4>3. seen'[s] = seen[s] \/ seen'[s].signed = job.signed
        BY <1>1, <4>2, <2>16 DEF SettlesFunded, Moved, Stays
      <4>. QED
        BY <4>1, <4>2, <4>3 DEF Else
  <2>17. CASE SettlesFailed(s)
      <4>1. pc'[s] \notin {"fund row", "submit"} /\ submitted' = submitted
        BY <1>1, <2>17 DEF SettlesFailed, To, JobOnly
      <4>2. job'.signed = job.signed /\ job'.attempts = job.attempts
        BY <2>17 DEF SettlesFailed, Moved, Stays, KeepsFunding
      <4>3. seen'[s] = seen[s] \/ seen'[s].signed = job.signed
        BY <1>1, <4>2, <2>17 DEF SettlesFailed, Moved, Stays
      <4>. QED
        BY <4>1, <4>2, <4>3 DEF Else
  <2>18. CASE SettleOpen(s)
      <4>1. pc'[s] \in {"done", "prove unused", "claim retry", "poll"}
        BY <1>1, <2>18 DEF SettleOpen, Goto
      <4>. QED
        BY <4>1, <2>18 DEF SettleOpen, Elsewhere, history, Else
  <2>19. CASE ClaimsRetry(s)
      <4>1. CASE Stays(s) /\ To(s, "poll")
        BY <1>1, <4>1, <2>19 DEF ClaimsRetry, Stays, To, JobOnly, Else
      <4>2. CASE ~(Stays(s) /\ To(s, "poll"))
        <5>1. /\ seen[s] = job /\ seen'[s] = job' /\ submitted' = submitted
              /\ Standing(pc[s], job, got[s])
          BY <1>1, <1>a, <4>2, <2>19 DEF ClaimsRetry, Moved, JobOnly
        <5>2. job.state = "funding"
          BY <5>1, <2>19 DEF ClaimsRetry, Standing, Settling
        <5>. QED
          BY <4>2, <5>1, <5>2, <2>19 DEF ClaimsRetry, Claims
      <4>. QED
        BY <4>1, <4>2
  <2>20. CASE ProveUnused(s)
    BY <1>1, <2>20 DEF ProveUnused, Goto, Elsewhere, ledger, history, Else
  <2>21. CASE ClaimsRenewal(s)
      <4>1. pc'[s] \notin {"fund row", "submit"} /\ submitted' = submitted
        BY <1>1, <2>21 DEF ClaimsRenewal, To, JobOnly
      <4>2. job'.signed = job.signed /\ job'.attempts = job.attempts
        BY <2>21 DEF ClaimsRenewal, Moved, Stays, KeepsFunding
      <4>3. seen'[s] = seen[s] \/ seen'[s].signed = job.signed
        BY <1>1, <4>2, <2>21 DEF ClaimsRenewal, Moved, Stays
      <4>. QED
        BY <4>1, <4>2, <4>3 DEF Else
  <2>22. CASE PrepareRenewal(s)
    BY <1>1, <2>22 DEF PrepareRenewal, Goto, Elsewhere, ledger, history, Else
  <2>23. CASE RenewsRow(s)
    BY <1>1, <2>23 DEF RenewsRow, RowMoved, To, RowOnly, Else
  <2>24. CASE SealsRenewal(s)
      <4>1. CASE Stays(s) /\ To(s, "done")
        BY <1>1, <4>1, <2>24 DEF SealsRenewal, Stays, To, JobOnly, Else
      <4>2. CASE ~(Stays(s) /\ To(s, "done"))
        <5>1. /\ seen[s] = job /\ seen'[s] = job' /\ submitted' = submitted
              /\ Standing(pc[s], job, got[s])
          BY <1>1, <1>a, <4>2, <2>24 DEF SealsRenewal, Moved, JobOnly
        <5>2. job.state = "initializing"
          BY <5>1, <2>24 DEF SealsRenewal, Standing, Renewing
        <5>3. /\ job'.attempts = 0 /\ job'.signed = "renewal" /\ To(s, "poll")
              /\ pc[s] = "seal renewal"
          BY <4>2, <2>24 DEF SealsRenewal
        <5>. QED
          BY <1>1, <5>1, <5>2, <5>3 DEF To, Signs
      <4>. QED
        BY <4>1, <4>2
  <2>25. CASE ClaimsRun(s)
      <4>1. pc'[s] \notin {"fund row", "submit"} /\ submitted' = submitted
        BY <1>1, <2>25 DEF ClaimsRun, To, JobOnly
      <4>2. job'.signed = job.signed /\ job'.attempts = job.attempts
        BY <2>25 DEF ClaimsRun, Moved, Stays, KeepsFunding
      <4>3. seen'[s] = seen[s] \/ seen'[s].signed = job.signed
        BY <1>1, <4>2, <2>25 DEF ClaimsRun, Moved, Stays
      <4>. QED
        BY <4>1, <4>2, <4>3 DEF Else
  <2>26. CASE RunsRow(s)
    BY <1>1, <2>26 DEF RunsRow, RowMoved, To, RowOnly, Else
  <2>27. CASE Launch(s)
    BY <1>1, <2>27 DEF Launch, Goto, ledger, history, Else
  <2>28. CASE Finishes(s)
      <4>1. pc'[s] \notin {"fund row", "submit"} /\ submitted' = submitted
        BY <1>1, <2>28 DEF Finishes, To, JobOnly
      <4>2. job'.signed = job.signed /\ job'.attempts = job.attempts
        BY <2>28 DEF Finishes, Moved, Stays, KeepsFunding
      <4>3. seen'[s] = seen[s] \/ seen'[s].signed = job.signed
        BY <1>1, <4>2, <2>28 DEF Finishes, Moved, Stays
      <4>. QED
        BY <4>1, <4>2, <4>3 DEF Else
  <2>29. CASE ProveRepair(s)
    BY <1>1, <2>29 DEF ProveRepair, Goto, Elsewhere, ledger, history, Else
  <2>30. CASE ClaimsRepair(s)
      <4>1. pc'[s] \notin {"fund row", "submit"} /\ submitted' = submitted
        BY <1>1, <2>30 DEF ClaimsRepair, To, JobOnly
      <4>2. job'.signed = job.signed /\ job'.attempts = job.attempts
        BY <2>30 DEF ClaimsRepair, Moved, Stays, KeepsFunding
      <4>3. seen'[s] = seen[s] \/ seen'[s].signed = job.signed
        BY <1>1, <4>2, <2>30 DEF ClaimsRepair, Moved, Stays
      <4>. QED
        BY <4>1, <4>2, <4>3 DEF Else
  <2>31. CASE RepairsRow(s)
    BY <1>1, <2>31 DEF RepairsRow, RowMoved, To, RowOnly, Else
  <2>32. CASE Crash(s)
    BY <1>1, <2>32 DEF Crash, Goto, ledger, history, Else, NoJob
  <2>. QED
    BY ServerStep(s), <2>1, <2>2, <2>3, <2>4, <2>5, <2>6, <2>7, <2>8, <2>9, <2>10, <2>11,
       <2>12, <2>13, <2>14, <2>15, <2>16, <2>17, <2>18, <2>19, <2>20, <2>21, <2>22, <2>23,
       <2>24, <2>25, <2>26, <2>27, <2>28, <2>29, <2>30, <2>31, <2>32 DEF ServerStep
<1>. QED
  BY <1>2

\* The submissions of e, and those under way, are covered.
Covered(e) ==
  /\ IsFiniteSet(Pending(e))
  /\ submitted[e] + Cardinality(Pending(e)) <= MaxAttempts
  /\ job.signed = e => submitted[e] + Cardinality(Pending(e)) <= job.attempts

\* Every submission, made or under way, was claimed as an attempt beforehand.
LEMMA AttemptedKept == Inv /\ [Next]_vars => Attempted'
<1>. SUFFICES ASSUME Inv, [Next]_vars, Step \/ UNCHANGED vars PROVE Attempted'
  BY StepsAre
<1>0. TypeOK /\ Alone /\ Agree /\ Place /\ Attempted
  BY DEF Inv
<1>a. TypeOK'
  BY Typed
<1>1. /\ pc \in [Servers -> Steps] /\ seen \in [Servers -> Jobs]
      /\ submitted \in [Envelopes -> Nat]
      /\ job.attempts \in Nat /\ job'.attempts \in 0 .. MaxAttempts
      /\ \A s \in Servers : seen[s].signed \in Envelopes \cup {None}
  BY <1>0, <1>a, JobFields DEF TypeOK, MaxAttempts
<1>b. \A e \in Envelopes : Covered(e)
  BY <1>0 DEF Attempted, Covered
<1>c. \A e \in Envelopes : Cardinality(Pending(e)) \in Nat
  BY <1>b, FS_CardinalityType DEF Covered
<1>d. MaxAttempts \in Nat
  BY DEF MaxAttempts
<1>e. "original" \in Envelopes /\ "renewal" \in Envelopes /\ None \notin Envelopes
  BY BurnerAssumption DEF Envelopes
<1>2. ASSUME NEW s \in Servers, ServerStep(s) PROVE Attempted'
  <2>1. \A t \in Servers : t # s => pc'[t] = pc[t] /\ seen'[t] = seen[t]
    BY <1>0, <1>2, Others
  <2>2. CASE Claims(s)
    <3>1. ASSUME NEW e \in Envelopes PROVE Covered(e)'
      <4>1. CASE job.signed = e
        <5>1. Pending(e)' \subseteq Pending(e) \cup {s} /\ s \notin Pending(e)
          BY <2>1, <2>2 DEF Pending, Claims
        <5>2. IsFiniteSet(Pending(e) \cup {s}) /\ Cardinality(Pending(e) \cup {s}) = Cardinality(Pending(e)) + 1
          BY <1>b, <5>1, FS_AddElement DEF Covered
        <5>3. IsFiniteSet(Pending(e)') /\ Cardinality(Pending(e)') <= Cardinality(Pending(e)) + 1
          BY <5>1, <5>2, FS_Subset
        <5>4. Cardinality(Pending(e)') \in Nat
          BY <5>3, FS_CardinalityType
        <5>5. submitted'[e] = submitted[e] /\ job'.attempts = job.attempts + 1
          BY <2>2 DEF Claims
        <5>6. submitted[e] + Cardinality(Pending(e)) <= job.attempts
          BY <1>b, <4>1 DEF Covered
        <5>7. submitted[e] \in Nat
          BY <1>1
        <5>8. submitted'[e] + Cardinality(Pending(e)') <= job'.attempts
          BY <1>1, <1>c, <5>3, <5>4, <5>5, <5>6, <5>7
        <5>9. submitted'[e] + Cardinality(Pending(e)') <= MaxAttempts
          BY <1>1, <1>d, <5>4, <5>5, <5>7, <5>8
        <5>. QED
          BY <5>3, <5>8, <5>9 DEF Covered
      <4>2. CASE job.signed # e
        <5>1. Pending(e)' \subseteq Pending(e)
          BY <2>1, <2>2, <4>2 DEF Pending, Claims
        <5>2. IsFiniteSet(Pending(e)') /\ Cardinality(Pending(e)') <= Cardinality(Pending(e))
          BY <1>b, <5>1, FS_Subset DEF Covered
        <5>3. Cardinality(Pending(e)') \in Nat
          BY <5>2, FS_CardinalityType
        <5>4. submitted'[e] = submitted[e] /\ job'.signed # e /\ submitted[e] \in Nat
          BY <1>1, <2>2, <4>2 DEF Claims
        <5>5. submitted[e] + Cardinality(Pending(e)) <= MaxAttempts
          BY <1>b DEF Covered
        <5>6. submitted'[e] + Cardinality(Pending(e)') <= MaxAttempts
          BY <1>c, <1>d, <5>2, <5>3, <5>4, <5>5
        <5>. QED
          BY <5>2, <5>4, <5>6 DEF Covered
      <4>. QED
        BY <4>1, <4>2
    <3>2. job'.signed = job.signed /\ submitted' = submitted /\ \A t \in Servers : seen'[t].signed \in {seen[t].signed, job.signed}
      BY <2>1, <2>2 DEF Claims
    <3>. QED
      BY <1>0, <3>1, <3>2 DEF Attempted, Covered
  <2>3. CASE Signs(s)
    <3>1. job'.signed \in Envelopes /\ submitted[job'.signed] = 0 /\ \A t \in Servers : seen[t].signed # job'.signed
      <4>1. Standing(pc[s], job, got[s])
        BY <1>0, <2>3 DEF Place, Standing, Signs
      <4>2. CASE pc[s] = "seal" /\ job'.signed = "original"
        <5>1. job.signed = None
          BY <1>0, <4>1, <4>2 DEF Standing, Opening, Agree
        <5>. QED
          BY <1>0, <1>e, <4>2, <5>1 DEF Attempted
      <4>3. CASE pc[s] = "seal renewal" /\ job'.signed = "renewal"
        <5>1. job.signed = "original"
          BY <1>0, <4>1, <4>3 DEF Standing, Renewing, Agree
        <5>. QED
          BY <1>0, <1>e, <4>3, <5>1 DEF Attempted
      <4>. QED
        BY <2>3, <4>2, <4>3 DEF Signs
    <3>2. ASSUME NEW e \in Envelopes PROVE Covered(e)'
      <4>1. Pending(e)' \subseteq Pending(e)
        BY <2>1, <2>3 DEF Pending, Signs
      <4>2. IsFiniteSet(Pending(e)') /\ Cardinality(Pending(e)') <= Cardinality(Pending(e))
        BY <1>b, <4>1, FS_Subset DEF Covered
      <4>3. Cardinality(Pending(e)') \in Nat
        BY <4>2, FS_CardinalityType
      <4>4. submitted'[e] = submitted[e] /\ submitted[e] \in Nat
        BY <1>1, <2>3 DEF Signs
      <4>5. submitted[e] + Cardinality(Pending(e)) <= MaxAttempts
        BY <1>b DEF Covered
      <4>6. submitted'[e] + Cardinality(Pending(e)') <= MaxAttempts
        BY <1>c, <1>d, <4>2, <4>3, <4>4, <4>5
      <4>7. CASE job'.signed = e
        <5>1. Pending(e) = {}
          BY <3>1, <4>7 DEF Pending
        <5>2. Cardinality(Pending(e)') = 0
          BY <4>1, <5>1, FS_EmptySet
        <5>. QED
          BY <1>1, <3>1, <4>2, <4>4, <4>6, <4>7, <5>2 DEF Covered
      <4>8. CASE job'.signed # e
        BY <4>2, <4>6, <4>8 DEF Covered
      <4>. QED
        BY <4>7, <4>8
    <3>3. \/ job'.signed = "renewal"
          \/ job'.signed = "original" /\ job.signed # "renewal"
      <4>1. CASE pc[s] = "seal"
        <5>1. Standing(pc[s], job, got[s])
          BY <1>0, <2>3 DEF Place, Standing, Signs
        <5>2. job.signed = None
          BY <1>0, <4>1, <5>1 DEF Standing, Opening, Agree
        <5>. QED
          BY <1>e, <2>3, <4>1, <5>2 DEF Signs
      <4>. QED
        BY <2>3, <4>1 DEF Signs
    <3>4. submitted' = submitted /\ \A t \in Servers : t # s => seen'[t].signed = seen[t].signed
      BY <2>1, <2>3 DEF Signs
    <3>5. seen'[s].signed = job'.signed
      BY <2>3 DEF Signs
    <3>6. job'.signed # None
      BY <1>e, <3>1
    <3>7. job'.signed # "renewal" => submitted'["renewal"] = 0
      BY <1>0, <3>3, <3>4 DEF Attempted
    <3>8. \A t \in Servers : seen'[t].signed = "renewal" => job'.signed = "renewal"
      BY <1>0, <3>3, <3>4, <3>5 DEF Attempted
    <3>. QED
      BY <3>2, <3>6, <3>7, <3>8 DEF Attempted, Covered
  <2>4. CASE Submit(s)
    <3>1. /\ pc[s] = "submit" /\ pc'[s] = "poll" /\ seen' = seen /\ job' = job
          /\ submitted' = [submitted EXCEPT ![seen[s].signed] = @ + 1]
      BY <1>1, <2>4 DEF Submit, Goto
    <3>2. seen[s].signed \in Envelopes
      <4>1. Standing("submit", seen[s], got[s])
        BY <1>0, <3>1 DEF Place
      <4>. QED
        BY <1>1, <4>1 DEF Standing, Settling
    <3>3. ASSUME NEW e \in Envelopes PROVE Covered(e)'
      <4>0. submitted[e] \in Nat
        BY <1>1
      <4>1. CASE seen[s].signed = e
        <5>1. Pending(e)' = Pending(e) \ {s} /\ s \in Pending(e)
          BY <2>1, <3>1, <4>1 DEF Pending
        <5>2. IsFiniteSet(Pending(e)') /\ Cardinality(Pending(e)') = Cardinality(Pending(e)) - 1
          BY <1>b, <5>1, FS_RemoveElement DEF Covered
        <5>3. submitted'[e] = submitted[e] + 1
          BY <1>1, <3>1, <4>1
        <5>4. submitted'[e] + Cardinality(Pending(e)') = submitted[e] + Cardinality(Pending(e))
          BY <1>c, <4>0, <5>2, <5>3
        <5>. QED
          BY <1>b, <3>1, <5>2, <5>4 DEF Covered
      <4>2. CASE seen[s].signed # e
        <5>1. Pending(e)' = Pending(e) /\ submitted'[e] = submitted[e]
          BY <1>1, <2>1, <3>1, <4>2 DEF Pending
        <5>. QED
          BY <1>b, <3>1, <5>1 DEF Covered
      <4>. QED
        BY <4>1, <4>2
    <3>4. job.signed = None => submitted'["original"] = 0
      BY <1>0, <1>1, <1>e, <3>1, <3>2 DEF Attempted
    <3>5. job.signed # "renewal" => submitted'["renewal"] = 0
      BY <1>0, <1>1, <1>e, <3>1, <3>2 DEF Attempted
    <3>. QED
      BY <1>0, <3>1, <3>3, <3>4, <3>5 DEF Attempted, Covered
  <2>5. CASE Else(s)
    <3>1. ASSUME NEW e \in Envelopes PROVE Covered(e)'
      <4>1. Pending(e)' \subseteq Pending(e)
        BY <2>1, <2>5 DEF Pending, Else
      <4>2. IsFiniteSet(Pending(e)') /\ Cardinality(Pending(e)') <= Cardinality(Pending(e))
        BY <1>b, <4>1, FS_Subset DEF Covered
      <4>3. Cardinality(Pending(e)') \in Nat
        BY <4>2, FS_CardinalityType
      <4>4. /\ submitted'[e] = submitted[e] /\ submitted[e] \in Nat
            /\ job'.signed = job.signed /\ job'.attempts = job.attempts
        BY <1>1, <2>5 DEF Else
      <4>5. submitted[e] + Cardinality(Pending(e)) <= MaxAttempts
        BY <1>b DEF Covered
      <4>6. submitted'[e] + Cardinality(Pending(e)') <= submitted[e] + Cardinality(Pending(e))
        BY <1>c, <4>2, <4>3, <4>4
      <4>7. submitted'[e] + Cardinality(Pending(e)') <= MaxAttempts
        BY <1>c, <1>d, <4>3, <4>4, <4>5, <4>6
      <4>8. job.signed = e => submitted[e] + Cardinality(Pending(e)) <= job.attempts
        BY <1>b DEF Covered
      <4>9. job'.signed = e => submitted'[e] + Cardinality(Pending(e)') <= job'.attempts
        BY <1>1, <1>c, <4>3, <4>4, <4>6, <4>8
      <4>. QED
        BY <4>2, <4>7, <4>9 DEF Covered
    <3>2. \A t \in Servers : seen'[t].signed \in {seen[t].signed, job.signed, None}
      BY <2>1, <2>5 DEF Else
    <3>3. job'.signed = job.signed /\ submitted' = submitted
      BY <2>5 DEF Else
    <3>. QED
      BY <1>0, <1>e, <3>1, <3>2, <3>3 DEF Attempted, Covered
  <2>. QED
    BY <1>2, <2>2, <2>3, <2>4, <2>5, Kinds
<1>3. CASE pc' = pc /\ seen' = seen /\ job' = job /\ submitted' = submitted
  BY <1>0, <1>3 DEF Attempted, Pending
<1>4. ASSUME Step, \A s \in Servers : ~ServerStep(s)
      PROVE  submitted' = submitted
  BY <1>4 DEF Step, Land, Ends, Expire, OwnerMoves, Act, Cool, history
<1>. QED
  BY <1>2, <1>3, <1>4, Bystanders DEF vars

------------------------------------------------------------------------------
(* Snapshots *)

\* Whoever writes the job raises its version.
LEMMA JobMoves ==
  ASSUME TypeOK, NEW s \in Servers, ServerStep(s)
  PROVE  job' = job \/ job'.version = job.version + 1 \/ job.state = "absent" 
<1>1. CASE Begins(s)
  BY ServerStep(s), <1>1 DEF Begins, To, JobOnly
<1>2. CASE Creates(s)
  BY ServerStep(s), <1>2 DEF Creates, RowMoved, To, RowOnly
<1>3. CASE Attaches(s)
  BY ServerStep(s), <1>3 DEF Attaches, Moved, Stays, KeepsMarks, KeepsFunding, To, JobOnly
<1>4. CASE Prepare(s)
  BY ServerStep(s), <1>4 DEF Prepare, Goto, Elsewhere, ledger, history
<1>5. CASE RecordsFunding(s)
  BY ServerStep(s), <1>5 DEF RecordsFunding, RowMoved, To, RowOnly
<1>6. CASE Seals(s)
  BY ServerStep(s), <1>6 DEF Seals, Moved, Stays, KeepsMarks, KeepsFunding, To, JobOnly
<1>7. CASE Poll(s)
  BY ServerStep(s), <1>7 DEF Poll, Goto, Elsewhere, ledger, history
<1>8. CASE PollsExhausted(s)
  BY ServerStep(s), <1>8 DEF PollsExhausted, Goto, Elsewhere, ledger, history
<1>9. CASE Session(s)
  BY ServerStep(s), <1>9 DEF Session, Goto, Elsewhere, ledger, history
<1>10. CASE Throw(s)
  BY ServerStep(s), <1>10 DEF Throw, Goto, Elsewhere, ledger, history, Thrown
<1>11. CASE Blocks(s)
  BY ServerStep(s), <1>11 DEF Blocks, Moved, Stays, KeepsMarks, KeepsFunding, To, JobOnly
<1>12. CASE ClaimsFunding(s)
  BY ServerStep(s), <1>12 DEF ClaimsFunding, Moved, Stays, KeepsMarks, KeepsFunding, To, JobOnly
<1>13. CASE FundsRow(s)
  BY ServerStep(s), <1>13 DEF FundsRow, RowMoved, To, RowOnly
<1>14. CASE Submit(s)
  BY ServerStep(s), <1>14 DEF Submit, Goto, ledger, history
<1>15. CASE Reconciles(s)
  BY ServerStep(s), <1>15 DEF Reconciles, RowMoved, To, RowOnly
<1>16. CASE SettlesFunded(s)
  BY ServerStep(s), <1>16 DEF SettlesFunded, Moved, Stays, KeepsMarks, KeepsFunding, To, JobOnly
<1>17. CASE SettlesFailed(s)
  BY ServerStep(s), <1>17 DEF SettlesFailed, Moved, Stays, KeepsMarks, KeepsFunding, To, JobOnly
<1>18. CASE SettleOpen(s)
  BY ServerStep(s), <1>18 DEF SettleOpen, Goto, Elsewhere, ledger, history
<1>19. CASE ClaimsRetry(s)
  BY ServerStep(s), <1>19 DEF ClaimsRetry, Moved, Stays, KeepsMarks, KeepsFunding, To, JobOnly
<1>20. CASE ProveUnused(s)
  BY ServerStep(s), <1>20 DEF ProveUnused, Goto, Elsewhere, ledger, history
<1>21. CASE ClaimsRenewal(s)
  BY ServerStep(s), <1>21 DEF ClaimsRenewal, Moved, Stays, KeepsMarks, KeepsFunding, To, JobOnly
<1>22. CASE PrepareRenewal(s)
  BY ServerStep(s), <1>22 DEF PrepareRenewal, Goto, Elsewhere, ledger, history
<1>23. CASE RenewsRow(s)
  BY ServerStep(s), <1>23 DEF RenewsRow, RowMoved, To, RowOnly
<1>24. CASE SealsRenewal(s)
  BY ServerStep(s), <1>24 DEF SealsRenewal, Moved, Stays, KeepsMarks, KeepsFunding, To, JobOnly
<1>25. CASE ClaimsRun(s)
  BY ServerStep(s), <1>25 DEF ClaimsRun, Moved, Stays, KeepsMarks, KeepsFunding, To, JobOnly
<1>26. CASE RunsRow(s)
  BY ServerStep(s), <1>26 DEF RunsRow, RowMoved, To, RowOnly
<1>27. CASE Launch(s)
  BY ServerStep(s), <1>27 DEF Launch, Goto, ledger, history
<1>28. CASE Finishes(s)
  BY ServerStep(s), <1>28 DEF Finishes, Moved, Stays, KeepsMarks, KeepsFunding, To, JobOnly
<1>29. CASE ProveRepair(s)
  BY ServerStep(s), <1>29 DEF ProveRepair, Goto, Elsewhere, ledger, history
<1>30. CASE ClaimsRepair(s)
  BY ServerStep(s), <1>30 DEF ClaimsRepair, Moved, Stays, KeepsMarks, KeepsFunding, To, JobOnly
<1>31. CASE RepairsRow(s)
  BY ServerStep(s), <1>31 DEF RepairsRow, RowMoved, To, RowOnly
<1>32. CASE Crash(s)
  BY ServerStep(s), <1>32 DEF Crash, Goto, ledger, history
<1>. QED
  BY ServerStep(s), <1>1, <1>2, <1>3, <1>4, <1>5, <1>6, <1>7, <1>8, <1>9, <1>10, <1>11, <1>12,
     <1>13, <1>14, <1>15, <1>16, <1>17, <1>18, <1>19, <1>20, <1>21, <1>22, <1>23, <1>24, <1>25,
     <1>26, <1>27, <1>28, <1>29, <1>30, <1>31, <1>32 DEF ServerStep

\* How a server can change the session, by the state of the job.
LEMMA RowMoves ==
  ASSUME Inv, Agree', NEW s \in Servers, ServerStep(s)
  PROVE  \/ row' = row
         \/ job.state = "initializing"
         \/ job.state = "funding" /\ row.state = "prepared"
         \/ /\ job.state = "funding" /\ row.state = "funding"
            /\ row'.state \in {"funded", "failed"} /\ ~Holds(pc[s], seen[s])
         \/ job.state = "running" /\ row.state = "funded"
         \/ job.state = "funded" /\ row.state = "failed" /\ row'.state = "funded"
<1>0. /\ TypeOK /\ RowSnapshots /\ Unopened /\ Place /\ Alone /\ Finds /\ Agree
  BY DEF Inv
<1>1. /\ Standing(pc[s], seen[s], got[s]) /\ Found(pc[s])
      /\ Holds(pc[s], seen[s]) => seen[s] = job
  BY <1>0 DEF Place, Standing, Finds, Alone
<1>2. job.state \in {"absent", "initializing", "prepared", "funding", "funded", "running",
                     "succeeded", "failed", "blocked"}
  BY <1>0 DEF TypeOK, Jobs
<1>. QED
  <2>1. CASE Begins(s)
    BY ServerStep(s), <2>1 DEF Begins, To, JobOnly
  <2>2. CASE Creates(s)
    BY <1>1, <2>2 DEF Creates, Standing, Opening, Holds
  <2>3. CASE Attaches(s)
    BY ServerStep(s), <2>3 DEF Attaches, Moved, Stays, KeepsMarks, KeepsFunding, To, JobOnly
  <2>4. CASE Prepare(s)
    BY ServerStep(s), <2>4 DEF Prepare, Goto, Elsewhere, ledger, history
  <2>5. CASE RecordsFunding(s)
    BY <1>1, <2>5 DEF RecordsFunding, Standing, Opening, Holds
  <2>6. CASE Seals(s)
    BY ServerStep(s), <2>6 DEF Seals, Moved, Stays, KeepsMarks, KeepsFunding, To, JobOnly
  <2>7. CASE Poll(s)
    BY ServerStep(s), <2>7 DEF Poll, Goto, Elsewhere, ledger, history
  <2>8. CASE PollsExhausted(s)
    BY ServerStep(s), <2>8 DEF PollsExhausted, Goto, Elsewhere, ledger, history
  <2>9. CASE Session(s)
    BY ServerStep(s), <2>9 DEF Session, Goto, Elsewhere, ledger, history
  <2>10. CASE Throw(s)
    BY ServerStep(s), <2>10 DEF Throw, Goto, Elsewhere, ledger, history, Thrown
  <2>11. CASE Blocks(s)
    BY ServerStep(s), <2>11 DEF Blocks, Moved, Stays, KeepsMarks, KeepsFunding, To, JobOnly
  <2>12. CASE ClaimsFunding(s)
    BY ServerStep(s), <2>12 DEF ClaimsFunding, Moved, Stays, KeepsMarks, KeepsFunding, To, JobOnly
  <2>13. CASE FundsRow(s)
    BY <1>1, <2>13 DEF FundsRow, Standing, Found, Holds
  <2>14. CASE Submit(s)
    BY ServerStep(s), <2>14 DEF Submit, Goto, ledger, history
  <2>15. CASE Reconciles(s)
    <3>1. Standing("reconcile", seen[s], got[s]) /\ pc[s] = "reconcile"
      BY <1>1, <2>15 DEF Reconciles
    <3>2. got[s].state = "funding" /\ ~Holds(pc[s], seen[s])
      BY <3>1 DEF Standing, Holds, Opening, Renewing
    <3>3. \/ row' = row
          \/ /\ row.version = got[s].version
             /\ RowMoved(s, IF landed.ok THEN "funded" ELSE "failed", got[s].funding)
      BY <2>15 DEF Reconciles
    <3>4. row.version = got[s].version => got[s] = row
      BY <1>0, <3>2 DEF RowSnapshots
    <3>5. CASE row' # row
      <4>1. row.state = "funding" /\ row'.state \in {"funded", "failed"} /\ job' = job
        BY <3>2, <3>3, <3>4, <3>5, <2>15 DEF RowMoved, Reconciles, RowOnly
      <4>2. job.state = "funding"
        BY <1>0, <1>2, <4>1 DEF Agree, Unopened
      <4>. QED
        BY <3>2, <4>1, <4>2
    <3>. QED
      BY <3>5
  <2>16. CASE SettlesFunded(s)
    BY ServerStep(s), <2>16 DEF SettlesFunded, Moved, Stays, KeepsMarks, KeepsFunding, To, JobOnly
  <2>17. CASE SettlesFailed(s)
    BY ServerStep(s), <2>17 DEF SettlesFailed, Moved, Stays, KeepsMarks, KeepsFunding, To, JobOnly
  <2>18. CASE SettleOpen(s)
    BY ServerStep(s), <2>18 DEF SettleOpen, Goto, Elsewhere, ledger, history
  <2>19. CASE ClaimsRetry(s)
    BY ServerStep(s), <2>19 DEF ClaimsRetry, Moved, Stays, KeepsMarks, KeepsFunding, To, JobOnly
  <2>20. CASE ProveUnused(s)
    BY ServerStep(s), <2>20 DEF ProveUnused, Goto, Elsewhere, ledger, history
  <2>21. CASE ClaimsRenewal(s)
    BY ServerStep(s), <2>21 DEF ClaimsRenewal, Moved, Stays, KeepsMarks, KeepsFunding, To, JobOnly
  <2>22. CASE PrepareRenewal(s)
    BY ServerStep(s), <2>22 DEF PrepareRenewal, Goto, Elsewhere, ledger, history
  <2>23. CASE RenewsRow(s)
    BY <1>1, <2>23 DEF RenewsRow, Standing, Renewing, Holds
  <2>24. CASE SealsRenewal(s)
    BY ServerStep(s), <2>24 DEF SealsRenewal, Moved, Stays, KeepsMarks, KeepsFunding, To, JobOnly
  <2>25. CASE ClaimsRun(s)
    BY ServerStep(s), <2>25 DEF ClaimsRun, Moved, Stays, KeepsMarks, KeepsFunding, To, JobOnly
  <2>26. CASE RunsRow(s)
    BY <1>1, <2>26 DEF RunsRow, Standing, Found, Holds
  <2>27. CASE Launch(s)
    BY ServerStep(s), <2>27 DEF Launch, Goto, ledger, history
  <2>28. CASE Finishes(s)
    BY ServerStep(s), <2>28 DEF Finishes, Moved, Stays, KeepsMarks, KeepsFunding, To, JobOnly
  <2>29. CASE ProveRepair(s)
    BY ServerStep(s), <2>29 DEF ProveRepair, Goto, Elsewhere, ledger, history
  <2>30. CASE ClaimsRepair(s)
    BY ServerStep(s), <2>30 DEF ClaimsRepair, Moved, Stays, KeepsMarks, KeepsFunding, To, JobOnly
  <2>31. CASE RepairsRow(s)
    BY <1>1, <2>31 DEF RepairsRow, RowMoved, Standing, Found, Holds
  <2>32. CASE Crash(s)
    BY ServerStep(s), <2>32 DEF Crash, Goto, ledger, history
  <2>. QED
    BY ServerStep(s), <2>1, <2>2, <2>3, <2>4, <2>5, <2>6, <2>7, <2>8, <2>9, <2>10, <2>11,
       <2>12, <2>13, <2>14, <2>15, <2>16, <2>17, <2>18, <2>19, <2>20, <2>21, <2>22, <2>23,
       <2>24, <2>25, <2>26, <2>27, <2>28, <2>29, <2>30, <2>31, <2>32 DEF ServerStep

\* The steps at which View asks nothing of the session.
Inconclusive ==
  {"create", "attach", "prepare", "record", "seal", "poll", "fund row", "submit",
   "prepare renewal", "renew row", "seal renewal", "run row", "launch", "repair row",
   "block", "done"}

\* What a controller concluded from the session holds as long as the job is
\* unchanged since it read it.
LEMMA ViewsKept == Inv /\ [Next]_vars => Views'
<1>. SUFFICES ASSUME Inv, [Next]_vars, Step \/ UNCHANGED vars PROVE Views'
  BY StepsAre
<1>0. /\ TypeOK /\ JobSnapshots /\ RowSnapshots /\ Place /\ Alone /\ Finds /\ Agree /\ Ledger /\ Views
      /\ Runs
  BY DEF Inv
<1>a. Agree'
  BY AgreeKept
<1>1. /\ pc \in [Servers -> Steps] /\ seen \in [Servers -> Jobs] /\ got \in [Servers -> Rows]
      /\ job.version \in Nat /\ row.version \in Nat
      /\ \A u \in Servers : seen[u].version \in Nat /\ got[u].version \in Nat
  BY <1>0, JobFields, RowV DEF TypeOK
<1>2. ASSUME NEW s \in Servers, ServerStep(s) PROVE Views'
  <2>0. Standing(pc[s], seen[s], got[s]) /\ (Fresh(s) => View(s))
    BY <1>0 DEF Place, Standing, Views, View
  <2>1. Fresh(s)' => View(s)'
    <3>0. pc'[s] \in Inconclusive => View(s)'
      BY DEF View, Settling, Inconclusive
    <3>1. CASE Begins(s)
      BY <1>1, <3>0, <3>1 DEF Begins, To, Goto, Thrown, Inconclusive
    <3>2. CASE Creates(s)
      BY <1>1, <3>0, <3>2 DEF Creates, To, Goto, Thrown, Inconclusive
    <3>3. CASE Attaches(s)
      BY <1>1, <3>0, <3>3 DEF Attaches, To, Goto, Thrown, Inconclusive
    <3>4. CASE Prepare(s)
      BY <1>1, <3>0, <3>4 DEF Prepare, To, Goto, Thrown, Inconclusive
    <3>5. CASE RecordsFunding(s)
      BY <1>1, <3>0, <3>5 DEF RecordsFunding, To, Goto, Thrown, Inconclusive
    <3>6. CASE Seals(s)
      BY <1>1, <3>0, <3>6 DEF Seals, To, Goto, Thrown, Inconclusive
    <3>7. CASE Poll(s)
      <4>1. pc'[s] \in {"done", "session"}
        BY <1>1, <3>7 DEF Poll, Goto
      <4>. QED
        BY <4>1 DEF View, Settling
    <3>8. CASE PollsExhausted(s)
      BY <1>1, <3>0, <3>8 DEF PollsExhausted, To, Goto, Thrown, Inconclusive
    <3>9. CASE Session(s)
      <4>1. seen[s] \in Jobs /\ row \in Rows
        BY <1>0, <1>1 DEF TypeOK
      <4>2. Decide(seen[s], row) \in {"throw", "prove repair", "done", "claim funding", "reconcile",
                                      "settle", "claim run", "finish", "poll"}
        BY <2>0, <4>1, <3>9, Decisions DEF Session, Standing
      <4>3. pc'[s] = "claim run" => Decide(seen[s], row) = "claim run"
        BY <1>1, <4>2, <3>9 DEF Session, Goto, Thrown
      <4>4. seen[s].state \in {"prepared", "funding", "funded", "running", "failed"}
        BY <2>0, <4>1, <3>9 DEF Session, Standing, Jobs
      <4>5. Decide(seen[s], row) = "claim run" => row.state = "funded"
        BY <4>4 DEF Decide
      <4>6. pc'[s] # "claim repair"
        BY <1>1, <4>2, <3>9 DEF Session, Goto, Thrown
      <4>7. got'[s] = row /\ row' = row
        BY <1>1, <3>9 DEF Session
      <4>. QED
        BY <4>3, <4>5, <4>6, <4>7 DEF View
    <3>10. CASE Throw(s)
      BY <1>1, <3>0, <3>10 DEF Throw, To, Goto, Thrown, Inconclusive
    <3>11. CASE Blocks(s)
      BY <1>1, <3>0, <3>11 DEF Blocks, To, Goto, Thrown, Inconclusive
    <3>12. CASE ClaimsFunding(s)
      BY <1>1, <3>0, <3>12 DEF ClaimsFunding, To, Goto, Thrown, Inconclusive
    <3>13. CASE FundsRow(s)
      BY <1>1, <3>0, <3>13 DEF FundsRow, To, Goto, Thrown, Inconclusive
    <3>14. CASE Submit(s)
      BY <1>1, <3>0, <3>14 DEF Submit, To, Goto, Thrown, Inconclusive
    <3>15. CASE Reconciles(s)
      <4>1. pc'[s] = "settle" /\ pc[s] = "reconcile" /\ got[s].state = "funding"
        BY <1>1, <2>0, <3>15 DEF Reconciles, To, Standing
      <4>2. \/ got'[s] = row'
            \/ row' = row /\ got' = got
        BY <1>1, <3>15 DEF Reconciles, RowMoved
      <4>3. Fresh(s)' => Fresh(s)
        BY <3>15 DEF Reconciles, RowOnly, Fresh
      <4>. QED
        BY <2>0, <4>1, <4>2, <4>3 DEF View, Settling
    <3>16. CASE SettlesFunded(s)
      BY <1>1, <3>0, <3>16 DEF SettlesFunded, To, Goto, Thrown, Inconclusive
    <3>17. CASE SettlesFailed(s)
      BY <1>1, <3>0, <3>17 DEF SettlesFailed, To, Goto, Thrown, Inconclusive
    <3>18. CASE SettleOpen(s)
      <4>1. pc'[s] \in {"done", "prove unused", "claim retry", "poll"} /\ pc[s] = "settle"
        BY <1>1, <3>18 DEF SettleOpen, Goto
      <4>2. Fresh(s)' => Fresh(s)
        BY <3>18 DEF SettleOpen, Fresh
      <4>3. row' = row /\ got' = got
        BY <3>18 DEF SettleOpen
      <4>. QED
        BY <2>0, <4>1, <4>2, <4>3 DEF View, Settling
    <3>19. CASE ClaimsRetry(s)
      BY <1>1, <3>0, <3>19 DEF ClaimsRetry, To, Goto, Thrown, Inconclusive
    <3>20. CASE ProveUnused(s)
      <4>1. pc'[s] \in {"done", "claim renewal"} /\ pc[s] = "prove unused"
        BY <1>1, <3>20 DEF ProveUnused, Goto
      <4>2. Fresh(s)' => Fresh(s)
        BY <3>20 DEF ProveUnused, Fresh
      <4>3. row' = row /\ got' = got
        BY <3>20 DEF ProveUnused
      <4>. QED
        BY <2>0, <4>1, <4>2, <4>3 DEF View, Settling
    <3>21. CASE ClaimsRenewal(s)
      BY <1>1, <3>0, <3>21 DEF ClaimsRenewal, To, Goto, Thrown, Inconclusive
    <3>22. CASE PrepareRenewal(s)
      BY <1>1, <3>0, <3>22 DEF PrepareRenewal, To, Goto, Thrown, Inconclusive
    <3>23. CASE RenewsRow(s)
      BY <1>1, <3>0, <3>23 DEF RenewsRow, To, Goto, Thrown, Inconclusive
    <3>24. CASE SealsRenewal(s)
      BY <1>1, <3>0, <3>24 DEF SealsRenewal, To, Goto, Thrown, Inconclusive
    <3>25. CASE ClaimsRun(s)
      BY <1>1, <3>0, <3>25 DEF ClaimsRun, To, Goto, Thrown, Inconclusive
    <3>26. CASE RunsRow(s)
      BY <1>1, <3>0, <3>26 DEF RunsRow, To, Goto, Thrown, Inconclusive
    <3>27. CASE Launch(s)
      BY <1>1, <3>0, <3>27 DEF Launch, To, Goto, Thrown, Inconclusive
    <3>28. CASE Finishes(s)
      BY <1>1, <3>0, <3>28 DEF Finishes, To, Goto, Thrown, Inconclusive
    <3>29. CASE ProveRepair(s)
      <4>1. pc'[s] \in {"claim repair", "poll"} /\ seen' = seen /\ cooled' = cooled /\ actors' = actors
        BY <1>1, <3>29 DEF ProveRepair, Goto, Elsewhere, ledger
      <4>2. pc'[s] = "claim repair" => cooled /\ actors = IF seen[s].repaired THEN "registered" ELSE "initial"
        BY <1>1, <3>29 DEF ProveRepair, Goto
      <4>. QED
        BY <4>1, <4>2 DEF View, Settling
    <3>30. CASE ClaimsRepair(s)
      BY <1>1, <3>0, <3>30 DEF ClaimsRepair, To, Goto, Thrown, Inconclusive
    <3>31. CASE RepairsRow(s)
      BY <1>1, <3>0, <3>31 DEF RepairsRow, To, Goto, Thrown, Inconclusive
    <3>32. CASE Crash(s)
      <4>1. pc'[s] = "start"
        BY <1>1, <3>32 DEF Crash, Goto
      <4>. QED
        BY <4>1 DEF View, Settling
    <3>. QED
      BY <1>2, <3>1, <3>2, <3>3, <3>4, <3>5, <3>6, <3>7, <3>8, <3>9, <3>10, <3>11, <3>12,
         <3>13, <3>14, <3>15, <3>16, <3>17, <3>18, <3>19, <3>20, <3>21, <3>22, <3>23, <3>24,
         <3>25, <3>26, <3>27, <3>28, <3>29, <3>30, <3>31, <3>32 DEF ServerStep
  <2>2. cooled' = cooled /\ actors' = actors
    <3>1. CASE Begins(s)
      BY <3>1 DEF Begins, To, JobOnly
    <3>2. CASE Creates(s)
      BY <1>2, <3>2 DEF Creates, RowMoved, To, RowOnly
    <3>3. CASE Attaches(s)
      BY <1>2, <3>3 DEF Attaches, Moved, Stays, KeepsMarks, KeepsFunding, To, JobOnly
    <3>4. CASE Prepare(s)
      BY <1>2, <3>4 DEF Prepare, Goto, Elsewhere, ledger, history
    <3>5. CASE RecordsFunding(s)
      BY <1>2, <3>5 DEF RecordsFunding, RowMoved, To, RowOnly
    <3>6. CASE Seals(s)
      BY <1>2, <3>6 DEF Seals, Moved, Stays, KeepsMarks, KeepsFunding, To, JobOnly
    <3>7. CASE Poll(s)
      BY <1>2, <3>7 DEF Poll, Goto, Elsewhere, ledger, history
    <3>8. CASE PollsExhausted(s)
      BY <1>2, <3>8 DEF PollsExhausted, Goto, Elsewhere, ledger, history
    <3>9. CASE Session(s)
      BY <1>2, <3>9 DEF Session, Goto, Elsewhere, ledger, history
    <3>10. CASE Throw(s)
      BY <1>2, <3>10 DEF Throw, Goto, Elsewhere, ledger, history, Thrown
    <3>11. CASE Blocks(s)
      BY <1>2, <3>11 DEF Blocks, Moved, Stays, KeepsMarks, KeepsFunding, To, JobOnly
    <3>12. CASE ClaimsFunding(s)
      BY <1>2, <3>12 DEF ClaimsFunding, Moved, Stays, KeepsMarks, KeepsFunding, To, JobOnly
    <3>13. CASE FundsRow(s)
      BY <1>2, <3>13 DEF FundsRow, RowMoved, To, RowOnly
    <3>14. CASE Submit(s)
      BY <1>2, <3>14 DEF Submit, Goto, ledger, history
    <3>15. CASE Reconciles(s)
      BY <1>2, <3>15 DEF Reconciles, RowMoved, To, RowOnly
    <3>16. CASE SettlesFunded(s)
      BY <1>2, <3>16 DEF SettlesFunded, Moved, Stays, KeepsMarks, KeepsFunding, To, JobOnly
    <3>17. CASE SettlesFailed(s)
      BY <1>2, <3>17 DEF SettlesFailed, Moved, Stays, KeepsMarks, KeepsFunding, To, JobOnly
    <3>18. CASE SettleOpen(s)
      BY <1>2, <3>18 DEF SettleOpen, Goto, Elsewhere, ledger, history
    <3>19. CASE ClaimsRetry(s)
      BY <1>2, <3>19 DEF ClaimsRetry, Moved, Stays, KeepsMarks, KeepsFunding, To, JobOnly
    <3>20. CASE ProveUnused(s)
      BY <1>2, <3>20 DEF ProveUnused, Goto, Elsewhere, ledger, history
    <3>21. CASE ClaimsRenewal(s)
      BY <1>2, <3>21 DEF ClaimsRenewal, Moved, Stays, KeepsMarks, KeepsFunding, To, JobOnly
    <3>22. CASE PrepareRenewal(s)
      BY <1>2, <3>22 DEF PrepareRenewal, Goto, Elsewhere, ledger, history
    <3>23. CASE RenewsRow(s)
      BY <1>2, <3>23 DEF RenewsRow, RowMoved, To, RowOnly
    <3>24. CASE SealsRenewal(s)
      BY <1>2, <3>24 DEF SealsRenewal, Moved, Stays, KeepsMarks, KeepsFunding, To, JobOnly
    <3>25. CASE ClaimsRun(s)
      BY <1>2, <3>25 DEF ClaimsRun, Moved, Stays, KeepsMarks, KeepsFunding, To, JobOnly
    <3>26. CASE RunsRow(s)
      BY <1>2, <3>26 DEF RunsRow, RowMoved, To, RowOnly
    <3>27. CASE Launch(s)
      BY <1>2, <3>27 DEF Launch, Goto, ledger, history
    <3>28. CASE Finishes(s)
      BY <1>2, <3>28 DEF Finishes, Moved, Stays, KeepsMarks, KeepsFunding, To, JobOnly
    <3>29. CASE ProveRepair(s)
      BY <1>2, <3>29 DEF ProveRepair, Goto, Elsewhere, ledger, history
    <3>30. CASE ClaimsRepair(s)
      BY <1>2, <3>30 DEF ClaimsRepair, Moved, Stays, KeepsMarks, KeepsFunding, To, JobOnly
    <3>31. CASE RepairsRow(s)
      BY <1>2, <3>31 DEF RepairsRow, RowMoved, To, RowOnly
    <3>32. CASE Crash(s)
      BY <1>2, <3>32 DEF Crash, Goto, ledger, history
    <3>. QED
      BY <1>2, <3>1, <3>2, <3>3, <3>4, <3>5, <3>6, <3>7, <3>8, <3>9, <3>10, <3>11, <3>12,
         <3>13, <3>14, <3>15, <3>16, <3>17, <3>18, <3>19, <3>20, <3>21, <3>22, <3>23, <3>24,
         <3>25, <3>26, <3>27, <3>28, <3>29, <3>30, <3>31, <3>32 DEF ServerStep
  <2>3. ASSUME NEW t \in Servers, t # s, Fresh(t)' PROVE View(t)'
    <3>1. pc'[t] = pc[t] /\ seen'[t] = seen[t] /\ got'[t] = got[t]
      BY <1>0, <1>2, <2>3, Others
    <3>2. seen[t].state # "absent" /\ seen[t].version = job'.version
      BY <2>3, <3>1 DEF Fresh
    <3>3. job.state # "absent" /\ seen[t].version <= job.version
      BY <1>0, <3>2 DEF JobSnapshots
    <3>4. job' = job
      BY <1>0, <1>1, <1>2, <3>2, <3>3, JobMoves
    <3>5. Fresh(t) /\ seen[t] = job
      BY <1>0, <3>2, <3>4 DEF Fresh, JobSnapshots
    <3>6. View(t) /\ Standing(pc[t], job, got[t])
      BY <1>0, <3>5 DEF Views, View, Place, Standing
    <3>7. \/ row' = row
          \/ job.state = "initializing"
          \/ job.state = "funding" /\ row.state = "prepared"
          \/ job.state = "funding" /\ row.state = "funding" /\ row'.state \in {"funded", "failed"}
          \/ job.state = "running" /\ row.state = "funded"
          \/ job.state = "funded" /\ row.state = "failed" /\ row'.state = "funded"
      BY <1>a, <1>2, RowMoves
    <3>. QED
      BY <2>2, <3>1, <3>6, <3>7 DEF View, Standing, Settling
  <2>. QED
    BY <2>1, <2>3 DEF Views, View
<1>3. ASSUME NEW l \in Labels, Ends(l) PROVE Views'
  <2>1. row.state = "running" /\ job.state = "running" /\ job' = job /\ pc' = pc /\ seen' = seen /\ got' = got
    BY <1>0, <1>3 DEF Ends, Runs
  <2>2. ASSUME NEW t \in Servers, Fresh(t)' PROVE View(t)'
    <3>1. Fresh(t) /\ seen[t] = job
      BY <1>0, <2>1, <2>2 DEF Fresh, JobSnapshots
    <3>2. View(t) /\ Standing(pc[t], job, got[t])
      BY <1>0, <3>1 DEF Views, View, Place, Standing
    <3>. QED
      BY <2>1, <3>2 DEF View, Standing, Settling
  <2>. QED
    BY <2>2 DEF Views, View
<1>4. CASE Act
  <2>1. job' = job /\ row' = row /\ pc' = pc /\ seen' = seen /\ got' = got /\ cooled' = cooled
    BY <1>4 DEF Act
  <2>2. Working \/ ~cooled
    BY <1>4 DEF Act
  <2>3. ASSUME NEW t \in Servers, Fresh(t)' PROVE View(t)'
    <3>1. Fresh(t) /\ seen[t] = job
      BY <1>0, <2>1, <2>3 DEF Fresh, JobSnapshots
    <3>2. View(t) /\ Standing(pc[t], job, got[t])
      BY <1>0, <3>1 DEF Views, View, Place, Standing
    <3>3. CASE pc[t] = "claim repair"
      <4>1. job.state = "failed"
        BY <3>2, <3>3 DEF Standing
      <4>2. row.state = "failed"
        BY <1>0, <4>1 DEF Agree
      <4>3. ~Working
        BY <1>0, <4>2 DEF Working, Runs
      <4>. QED
        BY <2>2, <3>2, <3>3, <4>3 DEF View
    <3>4. CASE pc[t] # "claim repair"
      BY <2>1, <3>2, <3>4 DEF View
    <3>. QED
      BY <3>3, <3>4
  <2>. QED
    BY <2>3 DEF Views, View
<1>5. ASSUME NEW e \in Envelopes, Land(e) PROVE Views'
  <2>1. job' = job /\ row' = row /\ pc' = pc /\ seen' = seen /\ got' = got /\ cooled' = cooled
    BY <1>5 DEF Land
  <2>2. actors = "absent"
    BY <1>0, <1>5 DEF Land, Ledger
  <2>3. \A t \in Servers : Fresh(t) => pc[t] # "claim repair"
    BY <1>0, <2>2 DEF Views, View
  <2>4. ASSUME NEW t \in Servers, Fresh(t)' PROVE View(t)'
    <3>1. Fresh(t)
      BY <2>1, <2>4 DEF Fresh
    <3>2. View(t) /\ pc[t] # "claim repair"
      BY <1>0, <2>3, <3>1 DEF Views, View
    <3>. QED
      BY <2>1, <3>2 DEF View
  <2>. QED
    BY <2>4 DEF Views, View
<1>6. CASE Cool
  BY <1>0, <1>6 DEF Cool, Views, View, Fresh, ledger, history
<1>7. CASE Expire \/ OwnerMoves
  <2>1. /\ job' = job /\ row' = row /\ pc' = pc /\ seen' = seen /\ got' = got
        /\ cooled' = cooled /\ actors' = actors
    BY <1>7 DEF Expire, OwnerMoves
  <2>. QED
    BY <1>0, <2>1 DEF Views, View, Fresh
<1>8. CASE UNCHANGED vars
  BY <1>0, <1>8 DEF vars, Views, View, Fresh
<1>. QED
  BY <1>2, <1>3, <1>4, <1>5, <1>6, <1>7, <1>8 DEF Step

------------------------------------------------------------------------------
(* Runs *)

Untouched == \A l \in Labels : child[l] = "none"

\* The accounts are as a launch needs them.
Ready ==
  /\ cooled \/ Untouched
  /\ actors = IF job.resumed THEN "registered" ELSE "initial"

\* Writing the job keeps the account of the runs, when it neither hides a running
\* session nor prepares a launch on accounts that are not ready.
LEMMA JobRuns ==
  ASSUME Runs, JobOnly, job'.repaired <=> job.repaired, job'.resumed <=> job.resumed,
         row.state = "running" => job'.state = "running",
         Unlaunched' => Unlaunched,
         job'.state = "funded" \/ (job'.state = "running" /\ launches[Label(job)] = 0) => Ready
  PROVE  Runs'
<1>1. Label(job') = Label(job)
  BY DEF Label
<1>2. /\ row' = row /\ landed' = landed /\ actors' = actors /\ cooled' = cooled
      /\ child' = child /\ launches' = launches
  BY DEF JobOnly
<1>. QED
  BY <1>1, <1>2 DEF Runs, Ready, Untouched

\* So does writing the session of a job that is not running.
LEMMA RowRuns ==
  ASSUME Runs, RowOnly, row.state # "running", row'.state # "running", Unlaunched' => Unlaunched
  PROVE  Runs'
<1>1. /\ job' = job /\ landed' = landed /\ actors' = actors /\ cooled' = cooled
      /\ child' = child /\ launches' = launches
  BY DEF RowOnly
<1>2. Label(job') = Label(job)
  BY <1>1 DEF Label
<1>. QED
  BY <1>1, <1>2 DEF Runs

\* Launches, child processes and what they did on the ledger stay in step with the rows.
LEMMA RunsKept == Inv /\ [Next]_vars => Runs'
<1>. SUFFICES ASSUME Inv, [Next]_vars, Step \/ UNCHANGED vars PROVE Runs'
  BY StepsAre
<1>0. /\ TypeOK /\ JobSnapshots /\ RowSnapshots /\ Unopened /\ SoundJobs /\ Place /\ Alone /\ Finds
      /\ Agree /\ Ledger /\ Views /\ Runs
  BY DEF Inv
<1>a. Agree' /\ (row.state = "running" => job.state = "running")
  BY <1>0, AgreeKept DEF Runs
<1>b. job.state = "funded" \/ (job.state = "running" /\ launches[Label(job)] = 0) => Ready
  BY <1>0 DEF Runs, Ready, Untouched
<1>1. /\ pc \in [Servers -> Steps] /\ seen \in [Servers -> Jobs] /\ got \in [Servers -> Rows]
      /\ job.version \in Nat /\ row.version \in Nat
      /\ \A u \in Servers : seen[u].version \in Nat /\ got[u].version \in Nat
  BY <1>0, JobFields, RowV DEF TypeOK
<1>2. ASSUME NEW s \in Servers, ServerStep(s) PROVE Runs'
  <2>0. Standing(pc[s], seen[s], got[s]) /\ Found(pc[s]) /\ (Fresh(s) => View(s))
    BY <1>0 DEF Place, Standing, Views, View, Finds
  <2>1. Runs'
    <3>1. CASE Begins(s)
      <4>1. CASE job.state # "absent"
        <5>1. /\ job' = job /\ row' = row /\ landed' = landed /\ actors' = actors /\ cooled' = cooled
              /\ child' = child /\ launches' = launches
          BY <4>1, <3>1 DEF Begins, JobOnly
        <5>. QED
          BY <1>0, <5>1 DEF Runs, Unlaunched, Label
      <4>2. CASE job.state = "absent"
        <5>1. ~job.repaired /\ ~job.resumed
          BY <1>0, <4>2 DEF JobSnapshots, NoJob
        <5>2. JobOnly /\ (job'.repaired <=> job.repaired) /\ (job'.resumed <=> job.resumed) /\ job'.state = "initializing"
          BY <1>0, <1>1, <4>2, <5>1, <3>1 DEF Begins
        <5>. QED
          BY <1>a, <4>2, <5>2, JobRuns, <1>0 DEF Unlaunched
      <4>. QED
        BY <4>1, <4>2
    <3>2. CASE Creates(s)
      <4>1. CASE row' = row
        <5>1. /\ job' = job /\ row' = row /\ landed' = landed /\ actors' = actors /\ cooled' = cooled
              /\ child' = child /\ launches' = launches
          BY <4>1, <3>2 DEF Creates, RowOnly
        <5>. QED
          BY <1>0, <5>1 DEF Runs, Unlaunched, Label
      <4>2. CASE row' # row
        <5>1. row.state = "absent" /\ row'.state = "prepared" /\ RowOnly /\ job' = job
          BY <2>0, <4>2, <3>2 DEF Creates, RowMoved, RowOnly, Found
        <5>2. job.state = "initializing"
          BY <1>0, <2>0, <3>2 DEF Creates, Standing, Opening, Renewing, Alone, Holds
        <5>. QED
          BY <1>0, <5>1, <5>2, RowRuns DEF Unlaunched
      <4>. QED
        BY <4>1, <4>2
    <3>3. CASE Attaches(s)
      <4>1. CASE Stays(s)
        <5>1. /\ job' = job /\ row' = row /\ landed' = landed /\ actors' = actors /\ cooled' = cooled
              /\ child' = child /\ launches' = launches
          BY <4>1, <3>3 DEF Attaches, Stays, JobOnly
        <5>. QED
          BY <1>0, <5>1 DEF Runs, Unlaunched, Label
      <4>2. CASE ~Stays(s)
        <5>1. /\ seen[s] = job /\ JobOnly /\ row' = row /\ Standing(pc[s], job, got[s])
              /\ job'.state = "initializing" /\ job'.repaired = job.repaired /\ job'.resumed = job.resumed
          BY <2>0, <4>2, <3>3 DEF Attaches, Moved, KeepsMarks, JobOnly
        <5>2. job.state = "initializing"
          BY <5>1, <3>3 DEF Attaches, Standing, Opening, Renewing, Settling
        <5>v. View(s)
          BY <2>0, <5>1, <5>2 DEF Fresh
        <5>. QED
          BY <1>0, <1>a, <1>b, <5>1, <5>2, JobRuns DEF Unlaunched
      <4>. QED
        BY <4>1, <4>2
    <3>4. CASE Prepare(s)
      <4>1. /\ job' = job /\ row' = row /\ landed' = landed /\ actors' = actors /\ cooled' = cooled
            /\ child' = child /\ launches' = launches
        BY <3>4 DEF Prepare, Goto, Elsewhere, ledger, history
      <4>. QED
        BY <1>0, <4>1 DEF Runs, Unlaunched, Label
    <3>5. CASE RecordsFunding(s)
      <4>1. CASE row' = row
        <5>1. /\ job' = job /\ row' = row /\ landed' = landed /\ actors' = actors /\ cooled' = cooled
              /\ child' = child /\ launches' = launches
          BY <4>1, <3>5 DEF RecordsFunding, RowOnly
        <5>. QED
          BY <1>0, <5>1 DEF Runs, Unlaunched, Label
      <4>2. CASE row' # row
        <5>1. row.state = "prepared" /\ row'.state = "prepared" /\ RowOnly /\ job' = job
          BY <2>0, <4>2, <3>5 DEF RecordsFunding, RowMoved, RowOnly, Found
        <5>2. job.state = "initializing"
          BY <1>0, <2>0, <3>5 DEF RecordsFunding, Standing, Opening, Renewing, Alone, Holds
        <5>. QED
          BY <1>0, <5>1, <5>2, RowRuns DEF Unlaunched
      <4>. QED
        BY <4>1, <4>2
    <3>6. CASE Seals(s)
      <4>1. CASE Stays(s)
        <5>1. /\ job' = job /\ row' = row /\ landed' = landed /\ actors' = actors /\ cooled' = cooled
              /\ child' = child /\ launches' = launches
          BY <4>1, <3>6 DEF Seals, Stays, JobOnly
        <5>. QED
          BY <1>0, <5>1 DEF Runs, Unlaunched, Label
      <4>2. CASE ~Stays(s)
        <5>1. /\ seen[s] = job /\ JobOnly /\ row' = row /\ Standing(pc[s], job, got[s])
              /\ job'.state = "prepared" /\ job'.repaired = job.repaired /\ job'.resumed = job.resumed
          BY <2>0, <4>2, <3>6 DEF Seals, Moved, KeepsMarks, JobOnly
        <5>2. job.state = "initializing"
          BY <5>1, <3>6 DEF Seals, Standing, Opening, Renewing, Settling
        <5>v. View(s)
          BY <2>0, <5>1, <5>2 DEF Fresh
        <5>. QED
          BY <1>0, <1>a, <1>b, <5>1, <5>2, JobRuns DEF Unlaunched
      <4>. QED
        BY <4>1, <4>2
    <3>7. CASE Poll(s)
      <4>1. /\ job' = job /\ row' = row /\ landed' = landed /\ actors' = actors /\ cooled' = cooled
            /\ child' = child /\ launches' = launches
        BY <3>7 DEF Poll, Goto, Elsewhere, ledger, history
      <4>. QED
        BY <1>0, <4>1 DEF Runs, Unlaunched, Label
    <3>8. CASE PollsExhausted(s)
      <4>1. /\ job' = job /\ row' = row /\ landed' = landed /\ actors' = actors /\ cooled' = cooled
            /\ child' = child /\ launches' = launches
        BY <3>8 DEF PollsExhausted, Goto, Elsewhere, ledger, history
      <4>. QED
        BY <1>0, <4>1 DEF Runs, Unlaunched, Label
    <3>9. CASE Session(s)
      <4>1. /\ job' = job /\ row' = row /\ landed' = landed /\ actors' = actors /\ cooled' = cooled
            /\ child' = child /\ launches' = launches
        BY <3>9 DEF Session, Goto, Elsewhere, ledger, history
      <4>. QED
        BY <1>0, <4>1 DEF Runs, Unlaunched, Label
    <3>10. CASE Throw(s)
      <4>1. /\ job' = job /\ row' = row /\ landed' = landed /\ actors' = actors /\ cooled' = cooled
            /\ child' = child /\ launches' = launches
        BY <3>10 DEF Throw, Goto, Elsewhere, ledger, history, Thrown
      <4>. QED
        BY <1>0, <4>1 DEF Runs, Unlaunched, Label
    <3>11. CASE Blocks(s)
      <4>1. CASE Stays(s)
        <5>1. /\ job' = job /\ row' = row /\ landed' = landed /\ actors' = actors /\ cooled' = cooled
              /\ child' = child /\ launches' = launches
          BY <4>1, <3>11 DEF Blocks, Stays, JobOnly
        <5>. QED
          BY <1>0, <5>1 DEF Runs, Unlaunched, Label
      <4>2. CASE ~Stays(s)
        <5>1. /\ seen[s] = job /\ JobOnly /\ row' = row /\ Standing(pc[s], job, got[s])
              /\ job'.state = "blocked" /\ job'.repaired = job.repaired /\ job'.resumed = job.resumed
          BY <2>0, <4>2, <3>11 DEF Blocks, Moved, KeepsMarks, JobOnly
        <5>2. job.state \in {"initializing", "prepared"}
          BY <5>1, <3>11 DEF Blocks, Standing, Opening, Renewing, Settling
        <5>v. View(s)
          BY <2>0, <5>1, <5>2 DEF Fresh
        <5>. QED
          BY <1>0, <1>a, <1>b, <5>1, <5>2, JobRuns DEF Unlaunched
      <4>. QED
        BY <4>1, <4>2
    <3>12. CASE ClaimsFunding(s)
      <4>1. CASE Stays(s)
        <5>1. /\ job' = job /\ row' = row /\ landed' = landed /\ actors' = actors /\ cooled' = cooled
              /\ child' = child /\ launches' = launches
          BY <4>1, <3>12 DEF ClaimsFunding, Stays, JobOnly
        <5>. QED
          BY <1>0, <5>1 DEF Runs, Unlaunched, Label
      <4>2. CASE ~Stays(s)
        <5>1. /\ seen[s] = job /\ JobOnly /\ row' = row /\ Standing(pc[s], job, got[s])
              /\ job'.state = "funding" /\ job'.repaired = job.repaired /\ job'.resumed = job.resumed
          BY <2>0, <4>2, <3>12 DEF ClaimsFunding, Moved, KeepsMarks, JobOnly
        <5>2. job.state = "prepared"
          BY <5>1, <3>12 DEF ClaimsFunding, Standing, Opening, Renewing, Settling
        <5>v. View(s)
          BY <2>0, <5>1, <5>2 DEF Fresh
        <5>. QED
          BY <1>0, <1>a, <1>b, <5>1, <5>2, JobRuns DEF Unlaunched
      <4>. QED
        BY <4>1, <4>2
    <3>13. CASE FundsRow(s)
      <4>1. CASE row' = row
        <5>1. /\ job' = job /\ row' = row /\ landed' = landed /\ actors' = actors /\ cooled' = cooled
              /\ child' = child /\ launches' = launches
          BY <4>1, <3>13 DEF FundsRow, RowOnly
        <5>. QED
          BY <1>0, <5>1 DEF Runs, Unlaunched, Label
      <4>2. CASE row' # row
        <5>1. row.state = "prepared" /\ row'.state = "funding" /\ RowOnly /\ job' = job
          BY <2>0, <4>2, <3>13 DEF FundsRow, RowMoved, RowOnly, Found
        <5>2. job.state = "funding"
          BY <1>0, <2>0, <3>13 DEF FundsRow, Standing, Opening, Renewing, Alone, Holds
        <5>. QED
          BY <1>0, <5>1, <5>2, RowRuns DEF Unlaunched
      <4>. QED
        BY <4>1, <4>2
    <3>14. CASE Submit(s)
      <4>1. /\ job' = job /\ row' = row /\ landed' = landed /\ actors' = actors /\ cooled' = cooled
            /\ child' = child /\ launches' = launches
        BY <3>14 DEF Submit, Goto, ledger, history
      <4>. QED
        BY <1>0, <4>1 DEF Runs, Unlaunched, Label
    <3>15. CASE Reconciles(s)
      <4>1. CASE row' = row
        <5>1. /\ job' = job /\ row' = row /\ landed' = landed /\ actors' = actors /\ cooled' = cooled
              /\ child' = child /\ launches' = launches
          BY <4>1, <3>15 DEF Reconciles, RowOnly
        <5>. QED
          BY <1>0, <5>1 DEF Runs, Unlaunched, Label
      <4>2. CASE row' # row
        <5>1. got[s].state = "funding"
          BY <2>0, <3>15 DEF Reconciles, Standing
        <5>2. row.version = got[s].version /\ row'.state \in {"funded", "failed"} /\ RowOnly /\ job' = job
          BY <4>2, <3>15 DEF Reconciles, RowMoved, RowOnly
        <5>3. row.state = "funding"
          BY <1>0, <5>1, <5>2 DEF RowSnapshots
        <5>4. job.state # "running"
          BY <1>0, <5>3 DEF Agree
        <5>. QED
          BY <1>0, <5>2, <5>3, <5>4, RowRuns DEF Unlaunched
      <4>. QED
        BY <4>1, <4>2
    <3>16. CASE SettlesFunded(s)
      <4>1. CASE Stays(s)
        <5>1. /\ job' = job /\ row' = row /\ landed' = landed /\ actors' = actors /\ cooled' = cooled
              /\ child' = child /\ launches' = launches
          BY <4>1, <3>16 DEF SettlesFunded, Stays, JobOnly
        <5>. QED
          BY <1>0, <5>1 DEF Runs, Unlaunched, Label
      <4>2. CASE ~Stays(s)
        <5>1. /\ seen[s] = job /\ JobOnly /\ row' = row /\ Standing(pc[s], job, got[s])
              /\ job'.state = "funded" /\ job'.repaired = job.repaired /\ job'.resumed = job.resumed
          BY <2>0, <4>2, <3>16 DEF SettlesFunded, Moved, KeepsMarks, JobOnly
        <5>2. job.state = "funding"
          BY <5>1, <3>16 DEF SettlesFunded, Standing, Opening, Renewing, Settling
        <5>v. View(s)
          BY <2>0, <5>1, <5>2 DEF Fresh
        <5>3. row.state = "funded" /\ ~job.repaired /\ ~job.resumed
          <6>1. row.state = "funded"
            BY <5>v, <3>16 DEF View, SettlesFunded
          <6>. QED
            BY <1>0, <5>2, <6>1 DEF Agree, SoundJobs, SoundJob
        <5>4. landed.ok
          BY <1>0, <5>3 DEF Ledger
        <5>5. Untouched
          <6>1. Label(job) = "first"
            BY <5>3 DEF Label
          <6>2. Unlaunched
            BY <5>2 DEF Unlaunched
          <6>3. launches["first"] = 0 /\ launches["preflight-repair-1"] = 0
                /\ launches["registered-setup-repair-1"] = 0
            BY <1>0, <5>3, <6>1, <6>2 DEF Runs
          <6>. QED
            BY <1>0, <6>3 DEF Runs, Untouched, Labels
        <5>6. Ready
          BY <1>0, <5>3, <5>4, <5>5 DEF Runs, Ready, Untouched
        <5>. QED
          BY <1>0, <1>a, <1>b, <5>1, <5>2, <5>6, JobRuns DEF Unlaunched
      <4>. QED
        BY <4>1, <4>2
    <3>17. CASE SettlesFailed(s)
      <4>1. CASE Stays(s)
        <5>1. /\ job' = job /\ row' = row /\ landed' = landed /\ actors' = actors /\ cooled' = cooled
              /\ child' = child /\ launches' = launches
          BY <4>1, <3>17 DEF SettlesFailed, Stays, JobOnly
        <5>. QED
          BY <1>0, <5>1 DEF Runs, Unlaunched, Label
      <4>2. CASE ~Stays(s)
        <5>1. /\ seen[s] = job /\ JobOnly /\ row' = row /\ Standing(pc[s], job, got[s])
              /\ job'.state = "failed" /\ job'.repaired = job.repaired /\ job'.resumed = job.resumed
          BY <2>0, <4>2, <3>17 DEF SettlesFailed, Moved, KeepsMarks, JobOnly
        <5>2. job.state = "funding"
          BY <5>1, <3>17 DEF SettlesFailed, Standing, Opening, Renewing, Settling
        <5>v. View(s)
          BY <2>0, <5>1, <5>2 DEF Fresh
        <5>. QED
          BY <1>0, <1>a, <1>b, <5>1, <5>2, JobRuns DEF Unlaunched
      <4>. QED
        BY <4>1, <4>2
    <3>18. CASE SettleOpen(s)
      <4>1. /\ job' = job /\ row' = row /\ landed' = landed /\ actors' = actors /\ cooled' = cooled
            /\ child' = child /\ launches' = launches
        BY <3>18 DEF SettleOpen, Goto, Elsewhere, ledger, history
      <4>. QED
        BY <1>0, <4>1 DEF Runs, Unlaunched, Label
    <3>19. CASE ClaimsRetry(s)
      <4>1. CASE Stays(s)
        <5>1. /\ job' = job /\ row' = row /\ landed' = landed /\ actors' = actors /\ cooled' = cooled
              /\ child' = child /\ launches' = launches
          BY <4>1, <3>19 DEF ClaimsRetry, Stays, JobOnly
        <5>. QED
          BY <1>0, <5>1 DEF Runs, Unlaunched, Label
      <4>2. CASE ~Stays(s)
        <5>1. /\ seen[s] = job /\ JobOnly /\ row' = row /\ Standing(pc[s], job, got[s])
              /\ job'.state = "funding" /\ job'.repaired = job.repaired /\ job'.resumed = job.resumed
          BY <2>0, <4>2, <3>19 DEF ClaimsRetry, Moved, KeepsMarks, JobOnly
        <5>2. job.state = "funding"
          BY <5>1, <3>19 DEF ClaimsRetry, Standing, Opening, Renewing, Settling
        <5>v. View(s)
          BY <2>0, <5>1, <5>2 DEF Fresh
        <5>. QED
          BY <1>0, <1>a, <1>b, <5>1, <5>2, JobRuns DEF Unlaunched
      <4>. QED
        BY <4>1, <4>2
    <3>20. CASE ProveUnused(s)
      <4>1. /\ job' = job /\ row' = row /\ landed' = landed /\ actors' = actors /\ cooled' = cooled
            /\ child' = child /\ launches' = launches
        BY <3>20 DEF ProveUnused, Goto, Elsewhere, ledger, history
      <4>. QED
        BY <1>0, <4>1 DEF Runs, Unlaunched, Label
    <3>21. CASE ClaimsRenewal(s)
      <4>1. CASE Stays(s)
        <5>1. /\ job' = job /\ row' = row /\ landed' = landed /\ actors' = actors /\ cooled' = cooled
              /\ child' = child /\ launches' = launches
          BY <4>1, <3>21 DEF ClaimsRenewal, Stays, JobOnly
        <5>. QED
          BY <1>0, <5>1 DEF Runs, Unlaunched, Label
      <4>2. CASE ~Stays(s)
        <5>1. /\ seen[s] = job /\ JobOnly /\ row' = row /\ Standing(pc[s], job, got[s])
              /\ job'.state = "initializing" /\ job'.repaired = job.repaired /\ job'.resumed = job.resumed
          BY <2>0, <4>2, <3>21 DEF ClaimsRenewal, Moved, KeepsMarks, JobOnly
        <5>2. job.state = "funding"
          BY <5>1, <3>21 DEF ClaimsRenewal, Standing, Opening, Renewing, Settling
        <5>v. View(s)
          BY <2>0, <5>1, <5>2 DEF Fresh
        <5>. QED
          BY <1>0, <1>a, <1>b, <5>1, <5>2, JobRuns DEF Unlaunched
      <4>. QED
        BY <4>1, <4>2
    <3>22. CASE PrepareRenewal(s)
      <4>1. /\ job' = job /\ row' = row /\ landed' = landed /\ actors' = actors /\ cooled' = cooled
            /\ child' = child /\ launches' = launches
        BY <3>22 DEF PrepareRenewal, Goto, Elsewhere, ledger, history
      <4>. QED
        BY <1>0, <4>1 DEF Runs, Unlaunched, Label
    <3>23. CASE RenewsRow(s)
      <4>1. CASE row' = row
        <5>1. /\ job' = job /\ row' = row /\ landed' = landed /\ actors' = actors /\ cooled' = cooled
              /\ child' = child /\ launches' = launches
          BY <4>1, <3>23 DEF RenewsRow, RowOnly
        <5>. QED
          BY <1>0, <5>1 DEF Runs, Unlaunched, Label
      <4>2. CASE row' # row
        <5>1. row.state = "funding" /\ row'.state = "prepared" /\ RowOnly /\ job' = job
          BY <2>0, <4>2, <3>23 DEF RenewsRow, RowMoved, RowOnly, Found
        <5>2. job.state = "initializing"
          BY <1>0, <2>0, <3>23 DEF RenewsRow, Standing, Opening, Renewing, Alone, Holds
        <5>. QED
          BY <1>0, <5>1, <5>2, RowRuns DEF Unlaunched
      <4>. QED
        BY <4>1, <4>2
    <3>24. CASE SealsRenewal(s)
      <4>1. CASE Stays(s)
        <5>1. /\ job' = job /\ row' = row /\ landed' = landed /\ actors' = actors /\ cooled' = cooled
              /\ child' = child /\ launches' = launches
          BY <4>1, <3>24 DEF SealsRenewal, Stays, JobOnly
        <5>. QED
          BY <1>0, <5>1 DEF Runs, Unlaunched, Label
      <4>2. CASE ~Stays(s)
        <5>1. /\ seen[s] = job /\ JobOnly /\ row' = row /\ Standing(pc[s], job, got[s])
              /\ job'.state = "prepared" /\ job'.repaired = job.repaired /\ job'.resumed = job.resumed
          BY <2>0, <4>2, <3>24 DEF SealsRenewal, Moved, KeepsMarks, JobOnly
        <5>2. job.state = "initializing"
          BY <5>1, <3>24 DEF SealsRenewal, Standing, Opening, Renewing, Settling
        <5>v. View(s)
          BY <2>0, <5>1, <5>2 DEF Fresh
        <5>. QED
          BY <1>0, <1>a, <1>b, <5>1, <5>2, JobRuns DEF Unlaunched
      <4>. QED
        BY <4>1, <4>2
    <3>25. CASE ClaimsRun(s)
      <4>1. CASE Stays(s)
        <5>1. /\ job' = job /\ row' = row /\ landed' = landed /\ actors' = actors /\ cooled' = cooled
              /\ child' = child /\ launches' = launches
          BY <4>1, <3>25 DEF ClaimsRun, Stays, JobOnly
        <5>. QED
          BY <1>0, <5>1 DEF Runs, Unlaunched, Label
      <4>2. CASE ~Stays(s)
        <5>1. /\ seen[s] = job /\ JobOnly /\ row' = row /\ Standing(pc[s], job, got[s])
              /\ job'.state = "running" /\ job'.repaired = job.repaired /\ job'.resumed = job.resumed
          BY <2>0, <4>2, <3>25 DEF ClaimsRun, Moved, KeepsMarks, JobOnly
        <5>2. job.state = "funded"
          BY <5>1, <3>25 DEF ClaimsRun, Standing, Opening, Renewing, Settling
        <5>v. View(s)
          BY <2>0, <5>1, <5>2 DEF Fresh
        <5>. QED
          BY <1>0, <1>a, <1>b, <5>1, <5>2, JobRuns DEF Unlaunched
      <4>. QED
        BY <4>1, <4>2
    <3>26. CASE RunsRow(s)
      <4>1. CASE row' = row
        <5>1. /\ job' = job /\ row' = row /\ landed' = landed /\ actors' = actors /\ cooled' = cooled
              /\ child' = child /\ launches' = launches
          BY <4>1, <3>26 DEF RunsRow, RowOnly
        <5>. QED
          BY <1>0, <5>1 DEF Runs, Unlaunched, Label
      <4>2. CASE row' # row
        <5>1. /\ row.state = "funded" /\ row'.state = "running"
              /\ job' = job /\ landed' = landed /\ actors' = actors /\ cooled' = cooled
              /\ child' = child /\ launches' = launches
          BY <2>0, <4>2, <3>26 DEF RunsRow, RowMoved, RowOnly, Found
        <5>2. job.state = "running"
          BY <1>0, <2>0, <3>26 DEF RunsRow, Standing, Opening, Renewing, Alone, Holds
        <5>3. ~Unlaunched' /\ Label(job)' = Label(job)
          BY <5>1, <5>2 DEF Unlaunched, Label
        <5>. QED
          BY <1>0, <5>1, <5>2, <5>3 DEF Runs
      <4>. QED
        BY <4>1, <4>2
    <3>27. CASE Launch(s)
      <4>1. /\ seen[s] = job /\ job.state = "running" /\ row.state = "running" /\ launches[Label(job)] = 0
        BY <1>0, <2>0, <3>27 DEF Launch, Standing, Opening, Renewing, Alone, Holds, Found
      <4>. DEFINE me == Label(job)
      <4>3. /\ child' = [child EXCEPT ![me] = "alive"]
            /\ launches' = [launches EXCEPT ![me] = launches[me] + 1]
            /\ job' = job /\ row' = row /\ landed' = landed /\ actors' = actors /\ cooled' = cooled
        BY <4>1, <3>27 DEF Launch, ledger
      <4>4. me \in Labels /\ Label(job)' = me
        BY <4>3 DEF Label, Labels
      <4>5. launches'[me] = 1 /\ child'[me] = "alive"
        BY <1>0, <4>1, <4>3, <4>4 DEF TypeOK
      <4>6. \A l \in Labels : l # me => launches'[l] = launches[l] /\ child'[l] = child[l]
        BY <1>0, <4>3, <4>4 DEF TypeOK
      <4>7. me = "preflight-repair-1" => job.repaired
        BY DEF Label
      <4>8. me = "registered-setup-repair-1" => job.resumed
        BY DEF Label
      <4>9. ~Unlaunched'
        BY <4>1, <4>3 DEF Unlaunched
      <4>. HIDE DEF me
      <4>10. \A l \in Labels : /\ launches'[l] <= 1
                               /\ child'[l] = "none" <=> launches'[l] = 0
                               /\ child'[l] \in {"alive", "orphan"} => l = me
        <5>. SUFFICES ASSUME NEW l \in Labels
                      PROVE  /\ launches'[l] <= 1
                             /\ child'[l] = "none" <=> launches'[l] = 0
                             /\ child'[l] \in {"alive", "orphan"} => l = me
          OBVIOUS
        <5>1. CASE l = me
          BY <4>5, <5>1
        <5>2. CASE l # me
          BY <1>0, <4>6, <5>2 DEF Runs, me
        <5>. QED
          BY <5>1, <5>2
      <4>11. /\ ~job.repaired => launches'["preflight-repair-1"] = 0
             /\ ~job.resumed => launches'["registered-setup-repair-1"] = 0
        BY <1>0, <4>6, <4>7, <4>8 DEF Runs, Labels
      <4>12. ~\A l \in Labels : child'[l] = "none"
        BY <4>4, <4>5
      <4>. QED
        BY <4>1, <4>3, <4>4, <4>5, <4>9, <4>10, <4>11, <4>12 DEF Runs
    <3>28. CASE Finishes(s)
      <4>1. CASE Stays(s)
        <5>1. /\ job' = job /\ row' = row /\ landed' = landed /\ actors' = actors /\ cooled' = cooled
              /\ child' = child /\ launches' = launches
          BY <4>1, <3>28 DEF Finishes, Stays, JobOnly
        <5>. QED
          BY <1>0, <5>1 DEF Runs, Unlaunched, Label
      <4>2. CASE ~Stays(s)
        <5>1. /\ seen[s] = job /\ JobOnly /\ row' = row /\ Standing(pc[s], job, got[s])
              /\ job'.state = got[s].state /\ job'.repaired = job.repaired /\ job'.resumed = job.resumed
          BY <2>0, <4>2, <3>28 DEF Finishes, Moved, KeepsMarks, JobOnly
        <5>2. job.state = "running" /\ got[s].state \in {"succeeded", "failed"}
          BY <5>1, <3>28 DEF Finishes, Standing, Opening, Renewing, Settling
        <5>v. View(s)
          BY <2>0, <5>1, <5>2 DEF Fresh
        <5>3. row.state = got[s].state
          BY <5>v, <3>28 DEF View, Finishes
        <5>. QED
          BY <1>0, <1>a, <1>b, <5>1, <5>2, <5>3, JobRuns DEF Unlaunched
      <4>. QED
        BY <4>1, <4>2
    <3>29. CASE ProveRepair(s)
      <4>1. /\ job' = job /\ row' = row /\ landed' = landed /\ actors' = actors /\ cooled' = cooled
            /\ child' = child /\ launches' = launches
        BY <3>29 DEF ProveRepair, Goto, Elsewhere, ledger, history
      <4>. QED
        BY <1>0, <4>1 DEF Runs, Unlaunched, Label
    <3>30. CASE ClaimsRepair(s)
      <4>1. CASE Stays(s)
        <5>1. /\ job' = job /\ row' = row /\ landed' = landed /\ actors' = actors /\ cooled' = cooled
              /\ child' = child /\ launches' = launches
          BY <4>1, <3>30 DEF ClaimsRepair, Stays, JobOnly
        <5>. QED
          BY <1>0, <5>1 DEF Runs, Unlaunched, Label
      <4>2. CASE ~Stays(s)
        <5>1. /\ seen[s] = job /\ JobOnly /\ row' = row /\ Standing(pc[s], job, got[s])
              /\ job'.state = "funded" /\ job'.repaired /\ job'.resumed = job.repaired
          BY <2>0, <4>2, <3>30 DEF ClaimsRepair, Moved, KeepsMarks, JobOnly
        <5>2. job.state = "failed"
          BY <5>1, <3>30 DEF ClaimsRepair, Standing, Opening, Renewing, Settling
        <5>v. View(s)
          BY <2>0, <5>1, <5>2 DEF Fresh
        <5>3. row.state = "failed" /\ \A l \in Labels : child[l] \notin {"alive", "orphan"}
          <6>1. row.state = "failed"
            BY <1>0, <5>2 DEF Agree
          <6>. QED
            BY <1>0, <6>1 DEF Runs
        <5>4. cooled /\ actors = IF job.repaired THEN "registered" ELSE "initial"
          BY <5>1, <5>v, <3>30 DEF View, ClaimsRepair
        <5>5. ~job.resumed
          BY <5>1, <5>2, <1>0, <3>30 DEF ClaimsRepair, Standing, SoundJobs, SoundJob
        <5>6. launches[Label(job')] = 0
          <6>1. CASE job.repaired
            BY <1>0, <5>1, <5>5, <6>1 DEF Label, Runs
          <6>2. CASE ~job.repaired
            BY <1>0, <5>1, <6>2 DEF Label, Runs
          <6>. QED
            BY <6>1, <6>2
        <5>7. /\ landed' = landed /\ actors' = actors /\ cooled' = cooled
              /\ child' = child /\ launches' = launches
          BY <5>1 DEF JobOnly
        <5>8. \A l \in Labels :
              /\ launches'[l] <= 1
              /\ child'[l] = "none" <=> launches'[l] = 0
              /\ child'[l] \notin {"alive", "orphan"}
          BY <1>0, <5>3, <5>7 DEF Runs
        <5>9. /\ ~job'.repaired => launches'["preflight-repair-1"] = 0
              /\ ~job'.resumed => launches'["registered-setup-repair-1"] = 0
          BY <1>0, <5>1, <5>5, <5>7 DEF Runs
        <5>10. (\A l \in Labels : child'[l] = "none") /\ landed'.ok => actors' = "initial"
          BY <1>0, <5>7 DEF Runs
        <5>11. cooled' /\ actors' = IF job'.resumed THEN "registered" ELSE "initial"
          BY <5>1, <5>4, <5>7
        <5>12. launches'[Label(job)'] = 0 /\ row'.state = "failed"
          BY <5>1, <5>3, <5>6, <5>7 DEF Label
        <5>. QED
          BY <5>8, <5>9, <5>10, <5>11, <5>12 DEF Runs
      <4>. QED
        BY <4>1, <4>2
    <3>31. CASE RepairsRow(s)
      <4>1. CASE row' = row
        <5>1. /\ job' = job /\ row' = row /\ landed' = landed /\ actors' = actors /\ cooled' = cooled
              /\ child' = child /\ launches' = launches
          BY <4>1, <3>31 DEF RepairsRow, RowOnly
        <5>. QED
          BY <1>0, <5>1 DEF Runs, Unlaunched, Label
      <4>2. CASE row' # row
        <5>1. row.state = "failed" /\ row'.state = "funded" /\ RowOnly /\ job' = job
          BY <2>0, <4>2, <3>31 DEF RepairsRow, RowMoved, RowOnly, Found
        <5>2. job.state = "funded"
          BY <1>0, <2>0, <3>31 DEF RepairsRow, Standing, Opening, Renewing, Alone, Holds
        <5>. QED
          BY <1>0, <5>1, <5>2, RowRuns DEF Unlaunched
      <4>. QED
        BY <4>1, <4>2
    <3>32. CASE Crash(s)
      <4>1. PICK lost \in SUBSET {l \in Labels : child[l] = "alive"} :
              child' = [l \in Labels |-> IF l \in lost THEN "orphan" ELSE child[l]]
        BY <3>32 DEF Crash
      <4>2. /\ job' = job /\ row' = row /\ landed' = landed /\ actors' = actors /\ cooled' = cooled
            /\ launches' = launches /\ Label(job)' = Label(job)
        BY <3>32 DEF Crash, ledger, history, Label
      <4>3. \A l \in Labels :
              /\ child'[l] = "none" <=> child[l] = "none"
              /\ child'[l] \in {"alive", "orphan"} <=> child[l] \in {"alive", "orphan"}
        BY <4>1
      <4>4. Unlaunched' <=> Unlaunched
        BY <4>2 DEF Unlaunched
      <4>5. \A l \in Labels :
              /\ launches'[l] <= 1
              /\ child'[l] = "none" <=> launches'[l] = 0
              /\ child'[l] \in {"alive", "orphan"} => row'.state = "running" /\ l = Label(job)'
        BY <1>0, <4>2, <4>3 DEF Runs
      <4>6. (\A l \in Labels : child'[l] = "none") <=> (\A l \in Labels : child[l] = "none")
        BY <4>3
      <4>. QED
        BY <1>0, <4>2, <4>4, <4>5, <4>6 DEF Runs
    <3>. QED
      BY <1>2, <3>1, <3>2, <3>3, <3>4, <3>5, <3>6, <3>7, <3>8, <3>9, <3>10, <3>11, <3>12,
         <3>13, <3>14, <3>15, <3>16, <3>17, <3>18, <3>19, <3>20, <3>21, <3>22, <3>23, <3>24,
         <3>25, <3>26, <3>27, <3>28, <3>29, <3>30, <3>31, <3>32 DEF ServerStep
  <2>. QED
    BY <2>1
<1>3. ASSUME NEW l \in Labels, Ends(l) PROVE Runs'
  <2>1. /\ row.state = "running" /\ job.state = "running" /\ child[l] = "alive"
        /\ row'.state \in {"succeeded", "failed"} /\ job' = job /\ launches' = launches
        /\ child' = [child EXCEPT ![l] = "ended"] /\ landed' = landed /\ actors' = actors
    BY <1>a, <1>3 DEF Ends
  <2>2. l = Label(job) /\ launches[l] # 0 /\ Label(job)' = Label(job)
    BY <1>0, <2>1 DEF Runs, Label
  <2>3. \A k \in Labels :
          /\ child'[k] = "none" <=> child[k] = "none"
          /\ child'[k] \notin {"alive", "orphan"}
    BY <1>0, <2>1, <2>2 DEF Runs, TypeOK
  <2>4. ~Unlaunched'
    BY <2>1 DEF Unlaunched
  <2>. QED
    BY <1>0, <2>1, <2>2, <2>3, <2>4 DEF Runs
<1>4. CASE Act
  <2>1. /\ job' = job /\ row' = row /\ landed' = landed /\ cooled' = cooled
        /\ child' = child /\ launches' = launches /\ Label(job)' = Label(job)
    BY <1>4 DEF Act, history, Label
  <2>2. Working \/ (~cooled /\ ~Untouched)
    BY <1>4 DEF Act, Untouched
  <2>3. Working => ~Untouched /\ job.state = "running" /\ launches[Label(job)] # 0
    BY <1>0 DEF Working, Untouched, Runs
  <2>4. ~Untouched /\ ~(job.state = "funded" \/ (job.state = "running" /\ launches[Label(job)] = 0))
    BY <1>b, <2>2, <2>3 DEF Ready
  <2>5. Unlaunched' <=> Unlaunched
    BY <2>1 DEF Unlaunched
  <2>. QED
    BY <1>0, <2>1, <2>4, <2>5 DEF Runs, Untouched
<1>5. ASSUME NEW e \in Envelopes, Land(e) PROVE Runs'
  <2>1. /\ job' = job /\ row' = row /\ cooled' = cooled
        /\ child' = child /\ launches' = launches /\ Label(job)' = Label(job)
    BY <1>5 DEF Land, history, Label
  <2>2. ~landed.ok
    BY <1>0, <1>5 DEF Land, Ledger
  <2>3. ~(job.state = "funded" \/ (job.state = "running" /\ launches[Label(job)] = 0))
    BY <1>0, <2>2 DEF Ledger
  <2>4. landed'.ok => actors' = "initial"
    BY <1>5 DEF Land
  <2>5. Unlaunched' <=> Unlaunched
    BY <2>1 DEF Unlaunched
  <2>. QED
    BY <1>0, <2>1, <2>3, <2>4, <2>5 DEF Runs
<1>6. CASE Cool
  <2>1. /\ job' = job /\ row' = row /\ landed' = landed /\ actors' = actors /\ cooled' = TRUE
        /\ child' = child /\ launches' = launches /\ Label(job)' = Label(job)
    BY <1>6 DEF Cool, history, ledger, Label
  <2>2. Unlaunched' <=> Unlaunched
    BY <2>1 DEF Unlaunched
  <2>. QED
    BY <1>0, <2>1, <2>2 DEF Runs
<1>7. CASE Expire \/ OwnerMoves \/ UNCHANGED vars
  <2>1. /\ job' = job /\ row' = row /\ landed' = landed /\ actors' = actors /\ cooled' = cooled
        /\ child' = child /\ launches' = launches /\ Label(job)' = Label(job)
    BY <1>7 DEF Expire, OwnerMoves, history, vars, Label
  <2>2. Unlaunched' <=> Unlaunched
    BY <2>1 DEF Unlaunched
  <2>. QED
    BY <1>0, <2>1, <2>2 DEF Runs
<1>. QED
  BY <1>2, <1>3, <1>4, <1>5, <1>6, <1>7 DEF Step

------------------------------------------------------------------------------
(* The theorems *)

\* The invariant holds before the first controller begins.
LEMMA InitInv == Init => Inv
<1>. SUFFICES ASSUME Init PROVE Inv
  OBVIOUS
<1>1. TypeOK
  <2>1. child \in [Labels -> {"none", "alive", "orphan", "ended"}]
        /\ submitted \in [Envelopes -> Nat] /\ launches \in [Labels -> Nat] /\ crashes \in 0 .. MaxCrashes
    BY BurnerAssumption DEF Init
  <2>2. pc \in [Servers -> Steps] /\ seen \in [Servers -> Jobs] /\ got \in [Servers -> Rows]
    BY Blank DEF Init, Steps
  <2>. QED
    BY <2>1, <2>2, Blank DEF Init, TypeOK
<1>2. /\ job = NoJob /\ row = NoRow /\ landed.envelope = None /\ ~landed.ok
      /\ actors = "absent"
      /\ \A s \in Servers : pc[s] = "start" /\ seen[s] = NoJob /\ got[s] = NoRow
      /\ \A l \in Labels : child[l] = "none" /\ launches[l] = 0
      /\ \A e \in Envelopes : submitted[e] = 0
  BY DEF Init
<1>3. /\ NoJob.state = "absent" /\ NoJob.version = 0 /\ NoJob.signed = None /\ NoJob.funding = None
      /\ NoJob.attempts = 0 /\ ~NoJob.renewed /\ ~NoJob.repaired /\ ~NoJob.resumed
      /\ NoRow.state = "absent" /\ NoRow.version = 0 /\ NoRow.funding = None
  BY DEF NoJob, NoRow
<1>4. JobSnapshots /\ RowSnapshots /\ Unopened
  BY <1>2, <1>3 DEF JobSnapshots, RowSnapshots, Unopened
<1>5. SoundJobs /\ SoundRows
  BY <1>2, <1>3, BurnerAssumption DEF SoundJobs, SoundRows, SoundJob, SoundRow
<1>6. Place /\ Alone /\ Finds
  BY <1>2, <1>3 DEF Place, Standing, Alone, Holds, Finds, Found, Opening, Renewing, Settling
<1>7. Agree
  BY <1>2, <1>3 DEF Agree
<1>8. Ledger
  BY <1>2, <1>3 DEF Ledger
<1>9. Attempted
  <2>1. ASSUME NEW e \in Envelopes
        PROVE  IsFiniteSet(Pending(e)) /\ Cardinality(Pending(e)) = 0 /\ submitted[e] = 0
    <3>1. Pending(e) = {}
      BY <1>2 DEF Pending
    <3>. QED
      BY <1>2, <3>1, FS_EmptySet
  <2>2. "original" \in Envelopes /\ "renewal" \in Envelopes /\ None \notin Envelopes
    BY BurnerAssumption DEF Envelopes
  <2>3. MaxAttempts \in Nat /\ 0 <= MaxAttempts
    BY DEF MaxAttempts
  <2>. QED
    BY <1>2, <1>3, <2>1, <2>2, <2>3 DEF Attempted
<1>10. Views
  BY <1>2, <1>3 DEF Views, View, View, Settling
<1>11. Runs
  <2>1. Label(job) \in Labels /\ \A l \in {"preflight-repair-1", "registered-setup-repair-1"} : l \in Labels
    BY DEF Label, Labels
  <2>. QED
    BY <1>2, <1>3, <2>1 DEF Runs
<1>. QED
  BY <1>1, <1>4, <1>5, <1>6, <1>7, <1>8, <1>9, <1>10, <1>11 DEF Inv

\* Every step of a controller, of the ledger and of the runner keeps the invariant.
LEMMA NextInv == Inv /\ [Next]_vars => Inv'
  BY Typed, JobRemembered, RowRemembered, Opened, JobsSound, RowsSound, Placed, AloneKept,
     FindsKept, AgreeKept, LedgerKept, AttemptedKept, ViewsKept, RunsKept DEF Inv

\* Whatever the servers, the ledger and the runner do, in whatever order, with any
\* number of servers and restarts: the invariant holds (lib/cli-test-burner-job.ts).
THEOREM Invariance == Spec => []Inv
  BY InitInv, NextInv, PTL DEF Spec

\* The two rows, the controllers and the ledger keep their types.
THEOREM TypeCorrectness == Spec => []TypeOK
<1>1. Inv => TypeOK
  BY DEF Inv
<1>. QED
  BY <1>1, Invariance, PTL

\* Money for the funding is the envelope the ledger applied.
LEMMA InvFunded == Inv => FundedMeansLanded
<1>. SUFFICES ASSUME Inv, job.state \in {"funded", "running", "succeeded"}
              PROVE  landed = [envelope |-> job.funding, ok |-> TRUE] /\ row.funding = job.funding
  BY DEF FundedMeansLanded
<1>1. landed.ok /\ row.funding = job.funding
  BY DEF Inv, Ledger, Agree
<1>2. landed.envelope # None
  BY <1>1 DEF Inv, Ledger
<1>3. landed.envelope = job.funding
  BY <1>2 DEF Inv, Ledger
<1>4. landed \in [envelope : Envelopes \cup {None}, ok : BOOLEAN]
  BY DEF Inv, TypeOK
<1>. QED
  BY <1>1, <1>3, <1>4

\* The job takes money for its funding only when the envelope it names is the one
\* the ledger applied, with success; reconcileFunding and the settling of the job
\* keep the two rows on the same envelope.
THEOREM FundedLanded == Spec => []FundedMeansLanded
  BY InvFunded, Invariance, PTL

\* Every envelope is submitted at most three times, and a second one is signed only
\* after the first expired unused, whichever controllers die between the claim of
\* an attempt and its submission.
THEOREM FundedOnce == Spec => []FundingIsNotRepeated
<1>1. Inv => FundingIsNotRepeated
  <2>. SUFFICES ASSUME Inv PROVE FundingIsNotRepeated
    OBVIOUS
  <2>1. ASSUME NEW e \in Envelopes PROVE submitted[e] <= MaxAttempts
    <3>1. IsFiniteSet(Pending(e)) /\ submitted[e] + Cardinality(Pending(e)) <= MaxAttempts
      BY DEF Inv, Attempted
    <3>2. Cardinality(Pending(e)) \in Nat
      BY <3>1, FS_CardinalityType
    <3>3. submitted[e] \in Nat /\ MaxAttempts \in Nat
      BY DEF Inv, TypeOK, MaxAttempts
    <3>. HIDE DEF MaxAttempts
    <3>. QED
      BY <3>1, <3>2, <3>3
  <2>. QED
    BY <2>1 DEF FundingIsNotRepeated, Inv, Ledger
<1>. QED
  BY <1>1, Invariance, PTL

\* The CLI is launched at most once under each label, never beside another run,
\* though every server runs a controller and may die after any step.
THEOREM RunsAlone == Spec => []OneRunAtATime
<1>1. Inv => OneRunAtATime
  BY DEF Inv, Runs, OneRunAtATime
<1>. QED
  BY <1>1, Invariance, PTL

\* Only a controller at its launch starts the CLI.
LEMMA Launching ==
  ASSUME Step, launches' # launches
  PROVE  \E s \in Servers : Launch(s)
<1>1. ASSUME NEW s \in Servers, ServerStep(s), ~Launch(s) PROVE launches' = launches
  <2>1. CASE Begins(s)
    BY <1>1, <2>1 DEF Begins, To, JobOnly
  <2>2. CASE Creates(s)
    BY <1>1, <2>2 DEF Creates, RowMoved, To, RowOnly
  <2>3. CASE Attaches(s)
    BY <1>1, <2>3 DEF Attaches, Moved, Stays, KeepsMarks, KeepsFunding, To, JobOnly
  <2>4. CASE Prepare(s)
    BY <1>1, <2>4 DEF Prepare, Goto, Elsewhere, ledger, history
  <2>5. CASE RecordsFunding(s)
    BY <1>1, <2>5 DEF RecordsFunding, RowMoved, To, RowOnly
  <2>6. CASE Seals(s)
    BY <1>1, <2>6 DEF Seals, Moved, Stays, KeepsMarks, KeepsFunding, To, JobOnly
  <2>7. CASE Poll(s)
    BY <1>1, <2>7 DEF Poll, Goto, Elsewhere, ledger, history
  <2>8. CASE PollsExhausted(s)
    BY <1>1, <2>8 DEF PollsExhausted, Goto, Elsewhere, ledger, history
  <2>9. CASE Session(s)
    BY <1>1, <2>9 DEF Session, Goto, Elsewhere, ledger, history
  <2>10. CASE Throw(s)
    BY <1>1, <2>10 DEF Throw, Goto, Elsewhere, ledger, history, Thrown
  <2>11. CASE Blocks(s)
    BY <1>1, <2>11 DEF Blocks, Moved, Stays, KeepsMarks, KeepsFunding, To, JobOnly
  <2>12. CASE ClaimsFunding(s)
    BY <1>1, <2>12 DEF ClaimsFunding, Moved, Stays, KeepsMarks, KeepsFunding, To, JobOnly
  <2>13. CASE FundsRow(s)
    BY <1>1, <2>13 DEF FundsRow, RowMoved, To, RowOnly
  <2>14. CASE Submit(s)
    BY <1>1, <2>14 DEF Submit, Goto, ledger, history
  <2>15. CASE Reconciles(s)
    BY <1>1, <2>15 DEF Reconciles, RowMoved, To, RowOnly
  <2>16. CASE SettlesFunded(s)
    BY <1>1, <2>16 DEF SettlesFunded, Moved, Stays, KeepsMarks, KeepsFunding, To, JobOnly
  <2>17. CASE SettlesFailed(s)
    BY <1>1, <2>17 DEF SettlesFailed, Moved, Stays, KeepsMarks, KeepsFunding, To, JobOnly
  <2>18. CASE SettleOpen(s)
    BY <1>1, <2>18 DEF SettleOpen, Goto, Elsewhere, ledger, history
  <2>19. CASE ClaimsRetry(s)
    BY <1>1, <2>19 DEF ClaimsRetry, Moved, Stays, KeepsMarks, KeepsFunding, To, JobOnly
  <2>20. CASE ProveUnused(s)
    BY <1>1, <2>20 DEF ProveUnused, Goto, Elsewhere, ledger, history
  <2>21. CASE ClaimsRenewal(s)
    BY <1>1, <2>21 DEF ClaimsRenewal, Moved, Stays, KeepsMarks, KeepsFunding, To, JobOnly
  <2>22. CASE PrepareRenewal(s)
    BY <1>1, <2>22 DEF PrepareRenewal, Goto, Elsewhere, ledger, history
  <2>23. CASE RenewsRow(s)
    BY <1>1, <2>23 DEF RenewsRow, RowMoved, To, RowOnly
  <2>24. CASE SealsRenewal(s)
    BY <1>1, <2>24 DEF SealsRenewal, Moved, Stays, KeepsMarks, KeepsFunding, To, JobOnly
  <2>25. CASE ClaimsRun(s)
    BY <1>1, <2>25 DEF ClaimsRun, Moved, Stays, KeepsMarks, KeepsFunding, To, JobOnly
  <2>26. CASE RunsRow(s)
    BY <1>1, <2>26 DEF RunsRow, RowMoved, To, RowOnly
  <2>27. CASE Launch(s)
    BY <1>1, <2>27
  <2>28. CASE Finishes(s)
    BY <1>1, <2>28 DEF Finishes, Moved, Stays, KeepsMarks, KeepsFunding, To, JobOnly
  <2>29. CASE ProveRepair(s)
    BY <1>1, <2>29 DEF ProveRepair, Goto, Elsewhere, ledger, history
  <2>30. CASE ClaimsRepair(s)
    BY <1>1, <2>30 DEF ClaimsRepair, Moved, Stays, KeepsMarks, KeepsFunding, To, JobOnly
  <2>31. CASE RepairsRow(s)
    BY <1>1, <2>31 DEF RepairsRow, RowMoved, To, RowOnly
  <2>32. CASE Crash(s)
    BY <1>1, <2>32 DEF Crash, Goto, ledger, history
  <2>. QED
    BY <1>1, <2>1, <2>2, <2>3, <2>4, <2>5, <2>6, <2>7, <2>8, <2>9, <2>10, <2>11, <2>12, <2>13,
       <2>14, <2>15, <2>16, <2>17, <2>18, <2>19, <2>20, <2>21, <2>22, <2>23, <2>24, <2>25,
       <2>26, <2>27, <2>28, <2>29, <2>30, <2>31, <2>32 DEF ServerStep
<1>2. ASSUME \A s \in Servers : ~ServerStep(s) PROVE launches' = launches
  BY <1>2 DEF Step, Land, Ends, Expire, OwnerMoves, Act, Cool, history
<1>. QED
  BY <1>1, <1>2

\* A run starts on accounts nothing was spent from and no process may still use;
\* the second repair alone resumes a registered mandate.
THEOREM LaunchesReady == Spec => LaunchOnUnspent
<1>. DEFINE Good == launches' # launches =>
       /\ ~Working
       /\ actors = IF launches'["registered-setup-repair-1"] # 0 THEN "registered" ELSE "initial"
<1>1. Inv /\ [Next]_vars => [Good]_vars
  <2>. SUFFICES ASSUME Inv, Step \/ UNCHANGED vars, launches' # launches
                PROVE  Good
    BY StepsAre
  <2>0. TypeOK /\ Place /\ Alone /\ Finds /\ SoundJobs /\ Agree /\ Runs
    BY DEF Inv
  <2>1. \E s \in Servers : Launch(s)
    BY <2>0, Launching DEF vars
  <2>2. PICK s \in Servers : Launch(s)
    BY <2>1
  <2>3. pc[s] = "launch" /\ launches' = [launches EXCEPT ![Label(seen[s])] = @ + 1]
    BY <2>2 DEF Launch
  <2>4. seen[s] = job /\ job.state = "running" /\ launches[Label(job)] = 0
    BY <2>0, <2>3 DEF Alone, Holds, Opening, Renewing, Finds, Found, Place, Standing, Settling
  <2>5. ~Working
    BY <2>0, <2>4 DEF Working, Runs
  <2>6. actors = IF job.resumed THEN "registered" ELSE "initial"
    BY <2>0, <2>4 DEF Runs
  <2>7. launches'["registered-setup-repair-1"] # 0 <=> job.resumed
    <3>1. "registered-setup-repair-1" \in Labels /\ launches \in [Labels -> Nat]
      BY <2>0 DEF Labels, TypeOK
    <3>2. CASE job.resumed
      BY <2>3, <2>4, <3>1, <3>2 DEF Label
    <3>3. CASE ~job.resumed
      <4>1. launches["registered-setup-repair-1"] = 0 /\ Label(job) # "registered-setup-repair-1"
        BY <2>0, <3>3 DEF Runs, Label
      <4>. QED
        BY <2>3, <2>4, <3>1, <3>3, <4>1
    <3>. QED
      BY <3>2, <3>3
  <2>. QED
    BY <2>5, <2>6, <2>7
<1>. QED
  BY <1>1, Invariance, PTL DEF Spec, LaunchOnUnspent

------------------------------------------------------------------------------
(* Logs and ended runs *)

\* Nothing is sent, applied, started or stopped.
Same == UNCHANGED <<landed, sequence, expired, actors, cooled, child, submitted, launches>>

\* Only a submission, a launch and the death of a server touch the ledger and the
\* child processes.
LEMMA Quiet ==
  ASSUME NEW s \in Servers, ServerStep(s), ~Submit(s), ~Launch(s), ~Crash(s)
  PROVE  Same
<1>1. CASE Begins(s)
  BY <1>1 DEF Begins, Same, JobOnly
<1>2. CASE Creates(s)
  BY <1>2 DEF Creates, Same, RowOnly
<1>3. CASE Attaches(s)
  BY <1>3 DEF Attaches, Same, JobOnly
<1>4. CASE Prepare(s)
  BY <1>4 DEF Prepare, Same, Elsewhere, ledger, history
<1>5. CASE RecordsFunding(s)
  BY <1>5 DEF RecordsFunding, Same, RowOnly
<1>6. CASE Seals(s)
  BY <1>6 DEF Seals, Same, JobOnly
<1>7. CASE Poll(s)
  BY <1>7 DEF Poll, Same, Elsewhere, ledger, history
<1>8. CASE PollsExhausted(s)
  BY <1>8 DEF PollsExhausted, Same, Elsewhere, ledger, history
<1>9. CASE Session(s)
  BY <1>9 DEF Session, Same, Elsewhere, ledger, history
<1>10. CASE Throw(s)
  BY <1>10 DEF Throw, Same, Elsewhere, ledger, history
<1>11. CASE Blocks(s)
  BY <1>11 DEF Blocks, Same, JobOnly
<1>12. CASE ClaimsFunding(s)
  BY <1>12 DEF ClaimsFunding, Same, JobOnly
<1>13. CASE FundsRow(s)
  BY <1>13 DEF FundsRow, Same, RowOnly
<1>14. CASE Submit(s)
  BY <1>14
<1>15. CASE Reconciles(s)
  BY <1>15 DEF Reconciles, Same, RowOnly
<1>16. CASE SettlesFunded(s)
  BY <1>16 DEF SettlesFunded, Same, JobOnly
<1>17. CASE SettlesFailed(s)
  BY <1>17 DEF SettlesFailed, Same, JobOnly
<1>18. CASE SettleOpen(s)
  BY <1>18 DEF SettleOpen, Same, Elsewhere, ledger, history
<1>19. CASE ClaimsRetry(s)
  BY <1>19 DEF ClaimsRetry, Same, JobOnly
<1>20. CASE ProveUnused(s)
  BY <1>20 DEF ProveUnused, Same, Elsewhere, ledger, history
<1>21. CASE ClaimsRenewal(s)
  BY <1>21 DEF ClaimsRenewal, Same, JobOnly
<1>22. CASE PrepareRenewal(s)
  BY <1>22 DEF PrepareRenewal, Same, Elsewhere, ledger, history
<1>23. CASE RenewsRow(s)
  BY <1>23 DEF RenewsRow, Same, RowOnly
<1>24. CASE SealsRenewal(s)
  BY <1>24 DEF SealsRenewal, Same, JobOnly
<1>25. CASE ClaimsRun(s)
  BY <1>25 DEF ClaimsRun, Same, JobOnly
<1>26. CASE RunsRow(s)
  BY <1>26 DEF RunsRow, Same, RowOnly
<1>27. CASE Launch(s)
  BY <1>27
<1>28. CASE Finishes(s)
  BY <1>28 DEF Finishes, Same, JobOnly
<1>29. CASE ProveRepair(s)
  BY <1>29 DEF ProveRepair, Same, Elsewhere, ledger, history
<1>30. CASE ClaimsRepair(s)
  BY <1>30 DEF ClaimsRepair, Same, JobOnly
<1>31. CASE RepairsRow(s)
  BY <1>31 DEF RepairsRow, Same, RowOnly
<1>32. CASE Crash(s)
  BY <1>32
<1>. QED
  BY <1>1, <1>2, <1>3, <1>4, <1>5, <1>6, <1>7, <1>8, <1>9, <1>10, <1>11, <1>12, <1>13, <1>14,
     <1>15, <1>16, <1>17, <1>18, <1>19, <1>20, <1>21, <1>22, <1>23, <1>24, <1>25, <1>26, <1>27,
     <1>28, <1>29, <1>30, <1>31, <1>32 DEF ServerStep

\* store.update keeps the logs its caller meant to write.
LEMMA UpdateKeeps ==
  ASSUME TypeOK, NEW s \in Servers, NEW base, NEW new \in Rows, UpdateRow(s, base, new)
  PROVE  row'.logs = new.logs
<1>1. row.version + 1 \in Nat
  BY RowV DEF TypeOK
<1>2. row' = [new EXCEPT !.version = row.version + 1]
  BY DEF UpdateRow
<1>. QED
  BY <1>1, <1>2 DEF Rows

\* No write of the session loses a log; only the end of a run adds one.
LEMMA LogsGrow == Inv /\ [Next]_vars =>
  row.logs \subseteq row'.logs /\ (row'.logs = row.logs \/ \E l \in Labels : End(l))
<1>. SUFFICES ASSUME Inv, [Next]_vars
              PROVE  row.logs \subseteq row'.logs /\ (row'.logs = row.logs \/ \E l \in Labels : End(l))
  OBVIOUS
<1>0. TypeOK /\ RowSnapshots /\ Place /\ Alone /\ Finds
  BY DEF Inv
<1>1. row \in Rows /\ got \in [Servers -> Rows]
  BY <1>0 DEF TypeOK
<1>2. ASSUME NEW l \in Labels, End(l) PROVE row.logs \subseteq row'.logs
  <2>1. CASE row' = [row EXCEPT !.state = "succeeded", !.version = row.version + 1]
    BY <1>1, <2>1 DEF Rows
  <2>2. ASSUME NEW mark \in Marks,
               row' = [row EXCEPT !.state = "failed", !.version = row.version + 1,
                                  !.logs = row.logs \cup {mark}]
        PROVE  row.logs \subseteq row'.logs
    BY <1>1, <2>2 DEF Rows
  <2>. QED
    BY <1>2, <2>1, <2>2 DEF End
<1>4. ASSUME NEW s \in Servers, Controller(s) PROVE row'.logs = row.logs
  <2>0. Standing(pc[s], seen[s], got[s]) /\ Found(pc[s]) /\ got[s] \in Rows
    BY <1>0, <1>1 DEF Place, Standing, Finds
  <2>1. CASE Create(s)
    <3>1. row = NoRow
      BY <1>0, <2>0, <2>1 DEF Create, Found, RowSnapshots
    <3>2. row' = [NoRow EXCEPT !.state = "prepared"]
      BY <2>1 DEF Create
    <3>. QED
      BY <3>1, <3>2 DEF NoRow
  <2>2. CASE RecordFunding(s)
    <3>. DEFINE new == [got[s] EXCEPT !.funding = "original"]
    <3>1. got[s] = row
      BY <1>0, <2>0, <2>2 DEF RecordFunding, UpdateRow, Standing, RowSnapshots
    <3>2. new \in Rows /\ new.logs = row.logs
      BY <1>1, <3>1 DEF Rows, Envelopes
    <3>3. UpdateRow(s, got[s], new) \/ row' = row
      BY <2>2 DEF RecordFunding
    <3>. HIDE DEF new
    <3>. QED
      BY <1>0, <3>2, <3>3, UpdateKeeps
  <2>3. CASE FundRow(s)
    <3>. DEFINE new == [got[s] EXCEPT !.state = "funding"]
    <3>1. got[s] = row
      BY <1>0, <2>0, <2>3 DEF FundRow, UpdateRow, Standing, RowSnapshots
    <3>2. new \in Rows /\ new.logs = row.logs
      BY <1>1, <3>1 DEF Rows, Envelopes
    <3>3. UpdateRow(s, got[s], new) \/ row' = row
      BY <2>3 DEF FundRow
    <3>. HIDE DEF new
    <3>. QED
      BY <1>0, <3>2, <3>3, UpdateKeeps
  <2>4. CASE Reconcile(s)
    <3>. DEFINE new == [got[s] EXCEPT !.state = IF landed.ok THEN "funded" ELSE "failed"]
    <3>1. row.version = got[s].version => got[s] = row
      BY <1>0, <2>0, <2>4 DEF Reconcile, Standing, RowSnapshots
    <3>2. new \in Rows /\ new.logs = got[s].logs
      BY <2>0 DEF Rows
    <3>3. (UpdateRow(s, got[s], new) /\ row.version = got[s].version) \/ row' = row
      BY <2>4 DEF Reconcile
    <3>. HIDE DEF new
    <3>. QED
      BY <1>0, <3>1, <3>2, <3>3, UpdateKeeps
  <2>5. CASE RenewRow(s)
    <3>. DEFINE new == [row EXCEPT !.state = "prepared", !.funding = "renewal"]
    <3>1. row \in Rows
      BY <1>1
    <3>2. new \in Rows /\ new.logs = row.logs
      BY <1>1, <3>1 DEF Rows, Envelopes
    <3>3. UpdateRow(s, row, new) \/ row' = row
      BY <2>5 DEF RenewRow
    <3>. HIDE DEF new
    <3>. QED
      BY <1>0, <3>2, <3>3, UpdateKeeps
  <2>6. CASE RunRow(s)
    <3>. DEFINE new == [row EXCEPT !.state = "running"]
    <3>1. row \in Rows
      BY <1>1
    <3>2. new \in Rows /\ new.logs = row.logs
      BY <1>1, <3>1 DEF Rows, Envelopes
    <3>3. UpdateRow(s, row, new) \/ row' = row
      BY <2>6 DEF RunRow
    <3>. HIDE DEF new
    <3>. QED
      BY <1>0, <3>2, <3>3, UpdateKeeps
  <2>7. CASE RepairRow(s)
    <3>. DEFINE new == [row EXCEPT !.state = "funded"]
    <3>1. row \in Rows
      BY <1>1
    <3>2. new \in Rows /\ new.logs = row.logs
      BY <1>1, <3>1 DEF Rows, Envelopes
    <3>3. UpdateRow(s, row, new) \/ row' = row
      BY <2>7 DEF RepairRow
    <3>. HIDE DEF new
    <3>. QED
      BY <1>0, <3>2, <3>3, UpdateKeeps
  <2>8. CASE Begin(s)
    BY <2>8 DEF Begin
  <2>9. CASE Attach(s)
    BY <2>9 DEF Attach
  <2>10. CASE Prepare(s)
    BY <2>10 DEF Prepare
  <2>11. CASE Seal(s)
    BY <2>11 DEF Seal
  <2>12. CASE Poll(s)
    BY <2>12 DEF Poll
  <2>13. CASE PollsExhausted(s)
    BY <2>13 DEF PollsExhausted
  <2>14. CASE Session(s)
    BY <2>14 DEF Session
  <2>15. CASE Throw(s)
    BY <2>15 DEF Throw
  <2>16. CASE Block(s)
    BY <2>16 DEF Block
  <2>17. CASE ClaimFunding(s)
    BY <2>17 DEF ClaimFunding
  <2>18. CASE Submit(s)
    BY <2>18 DEF Submit
  <2>19. CASE SettleFunded(s)
    BY <2>19 DEF SettleFunded
  <2>20. CASE SettleFailed(s)
    BY <2>20 DEF SettleFailed
  <2>21. CASE SettleOpen(s)
    BY <2>21 DEF SettleOpen
  <2>22. CASE ClaimRetry(s)
    BY <2>22 DEF ClaimRetry
  <2>23. CASE ProveUnused(s)
    BY <2>23 DEF ProveUnused
  <2>24. CASE ClaimRenewal(s)
    BY <2>24 DEF ClaimRenewal
  <2>25. CASE PrepareRenewal(s)
    BY <2>25 DEF PrepareRenewal
  <2>26. CASE SealRenewal(s)
    BY <2>26 DEF SealRenewal
  <2>27. CASE ClaimRun(s)
    BY <2>27 DEF ClaimRun
  <2>28. CASE Launch(s)
    BY <2>28 DEF Launch
  <2>29. CASE Finish(s)
    BY <2>29 DEF Finish
  <2>30. CASE ProveRepair(s)
    BY <2>30 DEF ProveRepair
  <2>31. CASE ClaimRepair(s)
    BY <2>31 DEF ClaimRepair
  <2>. QED
    BY <1>4, <2>1, <2>2, <2>3, <2>4, <2>5, <2>6, <2>7, <2>8, <2>9, <2>10, <2>11, <2>12, <2>13,
       <2>14, <2>15, <2>16, <2>17, <2>18, <2>19, <2>20, <2>21, <2>22, <2>23, <2>24, <2>25,
       <2>26, <2>27, <2>28, <2>29, <2>30, <2>31 DEF Controller
<1>5. ASSUME NEW s \in Servers, Crash(s) PROVE row'.logs = row.logs
  BY <1>5 DEF Crash
<1>6. ASSUME NEW e \in Envelopes, Land(e) PROVE row'.logs = row.logs
  BY <1>6 DEF Land
<1>7. CASE Expire \/ OwnerMoves \/ Act \/ Cool \/ UNCHANGED vars
  BY <1>7 DEF Expire, OwnerMoves, Act, Cool, vars
<1>. QED
  BY <1>2, <1>4, <1>5, <1>6, <1>7 DEF Next

\* What a controller knows at its launch.
LEMMA LaunchFrom ==
  ASSUME Inv, NEW s \in Servers, Launch(s)
  PROVE  /\ job.state = "running" /\ row.state = "running" /\ launches[Label(job)] = 0
         /\ Label(job) \in Labels /\ child[Label(job)] = "none" /\ ~Working
         /\ child' = [child EXCEPT ![Label(job)] = "alive"]
         /\ launches' = [launches EXCEPT ![Label(job)] = 1]
<1>0. TypeOK /\ Place /\ Alone /\ Finds /\ Runs
  BY DEF Inv
<1>1. pc[s] = "launch" /\ launches' = [launches EXCEPT ![Label(seen[s])] = @ + 1]
      /\ child' = [child EXCEPT ![Label(seen[s])] = "alive"]
  BY DEF Launch
<1>2. seen[s] = job /\ job.state = "running" /\ row.state = "running" /\ launches[Label(job)] = 0
  BY <1>0, <1>1 DEF Alone, Holds, Opening, Renewing, Finds, Found, Place, Standing, Settling
<1>3. Label(job) \in Labels
  BY DEF Label, Labels
<1>4. child[Label(job)] = "none" /\ ~Working
  BY <1>0, <1>2, <1>3 DEF Runs, Working
<1>5. launches' = [launches EXCEPT ![Label(job)] = 1]
  BY <1>0, <1>1, <1>2, <1>3 DEF TypeOK
<1>. QED
  BY <1>1, <1>2, <1>3, <1>4, <1>5

\* A run that has ended is not started again.
LEMMA EndedStays == Inv /\ [Next]_vars =>
  \A l \in Labels : child[l] = "ended" => child'[l] = "ended"
<1>. SUFFICES ASSUME Inv, Step \/ UNCHANGED vars, NEW l \in Labels, child[l] = "ended"
              PROVE  child'[l] = "ended"
  BY StepsAre
<1>0. child \in [Labels -> {"none", "alive", "orphan", "ended"}]
  BY DEF Inv, TypeOK
<1>1. ASSUME NEW s \in Servers, ServerStep(s) PROVE child'[l] = "ended"
  <2>1. CASE Submit(s)
    BY <2>1 DEF Submit
  <2>2. CASE Launch(s)
    <3>1. child' = [child EXCEPT ![Label(job)] = "alive"] /\ child[Label(job)] = "none"
      BY <2>2, LaunchFrom
    <3>. QED
      BY <1>0, <3>1
  <2>3. CASE Crash(s)
    <3>1. PICK lost \in SUBSET {k \in Labels : child[k] = "alive"} :
             child' = [k \in Labels |-> IF k \in lost THEN "orphan" ELSE child[k]]
      BY <2>3 DEF Crash
    <3>. QED
      BY <3>1
  <2>. QED
    BY <1>1, <2>1, <2>2, <2>3, Quiet DEF Same
<1>2. ASSUME NEW k \in Labels, Ends(k) PROVE child'[l] = "ended"
  BY <1>0, <1>2 DEF Ends
<1>3. ASSUME NEW e \in Envelopes, Land(e) PROVE child'[l] = "ended"
  BY <1>3 DEF Land
<1>4. CASE Expire \/ OwnerMoves \/ Act \/ Cool \/ UNCHANGED vars
  BY <1>4 DEF Expire, OwnerMoves, Act, Cool, vars
<1>. QED
  BY <1>1, <1>2, <1>3, <1>4 DEF Step

------------------------------------------------------------------------------
(* Repairs *)

\* Where a controller is about to claim a repair.
Proving == {"prove repair", "claim repair"}

\* A repair that can still be claimed has its evidence: the logs of the failed run.
Proved ==
  \A s \in Servers : pc[s] \in Proving /\ seen[s].version = job.version => row.logs # {}

\* What the logs and the marks of repair say of the runs.
Repairs ==
  /\ row.logs # {} => job.repaired \/ job.state \in {"running", "succeeded", "failed"}
  /\ row.logs # {} /\ row.state = "failed" /\ job.state \in {"running", "failed"} =>
       child[Label(job)] = "ended"
  /\ job.repaired => child["first"] = "ended"
  /\ job.resumed => child["preflight-repair-1"] = "ended"

\* A controller that begins to prove a repair has just read the logs of the failed run.
LEMMA EntersProving ==
  ASSUME TypeOK, Place, NEW s \in Servers, ServerStep(s), pc'[s] \in Proving
  PROVE  \/ Session(s) /\ row' = row /\ row.logs # {}
         \/ pc[s] \in Proving /\ seen'[s] = seen[s]
<1>0. pc \in [Servers -> Steps] /\ seen \in [Servers -> Jobs] /\ got \in [Servers -> Rows]
  BY DEF TypeOK
<1>1. CASE Begins(s)
  BY <1>0, pc'[s] \in Proving, <1>1 DEF Begins, To, JobOnly, Proving
<1>2. CASE Creates(s)
  BY <1>0, pc'[s] \in Proving, <1>2 DEF Creates, RowMoved, To, RowOnly, Proving
<1>3. CASE Attaches(s)
  BY <1>0, pc'[s] \in Proving, <1>3 DEF Attaches, Moved, Stays, KeepsMarks, KeepsFunding, To,
     JobOnly, Proving
<1>4. CASE Prepare(s)
  BY <1>0, pc'[s] \in Proving, <1>4 DEF Prepare, Goto, Elsewhere, ledger, history, Proving
<1>5. CASE RecordsFunding(s)
  BY <1>0, pc'[s] \in Proving, <1>5 DEF RecordsFunding, RowMoved, To, RowOnly, Proving
<1>6. CASE Seals(s)
  BY <1>0, pc'[s] \in Proving, <1>6 DEF Seals, Moved, Stays, KeepsMarks, KeepsFunding, To,
     JobOnly, Proving
<1>7. CASE Poll(s)
  BY <1>0, pc'[s] \in Proving, <1>7 DEF Poll, Goto, Elsewhere, ledger, history, Proving
<1>8. CASE PollsExhausted(s)
  BY <1>0, pc'[s] \in Proving, <1>8 DEF PollsExhausted, Goto, Elsewhere, ledger, history, Proving
<1>9. CASE Session(s)
  <2>1. pc'[s] = IF Decide(seen[s], row) = "throw" THEN Thrown(seen[s]) ELSE Decide(seen[s], row)
    BY <1>0, <1>9 DEF Session, Goto
  <2>2. seen[s].state \in {"prepared", "funding", "funded", "running", "failed"}
    <3>1. Standing("session", seen[s], got[s]) /\ seen[s] \in Jobs
      BY <1>0, <1>9 DEF Place, Session
    <3>. QED
      BY <3>1 DEF Standing, Jobs
  <2>3. Decide(seen[s], row) = "prove repair"
    BY <2>1, <2>2, pc'[s] \in Proving DEF Decide, Thrown, Proving
  <2>4. Resumable(seen[s], row) \/ Repairable(seen[s], row)
    BY <2>2, <2>3 DEF Decide
  <2>. QED
    BY <1>9, <2>4 DEF Session, Resumable, Repairable, RegisteredCandidate, UnstartedCandidate
<1>10. CASE Throw(s)
  BY <1>0, pc'[s] \in Proving, <1>10 DEF Throw, Goto, Elsewhere, ledger, history, Thrown, Proving
<1>11. CASE Blocks(s)
  BY <1>0, pc'[s] \in Proving, <1>11 DEF Blocks, Moved, Stays, KeepsMarks, KeepsFunding, To,
     JobOnly, Proving
<1>12. CASE ClaimsFunding(s)
  BY <1>0, pc'[s] \in Proving, <1>12 DEF ClaimsFunding, Moved, Stays, KeepsMarks, KeepsFunding,
     To, JobOnly, Proving
<1>13. CASE FundsRow(s)
  BY <1>0, pc'[s] \in Proving, <1>13 DEF FundsRow, RowMoved, To, RowOnly, Proving
<1>14. CASE Submit(s)
  BY <1>0, pc'[s] \in Proving, <1>14 DEF Submit, Goto, ledger, history, Proving
<1>15. CASE Reconciles(s)
  BY <1>0, pc'[s] \in Proving, <1>15 DEF Reconciles, RowMoved, To, RowOnly, Proving
<1>16. CASE SettlesFunded(s)
  BY <1>0, pc'[s] \in Proving, <1>16 DEF SettlesFunded, Moved, Stays, KeepsMarks, KeepsFunding,
     To, JobOnly, Proving
<1>17. CASE SettlesFailed(s)
  BY <1>0, pc'[s] \in Proving, <1>17 DEF SettlesFailed, Moved, Stays, KeepsMarks, KeepsFunding,
     To, JobOnly, Proving
<1>18. CASE SettleOpen(s)
  BY <1>0, pc'[s] \in Proving, <1>18 DEF SettleOpen, Goto, Elsewhere, ledger, history, Proving
<1>19. CASE ClaimsRetry(s)
  BY <1>0, pc'[s] \in Proving, <1>19 DEF ClaimsRetry, Moved, Stays, KeepsMarks, KeepsFunding,
     To, JobOnly, Proving
<1>20. CASE ProveUnused(s)
  BY <1>0, pc'[s] \in Proving, <1>20 DEF ProveUnused, Goto, Elsewhere, ledger, history, Proving
<1>21. CASE ClaimsRenewal(s)
  BY <1>0, pc'[s] \in Proving, <1>21 DEF ClaimsRenewal, Moved, Stays, KeepsMarks, KeepsFunding,
     To, JobOnly, Proving
<1>22. CASE PrepareRenewal(s)
  BY <1>0, pc'[s] \in Proving, <1>22 DEF PrepareRenewal, Goto, Elsewhere, ledger, history, Proving
<1>23. CASE RenewsRow(s)
  BY <1>0, pc'[s] \in Proving, <1>23 DEF RenewsRow, RowMoved, To, RowOnly, Proving
<1>24. CASE SealsRenewal(s)
  BY <1>0, pc'[s] \in Proving, <1>24 DEF SealsRenewal, Moved, Stays, KeepsMarks, KeepsFunding,
     To, JobOnly, Proving
<1>25. CASE ClaimsRun(s)
  BY <1>0, pc'[s] \in Proving, <1>25 DEF ClaimsRun, Moved, Stays, KeepsMarks, KeepsFunding, To,
     JobOnly, Proving
<1>26. CASE RunsRow(s)
  BY <1>0, pc'[s] \in Proving, <1>26 DEF RunsRow, RowMoved, To, RowOnly, Proving
<1>27. CASE Launch(s)
  BY <1>0, pc'[s] \in Proving, <1>27 DEF Launch, Goto, ledger, history, Proving
<1>28. CASE Finishes(s)
  BY <1>0, pc'[s] \in Proving, <1>28 DEF Finishes, Moved, Stays, KeepsMarks, KeepsFunding, To,
     JobOnly, Proving
<1>29. CASE ProveRepair(s)
  BY <1>0, pc'[s] \in Proving, <1>29 DEF ProveRepair, Goto, Elsewhere, ledger, history, Proving
<1>30. CASE ClaimsRepair(s)
  BY <1>0, pc'[s] \in Proving, <1>30 DEF ClaimsRepair, Moved, Stays, KeepsMarks, KeepsFunding,
     To, JobOnly, Proving
<1>31. CASE RepairsRow(s)
  BY <1>0, pc'[s] \in Proving, <1>31 DEF RepairsRow, RowMoved, To, RowOnly, Proving
<1>32. CASE Crash(s)
  BY <1>0, pc'[s] \in Proving, <1>32 DEF Crash, Goto, ledger, history, Proving
<1>. QED
  BY ServerStep(s), <1>1, <1>2, <1>3, <1>4, <1>5, <1>6, <1>7, <1>8, <1>9, <1>10, <1>11, <1>12,
     <1>13, <1>14, <1>15, <1>16, <1>17, <1>18, <1>19, <1>20, <1>21, <1>22, <1>23, <1>24, <1>25,
     <1>26, <1>27, <1>28, <1>29, <1>30, <1>31, <1>32 DEF ServerStep

\* A repair is claimed on the logs of a run that failed.
LEMMA ProvedKept == Inv /\ Proved /\ [Next]_vars => Proved'
<1>. SUFFICES ASSUME Inv, Proved, [Next]_vars, Step \/ UNCHANGED vars PROVE Proved'
  BY StepsAre
<1>0. TypeOK /\ JobSnapshots /\ Place
  BY DEF Inv
<1>1. /\ pc \in [Servers -> Steps] /\ seen \in [Servers -> Jobs] /\ got \in [Servers -> Rows]
      /\ job.version \in Nat /\ row.version \in Nat
      /\ \A u \in Servers : seen[u].version \in Nat /\ got[u].version \in Nat
  BY <1>0, JobFields, RowV DEF TypeOK
<1>2. row.logs \subseteq row'.logs
  BY LogsGrow
<1>3. ASSUME NEW t \in Servers, pc[t] \in Proving, seen'[t] = seen[t],
             job' = job \/ job'.version = job.version + 1 \/ job.state = "absent",
             seen'[t].version = job'.version
      PROVE  row'.logs # {}
  <2>1. Standing(pc[t], seen[t], got[t]) /\ seen[t].version <= job.version
    BY <1>0 DEF Place, JobSnapshots
  <2>2. seen[t].state = "failed"
    BY <1>3, <2>1 DEF Standing, Proving
  <2>3. job.state # "absent"
    BY <1>0, <2>2 DEF JobSnapshots
  <2>4. job' = job
    BY <1>1, <1>3, <2>1, <2>3
  <2>. QED
    BY <1>2, <1>3, <2>4 DEF Proved
<1>4. ASSUME NEW s \in Servers, ServerStep(s) PROVE Proved'
  <2>1. job' = job \/ job'.version = job.version + 1 \/ job.state = "absent"
    BY <1>0, <1>4, JobMoves
  <2>2. ASSUME NEW t \in Servers, pc'[t] \in Proving, seen'[t].version = job'.version
        PROVE  row'.logs # {}
    <3>1. CASE t = s
      BY <1>0, <1>3, <1>4, <2>1, <2>2, <3>1, EntersProving
    <3>2. CASE t # s
      BY <1>0, <1>3, <1>4, <2>1, <2>2, <3>2, Others
    <3>. QED
      BY <3>1, <3>2
  <2>. QED
    BY <2>2 DEF Proved
<1>5. CASE pc' = pc /\ seen' = seen /\ job' = job
  BY <1>3, <1>5 DEF Proved
<1>. QED
  BY <1>4, <1>5, Bystanders DEF vars

\* The states of the job before any launch.
Early == {"absent", "initializing", "prepared", "funding", "funded", "blocked"}

\* The job stays as repaired as it is.
Kept == /\ job'.repaired <=> job.repaired
        /\ job'.resumed <=> job.resumed

\* The failed job is taken up again.
Repaired ==
  /\ job.state = "failed" /\ job'.state = "funded"
  /\ job.repaired => ~job.resumed
  /\ job'.repaired
  /\ job'.resumed <=> job.repaired
  /\ \E s \in Servers : pc[s] \in Proving /\ seen[s].version = job.version

\* The moves of the job, and what becomes of the session meanwhile.
Told ==
  \/ /\ Kept /\ job'.state = job.state
     /\ row' = row \/ row'.state # "failed" \/ job.state \in Early
  \/ Kept /\ job.state \in Early /\ job'.state \in Early
  \/ Kept /\ job.state = "funding" /\ job'.state = "failed" /\ row' = row
  \/ Kept /\ job.state = "funded" /\ job'.state = "running" /\ row' = row /\ row.state = "funded"
  \/ Kept /\ job.state = "running" /\ job'.state \in {"succeeded", "failed"} /\ row' = row
  \/ Repaired /\ row' = row

\* How a server moves the job, by what it leaves of the session.
LEMMA JobTells ==
  ASSUME Inv, NEW s \in Servers, ServerStep(s)
  PROVE  Told
<1>0. /\ TypeOK /\ JobSnapshots /\ RowSnapshots /\ Unopened /\ Place /\ Alone /\ Agree /\ Views
  BY DEF Inv
<1>b. /\ pc \in [Servers -> Steps] /\ seen \in [Servers -> Jobs] /\ got \in [Servers -> Rows]
      /\ Standing(pc[s], seen[s], got[s]) /\ (Fresh(s) => View(s))
  BY <1>0 DEF TypeOK, Place, Views, View
<1>1. CASE Begins(s)
  <2>1. CASE job.state # "absent"
    BY <1>1, <2>1 DEF Begins, Kept, JobOnly, Told
  <2>2. CASE job.state = "absent"
    <3>1. job = NoJob
      BY <1>0, <2>2 DEF JobSnapshots
    <3>2. ~job'.repaired /\ ~job'.resumed /\ job'.state = "initializing"
      BY <1>1, <2>2 DEF Begins
    <3>. QED
      BY <2>2, <3>1, <3>2 DEF Kept, NoJob, Early, Told
  <2>. QED
    BY <2>1, <2>2
<1>2. CASE Creates(s)
  BY <1>b, <1>2 DEF Creates, RowMoved, To, RowOnly, Kept, Told
<1>3. CASE Attaches(s)
  <2>1. CASE Stays(s)
    BY <1>3, <2>1 DEF Attaches, Stays, JobOnly, Kept, Told
  <2>2. CASE Moved(s, "initializing")
    <3>1. seen[s] = job /\ job'.state = "initializing"
      BY <2>2 DEF Moved
    <3>2. job.state \in Early
      BY <1>b, <3>1, <1>3 DEF Attaches, Standing, Opening, Renewing, Settling, Early
    <3>3. Kept
      BY <3>1, <1>3, <2>2 DEF Attaches, Kept, KeepsMarks, Moved, Stays
    <3>. QED
      BY <3>1, <3>2, <3>3 DEF Early, Told
  <2>. QED
    BY <1>3, <2>1, <2>2 DEF Attaches
<1>4. CASE Prepare(s)
  BY <1>b, <1>4 DEF Prepare, Goto, Elsewhere, ledger, history, Kept, Told
<1>5. CASE RecordsFunding(s)
  BY <1>b, <1>5 DEF RecordsFunding, RowMoved, To, RowOnly, Kept, Told
<1>6. CASE Seals(s)
  <2>1. CASE Stays(s)
    BY <1>6, <2>1 DEF Seals, Stays, JobOnly, Kept, Told
  <2>2. CASE Moved(s, "prepared")
    <3>1. seen[s] = job /\ job'.state = "prepared"
      BY <2>2 DEF Moved
    <3>2. job.state \in Early
      BY <1>b, <3>1, <1>6 DEF Seals, Standing, Opening, Renewing, Settling, Early
    <3>3. Kept
      BY <3>1, <1>6, <2>2 DEF Seals, Kept, KeepsMarks, Moved, Stays
    <3>. QED
      BY <3>1, <3>2, <3>3 DEF Early, Told
  <2>. QED
    BY <1>6, <2>1, <2>2 DEF Seals
<1>7. CASE Poll(s)
  BY <1>b, <1>7 DEF Poll, Goto, Elsewhere, ledger, history, Kept, Told
<1>8. CASE PollsExhausted(s)
  BY <1>b, <1>8 DEF PollsExhausted, Goto, Elsewhere, ledger, history, Kept, Told
<1>9. CASE Session(s)
  BY <1>b, <1>9 DEF Session, Goto, Elsewhere, ledger, history, Kept, Told
<1>10. CASE Throw(s)
  BY <1>b, <1>10 DEF Throw, Goto, Elsewhere, ledger, history, Thrown, Kept, Told
<1>11. CASE Blocks(s)
  <2>1. CASE Stays(s)
    BY <1>11, <2>1 DEF Blocks, Stays, JobOnly, Kept, Told
  <2>2. CASE Moved(s, "blocked")
    <3>1. seen[s] = job /\ job'.state = "blocked"
      BY <2>2 DEF Moved
    <3>2. job.state \in Early
      BY <1>b, <3>1, <1>11 DEF Blocks, Standing, Opening, Renewing, Settling, Early
    <3>3. Kept
      BY <3>1, <1>11, <2>2 DEF Blocks, Kept, KeepsMarks, Moved, Stays
    <3>. QED
      BY <3>1, <3>2, <3>3 DEF Early, Told
  <2>. QED
    BY <1>11, <2>1, <2>2 DEF Blocks
<1>12. CASE ClaimsFunding(s)
  <2>1. CASE Stays(s)
    BY <1>12, <2>1 DEF ClaimsFunding, Stays, JobOnly, Kept, Told
  <2>2. CASE Moved(s, "funding")
    <3>1. seen[s] = job /\ job'.state = "funding"
      BY <2>2 DEF Moved
    <3>2. job.state \in Early
      BY <1>b, <3>1, <1>12 DEF ClaimsFunding, Standing, Opening, Renewing, Settling, Early
    <3>3. Kept
      BY <3>1, <1>12, <2>2 DEF ClaimsFunding, Kept, KeepsMarks, Moved, Stays
    <3>. QED
      BY <3>1, <3>2, <3>3 DEF Early, Told
  <2>. QED
    BY <1>12, <2>1, <2>2 DEF ClaimsFunding
<1>13. CASE FundsRow(s)
  BY <1>b, <1>13 DEF FundsRow, RowMoved, To, RowOnly, Kept, Told
<1>14. CASE Submit(s)
  BY <1>b, <1>14 DEF Submit, Goto, ledger, history, Kept, Told
<1>15. CASE Reconciles(s)
  <2>1. job' = job /\ pc[s] = "reconcile"
    BY <1>15 DEF Reconciles, RowOnly
  <2>2. CASE row' = row
    BY <2>1, <2>2 DEF Kept, Told
  <2>3. CASE row' # row
    <3>1. row.version = got[s].version /\ got[s].state = "funding"
      BY <1>b, <2>1, <2>3, <1>15 DEF Reconciles, Standing
    <3>2. row.state = "funding"
      BY <1>0, <3>1 DEF RowSnapshots
    <3>3. job.state \in Early
      <4>1. job.state \in {"absent", "initializing", "prepared", "funding", "funded", "running",
                          "succeeded", "failed", "blocked"}
        BY <1>0 DEF TypeOK, Jobs
      <4>. QED
        BY <1>0, <3>2, <4>1 DEF Agree, Early
    <3>. QED
      BY <2>1, <3>3 DEF Kept, Told
  <2>. QED
    BY <2>2, <2>3
<1>16. CASE SettlesFunded(s)
  <2>1. CASE Stays(s)
    BY <1>16, <2>1 DEF SettlesFunded, Stays, JobOnly, Kept, Told
  <2>2. CASE Moved(s, "funded")
    <3>1. seen[s] = job /\ job'.state = "funded"
      BY <2>2 DEF Moved
    <3>2. job.state \in Early
      BY <1>b, <3>1, <1>16 DEF SettlesFunded, Standing, Opening, Renewing, Settling, Early
    <3>3. Kept
      BY <3>1, <1>16, <2>2 DEF SettlesFunded, Kept, KeepsMarks, Moved, Stays
    <3>. QED
      BY <3>1, <3>2, <3>3 DEF Early, Told
  <2>. QED
    BY <1>16, <2>1, <2>2 DEF SettlesFunded
<1>17. CASE SettlesFailed(s)
  <2>1. CASE Stays(s)
    BY <1>17, <2>1 DEF SettlesFailed, Stays, JobOnly, Kept, Told
  <2>2. CASE ~Stays(s)
    <3>1. seen[s] = job /\ job'.state = "failed" /\ row' = row
      BY <2>2, <1>17 DEF SettlesFailed, Moved, JobOnly
    <3>2. Kept /\ job.state = "funding"
      BY <1>b, <3>1, <1>17, <2>2 DEF SettlesFailed, Kept, KeepsMarks, Stays, Standing,
         Settling, Opening, Renewing
    <3>. QED
      BY <3>1, <3>2 DEF Told
  <2>. QED
    BY <2>1, <2>2
<1>18. CASE SettleOpen(s)
  BY <1>b, <1>18 DEF SettleOpen, Goto, Elsewhere, ledger, history, Kept, Told
<1>19. CASE ClaimsRetry(s)
  <2>1. CASE Stays(s)
    BY <1>19, <2>1 DEF ClaimsRetry, Stays, JobOnly, Kept, Told
  <2>2. CASE Moved(s, "funding")
    <3>1. seen[s] = job /\ job'.state = "funding"
      BY <2>2 DEF Moved
    <3>2. job.state \in Early
      BY <1>b, <3>1, <1>19 DEF ClaimsRetry, Standing, Opening, Renewing, Settling, Early
    <3>3. Kept
      BY <3>1, <1>19, <2>2 DEF ClaimsRetry, Kept, KeepsMarks, Moved, Stays
    <3>. QED
      BY <3>1, <3>2, <3>3 DEF Early, Told
  <2>. QED
    BY <1>19, <2>1, <2>2 DEF ClaimsRetry
<1>20. CASE ProveUnused(s)
  BY <1>b, <1>20 DEF ProveUnused, Goto, Elsewhere, ledger, history, Kept, Told
<1>21. CASE ClaimsRenewal(s)
  <2>1. CASE Stays(s)
    BY <1>21, <2>1 DEF ClaimsRenewal, Stays, JobOnly, Kept, Told
  <2>2. CASE Moved(s, "initializing")
    <3>1. seen[s] = job /\ job'.state = "initializing"
      BY <2>2 DEF Moved
    <3>2. job.state \in Early
      BY <1>b, <3>1, <1>21 DEF ClaimsRenewal, Standing, Opening, Renewing, Settling, Early
    <3>3. Kept
      BY <3>1, <1>21, <2>2 DEF ClaimsRenewal, Kept, KeepsMarks, Moved, Stays
    <3>. QED
      BY <3>1, <3>2, <3>3 DEF Early, Told
  <2>. QED
    BY <1>21, <2>1, <2>2 DEF ClaimsRenewal
<1>22. CASE PrepareRenewal(s)
  BY <1>b, <1>22 DEF PrepareRenewal, Goto, Elsewhere, ledger, history, Kept, Told
<1>23. CASE RenewsRow(s)
  BY <1>b, <1>23 DEF RenewsRow, RowMoved, To, RowOnly, Kept, Told
<1>24. CASE SealsRenewal(s)
  <2>1. CASE Stays(s)
    BY <1>24, <2>1 DEF SealsRenewal, Stays, JobOnly, Kept, Told
  <2>2. CASE Moved(s, "prepared")
    <3>1. seen[s] = job /\ job'.state = "prepared"
      BY <2>2 DEF Moved
    <3>2. job.state \in Early
      BY <1>b, <3>1, <1>24 DEF SealsRenewal, Standing, Opening, Renewing, Settling, Early
    <3>3. Kept
      BY <3>1, <1>24, <2>2 DEF SealsRenewal, Kept, KeepsMarks, Moved, Stays
    <3>. QED
      BY <3>1, <3>2, <3>3 DEF Early, Told
  <2>. QED
    BY <1>24, <2>1, <2>2 DEF SealsRenewal
<1>25. CASE ClaimsRun(s)
  <2>1. CASE Stays(s)
    BY <1>25, <2>1 DEF ClaimsRun, Stays, JobOnly, Kept, Told
  <2>2. CASE ~Stays(s)
    <3>1. seen[s] = job /\ job'.state = "running" /\ row' = row
      BY <2>2, <1>25 DEF ClaimsRun, Moved, JobOnly
    <3>2. Kept /\ job.state = "funded" /\ row.state = "funded"
      <4>1. Fresh(s) /\ pc[s] = "claim run"
        BY <1>b, <3>1, <1>25 DEF ClaimsRun, Fresh, Standing
      <4>. QED
        BY <1>b, <3>1, <4>1, <1>25, <2>2 DEF ClaimsRun, Kept, KeepsMarks, Stays, Standing, View
    <3>. QED
      BY <3>1, <3>2 DEF Told
  <2>. QED
    BY <2>1, <2>2
<1>26. CASE RunsRow(s)
  BY <1>b, <1>26 DEF RunsRow, RowMoved, RowOnly, Kept, Told
<1>27. CASE Launch(s)
  BY <1>b, <1>27 DEF Launch, Goto, ledger, history, Kept, Told
<1>28. CASE Finishes(s)
  <2>1. CASE Stays(s)
    BY <1>28, <2>1 DEF Finishes, Stays, JobOnly, Kept, Told
  <2>2. CASE ~Stays(s)
    <3>1. seen[s] = job /\ job'.state = got[s].state /\ row' = row
      BY <2>2, <1>28 DEF Finishes, Moved, JobOnly
    <3>2. Kept /\ job.state = "running" /\ got[s].state \in {"succeeded", "failed"}
      BY <1>b, <3>1, <1>28, <2>2 DEF Finishes, Kept, KeepsMarks, Stays, Standing, Settling,
         Opening, Renewing
    <3>. QED
      BY <3>1, <3>2 DEF Told
  <2>. QED
    BY <2>1, <2>2
<1>29. CASE ProveRepair(s)
  BY <1>b, <1>29 DEF ProveRepair, Goto, Elsewhere, ledger, history, Kept, Told
<1>30. CASE ClaimsRepair(s)
  <2>1. CASE Stays(s)
    BY <1>30, <2>1 DEF ClaimsRepair, Stays, JobOnly, Kept, Told
  <2>2. CASE ~Stays(s)
    <3>1. seen[s] = job /\ job'.state = "funded" /\ row' = row
      BY <2>2, <1>30 DEF ClaimsRepair, Moved, JobOnly
    <3>2. Repaired
      BY <1>b, <3>1, <1>30, <2>2 DEF ClaimsRepair, Repaired, Stays, Standing, Proving
    <3>. QED
      BY <3>1, <3>2 DEF Told
  <2>. QED
    BY <2>1, <2>2
<1>31. CASE RepairsRow(s)
  BY <1>b, <1>31 DEF RepairsRow, RowMoved, To, RowOnly, Kept, Told
<1>32. CASE Crash(s)
  BY <1>b, <1>32 DEF Crash, Goto, ledger, history, Kept, Told
<1>. QED
  BY ServerStep(s), <1>1, <1>2, <1>3, <1>4, <1>5, <1>6, <1>7, <1>8, <1>9, <1>10, <1>11, <1>12,
     <1>13, <1>14, <1>15, <1>16, <1>17, <1>18, <1>19, <1>20, <1>21, <1>22, <1>23, <1>24, <1>25,
     <1>26, <1>27, <1>28, <1>29, <1>30, <1>31, <1>32 DEF ServerStep

\* No server ends a run.
LEMMA NoEnds ==
  ASSUME Inv, NEW s \in Servers, ServerStep(s), NEW l \in Labels, child[l] # "ended"
  PROVE  child'[l] # "ended"
<1>0. child \in [Labels -> {"none", "alive", "orphan", "ended"}]
  BY DEF Inv, TypeOK
<1>1. CASE Submit(s)
  BY <1>1 DEF Submit
<1>2. CASE Launch(s)
  BY <1>0, <1>2, LaunchFrom
<1>3. CASE Crash(s)
  <2>1. PICK lost \in SUBSET {k \in Labels : child[k] = "alive"} :
           child' = [k \in Labels |-> IF k \in lost THEN "orphan" ELSE child[k]]
    BY <1>3 DEF Crash
  <2>. QED
    BY <2>1
<1>. QED
  BY <1>1, <1>2, <1>3, Quiet DEF Same

\* A job is repaired once its first run has ended, and resumed once the second has.
LEMMA RepairsKept == Inv /\ Proved /\ Repairs /\ [Next]_vars => Repairs'
<1>. SUFFICES ASSUME Inv, Proved, Repairs, [Next]_vars, Step \/ UNCHANGED vars PROVE Repairs'
  BY StepsAre
<1>0. TypeOK /\ SoundJobs /\ Agree /\ Runs
  BY DEF Inv
<1>1. /\ job.state \in {"absent", "initializing", "prepared", "funding", "funded", "running",
                        "succeeded", "failed", "blocked"}
      /\ \A l \in Labels : child[l] = "ended" => child'[l] = "ended"
      /\ row.logs \subseteq row'.logs
      /\ {"first", "preflight-repair-1", "registered-setup-repair-1"} = Labels
      /\ Label(job) \in Labels /\ (job.resumed => job.repaired)
  BY <1>0, EndedStays, LogsGrow DEF TypeOK, Jobs, Labels, Label, SoundJobs, SoundJob
<1>2. ASSUME NEW s \in Servers, ServerStep(s) PROVE Repairs'
  <2>1. Told
    BY <1>2, JobTells
  <2>2. row'.logs = row.logs
    <3>1. ASSUME NEW l \in Labels, End(l) PROVE FALSE
      <4>1. child[l] = "alive" /\ child' = [child EXCEPT ![l] = "ended"]
        BY <3>1 DEF End
      <4>2. child'[l] = "ended" /\ child[l] = "alive"
        BY <1>0, <4>1 DEF TypeOK
      <4>. QED
        BY <1>0, <1>2, <4>2, NoEnds
    <3>. QED
      BY <3>1, LogsGrow
  <2>3. Kept => Label(job') = Label(job)
    BY DEF Kept, Label
  <2>5. CASE Kept /\ job'.state = job.state /\ (row' = row \/ row'.state # "failed" \/ job.state \in Early)
    BY <1>1, <2>2, <2>3, <2>5 DEF Repairs, Kept, Early
  <2>6. CASE Kept /\ job.state \in Early /\ job'.state \in Early
    BY <1>1, <2>2, <2>3, <2>6 DEF Repairs, Kept, Early
  <2>7. CASE Kept /\ job.state = "funding" /\ job'.state = "failed" /\ row' = row
    BY <1>0, <1>1, <2>7 DEF Repairs, Kept, Agree
  <2>8. CASE Kept /\ job.state = "funded" /\ job'.state = "running" /\ row' = row /\ row.state = "funded"
    BY <1>1, <2>8 DEF Repairs, Kept
  <2>9. CASE Kept /\ job.state = "running" /\ job'.state \in {"succeeded", "failed"} /\ row' = row
    BY <1>1, <2>3, <2>9 DEF Repairs, Kept
  <2>10. CASE Repaired /\ row' = row
    <3>1. row.logs # {} /\ row.state = "failed"
      BY <1>0, <2>10 DEF Repaired, Proved, Agree
    <3>2. child[Label(job)] = "ended"
      BY <2>10, <3>1 DEF Repairs, Repaired
    <3>3. IF job.repaired THEN Label(job) = "preflight-repair-1" ELSE Label(job) = "first"
      BY <1>1, <2>10 DEF Repaired, Label
    <3>. QED
      BY <1>1, <2>10, <3>2, <3>3 DEF Repairs, Repaired
  <2>. QED
    BY <2>1, <2>5, <2>6, <2>7, <2>8, <2>9, <2>10 DEF Told
<1>3. ASSUME NEW l \in Labels, Ends(l) PROVE Repairs'
  <2>1. job' = job /\ child'[l] = "ended" /\ child[l] = "alive" /\ row.state = "running"
    BY <1>0, <1>3 DEF Ends, TypeOK
  <2>2. l = Label(job) /\ job.state = "running"
    BY <1>0, <2>1 DEF Runs
  <2>. QED
    BY <1>1, <2>1, <2>2 DEF Repairs
<1>4. CASE job' = job /\ row' = row
  BY <1>1, <1>4 DEF Repairs, Label
<1>. QED
  BY <1>2, <1>3, <1>4, Bystanders, RowBystanders DEF vars

------------------------------------------------------------------------------
(* The refinement *)

\* A submission is one of the few the ledger may see of its envelope.
LEMMA Sends ==
  ASSUME Inv, NEW s \in Servers, Submit(s)
  PROVE  Outside!Send(seen[s].signed) /\ seen[s].signed \in Envelopes
<1>. DEFINE e == seen[s].signed
<1>0. TypeOK /\ Place /\ Attempted
  BY DEF Inv
<1>1. /\ pc[s] = "submit" /\ submitted' = [submitted EXCEPT ![e] = @ + 1]
      /\ UNCHANGED <<job, landed, sequence, expired, actors, cooled, child, launches>>
  BY DEF Submit, ledger
<1>2. e \in Envelopes
  <2>1. Standing("submit", seen[s], got[s]) /\ seen[s] \in Jobs
    BY <1>0, <1>1 DEF Place, Standing, TypeOK
  <2>. QED
    BY <2>1 DEF Standing, Jobs
<1>3. e # None
  BY <1>2, BurnerAssumption DEF Envelopes
<1>4. job.signed # None /\ (e = "renewal" => job.signed = "renewal")
  BY <1>0, <1>3 DEF Attempted
<1>5. submitted[e] < MaxAttempts
  <2>1. IsFiniteSet(Pending(e)) /\ submitted[e] + Cardinality(Pending(e)) <= MaxAttempts
    BY <1>0, <1>2 DEF Attempted
  <2>2. s \in Pending(e)
    BY <1>1 DEF Pending
  <2>3. Cardinality(Pending(e)) \in Nat /\ Cardinality(Pending(e)) # 0
    BY <2>1, <2>2, FS_CardinalityType, FS_EmptySet
  <2>4. submitted[e] \in Nat /\ MaxAttempts \in Nat
    BY <1>0, <1>2 DEF TypeOK, MaxAttempts
  <2>. HIDE DEF MaxAttempts, e
  <2>. QED
    BY <2>1, <2>3, <2>4
<1>. QED
  BY <1>1, <1>2, <1>4, <1>5 DEF Outside!Send, Outside!runs

\* A second funding is signed when the first can no longer be applied.
LEMMA SignsOutside ==
  ASSUME Inv, NEW s \in Servers, Signs(s), Same
  PROVE  Outside!Sign \/ Outside!Renew
<1>0. TypeOK /\ SoundJobs /\ Place /\ Agree /\ Ledger
  BY DEF Inv
<1>1. CASE pc[s] = "seal"
  <2>1. job.signed = None /\ job'.signed = "original"
    BY <1>0, <1>1 DEF Signs, Place, Standing, Opening, Agree
  <2>. QED
    BY <2>1 DEF Same, Outside!Sign, Outside!runs
<1>2. CASE pc[s] = "seal renewal"
  <2>1. job.signed = "original" /\ job.renewed /\ job'.signed = "renewal"
    BY <1>0, <1>2 DEF Signs, Place, Standing, Renewing, Agree
  <2>2. expired /\ landed.envelope = None
    BY <1>0, <2>1 DEF Ledger, SoundJobs, SoundJob
  <2>. QED
    BY <2>1, <2>2 DEF Same, Outside!Renew, Outside!runs
<1>. QED
  BY <1>1, <1>2 DEF Signs

\* A launch is on accounts that are ready for it.
LEMMA Launches ==
  ASSUME Inv, Repairs, NEW s \in Servers, Launch(s)
  PROVE  Outside!Launch(Label(job)) /\ Label(job) \in Labels
<1>0. TypeOK /\ SoundJobs /\ Runs
  BY DEF Inv
<1>1. /\ job.state = "running" /\ launches[Label(job)] = 0
      /\ Label(job) \in Labels /\ ~Working
      /\ child' = [child EXCEPT ![Label(job)] = "alive"]
      /\ launches' = [launches EXCEPT ![Label(job)] = 1]
  BY LaunchFrom
<1>2. UNCHANGED <<job, landed, sequence, expired, actors, cooled, submitted>>
  BY DEF Launch, ledger
<1>3. landed = [envelope |-> job.signed, ok |-> TRUE]
  BY <1>0, <1>1, InvFunded DEF FundedMeansLanded, SoundJobs, SoundJob
<1>4. /\ cooled \/ \A l \in Labels : child[l] = "none"
      /\ actors = IF job.resumed THEN "registered" ELSE "initial"
  BY <1>0, <1>1 DEF Runs
<1>5. ~Outside!Working
  BY <1>1 DEF Outside!Working, Working, Outside!Labels, Labels
<1>6. Outside!Ready(Label(job))
  <2>1. CASE job.resumed
    BY <1>4, <2>1 DEF Outside!Ready, Label, Repairs, Labels
  <2>2. CASE ~job.resumed /\ job.repaired
    BY <1>4, <2>2 DEF Outside!Ready, Label, Repairs, Labels
  <2>3. CASE ~job.resumed /\ ~job.repaired
    BY <1>4, <2>3 DEF Outside!Ready, Label
  <2>. QED
    BY <2>1, <2>2, <2>3
<1>. QED
  BY <1>1, <1>2, <1>3, <1>5, <1>6 DEF Outside!Launch, Outside!funding

\* A server that dies leaves at most one process unwatched.
LEMMA Orphans ==
  ASSUME Inv, NEW s \in Servers, Crash(s)
  PROVE  Outside!Orphan \/ UNCHANGED Outside!vars
<1>0. TypeOK /\ Runs
  BY DEF Inv
<1>1. UNCHANGED <<job, landed, sequence, expired, actors, cooled, submitted, launches>>
  BY DEF Crash, ledger, history
<1>2. PICK lost \in SUBSET {l \in Labels : child[l] = "alive"} :
         child' = [l \in Labels |-> IF l \in lost THEN "orphan" ELSE child[l]]
  BY DEF Crash
<1>3. child = [l \in Labels |-> child[l]]
  BY <1>0 DEF TypeOK
<1>4. CASE lost = {}
  <2>1. child' = child
    BY <1>2, <1>3, <1>4
  <2>. QED
    BY <1>1, <2>1 DEF Outside!vars
<1>5. CASE lost # {}
  <2>1. lost = {Label(job)} /\ Label(job) \in Labels /\ child[Label(job)] = "alive"
    BY <1>0, <1>5 DEF Runs
  <2>2. child' = [child EXCEPT ![Label(job)] = "orphan"]
    BY <1>0, <1>2, <2>1 DEF TypeOK
  <2>. QED
    BY <1>1, <2>1, <2>2 DEF Outside!Orphan, Outside!funding, Outside!Labels, Labels
<1>. QED
  BY <1>4, <1>5

\* Every step is one of the careful operator's, or he does not notice it.
LEMMA OutsideStep == Inv /\ Repairs /\ [Next]_vars => [Outside!Next]_Outside!vars
<1>. SUFFICES ASSUME Inv, Repairs, Step \/ UNCHANGED vars
              PROVE  Outside!Next \/ UNCHANGED Outside!vars
  BY StepsAre
<1>0. Outside!Labels = Labels /\ Outside!Envelopes = Envelopes
  BY DEF Outside!Labels, Labels, Outside!Envelopes, Envelopes
<1>1. ASSUME NEW s \in Servers, ServerStep(s) PROVE Outside!Next \/ UNCHANGED Outside!vars
  <2>1. CASE Submit(s)
    BY <1>0, <2>1, Sends DEF Outside!Next
  <2>2. CASE Launch(s)
    BY <1>0, <2>2, Launches DEF Outside!Next
  <2>3. CASE Crash(s)
    BY <2>3, Orphans DEF Outside!Next
  <2>4. CASE ~Submit(s) /\ ~Launch(s) /\ ~Crash(s)
    <3>1. Same
      BY <1>1, <2>4, Quiet
    <3>2. Signs(s) \/ job'.signed = job.signed
      BY <1>1, <2>4, Kinds DEF Claims, Else
    <3>3. CASE Signs(s)
      BY <3>1, <3>3, SignsOutside DEF Outside!Next
    <3>4. CASE job'.signed = job.signed
      BY <3>1, <3>4 DEF Same, Outside!vars
    <3>. QED
      BY <3>2, <3>3, <3>4
  <2>. QED
    BY <2>1, <2>2, <2>3, <2>4
<1>2. ASSUME NEW e \in Envelopes, Land(e) PROVE Outside!Next
  <2>1. Outside!Land(e)
    BY <1>2 DEF Land, Outside!Land, history
  <2>. QED
    BY <1>0, <2>1 DEF Outside!Next
<1>3. ASSUME NEW l \in Labels, Ends(l) PROVE Outside!Next
  <2>1. Outside!End(l)
    BY <1>3 DEF Ends, Outside!End, Outside!funding
  <2>. QED
    BY <1>0, <2>1 DEF Outside!Next
<1>4. CASE Expire
  BY <1>4 DEF Expire, history, Outside!Expire, Outside!runs, Outside!Next
<1>5. CASE OwnerMoves
  BY <1>5 DEF OwnerMoves, history, Outside!OwnerMoves, Outside!runs, Outside!Next
<1>6. CASE Act
  BY <1>0, <1>6 DEF Act, Working, history, Outside!Act, Outside!Working, Outside!funding,
     Outside!Next
<1>7. CASE Cool
  BY <1>0, <1>7 DEF Cool, Working, ledger, history, Outside!Cool, Outside!Working,
     Outside!funding, Outside!Next
<1>8. CASE UNCHANGED vars
  BY <1>8 DEF vars, Outside!vars
<1>. QED
  BY <1>1, <1>2, <1>3, <1>4, <1>5, <1>6, <1>7, <1>8 DEF Step

\* Seen from the ledger the servers, however many run a controller and wherever
\* they die, do what one careful operator would: they sign a second funding only
\* when the first can no longer be applied, send neither too often, and start the
\* CLI once for each label on accounts that are ready for it
\* (lib/cli-test-burner-job.ts).
THEOREM Refinement == Spec => ImplementsOneOffTest
<1>1. Init => Proved /\ Repairs
  BY DEF Init, Proved, Proving, Repairs, NoRow, NoJob
<1>2. Init => Outside!Init
  BY DEF Init, NoJob, Outside!Init, Outside!Labels, Labels, Outside!Envelopes, Envelopes
<1>. QED
  BY <1>1, <1>2, ProvedKept, RepairsKept, OutsideStep, Invariance, PTL
     DEF Spec, ImplementsOneOffTest, Outside!Spec

==============================================================================
