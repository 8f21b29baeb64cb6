------------------------------ MODULE MCBurnerJob ------------------------------
(***************************************************************************)
(* Small instances.  States that differ only in a snapshot no later step   *)
(* of its controller reads are one state to TLC (VIEW).                    *)
(***************************************************************************)
EXTENDS BurnerJob, TLC

ServerSymmetry == Permutations(Servers)

\* The snapshot of the job only matters to Block once s is about to poll.
LiveSeen(s) ==
  CASE pc[s] \in {"start", "create", "done"} -> NoJob
    [] pc[s] = "poll" -> IF seen[s] = job /\ job.state = "prepared" THEN job ELSE NoJob
    [] OTHER -> seen[s]

LiveGot(s) ==
  IF pc[s] \in {"start", "create", "seal", "poll", "session", "submit", "seal renewal",
                "launch", "block", "done"}
    THEN NoRow ELSE got[s]

Live == <<job, row, pc, [s \in Servers |-> LiveSeen(s)], [s \in Servers |-> LiveGot(s)],
          ledger, cooled, child, crashes, history>>
=============================================================================
