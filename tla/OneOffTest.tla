------------------------------ MODULE OneOffTest ------------------------------
(***************************************************************************)
(* What the one-off Mainnet test promises to the ledger: seen from there,  *)
(* any number of servers with their two rows behave like one careful       *)
(* operator.  It signs one funding, and another with the same sequence     *)
(* number only when the first can no longer be applied; sends each a few   *)
(* times at most; and starts its CLI, once the funding has landed, first   *)
(* on untouched accounts, then for each of two repairs after the run       *)
(* before it ended and its packets expired.  BurnerJob implements this.    *)
(***************************************************************************)
EXTENDS Naturals

CONSTANTS
  None,
  MaxAttempts  \* submissions of one envelope

Envelopes == {"original", "renewal"}
Labels == {"first", "preflight-repair-1", "registered-setup-repair-1"}

VARIABLES
  signed,     \* the last envelope signed, or None
  submitted,  \* submitted[e]: how often e was sent
  sequence,   \* is their sequence number still unused?
  expired,    \* is the original past its time bounds?
  landed,     \* the envelope that was applied, and whether it succeeded
  actors,     \* what was done with the accounts
  cooled,     \* has every packet of the last run expired?
  child,      \* child[l]: the process of run l
  launches    \* launches[l]: how often run l was started

vars == <<signed, submitted, sequence, expired, landed, actors, cooled, child, launches>>

funding == <<signed, submitted, sequence, expired, landed>>
runs == <<actors, cooled, child, launches>>

Init ==
  /\ signed = None
  /\ submitted = [e \in Envelopes |-> 0]
  /\ sequence = "free"
  /\ expired = FALSE
  /\ landed = [envelope |-> None, ok |-> FALSE]
  /\ actors = "absent"
  /\ cooled = FALSE
  /\ child = [l \in Labels |-> "none"]
  /\ launches = [l \in Labels |-> 0]

Sign ==
  /\ signed = None
  /\ signed' = "original"
  /\ UNCHANGED <<submitted, sequence, expired, landed, runs>>

Renew ==
  /\ signed = "original"
  /\ expired
  /\ landed.envelope = None
  /\ signed' = "renewal"
  /\ UNCHANGED <<submitted, sequence, expired, landed, runs>>

\* A slow server may still send the original after its renewal was signed.
Send(e) ==
  /\ signed # None
  /\ e = "renewal" => signed = "renewal"
  /\ submitted[e] < MaxAttempts
  /\ submitted' = [submitted EXCEPT ![e] = @ + 1]
  /\ UNCHANGED <<signed, sequence, expired, landed, runs>>

Expire ==
  /\ signed # None
  /\ ~expired
  /\ expired' = TRUE
  /\ UNCHANGED <<signed, submitted, sequence, landed, runs>>

Land(e) ==
  /\ submitted[e] > 0
  /\ e = "original" => ~expired
  /\ sequence = "free"
  /\ sequence' = "used"
  /\ \E ok \in BOOLEAN :
       /\ landed' = [envelope |-> e, ok |-> ok]
       /\ actors' = IF ok THEN "initial" ELSE actors
  /\ UNCHANGED <<signed, submitted, expired, cooled, child, launches>>

OwnerMoves ==
  /\ signed # None
  /\ sequence = "free"
  /\ sequence' = "used"
  /\ UNCHANGED <<signed, submitted, expired, landed, runs>>

Working == \E l \in Labels : child[l] \in {"alive", "orphan"}

\* A repair needs the run before it to have ended and its packets to have
\* expired; the accounts must show that it spent nothing.
Ready(l) ==
  CASE l = "first" -> actors = "initial"
    [] l = "preflight-repair-1" -> child["first"] = "ended" /\ cooled /\ actors = "initial"
    [] l = "registered-setup-repair-1" ->
         child["preflight-repair-1"] = "ended" /\ cooled /\ actors = "registered"

Launch(l) ==
  /\ landed = [envelope |-> signed, ok |-> TRUE]
  /\ launches[l] = 0
  /\ ~Working
  /\ Ready(l)
  /\ child' = [child EXCEPT ![l] = "alive"]
  /\ launches' = [launches EXCEPT ![l] = 1]
  /\ UNCHANGED <<funding, actors, cooled>>

Act ==
  /\ Working \/ (~cooled /\ \E l \in Labels : child[l] = "ended")
  /\ \/ actors = "initial" /\ actors' = "registered"
     \/ actors = "registered" /\ actors' = "spent"
  /\ UNCHANGED <<funding, cooled, child, launches>>

End(l) ==
  /\ child[l] = "alive"
  /\ child' = [child EXCEPT ![l] = "ended"]
  /\ cooled' = FALSE
  /\ UNCHANGED <<funding, actors, launches>>

\* The server that watched a process dies.
Orphan ==
  /\ \E l \in Labels : child[l] = "alive" /\ child' = [child EXCEPT ![l] = "orphan"]
  /\ UNCHANGED <<funding, actors, cooled, launches>>

Cool ==
  /\ ~Working
  /\ ~cooled
  /\ cooled' = TRUE
  /\ UNCHANGED <<funding, actors, child, launches>>

Next ==
  \/ Sign \/ Renew \/ Expire \/ OwnerMoves \/ Act \/ Orphan \/ Cool
  \/ \E e \in Envelopes : Send(e) \/ Land(e)
  \/ \E l \in Labels : Launch(l) \/ End(l)

Spec == Init /\ [][Next]_vars
=============================================================================
