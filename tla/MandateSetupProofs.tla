---------------------------- MODULE MandateSetupProofs ----------------------------
(***************************************************************************)
(* Proofs about MandateSetup, for any number of limits, transactions and   *)
(* sequence numbers, and any bounds.                                       *)
(*                                                                         *)
(* The page signs only what its one current record allows, so the proof    *)
(* shows that the current record knows everything that is still out: the   *)
(* registration that can come to be or be spent (Current), and the         *)
(* allowances of its limit (Covered).  A record that replaces the current  *)
(* one, be it a copy the approval or the revocation worked on, must know   *)
(* as much (Sound, Copies).                                                *)
(***************************************************************************)
EXTENDS MandateSetup, TLAPS

Out(t) == chain[t].state \in {"signed", "sent", "landed"}

\* What a record says is so, of a chain.
Sound(r, c) ==
  /\ r.registered => c[r.id].state = "landed"
  /\ r.pending => c[r.id].state # "none" /\ ~r.registered
  /\ r.allowance # None => r.registered /\ c[r.allowance].state # "none"
  /\ r.allowed # None => r.registered /\ r.allowance = None
  /\ r.revocation # None => \E v \in Revokes : c[v].limit = r.id /\ c[v].state # "none"

\* What the page works on is the current record, or an older copy of it.
SavedSound ==
  saved # None => Sound(saved, chain) /\ \A r \in history : r.id # saved.id

ActCurrent ==
  act # None =>
    /\ saved = act.next /\ ~saved.registered
    /\ act.step \in {"prepare", "sign"} => ~saved.pending /\ chain[saved.id].state = "none"
    /\ act.step \in {"send", "await"} => saved.pending

ApproveCopies ==
  approve # None =>
    /\ saved # None /\ saved.registered /\ approve.record.id = saved.id
    /\ Sound(approve.record, chain) /\ approve.record.registered
    /\ ~Revoked(saved.id) => approve.record = saved
    /\ approve.step = "sign" =>
         /\ approve.record.allowance = None /\ approve.record.allowed = None
         /\ prepared # None /\ prepared.limit = saved.id
    /\ approve.step = "send" => approve.record.allowance # None

RevokeCopies ==
  revoke # None =>
    /\ saved # None /\ saved.registered /\ revoke.record.id = saved.id
    /\ Sound(revoke.record, chain) /\ revoke.record.registered
    /\ revoke.step = "await" => Revoked(saved.id)

PreparedAhead ==
  prepared # None /\ (approve # None => approve.step = "sign") => Unsigned(Allowances) # {}

KnownIsSo ==
  known # None => saved # None /\ saved.registered /\ (known = "Ended" => saved.id \in ended)

Copies ==
  /\ SavedSound /\ ActCurrent /\ ApproveCopies /\ RevokeCopies
  /\ PreparedAhead /\ KnownIsSo

\* A registration that can come to be or be spent is the current one.
Current ==
  \A m \in Regs \ dropped :
    /\ Live(m) => saved # None /\ saved.id = m /\ (saved.pending \/ saved.registered)
    /\ Out(m) => Naming(m) # {}

\* An allowance that is out is on the record of its limit.
Covered ==
  /\ \A t \in Tx : chain[t].state # "none" => chain[t].limit \in Regs
  /\ \A a \in Allowances :
       LET m == chain[a].limit IN
       chain[a].state # "none" =>
         /\ chain[m].state = "landed" /\ chain[a].seq > chain[m].seq
         /\ Out(a) /\ ~Revoked(m) =>
              /\ saved # None /\ saved.id = m => a \in {saved.allowance, saved.allowed}
              /\ m \notin dropped => \E r \in Naming(m) : a \in {r.allowance, r.allowed}
  /\ \A a, b \in Allowances :
       a # b /\ chain[a].limit = chain[b].limit /\ chain[a].limit # None /\ ~Revoked(chain[a].limit)
         => ~(Out(a) /\ Out(b))

Inv == TypeOK /\ Copies /\ Current /\ Covered

-----------------------------------------------------------------------------
(* The steps.                                                              *)

LEMMA Named ==
  /\ Tx = Regs \cup Allowances \cup Revokes /\ MaxSeq \in Nat
  /\ Regs \cap Allowances = {} /\ Regs \cap Revokes = {} /\ Allowances \cap Revokes = {}
  /\ None \notin Tx /\ None # "Active" /\ None # "Ended"
  /\ None \notin Records /\ None \notin Activations /\ None \notin Preparations
  /\ None \notin Approvals /\ None \notin Revocations
BY SetupAssumption, NoneAssumption DEF Tx

LEMMA InitInv ==
  Init => Inv
<1>. SUFFICES ASSUME Init PROVE Inv
  OBVIOUS
<1>. USE Named DEF Init
<1>1. TypeOK
  BY DEF TypeOK
<1>2. Copies
  BY DEF Copies, SavedSound, ActCurrent, ApproveCopies, RevokeCopies, PreparedAhead, KnownIsSo
<1>3. Current
  BY DEF Current, Live, Active, Out
<1>4. Covered
  BY DEF Covered, Out
<1>. QED
  BY <1>1, <1>2, <1>3, <1>4 DEF Inv

\* What is about to be signed has not been.
LEMMA SignPicks ==
  ASSUME Inv, act # None
  PROVE  /\ act.next \in Records /\ act.next.id \in Regs /\ act.seq \in 0 .. MaxSeq
         /\ saved = act.next /\ saved # None
         /\ act.step \in {"prepare", "sign"} => chain[act.next.id].state = "none"
BY Named DEF Inv, TypeOK, Copies, ActCurrent, Activations, Records

LEMMA RetainPicks ==
  ASSUME Inv, approve # None, approve.step = "sign"
  PROVE  LET a == CHOOSE x \in Unsigned(Allowances) : TRUE IN
         /\ a \in Allowances /\ chain[a].state = "none"
         /\ prepared \in Preparations /\ prepared.seq \in 1 .. MaxSeq /\ prepared.limit = saved.id
         /\ saved \in Records /\ saved.id \in Regs
<1>1. prepared # None /\ prepared.limit = saved.id /\ saved # None
  BY DEF Inv, Copies, ApproveCopies
<1>2. Unsigned(Allowances) # {}
  BY <1>1 DEF Inv, Copies, PreparedAhead
<1>3. (CHOOSE x \in Unsigned(Allowances) : TRUE) \in Unsigned(Allowances)
  BY <1>2
<1>4. prepared \in Preparations /\ saved \in Records
  BY <1>1 DEF Inv, TypeOK
<1>. QED
  BY <1>1, <1>3, <1>4 DEF Unsigned, Preparations, Records

\* What the ledger and the removals never undo.
Forward ==
  /\ \A t \in Tx :
       chain[t].state # "none" =>
         /\ chain'[t].state # "none"
         /\ chain'[t].seq = chain[t].seq /\ chain'[t].limit = chain[t].limit
         /\ chain[t].state = "landed" => chain'[t].state = "landed"
         /\ Out(t)' => Out(t)
  /\ ended \subseteq ended' /\ over \subseteq over' /\ dropped \subseteq dropped'

LEMMA OnlyForward ==
  ASSUME Inv, [Next]_vars
  PROVE  Forward
<1>. USE DEF Mark, Sign, ledger, store, page
<1>1. TypeOK
  BY DEF Inv
<1>2. /\ Tx = Regs \cup Allowances \cup Revokes /\ MaxSeq \in Nat
      /\ Regs \cap Allowances = {} /\ Regs \cap Revokes = {} /\ Allowances \cap Revokes = {}
      /\ None \notin Tx /\ None # "Active" /\ None # "Ended"
      /\ None \notin Records /\ None \notin Activations /\ None \notin Preparations
      /\ None \notin Approvals /\ None \notin Revocations
  BY Named
<1>3. Copies
  BY DEF Inv
<1>10. CASE UNCHANGED vars
  BY <1>10, <1>1, <1>2, <1>3 DEF vars, TypeOK, Forward, Out, Unsigned, Activations, Approvals
<1>11. ASSUME NEW m \in Regs, Activate(m) PROVE Forward
  BY <1>11, <1>1, <1>2, <1>3 DEF Activate, TypeOK, Forward, Out, Unsigned, Activations, Approvals
<1>12. CASE PrepareRegistration
  BY <1>12, <1>1, <1>2, <1>3 DEF PrepareRegistration, TypeOK, Forward, Out, Unsigned, Activations, Approvals
<1>13. CASE SignRegistration
  <2>1. UNCHANGED <<over, ended, dropped>>
    BY <1>13 DEF SignRegistration
  <2>2. CASE UNCHANGED chain
    BY <2>1, <2>2 DEF Forward, Out
  <2>3. CASE chain' # chain
    <3>1. PICK m \in Regs : chain[m].state = "none" /\ Sign(m, act.seq, m)
      BY <1>13, <2>3, SignPicks DEF SignRegistration
    <3>. QED
      BY <1>1, <1>2, <2>1, <3>1 DEF TypeOK, Forward, Out
  <2>. QED
    BY <2>2, <2>3
<1>14. CASE SendRegistration
  BY <1>14, <1>1, <1>2, <1>3 DEF SendRegistration, TypeOK, Forward, Out, Unsigned, Activations, Approvals
<1>15. CASE AwaitRegistration
  BY <1>15, <1>1, <1>2, <1>3 DEF AwaitRegistration, TypeOK, Forward, Out, Unsigned, Activations, Approvals
<1>16. CASE CheckRegistration
  BY <1>16, <1>1, <1>2, <1>3 DEF CheckRegistration, TypeOK, Forward, Out, Unsigned, Activations, Approvals
<1>17. CASE Refresh
  BY <1>17, <1>1, <1>2, <1>3 DEF Refresh, TypeOK, Forward, Out, Unsigned, Activations, Approvals
<1>18. CASE PrepareAllowance
  BY <1>18, <1>1, <1>2, <1>3 DEF PrepareAllowance, TypeOK, Forward, Out, Unsigned, Activations, Approvals
<1>19. CASE Approve
  BY <1>19, <1>1, <1>2, <1>3 DEF Approve, TypeOK, Forward, Out, Unsigned, Activations, Approvals
<1>20. CASE Retain
  <2>1. UNCHANGED <<over, ended, dropped>>
    BY <1>20 DEF Retain
  <2>2. CASE UNCHANGED chain
    BY <2>1, <2>2 DEF Forward, Out
  <2>3. CASE chain' # chain
    <3>1. PICK a \in Allowances : chain[a].state = "none" /\ Sign(a, prepared.seq, prepared.limit)
      BY <1>20, <2>3, RetainPicks DEF Retain
    <3>. QED
      BY <1>1, <1>2, <2>1, <3>1 DEF TypeOK, Forward, Out
  <2>. QED
    BY <2>2, <2>3
<1>21. CASE SendAllowance
  BY <1>21, <1>1, <1>2, <1>3 DEF SendAllowance, TypeOK, Forward, Out, Unsigned, Activations, Approvals
<1>22. CASE CheckAllowance
  BY <1>22, <1>1, <1>2, <1>3 DEF CheckAllowance, TypeOK, Forward, Out, Unsigned, Activations, Approvals
<1>23. CASE Revoke
  BY <1>23, <1>1, <1>2, <1>3 DEF Revoke, TypeOK, Forward, Out, Unsigned, Activations, Approvals
<1>24. CASE SendRevoke
  BY <1>24, <1>1, <1>2, <1>3 DEF SendRevoke, Off, LogOut, TypeOK, Forward, Out, Unsigned, Activations, Approvals
<1>25. CASE AwaitRevoke
  BY <1>25, <1>1, <1>2, <1>3 DEF AwaitRevoke, Off, LogOut, TypeOK, Forward, Out, Unsigned, Activations, Approvals
<1>26. CASE StartFresh
  BY <1>26, <1>1, <1>2, <1>3 DEF StartFresh, TypeOK, Forward, Out, Unsigned, Activations, Approvals
<1>27. CASE Disconnect
  BY <1>27, <1>1, <1>2, <1>3 DEF Disconnect, LogOut, TypeOK, Forward, Out, Unsigned, Activations, Approvals
<1>28. CASE Reload
  BY <1>28, <1>1, <1>2, <1>3 DEF Reload, TypeOK, Forward, Out, Unsigned, Activations, Approvals
<1>29. ASSUME NEW t \in Tx, Execute(t) PROVE Forward
  BY <1>29, <1>1, <1>2, <1>3 DEF Execute, TypeOK, Forward, Out, Unsigned, Activations, Approvals
<1>30. ASSUME NEW t \in Tx, Lapse(t) PROVE Forward
  BY <1>30, <1>1, <1>2, <1>3 DEF Lapse, TypeOK, Forward, Out, Unsigned, Activations, Approvals
<1>31. ASSUME NEW m \in Regs, Elapse(m) PROVE Forward
  BY <1>31, <1>1, <1>2, <1>3 DEF Elapse, TypeOK, Forward, Out, Unsigned, Activations, Approvals
<1>32. CASE OwnerMoves
  BY <1>32, <1>1, <1>2, <1>3 DEF OwnerMoves, TypeOK, Forward, Out, Unsigned, Activations, Approvals
<1>. QED
  BY <1>10, <1>11, <1>12, <1>13, <1>14, <1>15, <1>16, <1>17, <1>18, <1>19, <1>20, <1>21, <1>22, <1>23, <1>24, <1>25, <1>26, <1>27, <1>28, <1>29, <1>30, <1>31, <1>32 DEF Next, Registering, Allowing, Revoking, World

\* The fields of a record.
LEMMA Fields ==
  ASSUME NEW r \in Records
  PROVE  /\ r.id \in Regs /\ r.allowance \in Allowances \cup {None} /\ r.allowed \in Tx \cup {None}
         /\ r.revocation \in Revokes \cup {None} /\ r.attempts \in SUBSET Regs
         /\ r.pending \in BOOLEAN /\ r.registered \in BOOLEAN /\ r # None
BY Named DEF Records

\* The states of the page, and what may become of them.
LEMMA Typed ==
  ASSUME Inv
  PROVE  /\ saved # None => saved \in Records /\ ~(saved.pending /\ saved.registered)
         /\ \A r \in history : r \in Records /\ ~(r.pending /\ r.registered)
         /\ history \subseteq Records
         /\ act # None => act \in Activations /\ act.next \in Records /\ act.seq \in 0 .. MaxSeq
         /\ prepared # None => prepared \in Preparations /\ prepared.limit \in Regs
         /\ approve # None => approve \in Approvals /\ approve.record \in Records
         /\ revoke # None => revoke \in Revocations /\ revoke.record \in Records
         /\ act # None => act.step \in {"prepare", "sign", "send", "await"}
         /\ approve # None => approve.step \in {"sign", "send"}
         /\ revoke # None => revoke.step \in {"look", "await"}
         /\ known \in {"Active", "Ended", None} /\ dropped \subseteq Regs
         /\ over \subseteq Regs /\ ended \subseteq Regs /\ account \in 0 .. MaxSeq
<1>. USE DEF Inv, TypeOK
<1>1. act # None => act \in Activations
  OBVIOUS
<1>2. prepared # None => prepared \in Preparations
  OBVIOUS
<1>3. approve # None => approve \in Approvals
  OBVIOUS
<1>4. revoke # None => revoke \in Revocations
  OBVIOUS
<1>5. saved # None => saved \in Records
  OBVIOUS
<1>. QED
  BY <1>1, <1>2, <1>3, <1>4, <1>5 DEF Activations, Preparations, Approvals, Revocations

LEMMA Made ==
  /\ \A r \in Records :
       /\ [step |-> "prepare", next |-> r, seq |-> 0] \in Activations
       /\ [step |-> "send", next |-> r, seq |-> 0] \in Activations
       /\ [step |-> "sign", record |-> r] \in Approvals
       /\ [step |-> "send", record |-> r] \in Approvals
       /\ [step |-> "look", record |-> r] \in Revocations
       /\ [step |-> "await", record |-> r] \in Revocations
  /\ \A x \in Activations :
       /\ [x EXCEPT !.step = "await"] \in Activations
       /\ [x EXCEPT !.step = "await"].step = "await" /\ [x EXCEPT !.step = "await"].next = x.next
       /\ \A n \in 0 .. MaxSeq :
            /\ [x EXCEPT !.step = "sign", !.seq = n] \in Activations
            /\ [x EXCEPT !.step = "sign", !.seq = n].step = "sign"
            /\ [x EXCEPT !.step = "sign", !.seq = n].next = x.next
  /\ \A x \in Revocations :
       /\ [x EXCEPT !.step = "await"] \in Revocations
       /\ [x EXCEPT !.step = "await"].step = "await" /\ [x EXCEPT !.step = "await"].record = x.record
  /\ \A n \in 1 .. MaxSeq, m \in Regs : [seq |-> n, limit |-> m] \in Preparations
<1>1. \A r \in Records :
        /\ [step |-> "prepare", next |-> r, seq |-> 0] \in Activations
        /\ [step |-> "send", next |-> r, seq |-> 0] \in Activations
        /\ [step |-> "sign", record |-> r] \in Approvals
        /\ [step |-> "send", record |-> r] \in Approvals
        /\ [step |-> "look", record |-> r] \in Revocations
        /\ [step |-> "await", record |-> r] \in Revocations
  BY Named DEF Activations, Approvals, Revocations
<1>2. \A x \in Activations :
        /\ [x EXCEPT !.step = "await"] \in Activations
        /\ [x EXCEPT !.step = "await"].step = "await" /\ [x EXCEPT !.step = "await"].next = x.next
        /\ \A n \in 0 .. MaxSeq :
             /\ [x EXCEPT !.step = "sign", !.seq = n] \in Activations
             /\ [x EXCEPT !.step = "sign", !.seq = n].step = "sign"
             /\ [x EXCEPT !.step = "sign", !.seq = n].next = x.next
  BY DEF Activations
<1>3. \A x \in Revocations :
        /\ [x EXCEPT !.step = "await"] \in Revocations
        /\ [x EXCEPT !.step = "await"].step = "await" /\ [x EXCEPT !.step = "await"].record = x.record
  BY DEF Revocations
<1>4. \A n \in 1 .. MaxSeq, m \in Regs : [seq |-> n, limit |-> m] \in Preparations
  BY DEF Preparations
<1>. QED
  BY <1>1, <1>2, <1>3, <1>4

\* A rewritten record differs in the fields it names.
LEMMA AllowanceNoted ==
  ASSUME NEW r \in Records, NEW a \in Allowances \cup {None}
  PROVE  LET k == [r EXCEPT !.allowance = a] IN
         /\ k \in Records /\ k.id = r.id /\ k.pending = r.pending /\ k.registered = r.registered
         /\ k.allowance = a /\ k.allowed = r.allowed /\ k.revocation = r.revocation
BY DEF Records

LEMMA AllowanceSettled ==
  ASSUME NEW r \in Records, NEW t \in Tx
  PROVE  LET k == [r EXCEPT !.allowed = t, !.allowance = None] IN
         /\ k \in Records /\ k.id = r.id /\ k.pending = r.pending /\ k.registered = r.registered
         /\ k.allowance = None /\ k.allowed = t /\ k.revocation = r.revocation
BY DEF Records

LEMMA RevocationNoted ==
  ASSUME NEW r \in Records, NEW v \in Revokes \cup {None}
  PROVE  LET k == [r EXCEPT !.revocation = v] IN
         /\ k \in Records /\ k.id = r.id /\ k.pending = r.pending /\ k.registered = r.registered
         /\ k.allowance = r.allowance /\ k.allowed = r.allowed /\ k.revocation = v
BY DEF Records

LEMMA PendingNoted ==
  ASSUME NEW r \in Records
  PROVE  LET k == [r EXCEPT !.state = "pending", !.pending = TRUE] IN
         /\ k \in Records /\ k.id = r.id /\ k.pending /\ k.registered = r.registered
         /\ k.allowance = r.allowance /\ k.allowed = r.allowed /\ k.revocation = r.revocation
BY DEF Records

LEMMA FailureNoted ==
  ASSUME NEW r \in Records
  PROVE  LET k == [r EXCEPT !.state = "failed", !.pending = FALSE, !.attempts = @ \cup {r.id}] IN
         /\ k \in Records /\ k.id = r.id /\ ~k.pending /\ k.registered = r.registered
         /\ k.allowance = r.allowance /\ k.allowed = r.allowed /\ k.revocation = r.revocation
BY DEF Records

LEMMA ConfirmationNoted ==
  ASSUME NEW r \in Records
  PROVE  LET k == Confirmed(r) IN
         /\ k \in Records /\ k.id = r.id /\ ~k.pending /\ k.registered
         /\ k.allowance = r.allowance /\ k.revocation = r.revocation
         /\ k.allowed = IF combined THEN r.id ELSE r.allowed
<1>1. \A as \in SUBSET Regs, t \in Tx \cup {None} :
        LET k == [r EXCEPT !.registered = TRUE, !.pending = FALSE, !.attempts = as, !.allowed = t] IN
        /\ k \in Records /\ k.id = r.id /\ ~k.pending /\ k.registered
        /\ k.allowance = r.allowance /\ k.revocation = r.revocation /\ k.allowed = t
  BY DEF Records
<1>2. /\ r.id \in Regs /\ r.attempts \cup {r.id} \in SUBSET Regs
      /\ r.allowed \in Tx \cup {None} /\ r.id \in Tx \cup {None}
  BY Named DEF Records
<1>3. CASE combined
  BY <1>1, <1>2, <1>3 DEF Confirmed
<1>4. CASE ~combined
  BY <1>1, <1>2, <1>4 DEF Confirmed
<1>. QED
  BY <1>3, <1>4

\* A record that has replaced nothing says nothing.
LEMMA Blank ==
  ASSUME NEW m \in Regs, NEW S \in SUBSET Regs
  PROVE  LET r == [Empty(m) EXCEPT !.attempts = S] IN
         /\ r \in Records /\ r # None /\ r.id = m /\ ~r.pending /\ ~r.registered
         /\ r.allowance = None /\ r.allowed = None /\ r.revocation = None
BY Named DEF Empty, Records

\* The parts of the type invariant.
TypedLedger ==
  /\ account \in 0 .. MaxSeq
  /\ chain \in [Tx -> [state : {"none", "signed", "sent", "landed", "failed", "expired"},
                       seq : 0 .. MaxSeq, limit : Regs \cup {None}]]
  /\ over \subseteq Regs /\ ended \subseteq Regs

TypedStore ==
  /\ \A r \in history \cup ({saved} \ {None}) : ~(r.pending /\ r.registered)
  /\ saved \in Records \cup {None} /\ history \subseteq Records /\ dropped \subseteq Regs

TypedPage ==
  /\ act \in Activations \cup {None} /\ prepared \in Preparations \cup {None}
  /\ approve \in Approvals \cup {None} /\ revoke \in Revocations \cup {None}
  /\ known \in {"Active", "Ended", None}

LEMMA LedgerTyped ==
  ASSUME Inv, [Next]_vars
  PROVE  TypedLedger'
<1>. USE DEF Mark, Sign, ledger, store, page
<1>1. TypedLedger /\ TypedStore /\ TypedPage
  BY DEF Inv, TypeOK, TypedLedger, TypedStore, TypedPage
<1>2. /\ Tx = Regs \cup Allowances \cup Revokes /\ MaxSeq \in Nat
      /\ Regs \cap Allowances = {} /\ Regs \cap Revokes = {} /\ Allowances \cap Revokes = {}
      /\ None \notin Tx /\ None # "Active" /\ None # "Ended"
      /\ None \notin Records /\ None \notin Activations /\ None \notin Preparations
      /\ None \notin Approvals /\ None \notin Revocations
  BY Named
<1>10. CASE UNCHANGED vars
  BY <1>10, <1>1, <1>2 DEF vars, TypedLedger, Unsigned
<1>11. ASSUME NEW m \in Regs, Activate(m) PROVE TypedLedger'
  BY <1>11, <1>1, <1>2 DEF Activate, TypedLedger, Unsigned
<1>12. CASE PrepareRegistration
  BY <1>12, <1>1, <1>2 DEF PrepareRegistration, TypedLedger, Unsigned
<1>13. CASE SignRegistration
  <2>1. UNCHANGED <<account, over, ended>>
    BY <1>13 DEF SignRegistration
  <2>2. act.next.id \in Regs /\ act.seq \in 0 .. MaxSeq
    BY <1>13, SignPicks DEF SignRegistration
  <2>3. UNCHANGED chain \/ Sign(act.next.id, act.seq, act.next.id)
    BY <1>13 DEF SignRegistration
  <2>. QED
    BY <1>1, <1>2, <2>1, <2>2, <2>3 DEF TypedLedger
<1>14. CASE SendRegistration
  BY <1>14, <1>1, <1>2 DEF SendRegistration, TypedLedger, Unsigned
<1>15. CASE AwaitRegistration
  BY <1>15, <1>1, <1>2 DEF AwaitRegistration, TypedLedger, Unsigned
<1>16. CASE CheckRegistration
  BY <1>16, <1>1, <1>2 DEF CheckRegistration, TypedLedger, Unsigned
<1>17. CASE Refresh
  BY <1>17, <1>1, <1>2 DEF Refresh, TypedLedger, Unsigned
<1>18. CASE PrepareAllowance
  BY <1>18, <1>1, <1>2 DEF PrepareAllowance, TypedLedger, Unsigned
<1>19. CASE Approve
  BY <1>19, <1>1, <1>2 DEF Approve, TypedLedger, Unsigned
<1>20. CASE Retain
  <2>1. UNCHANGED <<account, over, ended>>
    BY <1>20 DEF Retain
  <2>2. CASE UNCHANGED chain
    BY <1>1, <2>1, <2>2 DEF TypedLedger
  <2>3. CASE chain' # chain
    <3>1. PICK a \in Allowances : Sign(a, prepared.seq, prepared.limit)
      BY <1>20, <2>3, RetainPicks DEF Retain
    <3>2. prepared.seq \in 1 .. MaxSeq /\ prepared.limit \in Regs
      BY <1>20, RetainPicks DEF Retain
    <3>. QED
      BY <1>1, <1>2, <2>1, <3>1, <3>2 DEF TypedLedger
  <2>. QED
    BY <2>2, <2>3
<1>21. CASE SendAllowance
  BY <1>21, <1>1, <1>2 DEF SendAllowance, TypedLedger, Unsigned
<1>22. CASE CheckAllowance
  BY <1>22, <1>1, <1>2 DEF CheckAllowance, TypedLedger, Unsigned
<1>23. CASE Revoke
  BY <1>23, <1>1, <1>2 DEF Revoke, TypedLedger, Unsigned
<1>24. CASE SendRevoke
  <2>1. UNCHANGED <<account, over, ended>>
    BY <1>24 DEF SendRevoke
  <2>2. revoke # None /\ revoke.record.id \in Regs
    BY <1>24, Typed, Fields DEF SendRevoke
  <2>3. \/ UNCHANGED chain
        \/ \E v \in Revokes :
             chain' = [chain EXCEPT ![v] = [state |-> "sent", seq |-> 0, limit |-> revoke.record.id]]
    BY <1>24 DEF SendRevoke, Unsigned
  <2>4. CASE UNCHANGED chain
    BY <1>1, <2>1, <2>4 DEF TypedLedger
  <2>5. ASSUME NEW v \in Revokes,
               chain' = [chain EXCEPT ![v] = [state |-> "sent", seq |-> 0, limit |-> revoke.record.id]]
        PROVE  TypedLedger'
    BY <1>1, <1>2, <2>1, <2>2, <2>5 DEF TypedLedger
  <2>. QED
    BY <2>3, <2>4, <2>5
<1>25. CASE AwaitRevoke
  BY <1>25, <1>1, <1>2 DEF AwaitRevoke, Off, LogOut, TypedLedger, Unsigned
<1>26. CASE StartFresh
  BY <1>26, <1>1, <1>2 DEF StartFresh, TypedLedger, Unsigned
<1>27. CASE Disconnect
  BY <1>27, <1>1, <1>2 DEF Disconnect, LogOut, TypedLedger, Unsigned
<1>28. CASE Reload
  BY <1>28, <1>1, <1>2 DEF Reload, TypedLedger, Unsigned
<1>29. ASSUME NEW t \in Tx, Execute(t) PROVE TypedLedger'
  <2>1. account' \in 0 .. MaxSeq
    BY <1>29, <1>1, <1>2 DEF Execute, TypedLedger
  <2>2. chain[t].limit \in Regs
    BY <1>29 DEF Execute, Inv, Covered
  <2>. QED
    BY <1>29, <1>1, <1>2, <2>1, <2>2 DEF Execute, TypedLedger
<1>30. ASSUME NEW t \in Tx, Lapse(t) PROVE TypedLedger'
  BY <1>30, <1>1, <1>2 DEF Lapse, TypedLedger, Unsigned
<1>31. ASSUME NEW m \in Regs, Elapse(m) PROVE TypedLedger'
  BY <1>31, <1>1, <1>2 DEF Elapse, TypedLedger, Unsigned
<1>32. CASE OwnerMoves
  BY <1>32, <1>1, <1>2 DEF OwnerMoves, TypedLedger, Unsigned
<1>. QED
  BY <1>10, <1>11, <1>12, <1>13, <1>14, <1>15, <1>16, <1>17, <1>18, <1>19, <1>20, <1>21, <1>22, <1>23, <1>24, <1>25, <1>26, <1>27, <1>28, <1>29, <1>30, <1>31, <1>32 DEF Next, Registering, Allowing, Revoking, World

LEMMA SoundKept ==
  ASSUME Inv, Forward, NEW r \in Records, Sound(r, chain)
  PROVE  Sound(r, chain')
BY Named, Fields DEF Sound, Forward

-----------------------------------------------------------------------------
(* The current record and the allowances on it.                            *)

\* No step but a signature makes a registration live.
LEMMA LiveKept ==
  ASSUME Inv, Forward, NEW m \in Regs, chain[m].state # "none", Live(m)'
  PROVE  Live(m)
<1>1. m \in Tx
  BY Named
<1>2. Out(m)' => Out(m)
  BY <1>1 DEF Forward
<1>3. chain[m].state = "landed" => chain'[m].state = "landed"
  BY <1>1 DEF Forward
<1>4. over \subseteq over' /\ ended \subseteq ended'
  BY DEF Forward
<1>. QED
  BY <1>2, <1>3, <1>4 DEF Live, Active, Out

\* Covered, said of the limits.
CoveredNext ==
  /\ \A t \in Tx : chain'[t].state # "none" => chain'[t].limit \in Regs
  /\ \A a \in Allowances, m \in Regs : m = chain'[a].limit /\ chain'[a].state # "none" =>
       /\ chain'[m].state = "landed" /\ chain'[a].seq > chain'[m].seq
       /\ Out(a)' /\ ~Revoked(m)' =>
            /\ saved' # None /\ saved'.id = m => a \in {saved'.allowance, saved'.allowed}
            /\ m \notin dropped' => \E r \in Naming(m)' : a \in {r.allowance, r.allowed}
  /\ \A a, b \in Allowances, m \in Regs :
       a # b /\ m = chain'[a].limit /\ m = chain'[b].limit /\ ~Revoked(m)' /\ Out(a)' => ~Out(b)'

LEMMA CoveredBy ==
  ASSUME CoveredNext
  PROVE  Covered'
<1>1. \A a \in Allowances : a \in Tx
  BY Named
<1>2. \A a \in Allowances : chain'[a].state # "none" => chain'[a].limit \in Regs
  BY <1>1 DEF CoveredNext
<1>3. ASSUME NEW a \in Allowances, chain'[a].state # "none"
      PROVE (LET m == chain[a].limit IN
         /\ chain[m].state = "landed" /\ chain[a].seq > chain[m].seq
         /\ Out(a) /\ ~Revoked(m) =>
              /\ saved # None /\ saved.id = m => a \in {saved.allowance, saved.allowed}
              /\ m \notin dropped => \E r \in Naming(m) : a \in {r.allowance, r.allowed})'
  <2>1. PICK m \in Regs : m = chain'[a].limit
    BY <1>2, <1>3
  <2>. QED
    BY <2>1, <1>3 DEF CoveredNext, Out, Revoked, Naming
<1>4. ASSUME NEW a \in Allowances, NEW b \in Allowances, a # b, chain'[a].limit = chain'[b].limit,
             Out(a)', Out(b)', (~Revoked(chain[a].limit))'
      PROVE  FALSE
  <2>1. PICK m \in Regs : m = chain'[a].limit
    BY <1>2, <1>4 DEF Out
  <2>. QED
    BY <2>1, <1>4 DEF CoveredNext, Out, Revoked
<1>. QED
  BY <1>3, <1>4 DEF CoveredNext, Covered, Out, Revoked, Naming

\* A step that signs nothing and keeps the record, or replaces it by one that
\* knows as much.
LEMMA RecordKept ==
  ASSUME Inv, Forward,
         \A t \in Regs \cup Allowances : chain[t].state = "none" => chain'[t].state = "none",
         \A t \in Revokes : chain'[t].state # "none" => chain'[t].limit \in Regs,
         history' = history, dropped' = dropped,
         saved = None => saved' = None,
         saved # None =>
           /\ saved' # None /\ saved'.id = saved.id
           /\ chain'[saved.id].state \in {"signed", "sent", "landed"} /\ (saved.pending \/ saved.registered)
                => saved'.pending \/ saved'.registered
           /\ \A a \in Allowances :
                /\ chain'[a].state \in {"signed", "sent", "landed"}
                /\ chain[a].limit = saved.id
                /\ \A v \in Revokes : chain'[v].limit = saved.id => chain'[v].state = "none"
                /\ a \in {saved.allowance, saved.allowed}
                => a \in {saved'.allowance, saved'.allowed}
  PROVE  Current' /\ Covered'
<1>1. \A m \in Regs : Live(m)' => Live(m)
  <2>1. \A m \in Regs : Live(m)' => chain'[m].state # "none"
    BY DEF Live, Active
  <2>. QED
    BY <2>1, LiveKept
<1>2. \A t \in Regs \cup Allowances : Out(t)' => Out(t)
  <2>1. \A t \in Regs \cup Allowances : t \in Tx /\ (Out(t)' => chain'[t].state # "none")
    BY Named DEF Out
  <2>. QED
    BY <2>1 DEF Forward
<1>3. \A m \in Regs : Revoked(m) => Revoked(m)'
  BY Named DEF Revoked, Forward
<1>4. \A m \in Regs : Out(m)' /\ Naming(m) # {} => Naming(m)' # {}
  BY DEF Naming, Out
<1>5. Current'
  <2>. SUFFICES ASSUME NEW m \in Regs, m \notin dropped
                PROVE  /\ Live(m)' => saved' # None /\ saved'.id = m /\ (saved'.pending \/ saved'.registered)
                       /\ Out(m)' => Naming(m)' # {}
    BY DEF Current
  <2>1. Out(m)' => Naming(m)' # {}
    BY <1>2, <1>4 DEF Inv, Current
  <2>2. ASSUME Live(m)'
        PROVE  saved' # None /\ saved'.id = m /\ (saved'.pending \/ saved'.registered)
    <3>1. saved # None /\ saved.id = m /\ (saved.pending \/ saved.registered)
      BY <1>1, <2>2 DEF Inv, Current
    <3>2. chain'[m].state \in {"signed", "sent", "landed"}
      BY <2>2 DEF Live, Active
    <3>. QED
      BY <3>1, <3>2
  <2>. QED
    BY <2>1, <2>2
<1>6. \A a \in Allowances :
        chain'[a].state # "none" =>
          chain[a].state # "none" /\ chain'[a].limit = chain[a].limit /\ chain'[a].seq = chain[a].seq
  BY Named DEF Forward
<1>7. \A t \in Tx : chain'[t].state # "none" => chain'[t].limit \in Regs
  <2>1. \A t \in Regs \cup Allowances : chain'[t].state # "none" =>
          t \in Tx /\ chain[t].state # "none" /\ chain'[t].limit = chain[t].limit
    BY Named DEF Forward
  <2>. QED
    BY <2>1, Named DEF Inv, Covered
<1>8. \A m \in Regs : chain[m].state = "landed" => chain'[m].state = "landed" /\ chain'[m].seq = chain[m].seq
  BY Named DEF Forward
<1>9. ASSUME NEW a \in Allowances, NEW m \in Regs, m = chain[a].limit, chain'[a].state # "none"
      PROVE  /\ chain'[m].state = "landed" /\ chain'[a].seq > chain'[m].seq
             /\ Out(a)' /\ ~Revoked(m)' =>
                  /\ saved' # None /\ saved'.id = m => a \in {saved'.allowance, saved'.allowed}
                  /\ m \notin dropped => \E r \in Naming(m)' : a \in {r.allowance, r.allowed}
  <2>1. chain[a].state # "none" /\ chain'[a].seq = chain[a].seq
    BY <1>6, <1>9
  <2>2. chain[m].state = "landed" /\ chain[a].seq > chain[m].seq
    BY <2>1, <1>9 DEF Inv, Covered
  <2>3. ASSUME Out(a)', ~Revoked(m)'
        PROVE  /\ saved' # None /\ saved'.id = m => a \in {saved'.allowance, saved'.allowed}
               /\ m \notin dropped => \E r \in Naming(m)' : a \in {r.allowance, r.allowed}
    <3>1. Out(a) /\ ~Revoked(m) /\ chain'[a].state \in {"signed", "sent", "landed"}
      BY <2>3, <1>2, <1>3 DEF Out
    <3>2. saved # None /\ saved.id = m => a \in {saved.allowance, saved.allowed}
      BY <3>1, <2>1, <1>9 DEF Inv, Covered
    <3>3. m \notin dropped => \E r \in Naming(m) : a \in {r.allowance, r.allowed}
      BY <3>1, <2>1, <1>9 DEF Inv, Covered
    <3>4. saved # None /\ saved.id = m => a \in {saved'.allowance, saved'.allowed}
      <4>1. \A v \in Revokes : chain'[v].limit = m => chain'[v].state = "none"
        BY <2>3 DEF Revoked
      <4>. QED
        BY <3>1, <3>2, <4>1, <1>9
    <3>5. ASSUME NEW r \in Naming(m), a \in {r.allowance, r.allowed}
          PROVE  \E x \in Naming(m)' : a \in {x.allowance, x.allowed}
      <4>1. CASE r \in history
        BY <3>5, <4>1 DEF Naming
      <4>2. CASE r = saved /\ saved # None
        <5>1. saved' # None /\ saved'.id = m /\ (saved'.pending \/ saved'.registered)
          BY <3>5, <4>2, <2>2, <1>8 DEF Naming
        <5>. QED
          BY <5>1, <3>5, <4>2, <3>4 DEF Naming
      <4>. QED
        BY <3>5, <4>1, <4>2 DEF Naming
    <3>. QED
      BY <3>3, <3>4, <3>5
  <2>. QED
    BY <2>1, <2>2, <2>3, <1>8
<1>10. \A a \in Allowances : chain[a].state # "none" => chain[a].limit \in Regs
  BY Named DEF Inv, Covered
<1>11. ASSUME NEW a \in Allowances, NEW b \in Allowances, NEW m \in Regs,
              a # b, chain'[a].limit = m, chain'[b].limit = m, ~Revoked(m)', Out(a)', Out(b)'
       PROVE  FALSE
  <2>1. chain[a].limit = m /\ chain[b].limit = m
    BY <1>11, <1>6 DEF Out
  <2>2. Out(a) /\ Out(b) /\ ~Revoked(m)
    BY <1>11, <1>2, <1>3 DEF Out
  <2>3. m # None
    BY Named
  <2>. QED
    BY <2>1, <2>2, <2>3, <1>11 DEF Inv, Covered
<1>. QED
  <2>1. CoveredNext
    <3>1. \A a \in Allowances, m \in Regs : m = chain'[a].limit /\ chain'[a].state # "none" =>
            m = chain[a].limit
      BY <1>6
    <3>2. \A a \in Allowances, m \in Regs : m = chain'[a].limit /\ chain'[a].state # "none" =>
            /\ chain'[m].state = "landed" /\ chain'[a].seq > chain'[m].seq
            /\ Out(a)' /\ ~Revoked(m)' =>
                 /\ saved' # None /\ saved'.id = m => a \in {saved'.allowance, saved'.allowed}
                 /\ m \notin dropped' => \E r \in Naming(m)' : a \in {r.allowance, r.allowed}
      BY <3>1, <1>9
    <3>3. \A a, b \in Allowances, m \in Regs :
            a # b /\ m = chain'[a].limit /\ m = chain'[b].limit /\ ~Revoked(m)' /\ Out(a)' => ~Out(b)'
      BY <1>11
    <3>. QED
      BY <1>7, <3>2, <3>3 DEF CoveredNext
  <2>. QED
    BY <1>5, <2>1, CoveredBy

\* A step of the storage alone that keeps the records that matter.
LEMMA StorageKept ==
  ASSUME Inv, UNCHANGED <<chain, over, ended>>, dropped \subseteq dropped',
         \A m \in Regs \ dropped' :
           Live(m) => saved' # None /\ saved'.id = m /\ (saved'.pending \/ saved'.registered),
         \A m \in Regs \ dropped' : \A r \in Naming(m) : r \in history' \cup ({saved'} \ {None}),
         saved' # None => chain[saved'.id].state # "landed"
  PROVE  Current' /\ Covered'
<1>1. \A m \in Regs : (Live(m)' <=> Live(m)) /\ (Out(m)' <=> Out(m)) /\ (Revoked(m)' <=> Revoked(m))
  BY DEF Live, Active, Out, Revoked
<1>2. \A m \in Regs \ dropped' : Naming(m) \subseteq Naming(m)'
  BY DEF Naming
<1>3. Current'
  <2>1. \A m \in Regs \ dropped' : Live(m)' =>
          saved' # None /\ saved'.id = m /\ (saved'.pending \/ saved'.registered)
    BY <1>1
  <2>2. \A m \in Regs \ dropped' : Out(m) => Naming(m) # {}
    BY DEF Inv, Current
  <2>3. \A m \in Regs \ dropped' : Out(m)' => Naming(m)' # {}
    BY <2>2, <1>1, <1>2
  <2>. QED
    BY <2>1, <2>3 DEF Current
<1>4. \A a \in Allowances : Out(a)' <=> Out(a)
  BY DEF Out
<1>5. CoveredNext
  <2>1. \A t \in Tx : chain'[t].state # "none" => chain'[t].limit \in Regs
    BY DEF Inv, Covered
  <2>2. ASSUME NEW a \in Allowances, NEW m \in Regs, m = chain'[a].limit, chain'[a].state # "none"
        PROVE  /\ chain'[m].state = "landed" /\ chain'[a].seq > chain'[m].seq
               /\ Out(a)' /\ ~Revoked(m)' =>
                    /\ saved' # None /\ saved'.id = m => a \in {saved'.allowance, saved'.allowed}
                    /\ m \notin dropped' => \E r \in Naming(m)' : a \in {r.allowance, r.allowed}
    <3>1. chain[m].state = "landed" /\ chain[a].seq > chain[m].seq
      BY <2>2 DEF Inv, Covered
    <3>2. Out(a) /\ ~Revoked(m) /\ m \notin dropped => \E r \in Naming(m) : a \in {r.allowance, r.allowed}
      BY <2>2 DEF Inv, Covered
    <3>3. Out(a)' /\ ~Revoked(m)' /\ m \notin dropped' => \E r \in Naming(m)' : a \in {r.allowance, r.allowed}
      BY <3>2, <1>1, <1>2, <1>4
    <3>. QED
      BY <3>1, <3>3
  <2>3. ASSUME NEW a \in Allowances, NEW b \in Allowances, NEW m \in Regs,
               a # b, m = chain'[a].limit, m = chain'[b].limit, ~Revoked(m)', Out(a)', Out(b)'
        PROVE  FALSE
    <3>1. Out(a) /\ Out(b) /\ ~Revoked(m) /\ m # None
      BY <2>3, <1>1, <1>4, Named
    <3>. QED
      BY <3>1, <2>3 DEF Inv, Covered
  <2>. QED
    BY <2>1, <2>2, <2>3 DEF CoveredNext
<1>. QED
  BY <1>3, <1>5, CoveredBy

LEMMA LogOutCovers ==
  ASSUME Inv, UNCHANGED <<chain, over, ended, history>>, LogOut
  PROVE  Current' /\ Covered'
<1>1. dropped \subseteq dropped' /\ saved' = None
  BY DEF LogOut
<1>2. \A m \in Regs \ dropped' : saved # None => saved.id # m
  BY DEF LogOut
<1>3. \A m \in Regs \ dropped' : ~Live(m)
  BY <1>1, <1>2 DEF Inv, Current
<1>4. \A m \in Regs \ dropped' : \A r \in Naming(m) : r \in history
  BY <1>2 DEF Naming
<1>. QED
  BY <1>1, <1>3, <1>4, StorageKept

LEMMA StartFreshCovers ==
  ASSUME Inv, StartFresh
  PROVE  Current' /\ Covered'
<1>1. /\ saved # None /\ ~saved.pending /\ (saved.id \in over \/ known = "Ended")
      /\ history' = {r \in history : r.id # saved.id} \cup {saved}
      /\ saved' = None /\ UNCHANGED <<chain, over, ended, dropped>>
  BY DEF StartFresh, NeedsReconciliation, ledger
<1>2. saved.id \in over \cup ended
  BY <1>1, Named DEF Inv, Copies, KnownIsSo
<1>3. saved.registered => chain[saved.id].state = "landed"
  BY <1>1 DEF Inv, Copies, SavedSound, Sound
<1>4. \A m \in Regs \ dropped : ~Live(m)
  BY <1>1, <1>2, <1>3 DEF Inv, Current, Live, Active
<1>5. history \subseteq history'
  BY <1>1 DEF Inv, Copies, SavedSound
<1>6. \A m \in Regs \ dropped : \A r \in Naming(m) : r \in history'
  BY <1>1, <1>5 DEF Naming
<1>. QED
  BY <1>1, <1>4, <1>6, StorageKept

LEMMA ActivateCovers ==
  ASSUME Inv, NEW m \in Regs, Activate(m)
  PROVE  Current' /\ Covered'
<1>1. /\ UNCHANGED <<chain, over, ended, history, dropped>>
      /\ saved # None => ~saved.pending /\ ~saved.registered
      /\ chain[m].state = "none"
  BY DEF Activate, NeedsReconciliation, Unsigned, ledger
<1>2. saved' # None /\ saved'.id = m
  <2>1. (IF saved = None THEN {} ELSE saved.attempts) \in SUBSET Regs
    BY Typed, Fields
  <2>. QED
    BY <2>1, Blank DEF Activate
<1>3. \A x \in Regs \ dropped : ~Live(x)
  BY <1>1 DEF Inv, Current
<1>4. \A x \in Regs \ dropped : \A r \in Naming(x) : r \in history
  BY <1>1 DEF Naming
<1>. QED
  BY <1>1, <1>2, <1>3, <1>4, StorageKept

LEMMA SignRegistrationCovers ==
  ASSUME Inv, SignRegistration, Forward, chain' # chain
  PROVE  Current' /\ Covered'
<1>1. PICK m \in Regs : /\ chain[m].state = "none" /\ Sign(m, act.seq, m) /\ m = saved.id
                        /\ saved # None /\ saved = act.next /\ m = act.next.id
                        /\ saved' = [act.next EXCEPT !.state = "pending", !.pending = TRUE]
  BY SignPicks DEF SignRegistration
<1>2. /\ saved' # None /\ saved'.id = m /\ saved'.pending
      /\ saved'.allowance = saved.allowance /\ saved'.allowed = saved.allowed
  <2>1. PICK r \in Records : r = saved /\ r = act.next
    BY <1>1, Typed
  <2>2. saved' = [r EXCEPT !.state = "pending", !.pending = TRUE]
    BY <1>1, <2>1
  <2>3. LET k == [r EXCEPT !.state = "pending", !.pending = TRUE] IN
          /\ k \in Records /\ k.id = r.id /\ k.pending /\ k.registered = r.registered
          /\ k.allowance = r.allowance /\ k.allowed = r.allowed /\ k.revocation = r.revocation
    BY PendingNoted
  <2>. QED
    BY <1>1, <2>1, <2>2, <2>3, Named
<1>3. UNCHANGED <<over, ended, history, dropped>>
  BY DEF SignRegistration
<1>4. \A t \in Tx : t # m => chain'[t] = chain[t]
  BY <1>1 DEF Sign, Inv, TypeOK
<1>5. chain'[m] = [state |-> "signed", seq |-> act.seq, limit |-> m]
  BY <1>1, Named DEF Sign, Inv, TypeOK
<1>6. \A x \in Regs \ dropped : x # m => ~Live(x)
  BY <1>1 DEF Inv, Current
<1>7. \A x \in Regs \ dropped : x # m => Naming(x) \subseteq Naming(x)'
  BY <1>1, <1>3 DEF Naming
<1>8. Naming(m)' # {}
  BY <1>2 DEF Naming
<1>9. Current'
  <2>. SUFFICES ASSUME NEW x \in Regs, x \notin dropped
                PROVE  /\ Live(x)' => saved' # None /\ saved'.id = x /\ (saved'.pending \/ saved'.registered)
                       /\ Out(x)' => Naming(x)' # {}
    BY <1>3 DEF Current
  <2>1. CASE x = m
    BY <2>1, <1>2, <1>8
  <2>2. CASE x # m
    <3>1. chain'[x] = chain[x]
      BY <2>2, <1>4, Named
    <3>2. (Live(x)' => Live(x)) /\ (Out(x)' => Out(x))
      BY <3>1, <1>3 DEF Live, Active, Out
    <3>3. Out(x) => Naming(x) # {}
      BY DEF Inv, Current
    <3>. QED
      BY <2>2, <3>2, <3>3, <1>6, <1>7
  <2>. QED
    BY <2>1, <2>2
<1>10. CoveredNext
  <2>1. \A a \in Allowances : a \in Tx /\ chain'[a] = chain[a] /\ (Out(a)' <=> Out(a))
    BY <1>1, <1>4, Named DEF Out
  <2>2. \A x \in Regs : Revoked(x)' <=> Revoked(x)
    <3>1. \A v \in Revokes : chain'[v] = chain[v]
      BY <1>1, <1>4, Named
    <3>. QED
      BY <3>1 DEF Revoked
  <2>3. \A t \in Tx : chain'[t].state # "none" => chain'[t].limit \in Regs
    BY <1>4, <1>5 DEF Inv, Covered
  <2>4. ASSUME NEW a \in Allowances, NEW x \in Regs, x = chain'[a].limit, chain'[a].state # "none"
        PROVE  /\ chain'[x].state = "landed" /\ chain'[a].seq > chain'[x].seq
               /\ Out(a)' /\ ~Revoked(x)' =>
                    /\ saved' # None /\ saved'.id = x => a \in {saved'.allowance, saved'.allowed}
                    /\ x \notin dropped' => \E r \in Naming(x)' : a \in {r.allowance, r.allowed}
    <3>1. /\ chain[x].state = "landed" /\ chain[a].seq > chain[x].seq
          /\ Out(a) /\ ~Revoked(x) /\ x \notin dropped => \E r \in Naming(x) : a \in {r.allowance, r.allowed}
      BY <2>1, <2>4 DEF Inv, Covered
    <3>2. x # m /\ chain'[x] = chain[x]
      BY <3>1, <1>1, <1>4, Named
    <3>. QED
      BY <3>1, <3>2, <2>1, <2>2, <2>4, <1>2, <1>3, <1>7
  <2>5. ASSUME NEW a \in Allowances, NEW b \in Allowances, NEW x \in Regs,
               a # b, x = chain'[a].limit, x = chain'[b].limit, ~Revoked(x)', Out(a)', Out(b)'
        PROVE  FALSE
    <3>1. Out(a) /\ Out(b) /\ ~Revoked(x) /\ x # None /\ x = chain[a].limit /\ x = chain[b].limit
      BY <2>1, <2>2, <2>5, Named
    <3>. QED
      BY <3>1, <2>5 DEF Inv, Covered
  <2>. QED
    BY <2>3, <2>4, <2>5 DEF CoveredNext
<1>. QED
  BY <1>9, <1>10, CoveredBy

LEMMA RetainCovers ==
  ASSUME Inv, Retain, Forward, chain' # chain
  PROVE  Current' /\ Covered'
<1>1. PICK a \in Allowances, n \in Observed :
        /\ chain[a].state = "none" /\ Sign(a, prepared.seq, prepared.limit)
        /\ prepared.seq = SelectSequence(n, approve.record.id) + 1
        /\ saved' = [approve.record EXCEPT !.allowance = a]
  BY RetainPicks DEF Retain
<1>2. /\ approve # None /\ approve.step = "sign" /\ prepared.limit = saved.id /\ saved.id \in Regs
      /\ saved # None /\ approve.record \in Records /\ saved.registered
  BY RetainPicks, Typed DEF Retain, Inv, Copies, ApproveCopies
<1>3. /\ approve.record.id = saved.id /\ approve.record.registered /\ chain[saved.id].state = "landed"
      /\ ~Revoked(saved.id) => saved.allowance = None /\ saved.allowed = None
  BY <1>2 DEF Inv, Copies, ApproveCopies, Sound
<1>4. saved' # None /\ saved'.id = saved.id /\ saved'.registered /\ saved'.allowance = a
  <2>1. PICK r \in Records : r = approve.record
    BY <1>2
  <2>2. saved' = [r EXCEPT !.allowance = a]
    BY <1>1, <2>1
  <2>3. LET k == [r EXCEPT !.allowance = a] IN
          /\ k \in Records /\ k.id = r.id /\ k.pending = r.pending /\ k.registered = r.registered
          /\ k.allowance = a /\ k.allowed = r.allowed /\ k.revocation = r.revocation
    BY AllowanceNoted
  <2>. QED
    BY <1>3, <2>1, <2>2, <2>3, Named
<1>5. UNCHANGED <<over, ended, history, dropped>>
  BY DEF Retain
<1>6. \A t \in Tx : t # a => chain'[t] = chain[t]
  BY <1>1 DEF Sign, Inv, TypeOK
<1>7. chain'[a] = [state |-> "signed", seq |-> prepared.seq, limit |-> saved.id]
  BY <1>1, <1>2, Named DEF Sign, Inv, TypeOK
<1>8. prepared.seq > chain[saved.id].seq
  <2>1. n \in Int
    BY DEF Observed
  <2>2. chain[saved.id].seq \in Int
    BY <1>2, Named DEF Inv, TypeOK
  <2>. QED
    BY <2>1, <2>2, <1>1, <1>3 DEF SelectSequence
<1>9. \A x \in Regs : chain'[x] = chain[x] /\ (Live(x)' <=> Live(x)) /\ (Out(x)' <=> Out(x))
  <2>1. \A x \in Regs : chain'[x] = chain[x]
    BY <1>6, Named
  <2>. QED
    BY <2>1, <1>5 DEF Live, Active, Out
<1>10. \A x \in Regs : Revoked(x)' <=> Revoked(x)
  <2>1. \A v \in Revokes : chain'[v] = chain[v]
    BY <1>6, Named
  <2>. QED
    BY <2>1 DEF Revoked
<1>11. \A x \in Regs : x # saved.id => Naming(x) \subseteq Naming(x)'
  BY <1>5 DEF Naming
<1>12. saved' \in Naming(saved.id)'
  BY <1>4 DEF Naming
<1>13. Current'
  <2>. SUFFICES ASSUME NEW x \in Regs, x \notin dropped
                PROVE  /\ Live(x)' => saved' # None /\ saved'.id = x /\ (saved'.pending \/ saved'.registered)
                       /\ Out(x)' => Naming(x)' # {}
    BY <1>5 DEF Current
  <2>1. Live(x)' => saved' # None /\ saved'.id = x /\ (saved'.pending \/ saved'.registered)
    BY <1>4, <1>9 DEF Inv, Current
  <2>2. Out(x) => Naming(x) # {}
    BY DEF Inv, Current
  <2>3. CASE x = saved.id
    BY <2>1, <2>3, <1>4 DEF Naming
  <2>4. CASE x # saved.id
    BY <2>1, <2>2, <2>4, <1>9, <1>11
  <2>. QED
    BY <2>3, <2>4
<1>14. CoveredNext
  <2>1. \A b \in Allowances : b # a => chain'[b] = chain[b] /\ (Out(b)' <=> Out(b))
    BY <1>6, Named DEF Out
  <2>2. \A t \in Tx : chain'[t].state # "none" => chain'[t].limit \in Regs
    BY <1>2, <1>6, <1>7 DEF Inv, Covered
  <2>3. ASSUME NEW b \in Allowances, NEW x \in Regs, x = chain'[b].limit, chain'[b].state # "none"
        PROVE  /\ chain'[x].state = "landed" /\ chain'[b].seq > chain'[x].seq
               /\ Out(b)' /\ ~Revoked(x)' =>
                    /\ saved' # None /\ saved'.id = x => b \in {saved'.allowance, saved'.allowed}
                    /\ x \notin dropped' => \E r \in Naming(x)' : b \in {r.allowance, r.allowed}
    <3>1. CASE b = a
      BY <3>1, <2>3, <1>3, <1>4, <1>7, <1>8, <1>9, <1>12
    <3>2. CASE b # a
      <4>1. /\ chain[x].state = "landed" /\ chain[b].seq > chain[x].seq
            /\ Out(b) /\ ~Revoked(x) =>
                 /\ saved # None /\ saved.id = x => b \in {saved.allowance, saved.allowed}
                 /\ x \notin dropped => \E r \in Naming(x) : b \in {r.allowance, r.allowed}
        BY <2>1, <2>3, <3>2 DEF Inv, Covered
      <4>2. Out(b)' /\ ~Revoked(x)' => x # saved.id
        BY <4>1, <2>1, <3>2, <1>2, <1>3, <1>10, Named
      <4>3. chain'[b] = chain[b] /\ chain'[x] = chain[x]
        BY <2>1, <3>2, <1>9
      <4>. QED
        BY <4>1, <4>2, <4>3, <2>1, <3>2, <1>4, <1>5, <1>10, <1>11
    <3>. QED
      BY <3>1, <3>2
  <2>4. ASSUME NEW c \in Allowances, NEW b \in Allowances, NEW x \in Regs,
               c # b, x = chain'[c].limit, x = chain'[b].limit, ~Revoked(x)', Out(c)', Out(b)'
        PROVE  FALSE
    <3>1. ~Revoked(x) /\ x # None
      BY <2>4, <1>10, Named
    <3>2. CASE c # a /\ b # a
      <4>1. Out(c) /\ Out(b) /\ x = chain[c].limit /\ x = chain[b].limit
        BY <2>1, <2>4, <3>2
      <4>. QED
        BY <3>1, <4>1, <2>4 DEF Inv, Covered
    <3>3. ASSUME NEW d \in Allowances, d # a, x = chain'[d].limit, Out(d)', x = saved.id
          PROVE  FALSE
      <4>1. Out(d) /\ chain[d].state # "none" /\ chain[d].limit = saved.id /\ ~Revoked(saved.id)
        BY <2>1, <3>1, <3>3 DEF Out
      <4>2. d \in {saved.allowance, saved.allowed}
        BY <4>1, <1>2 DEF Inv, Covered
      <4>. QED
        BY <4>2, <3>1, <3>3, <1>3, Named
    <3>4. chain'[a].limit = saved.id
      BY <1>7
    <3>. QED
      BY <2>4, <3>2, <3>3, <3>4
  <2>. QED
    BY <2>2, <2>3, <2>4 DEF CoveredNext
<1>. QED
  BY <1>13, <1>14, CoveredBy

-----------------------------------------------------------------------------
(* The records the actions write.                                          *)

LEMMA Confirms ==
  \A t : /\ Confirmation(t) = "confirmed" => chain[t].state = "landed"
         /\ Confirmation(t) = "failed" => chain[t].state = "failed"
         /\ Confirmation(t) = "expired" => chain[t].state = "expired"
BY DEF Confirmation

LEMMA SignWrites ==
  ASSUME Inv, SignRegistration
  PROVE  /\ act # None /\ saved # None /\ ~saved.registered
         /\ UNCHANGED <<history, dropped, prepared, approve, revoke, known>>
         /\ \/ UNCHANGED <<chain, saved>> /\ act' = None
            \/ /\ saved' \in Records /\ saved'.id = saved.id /\ saved'.pending /\ ~saved'.registered
               /\ saved'.allowance = saved.allowance /\ saved'.allowed = saved.allowed
               /\ saved'.revocation = saved.revocation
               /\ act' = [step |-> "send", next |-> saved', seq |-> 0]
               /\ Sign(saved.id, act.seq, saved.id)
<1>1. act # None /\ act.step = "sign" /\ UNCHANGED <<history, dropped, prepared, approve, revoke, known>>
  BY DEF SignRegistration
<1>2. saved = act.next /\ saved # None /\ ~saved.registered /\ saved \in Records
  BY <1>1, SignPicks, Typed DEF Inv, Copies, ActCurrent
<1>3. PICK r \in Records : r = saved
  BY <1>2
<1>4. LET k == [r EXCEPT !.state = "pending", !.pending = TRUE] IN
        /\ k \in Records
        /\ k.id = r.id /\ k.pending /\ k.registered = r.registered
        /\ k.allowance = r.allowance /\ k.allowed = r.allowed /\ k.revocation = r.revocation
  BY PendingNoted
<1>5. CASE act' = None /\ UNCHANGED chain /\ saved' \in {act.next, saved}
  BY <1>1, <1>2, <1>5
<1>6. CASE /\ Sign(act.next.id, act.seq, act.next.id)
           /\ saved' = [act.next EXCEPT !.state = "pending", !.pending = TRUE]
           /\ act' = [step |-> "send", next |-> saved', seq |-> 0]
  <2>1. saved' = [r EXCEPT !.state = "pending", !.pending = TRUE]
    BY <1>2, <1>3, <1>6
  <2>. QED
    BY <1>1, <1>2, <1>3, <1>4, <1>6, <2>1
<1>. QED
  BY <1>5, <1>6 DEF SignRegistration

\* A confirmed receipt makes the limit registered.
Registered ==
  /\ saved' \in Records /\ saved'.id = saved.id /\ ~saved'.pending /\ saved'.registered
  /\ saved'.allowance = saved.allowance /\ saved'.revocation = saved.revocation
  /\ saved'.allowed = IF combined THEN saved.id ELSE saved.allowed
  /\ chain[saved.id].state = "landed" /\ known' \in {known, View(saved.id)}

LEMMA AwaitWrites ==
  ASSUME Inv, AwaitRegistration
  PROVE  /\ act # None /\ saved # None /\ ~saved.registered /\ saved.pending /\ act' = None
         /\ UNCHANGED <<chain, history, dropped, prepared, approve, revoke>>
         /\ UNCHANGED <<saved, known>> \/ Registered
<1>1. act # None /\ act.step = "await" /\ act' = None
  BY DEF AwaitRegistration
<1>2. UNCHANGED <<chain, history, dropped, prepared, approve, revoke>>
  BY DEF AwaitRegistration, ledger
<1>3. saved = act.next /\ saved # None /\ ~saved.registered /\ saved \in Records /\ saved.pending
  BY <1>1, SignPicks, Typed DEF Inv, Copies, ActCurrent
<1>4. PICK r \in Records : r = saved
  BY <1>3
<1>5. LET k == Confirmed(r) IN
        /\ k \in Records
        /\ k.id = r.id /\ ~k.pending /\ k.registered
        /\ k.allowance = r.allowance /\ k.revocation = r.revocation
        /\ k.allowed = IF combined THEN r.id ELSE r.allowed
  BY ConfirmationNoted
<1>6. CASE UNCHANGED <<saved, known>>
  BY <1>1, <1>2, <1>3, <1>6
<1>7. CASE /\ Confirmation(act.next.id) = "confirmed" /\ saved' = Confirmed(act.next)
           /\ known' \in {known, View(act.next.id)}
  <2>1. saved' = Confirmed(r) /\ Confirmation(r.id) = "confirmed" /\ known' \in {known, View(r.id)}
    BY <1>3, <1>4, <1>7
  <2>2. chain[r.id].state = "landed"
    BY <2>1, Confirms
  <2>. QED
    BY <1>1, <1>2, <1>3, <1>4, <1>5, <2>1, <2>2 DEF Registered
<1>. QED
  BY <1>6, <1>7 DEF AwaitRegistration

LEMMA CheckWrites ==
  ASSUME Inv, CheckRegistration
  PROVE  /\ act = None /\ saved # None /\ ~saved.registered /\ saved.pending
         /\ UNCHANGED <<chain, history, dropped, act, prepared, approve, revoke>>
         /\ \/ Registered
            \/ /\ saved' \in Records /\ saved'.id = saved.id /\ ~saved'.pending /\ ~saved'.registered
               /\ saved'.allowance = saved.allowance /\ saved'.allowed = saved.allowed
               /\ saved'.revocation = saved.revocation /\ known' = known
               /\ chain[saved.id].state \in {"failed", "expired"}
<1>1. act = None /\ saved # None /\ saved.pending
  BY DEF CheckRegistration
<1>2. UNCHANGED <<chain, history, dropped, act, prepared, approve, revoke>>
  BY DEF CheckRegistration, ledger
<1>3. ~saved.registered /\ saved \in Records
  BY <1>1, Typed
<1>4. PICK r \in Records : r = saved
  BY <1>3
<1>5. LET k == Confirmed(r) IN
        /\ k \in Records
        /\ k.id = r.id /\ ~k.pending /\ k.registered
        /\ k.allowance = r.allowance /\ k.revocation = r.revocation
        /\ k.allowed = IF combined THEN r.id ELSE r.allowed
  BY ConfirmationNoted
<1>6. LET k == [r EXCEPT !.state = "failed", !.pending = FALSE, !.attempts = @ \cup {r.id}] IN
        /\ k \in Records
        /\ k.id = r.id /\ ~k.pending /\ k.registered = r.registered
        /\ k.allowance = r.allowance /\ k.allowed = r.allowed /\ k.revocation = r.revocation
  BY FailureNoted
<1>7. CASE Confirmation(saved.id) = "confirmed" /\ saved' = Confirmed(saved) /\ known' = View(saved.id)
  <2>1. saved' = Confirmed(r) /\ chain[r.id].state = "landed"
    BY <1>4, <1>7, Confirms
  <2>. QED
    BY <1>1, <1>2, <1>3, <1>4, <1>5, <1>7, <2>1 DEF Registered
<1>8. CASE /\ Confirmation(saved.id) \in {"failed", "expired"} /\ known' = known
           /\ saved' = [saved EXCEPT !.state = "failed", !.pending = FALSE, !.attempts = @ \cup {saved.id}]
  <2>1. saved' = [r EXCEPT !.state = "failed", !.pending = FALSE, !.attempts = @ \cup {r.id}]
    BY <1>4, <1>8
  <2>2. chain[r.id].state \in {"failed", "expired"}
    BY <1>4, <1>8, Confirms
  <2>. QED
    BY <1>1, <1>2, <1>3, <1>4, <1>6, <1>8, <2>1, <2>2
<1>. QED
  BY <1>7, <1>8 DEF CheckRegistration

LEMMA ActivateWrites ==
  ASSUME Inv, NEW m \in Regs, Activate(m)
  PROVE  /\ act = None /\ chain[m].state = "none" /\ \A r \in history : r.id # m
         /\ saved # None => ~saved.pending /\ ~saved.registered
         /\ UNCHANGED <<chain, history, dropped, prepared, approve, revoke, known>>
         /\ saved' \in Records /\ saved'.id = m /\ ~saved'.pending /\ ~saved'.registered
         /\ saved'.allowance = None /\ saved'.allowed = None /\ saved'.revocation = None
         /\ act' = [step |-> "prepare", next |-> saved', seq |-> 0]
<1>1. /\ act = None /\ (saved # None => ~saved.pending /\ ~saved.registered)
      /\ UNCHANGED <<chain, history, dropped, prepared, approve, revoke, known>>
  BY DEF Activate, NeedsReconciliation, ledger
<1>2. chain[m].state = "none" /\ \A r \in history : r.id # m
  BY DEF Activate, Unsigned
<1>3. (IF saved = None THEN {} ELSE saved.attempts) \in SUBSET Regs
  BY Typed, Fields
<1>4. saved' = [Empty(m) EXCEPT !.attempts = IF saved = None THEN {} ELSE saved.attempts]
  BY DEF Activate
<1>5. act' = [step |-> "prepare", next |-> saved', seq |-> 0]
  BY DEF Activate
<1>6. PICK S \in SUBSET Regs : S = IF saved = None THEN {} ELSE saved.attempts
  BY <1>3
<1>7. LET r == [Empty(m) EXCEPT !.attempts = S] IN
      /\ r \in Records /\ r # None /\ r.id = m /\ ~r.pending /\ ~r.registered
      /\ r.allowance = None /\ r.allowed = None /\ r.revocation = None
  BY Blank
<1>8. saved' = [Empty(m) EXCEPT !.attempts = S]
  BY <1>4, <1>6
<1>9. /\ saved' \in Records /\ saved'.id = m /\ ~saved'.pending /\ ~saved'.registered
      /\ saved'.allowance = None /\ saved'.allowed = None /\ saved'.revocation = None
  BY <1>7, <1>8
<1>. QED
  BY <1>1, <1>2, <1>5, <1>9

LEMMA RetainWrites ==
  ASSUME Inv, Retain
  PROVE  /\ approve # None /\ saved # None /\ saved.registered
         /\ UNCHANGED <<history, dropped, act, revoke, known>>
         /\ \/ UNCHANGED <<chain, saved>> /\ approve' = None /\ prepared' = None
            \/ \E a \in Allowances :
                 /\ saved' \in Records /\ saved'.id = saved.id /\ ~saved'.pending /\ saved'.registered
                 /\ saved'.allowance = a /\ saved'.allowed = None
                 /\ saved'.revocation = approve.record.revocation
                 /\ approve' = [step |-> "send", record |-> saved'] /\ prepared' = prepared
                 /\ chain[a].state = "none" /\ Sign(a, prepared.seq, prepared.limit)
<1>1. approve # None /\ approve.step = "sign" /\ UNCHANGED <<history, dropped, act, revoke, known>>
  BY DEF Retain
<1>2. /\ saved # None /\ saved.registered /\ approve.record.id = saved.id /\ approve.record.registered
      /\ approve.record.allowed = None /\ ~approve.record.pending /\ approve.record \in Records
  BY <1>1, Typed DEF Inv, Copies, ApproveCopies, Sound
<1>3. PICK r \in Records : r = approve.record
  BY <1>2
<1>5. CASE UNCHANGED <<chain, saved>> /\ approve' = None /\ prepared' = None
  BY <1>1, <1>2, <1>5
<1>6. ASSUME NEW a \in Allowances, chain[a].state = "none", Sign(a, prepared.seq, prepared.limit),
             saved' = [approve.record EXCEPT !.allowance = a],
             approve' = [step |-> "send", record |-> saved'], prepared' = prepared
      PROVE  /\ saved' \in Records /\ saved'.id = saved.id /\ ~saved'.pending /\ saved'.registered
             /\ saved'.allowance = a /\ saved'.allowed = None
             /\ saved'.revocation = approve.record.revocation
  <2>1. saved' = [r EXCEPT !.allowance = a]
    BY <1>3, <1>6
  <2>2. LET k == [r EXCEPT !.allowance = a] IN
          /\ k \in Records /\ k.id = r.id /\ k.pending = r.pending /\ k.registered = r.registered
          /\ k.allowance = a /\ k.allowed = r.allowed /\ k.revocation = r.revocation
    BY AllowanceNoted
  <2>. QED
    BY <2>1, <2>2, <1>2, <1>3
<1>7. \/ UNCHANGED <<chain, saved>> /\ approve' = None /\ prepared' = None
      \/ \E a \in Allowances :
           /\ chain[a].state = "none" /\ Sign(a, prepared.seq, prepared.limit)
           /\ saved' = [approve.record EXCEPT !.allowance = a]
           /\ approve' = [step |-> "send", record |-> saved'] /\ prepared' = prepared
  BY <1>1, RetainPicks DEF Retain
<1>. QED
  BY <1>1, <1>2, <1>5, <1>6, <1>7

LEMMA SendAllowanceWrites ==
  ASSUME Inv, SendAllowance
  PROVE  /\ approve # None /\ saved # None /\ saved.registered /\ approve.record \in Records
         /\ approve.record.id = saved.id /\ approve.record.registered /\ ~approve.record.pending
         /\ approve.record.allowance \in Allowances
         /\ approve.record = saved \/ Revoked(saved.id)
         /\ UNCHANGED <<history, dropped, act, revoke, known>> /\ approve' = None /\ prepared' = None
         /\ saved' \in {saved, approve.record}
         /\ \/ UNCHANGED chain
            \/ /\ chain[approve.record.allowance].state = "signed"
               /\ Mark(approve.record.allowance, "sent")
<1>1. approve # None /\ approve.step = "send"
  BY DEF SendAllowance
<1>2. /\ saved # None /\ saved.registered /\ approve.record \in Records
      /\ approve.record.id = saved.id /\ approve.record.registered /\ ~approve.record.pending
      /\ approve.record = saved \/ Revoked(saved.id)
      /\ approve.record.allowance # None
  BY <1>1, Typed DEF Inv, Copies, ApproveCopies, Sound
<1>3. approve.record.allowance \in Allowances
  BY <1>2, Fields
<1>4. UNCHANGED <<history, dropped, act, revoke, known>> /\ approve' = None /\ prepared' = None
  BY DEF SendAllowance
<1>5. /\ saved' \in {saved, approve.record}
      /\ \/ UNCHANGED chain
         \/ /\ chain[approve.record.allowance].state = "signed"
            /\ Mark(approve.record.allowance, "sent")
  BY DEF SendAllowance
<1>. QED
  BY <1>1, <1>2, <1>3, <1>4, <1>5

LEMMA CheckAllowanceWrites ==
  ASSUME Inv, CheckAllowance
  PROVE  /\ saved # None /\ saved.registered /\ saved.allowance \in Allowances /\ saved.allowed = None
         /\ UNCHANGED <<chain, history, dropped, act, approve, revoke>> /\ prepared' = None
         /\ approve = None /\ revoke = None
         /\ saved' \in Records /\ saved'.id = saved.id /\ ~saved'.pending /\ saved'.registered
         /\ saved'.allowance = None /\ saved'.revocation = saved.revocation
         /\ \/ saved'.allowed = saved.allowance /\ known' = View(saved.id)
            \/ saved'.allowed = None /\ known' = known /\ ~Out(saved.allowance)
<1>1. /\ saved # None /\ saved.allowance # None /\ approve = None /\ revoke = None
      /\ UNCHANGED <<chain, history, dropped, act, approve, revoke>> /\ prepared' = None
  BY DEF CheckAllowance, ledger
<1>2. /\ saved \in Records /\ saved.registered /\ ~saved.pending /\ saved.allowance \in Allowances
      /\ saved.allowed = None /\ chain[saved.allowance].state # "none"
  BY <1>1, Typed, Fields DEF Inv, Copies, SavedSound, Sound
<1>3. PICK r \in Records : r = saved
  BY <1>2
<1>4. \A a \in Allowances \cup {None} : LET k == [r EXCEPT !.allowance = a] IN
        /\ k \in Records /\ k.id = r.id /\ k.pending = r.pending /\ k.registered = r.registered
        /\ k.allowance = a /\ k.allowed = r.allowed /\ k.revocation = r.revocation
  BY AllowanceNoted
<1>5. r.allowance \in Tx
  BY <1>2, <1>3, Named
<1>6. LET k == [r EXCEPT !.allowed = r.allowance, !.allowance = None] IN
        /\ k \in Records /\ k.id = r.id /\ k.pending = r.pending /\ k.registered = r.registered
        /\ k.allowance = None /\ k.allowed = r.allowance /\ k.revocation = r.revocation
  BY <1>5, AllowanceSettled
\* The sequence number of an allowance follows that of its registration.
<1>7. ReadAllowance(saved.allowance) = Confirmation(saved.allowance)
  <2>1. /\ chain[saved.allowance].seq > chain[chain[saved.allowance].limit].seq
        /\ chain[saved.allowance].limit \in Regs
    BY <1>2, Named DEF Inv, Covered
  <2>2. chain[saved.allowance].seq \in Int /\ chain[chain[saved.allowance].limit].seq \in Int
    BY <1>2, <2>1, Named DEF Inv, TypeOK
  <2>3. chain[saved.allowance].seq # chain[chain[saved.allowance].limit].seq
    BY <2>1, <2>2
  <2>. QED
    BY <2>3 DEF ReadAllowance
<1>8. CASE /\ saved' = [saved EXCEPT !.allowed = saved.allowance, !.allowance = None]
           /\ known' = View(saved.id)
  <2>1. saved' = [r EXCEPT !.allowed = r.allowance, !.allowance = None]
    BY <1>3, <1>8
  <2>. QED
    BY <1>1, <1>2, <1>3, <1>6, <1>8, <2>1
<1>9. CASE /\ ReadAllowance(saved.allowance) \in {"failed", "expired"}
           /\ saved' = [saved EXCEPT !.allowance = None] /\ known' = known
  <2>1. saved' = [r EXCEPT !.allowance = None]
    BY <1>3, <1>9
  <2>2. chain[saved.allowance].state \in {"failed", "expired"}
    BY <1>7, <1>9, Confirms
  <2>. QED
    BY <1>1, <1>2, <1>3, <1>4, <2>1, <2>2, <1>9 DEF Out
<1>. QED
  BY <1>8, <1>9 DEF CheckAllowance

LEMMA RevokeHas ==
  ASSUME Inv, revoke # None
  PROVE  /\ saved # None /\ saved \in Records /\ saved.registered /\ ~saved.pending
         /\ Sound(saved, chain)
         /\ revoke \in Revocations /\ revoke.record \in Records /\ revoke.record.id = saved.id
         /\ revoke.record.registered /\ ~revoke.record.pending /\ Sound(revoke.record, chain)
         /\ revoke.step = "await" => Revoked(saved.id)
<1>1. saved # None /\ saved.registered /\ Sound(saved, chain)
  BY DEF Inv, Copies, RevokeCopies, SavedSound
<1>2. saved \in Records /\ ~saved.pending /\ revoke \in Revocations /\ revoke.record \in Records
  BY <1>1, Typed
<1>. QED
  BY <1>1, <1>2 DEF Inv, Copies, RevokeCopies, Sound

LEMMA SendRevokeWrites ==
  ASSUME Inv, SendRevoke
  PROVE  /\ revoke # None /\ UNCHANGED history
         /\ \/ LogOut /\ UNCHANGED chain
            \/ /\ revoke' = None /\ known' \in {known, View(saved.id)}
               /\ UNCHANGED <<chain, saved, dropped, act, prepared, approve>>
            \/ /\ revoke' = [revoke EXCEPT !.step = "await"] /\ revoke.record.revocation # None
               /\ UNCHANGED <<chain, saved, dropped, act, prepared, approve, known>>
            \/ \E v \in Revokes :
                 /\ chain[v].state = "none"
                 /\ chain' = [chain EXCEPT ![v] = [state |-> "sent", seq |-> 0, limit |-> saved.id]]
                 /\ UNCHANGED <<dropped, act, prepared, approve, known>>
                 /\ \/ UNCHANGED saved /\ revoke' = None
                    \/ /\ saved' \in Records /\ saved'.id = saved.id /\ ~saved'.pending /\ saved'.registered
                       /\ saved'.allowance = revoke.record.allowance
                       /\ saved'.allowed = revoke.record.allowed /\ saved'.revocation = v
                       /\ revoke' = [step |-> "await", record |-> saved']
<1>1. revoke # None /\ UNCHANGED history
  BY DEF SendRevoke
<1>2. revoke.record \in Records /\ revoke.record.id = saved.id
  BY <1>1, RevokeHas
<1>3. PICK r \in Records : r = revoke.record
  BY <1>2
<1>4. CASE Off({saved}) /\ UNCHANGED chain
  BY <1>1, <1>2, <1>4 DEF Off
<1>5. CASE /\ revoke' = [revoke EXCEPT !.step = "await"] /\ revoke.record.revocation # None
           /\ UNCHANGED <<chain, saved, dropped, act, prepared, approve, known>>
  BY <1>1, <1>5
<1>6. CASE revoke' = None /\ UNCHANGED <<chain, saved, dropped, act, prepared, approve, known>>
  BY <1>1, <1>6
<1>7. ASSUME NEW v \in Revokes, chain[v].state = "none",
             chain' = [chain EXCEPT ![v] = [state |-> "sent", seq |-> 0, limit |-> revoke.record.id]],
             UNCHANGED <<dropped, act, prepared, approve, known>>,
             \/ saved' = [revoke.record EXCEPT !.revocation = v] /\ revoke' = [step |-> "await", record |-> saved']
             \/ UNCHANGED saved /\ revoke' = None
      PROVE  \/ UNCHANGED saved /\ revoke' = None
             \/ /\ saved' \in Records /\ saved'.id = saved.id /\ ~saved'.pending /\ saved'.registered
                /\ saved'.allowance = revoke.record.allowance
                /\ saved'.allowed = revoke.record.allowed /\ saved'.revocation = v
                /\ revoke' = [step |-> "await", record |-> saved']
  <2>1. LET k == [r EXCEPT !.revocation = v] IN
         /\ k \in Records /\ k.id = r.id /\ k.pending = r.pending /\ k.registered = r.registered
         /\ k.allowance = r.allowance /\ k.allowed = r.allowed /\ k.revocation = v
    BY RevocationNoted
  <2>2. r.id = saved.id /\ ~r.pending /\ r.registered
    BY <1>1, <1>3, RevokeHas
  <2>. QED
    BY <1>3, <1>7, <2>1, <2>2
<1>8. CASE \E v \in Unsigned(Revokes) :
             /\ chain' = [chain EXCEPT ![v] = [state |-> "sent", seq |-> 0, limit |-> revoke.record.id]]
             /\ UNCHANGED <<dropped, act, prepared, approve, known>>
             /\ \/ saved' = [revoke.record EXCEPT !.revocation = v] /\ revoke' = [step |-> "await", record |-> saved']
                \/ UNCHANGED saved /\ revoke' = None
  <2>1. PICK v \in Revokes :
             /\ chain[v].state = "none"
             /\ chain' = [chain EXCEPT ![v] = [state |-> "sent", seq |-> 0, limit |-> revoke.record.id]]
             /\ UNCHANGED <<dropped, act, prepared, approve, known>>
             /\ \/ saved' = [revoke.record EXCEPT !.revocation = v] /\ revoke' = [step |-> "await", record |-> saved']
                \/ UNCHANGED saved /\ revoke' = None
    BY <1>8 DEF Unsigned
  <2>2. \/ UNCHANGED saved /\ revoke' = None
        \/ /\ saved' \in Records /\ saved'.id = saved.id /\ ~saved'.pending /\ saved'.registered
           /\ saved'.allowance = revoke.record.allowance
           /\ saved'.allowed = revoke.record.allowed /\ saved'.revocation = v
           /\ revoke' = [step |-> "await", record |-> saved']
    BY <2>1, <1>7
  <2>. QED
    BY <1>1, <1>2, <2>1, <2>2
<1>. QED
  BY <1>4, <1>5, <1>6, <1>8 DEF SendRevoke

LEMMA AwaitRevokeWrites ==
  ASSUME Inv, AwaitRevoke
  PROVE  /\ revoke # None /\ revoke.step = "await" /\ UNCHANGED <<chain, history>>
         /\ \/ LogOut
            \/ /\ revoke' = None /\ known' \in {known, View(saved.id)}
               /\ UNCHANGED <<dropped, act, prepared, approve>>
               /\ saved' \in Records /\ saved'.id = saved.id /\ saved'.registered
               /\ ~saved'.pending /\ Sound(saved', chain)
<1>1. revoke # None /\ revoke.step = "await" /\ UNCHANGED <<chain, history>>
  BY DEF AwaitRevoke, ledger
<1>2. \A r \in {saved, revoke.record} :
         r \in Records /\ r.id = saved.id /\ r.registered /\ ~r.pending /\ Sound(r, chain)
  BY <1>1, RevokeHas
<1>3. LET k == [revoke.record EXCEPT !.revocation = None] IN
      k \in Records /\ k.id = saved.id /\ k.registered /\ ~k.pending /\ Sound(k, chain)
  <2>1. PICK r \in Records : r = revoke.record
    BY <1>2
  <2>2. LET k == [r EXCEPT !.revocation = None] IN
         /\ k \in Records /\ k.id = r.id /\ k.pending = r.pending /\ k.registered = r.registered
         /\ k.allowance = r.allowance /\ k.allowed = r.allowed /\ k.revocation = None
    BY RevocationNoted
  <2>3. r.id = saved.id /\ r.registered /\ ~r.pending /\ Sound(r, chain)
    BY <1>2, <2>1
  <2>. QED
    BY <2>1, <2>2, <2>3 DEF Sound
<1>4. CASE Off({saved, revoke.record})
  <2>1. revoke.record.id = saved.id
    BY <1>2
  <2>. QED
    BY <1>1, <1>2, <1>4, <2>1 DEF Off
<1>5. CASE /\ saved' \in {saved, [revoke.record EXCEPT !.revocation = None]}
           /\ revoke' = None /\ UNCHANGED <<dropped, act, prepared, approve, known>>
  BY <1>1, <1>2, <1>3, <1>5
<1>. QED
  BY <1>4, <1>5 DEF AwaitRevoke

LEMMA UnwrittenCovers ==
  ASSUME Inv, Forward, UNCHANGED <<saved, history, dropped>>,
         \A t \in Regs \cup Allowances : chain[t].state = "none" => chain'[t].state = "none",
         \A t \in Revokes : chain'[t].state # "none" => chain'[t].limit \in Regs
  PROVE  Current' /\ Covered'
BY RecordKept

LEMMA CoveredKept ==
  ASSUME Inv, [Next]_vars
  PROVE  Current' /\ Covered'
<1>. USE DEF ledger, store, page
<1>1. SavedSound /\ ActCurrent /\ ApproveCopies /\ RevokeCopies /\ Forward
  BY OnlyForward DEF Inv, Copies
<1>2. TypedLedger
  BY DEF Inv, TypeOK, TypedLedger
<1>3. \A v \in Revokes : chain[v].state # "none" => chain[v].limit \in Regs
  BY Named DEF Inv, Covered
<1>10. CASE UNCHANGED vars
  BY <1>10, <1>1, <1>2, Named, UnwrittenCovers DEF vars, TypedLedger, Inv, Covered, Mark
<1>11. ASSUME NEW m \in Regs, Activate(m) PROVE Current' /\ Covered'
  BY <1>11, ActivateCovers
<1>12. CASE PrepareRegistration
  BY <1>12, <1>1, <1>2, Named, UnwrittenCovers DEF PrepareRegistration, TypedLedger, Inv, Covered, Mark
<1>13. CASE SignRegistration
  <2>1. CASE chain' = chain
    <3>1. UNCHANGED <<saved, history, dropped>>
      <4>1. ~Sign(saved.id, act.seq, saved.id)
        BY <1>13, <1>2, <2>1, SignPicks, Named DEF SignRegistration, Sign, TypedLedger
      <4>. QED
        BY <1>13, <4>1, SignWrites
    <3>. QED
      BY <2>1, <3>1, <1>1, <1>3, UnwrittenCovers
  <2>2. CASE chain' # chain
    BY <1>13, <2>2, <1>1, SignRegistrationCovers
  <2>. QED
    BY <2>1, <2>2
<1>14. CASE SendRegistration
  BY <1>14, <1>1, <1>2, Named, UnwrittenCovers DEF SendRegistration, TypedLedger, Inv, Covered, Mark
<1>15. CASE AwaitRegistration
  <2>1. /\ saved # None /\ ~saved.registered /\ saved.pending
        /\ UNCHANGED <<chain, history, dropped>>
        /\ UNCHANGED saved \/ (saved' \in Records /\ saved'.id = saved.id /\ saved'.registered)
    BY <1>15, AwaitWrites DEF Registered
  <2>2. saved.allowance = None /\ saved.allowed = None
    BY <1>1, <2>1 DEF SavedSound, Sound
  <2>. QED
    BY <1>1, <1>3, <2>1, <2>2, Named, RecordKept
<1>16. CASE CheckRegistration
  <2>1. /\ saved # None /\ ~saved.registered /\ saved.pending
        /\ UNCHANGED <<chain, history, dropped>>
        /\ saved' \in Records /\ saved'.id = saved.id
        /\ saved'.registered \/ chain[saved.id].state \in {"failed", "expired"}
    BY <1>16, CheckWrites DEF Registered
  <2>2. saved.allowance = None /\ saved.allowed = None
    BY <1>1, <2>1 DEF SavedSound, Sound
  <2>. QED
    BY <1>1, <1>3, <2>1, <2>2, Named, RecordKept
<1>17. CASE Refresh
  BY <1>17, <1>1, <1>2, Named, UnwrittenCovers DEF Refresh, TypedLedger, Inv, Covered, Mark
<1>18. CASE PrepareAllowance
  BY <1>18, <1>1, <1>2, Named, UnwrittenCovers DEF PrepareAllowance, TypedLedger, Inv, Covered, Mark
<1>19. CASE Approve
  BY <1>19, <1>1, <1>2, Named, UnwrittenCovers DEF Approve, TypedLedger, Inv, Covered, Mark
<1>20. CASE Retain
  <2>1. CASE chain' = chain
    <3>1. UNCHANGED <<saved, history, dropped>>
      <4>1. \A a \in Allowances : ~(chain[a].state = "none" /\ Sign(a, prepared.seq, prepared.limit))
        BY <1>2, <2>1, Named DEF Sign, TypedLedger
      <4>. QED
        BY <1>20, <4>1, RetainWrites
    <3>. QED
      BY <2>1, <3>1, <1>1, <1>3, UnwrittenCovers
  <2>2. CASE chain' # chain
    BY <1>20, <2>2, <1>1, RetainCovers
  <2>. QED
    BY <2>1, <2>2
<1>21. CASE SendAllowance
  <2>1. /\ saved # None /\ saved.registered /\ UNCHANGED <<history, dropped>>
        /\ saved' # None /\ saved'.id = saved.id /\ saved'.registered
        /\ saved' = saved \/ Revoked(saved.id)
    BY <1>21, SendAllowanceWrites, Named
  <2>2. \A t \in Tx : chain[t].state = "none" => chain'[t].state = "none"
    BY <1>21, <1>2, SendAllowanceWrites DEF Mark, TypedLedger
  <2>3. \A t \in Revokes : chain'[t] = chain[t]
    BY <1>21, <1>2, SendAllowanceWrites, Named DEF Mark, TypedLedger
  <2>4. Revoked(saved.id) => \E v \in Revokes : chain'[v].limit = saved.id /\ chain'[v].state # "none"
    BY <2>3 DEF Revoked
  <2>. QED
    BY <1>1, <1>3, <2>1, <2>2, <2>3, <2>4, Named, RecordKept
<1>22. CASE CheckAllowance
  <2>1. /\ saved # None /\ saved.allowed = None /\ saved.allowance \in Allowances
        /\ UNCHANGED <<chain, history, dropped>>
        /\ saved' \in Records /\ saved'.id = saved.id /\ saved'.registered
        /\ saved'.allowed = saved.allowance \/ ~Out(saved.allowance)
    BY <1>22, CheckAllowanceWrites
  <2>2. ~Out(saved.allowance) => chain[saved.allowance].state \notin {"signed", "sent", "landed"}
    BY DEF Out
  <2>. QED
    BY <1>1, <1>3, <2>1, <2>2, Named, RecordKept
<1>23. CASE Revoke
  BY <1>23, <1>1, <1>2, Named, UnwrittenCovers DEF Revoke, TypedLedger, Inv, Covered, Mark
<1>24. CASE SendRevoke
  <2>1. saved # None /\ saved.registered /\ UNCHANGED history
    BY <1>24, SendRevokeWrites, RevokeHas
  <2>2. CASE LogOut /\ UNCHANGED chain
    BY <1>24, <2>1, <2>2, LogOutCovers DEF SendRevoke
  <2>3. CASE UNCHANGED <<chain, saved, dropped>>
    BY <1>1, <1>3, <2>1, <2>3, UnwrittenCovers
  <2>4. ASSUME NEW v \in Revokes, chain[v].state = "none", UNCHANGED dropped,
               chain' = [chain EXCEPT ![v] = [state |-> "sent", seq |-> 0, limit |-> saved.id]],
               saved' = saved \/ (saved' \in Records /\ saved'.id = saved.id /\ saved'.registered)
        PROVE  Current' /\ Covered'
    <3>1. chain'[v] = [state |-> "sent", seq |-> 0, limit |-> saved.id] /\ saved.id \in Regs
      BY <2>4, <2>1, <1>2, Named, Typed, Fields DEF TypedLedger
    <3>2. \A t \in Tx : t # v => chain'[t] = chain[t]
      BY <2>4, <1>2 DEF TypedLedger
    <3>3. \A t \in Regs \cup Allowances : chain[t].state = "none" => chain'[t].state = "none"
      BY <3>2, Named
    <3>4. \A t \in Revokes : chain'[t].state # "none" => chain'[t].limit \in Regs
      BY <3>1, <3>2, <1>3, Named
    <3>5. chain'[v].limit = saved.id /\ chain'[v].state # "none"
      BY <3>1
    <3>. QED
      BY <1>1, <2>1, <2>4, <3>3, <3>4, <3>5, Named, RecordKept
  <2>. QED
    BY <1>24, <2>2, <2>3, <2>4, SendRevokeWrites
<1>25. CASE AwaitRevoke
  <2>1. saved # None /\ saved.registered /\ UNCHANGED <<chain, history>> /\ Revoked(saved.id)
    BY <1>25, AwaitRevokeWrites, RevokeHas
  <2>2. CASE LogOut
    BY <1>25, <2>1, <2>2, LogOutCovers DEF AwaitRevoke
  <2>3. CASE UNCHANGED dropped /\ saved' \in Records /\ saved'.id = saved.id /\ saved'.registered
    <3>1. \E v \in Revokes : chain'[v].limit = saved.id /\ chain'[v].state # "none"
      BY <2>1 DEF Revoked
    <3>. QED
      BY <1>1, <1>3, <2>1, <2>3, <3>1, Named, RecordKept
  <2>. QED
    BY <1>25, <2>2, <2>3, AwaitRevokeWrites
<1>26. CASE StartFresh
  BY <1>26, StartFreshCovers
<1>27. CASE Disconnect
  BY <1>27, LogOutCovers DEF Disconnect
<1>28. CASE Reload
  BY <1>28, <1>1, <1>2, Named, UnwrittenCovers DEF Reload, TypedLedger, Inv, Covered, Mark
<1>29. ASSUME NEW t \in Tx, Execute(t) PROVE Current' /\ Covered'
  BY <1>29, <1>1, <1>2, Named, UnwrittenCovers DEF Execute, TypedLedger, Inv, Covered, Mark
<1>30. ASSUME NEW t \in Tx, Lapse(t) PROVE Current' /\ Covered'
  BY <1>30, <1>1, <1>2, Named, UnwrittenCovers DEF Lapse, TypedLedger, Inv, Covered, Mark
<1>31. ASSUME NEW m \in Regs, Elapse(m) PROVE Current' /\ Covered'
  BY <1>31, <1>1, <1>2, Named, UnwrittenCovers DEF Elapse, TypedLedger, Inv, Covered, Mark
<1>32. CASE OwnerMoves
  BY <1>32, <1>1, <1>2, Named, UnwrittenCovers DEF OwnerMoves, TypedLedger, Inv, Covered, Mark
<1>. QED
  BY <1>10, <1>11, <1>12, <1>13, <1>14, <1>15, <1>16, <1>17, <1>18, <1>19, <1>20, <1>21, <1>22, <1>23, <1>24, <1>25, <1>26, <1>27, <1>28, <1>29, <1>30, <1>31, <1>32 DEF Next, Registering, Allowing, Revoking, World

-----------------------------------------------------------------------------
(* The copies the page works on.                                           *)

LEMMA SavedStays ==
  ASSUME Inv, Forward, UNCHANGED <<saved, history>>
  PROVE  SavedSound'
<1>1. saved # None => saved \in Records /\ Sound(saved, chain) /\ \A r \in history : r.id # saved.id
  BY Typed DEF Inv, Copies, SavedSound
<1>2. saved # None => Sound(saved, chain')
  BY <1>1, SoundKept
<1>. QED
  BY <1>1, <1>2 DEF SavedSound

LEMMA SavedSoundKept ==
  ASSUME Inv, [Next]_vars
  PROVE  SavedSound'
<1>. USE DEF ledger, store, page
<1>1. SavedSound /\ Forward
  BY OnlyForward DEF Inv, Copies
<1>2. TypedLedger
  BY DEF Inv, TypeOK, TypedLedger
<1>10. CASE UNCHANGED vars
  BY <1>10, <1>1, SavedStays DEF vars
<1>11. ASSUME NEW m \in Regs, Activate(m) PROVE SavedSound'
  BY <1>11, ActivateWrites DEF SavedSound, Sound
<1>12. CASE PrepareRegistration
  BY <1>12, <1>1, SavedStays DEF PrepareRegistration
<1>13. CASE SignRegistration
  <2>1. CASE UNCHANGED saved
    BY <1>13, <1>1, <2>1, SignWrites, SavedStays
  <2>2. CASE /\ saved' \in Records /\ saved'.id = saved.id /\ saved'.pending /\ ~saved'.registered
             /\ saved'.allowance = saved.allowance /\ saved'.allowed = saved.allowed
             /\ saved'.revocation = saved.revocation /\ Sign(saved.id, act.seq, saved.id)
    <3>1. saved # None /\ saved \in Records /\ UNCHANGED history
      BY <1>13, SignWrites, Typed
    <3>2. chain'[saved.id].state # "none"
      BY <2>2, <3>1, <1>2, Named, Fields DEF Sign, TypedLedger
    <3>3. saved'.allowance = None /\ saved'.allowed = None
      BY <1>1, <2>2, <3>1, <1>13, SignWrites DEF SavedSound, Sound
    <3>4. Sound(saved, chain')
      BY <1>1, <3>1, SoundKept DEF SavedSound
    <3>. QED
      BY <1>1, <2>2, <3>1, <3>2, <3>3, <3>4 DEF SavedSound, Sound
  <2>. QED
    BY <1>13, <2>1, <2>2, SignWrites
<1>14. CASE SendRegistration
  BY <1>14, <1>1, SavedStays DEF SendRegistration
<1>15. CASE AwaitRegistration
  BY <1>15, <1>1, AwaitWrites DEF SavedSound, Sound, Registered
<1>16. CASE CheckRegistration
  BY <1>16, <1>1, CheckWrites DEF SavedSound, Sound, Registered
<1>17. CASE Refresh
  BY <1>17, <1>1, SavedStays DEF Refresh
<1>18. CASE PrepareAllowance
  BY <1>18, <1>1, SavedStays DEF PrepareAllowance
<1>19. CASE Approve
  BY <1>19, <1>1, SavedStays DEF Approve
<1>20. CASE Retain
  <2>1. CASE UNCHANGED saved
    BY <1>20, <1>1, <2>1, RetainWrites, SavedStays
  <2>2. ASSUME NEW a \in Allowances,
               saved' \in Records /\ saved'.id = saved.id /\ ~saved'.pending /\ saved'.registered,
               saved'.allowance = a /\ saved'.allowed = None,
               saved'.revocation = approve.record.revocation,
               Sign(a, prepared.seq, prepared.limit)
        PROVE  SavedSound'
    <3>1. saved # None /\ UNCHANGED history
      BY <1>20, RetainWrites
    <3>2. approve.record \in Records /\ Sound(approve.record, chain) /\ approve.record.id = saved.id
      BY <1>20, RetainWrites, Typed DEF Inv, Copies, ApproveCopies
    <3>3. Sound(approve.record, chain') /\ approve.record.registered
      BY <1>1, <3>2, <1>20, RetainWrites, SoundKept DEF Inv, Copies, ApproveCopies
    <3>4. chain'[a].state # "none"
      BY <2>2, <1>2, Named DEF Sign, TypedLedger
    <3>. QED
      BY <1>1, <2>2, <3>1, <3>2, <3>3, <3>4 DEF SavedSound, Sound
  <2>. QED
    BY <1>20, <2>1, <2>2, RetainWrites
<1>21. CASE SendAllowance
  <2>1. /\ approve.record \in Records /\ approve.record.id = saved.id /\ saved # None
        /\ saved' \in {saved, approve.record} /\ UNCHANGED history
    BY <1>21, SendAllowanceWrites
  <2>2. Sound(approve.record, chain')
    BY <2>1, <1>1, <1>21, SendAllowanceWrites, SoundKept DEF Inv, Copies, ApproveCopies
  <2>3. CASE saved' = saved
    BY <1>1, <2>1, <2>3, SavedStays
  <2>4. CASE saved' = approve.record
    BY <1>1, <2>1, <2>2, <2>4 DEF SavedSound
  <2>. QED
    BY <2>1, <2>3, <2>4
<1>22. CASE CheckAllowance
  BY <1>22, <1>1, CheckAllowanceWrites DEF SavedSound, Sound
<1>23. CASE Revoke
  BY <1>23, <1>1, SavedStays DEF Revoke
<1>24. CASE SendRevoke
  <2>1. /\ saved # None /\ revoke.record \in Records /\ revoke.record.id = saved.id
        /\ Sound(revoke.record, chain') /\ revoke.record.registered /\ UNCHANGED history
    BY <1>24, <1>1, SendRevokeWrites, RevokeHas, SoundKept
  <2>2. CASE LogOut
    BY <2>2 DEF LogOut, SavedSound
  <2>3. CASE UNCHANGED saved
    BY <1>1, <2>1, <2>3, SavedStays
  <2>4. ASSUME NEW v \in Revokes,
               chain' = [chain EXCEPT ![v] = [state |-> "sent", seq |-> 0, limit |-> saved.id]],
               saved' \in Records /\ saved'.id = saved.id /\ ~saved'.pending /\ saved'.registered,
               saved'.allowance = revoke.record.allowance /\ saved'.allowed = revoke.record.allowed
        PROVE  SavedSound'
    <3>1. chain'[v].limit = saved.id /\ chain'[v].state # "none"
      BY <2>4, <1>2, Named DEF TypedLedger
    <3>. QED
      BY <1>1, <2>1, <2>4, <3>1 DEF SavedSound, Sound
  <2>. QED
    BY <1>24, <2>2, <2>3, <2>4, SendRevokeWrites
<1>25. CASE AwaitRevoke
  BY <1>25, <1>1, AwaitRevokeWrites, RevokeHas DEF LogOut, SavedSound
<1>26. CASE StartFresh
  BY <1>26 DEF StartFresh, SavedSound
<1>27. CASE Disconnect
  BY <1>27 DEF Disconnect, LogOut, SavedSound
<1>28. CASE Reload
  BY <1>28, <1>1, SavedStays DEF Reload
<1>29. ASSUME NEW t \in Tx, Execute(t) PROVE SavedSound'
  BY <1>29, <1>1, SavedStays DEF Execute
<1>30. ASSUME NEW t \in Tx, Lapse(t) PROVE SavedSound'
  BY <1>30, <1>1, SavedStays DEF Lapse
<1>31. ASSUME NEW m \in Regs, Elapse(m) PROVE SavedSound'
  BY <1>31, <1>1, SavedStays DEF Elapse
<1>32. CASE OwnerMoves
  BY <1>32, <1>1, SavedStays DEF OwnerMoves
<1>. QED
  BY <1>10, <1>11, <1>12, <1>13, <1>14, <1>15, <1>16, <1>17, <1>18, <1>19, <1>20, <1>21, <1>22, <1>23, <1>24, <1>25, <1>26, <1>27, <1>28, <1>29, <1>30, <1>31, <1>32 DEF Next, Registering, Allowing, Revoking, World

LEMMA ActStays ==
  ASSUME Inv, UNCHANGED <<act, saved>>,
         \A m \in Regs : chain[m].state = "none" => chain'[m].state = "none"
  PROVE  ActCurrent'
BY Typed, Fields DEF Inv, Copies, ActCurrent

LEMMA ActKept ==
  ASSUME Inv, [Next]_vars
  PROVE  ActCurrent'
<1>. USE DEF ledger, store, page
<1>1. SavedSound /\ ActCurrent /\ ApproveCopies /\ RevokeCopies /\ KnownIsSo /\ Forward
  BY OnlyForward DEF Inv, Copies
<1>2. TypedLedger
  BY DEF Inv, TypeOK, TypedLedger
<1>10. CASE UNCHANGED vars
  BY <1>10, <1>1, <1>2, Named, ActStays DEF vars, TypedLedger, Mark, ActCurrent
<1>11. ASSUME NEW m \in Regs, Activate(m) PROVE ActCurrent'
  BY <1>11, ActivateWrites DEF ActCurrent
<1>12. CASE PrepareRegistration
  <2>1. \A x \in Activations, n \in 0 .. MaxSeq :
          [x EXCEPT !.step = "sign", !.seq = n].step = "sign" /\ [x EXCEPT !.step = "sign", !.seq = n].next = x.next
    BY Made
  <2>2. act \in Activations /\ UNCHANGED <<saved, chain>>
    BY <1>12, Typed DEF PrepareRegistration
  <2>3. \A n \in Observed : n < MaxSeq => n + 1 \in 0 .. MaxSeq
    BY Typed, Named DEF Observed
  <2>4. act' = None \/ \E n \in 0 .. MaxSeq : act' = [act EXCEPT !.step = "sign", !.seq = n]
    BY <1>12, <2>3 DEF PrepareRegistration
  <2>5. act' = None \/ (act'.step = "sign" /\ act'.next = act.next)
    BY <2>1, <2>2, <2>4, ZenonT(60)
  <2>. QED
    BY <1>1, <1>12, <2>2, <2>5 DEF PrepareRegistration, ActCurrent
<1>13. CASE SignRegistration
  BY <1>13, SignWrites DEF ActCurrent
<1>14. CASE SendRegistration
  <2>1. \A x \in Activations :
          [x EXCEPT !.step = "await"].step = "await" /\ [x EXCEPT !.step = "await"].next = x.next
    BY Made
  <2>2. act \in Activations /\ UNCHANGED saved
    BY <1>14, Typed DEF SendRegistration
  <2>3. act' = None \/ (act'.step = "await" /\ act'.next = act.next)
    BY <1>14, <2>1, <2>2 DEF SendRegistration
  <2>. QED
    BY <1>1, <1>14, <2>2, <2>3 DEF SendRegistration, ActCurrent
<1>15. CASE AwaitRegistration
  BY <1>15, AwaitWrites DEF ActCurrent
<1>16. CASE CheckRegistration
  BY <1>16, CheckWrites DEF ActCurrent
<1>17. CASE Refresh
  BY <1>17, <1>1, <1>2, Named, ActStays DEF Refresh, TypedLedger, Mark, ActCurrent
<1>18. CASE PrepareAllowance
  BY <1>18, <1>1, <1>2, Named, ActStays DEF PrepareAllowance, TypedLedger, Mark, ActCurrent
<1>19. CASE Approve
  BY <1>19, <1>1, <1>2, Named, ActStays DEF Approve, TypedLedger, Mark, ActCurrent
<1>20. CASE Retain
  BY <1>20, <1>1, RetainWrites DEF ActCurrent
<1>21. CASE SendAllowance
  BY <1>21, <1>1, SendAllowanceWrites DEF ActCurrent
<1>22. CASE CheckAllowance
  BY <1>22, <1>1, CheckAllowanceWrites DEF ActCurrent
<1>23. CASE Revoke
  BY <1>23, <1>1, <1>2, Named, ActStays DEF Revoke, TypedLedger, Mark, ActCurrent
<1>24. CASE SendRevoke
  BY <1>24, <1>1, SendRevokeWrites, RevokeHas DEF ActCurrent, LogOut
<1>25. CASE AwaitRevoke
  BY <1>25, <1>1, AwaitRevokeWrites, RevokeHas DEF ActCurrent, LogOut
<1>26. CASE StartFresh
  BY <1>26, <1>1, <1>2, Named, ActStays DEF StartFresh, TypedLedger, Mark, ActCurrent
<1>27. CASE Disconnect
  BY <1>27, <1>1, <1>2, Named, ActStays DEF Disconnect, LogOut, TypedLedger, Mark, ActCurrent
<1>28. CASE Reload
  BY <1>28, <1>1, <1>2, Named, ActStays DEF Reload, TypedLedger, Mark, ActCurrent
<1>29. ASSUME NEW t \in Tx, Execute(t) PROVE ActCurrent'
  BY <1>29, <1>1, <1>2, Named, ActStays DEF Execute, TypedLedger, Mark, ActCurrent
<1>30. ASSUME NEW t \in Tx, Lapse(t) PROVE ActCurrent'
  BY <1>30, <1>1, <1>2, Named, ActStays DEF Lapse, TypedLedger, Mark, ActCurrent
<1>31. ASSUME NEW m \in Regs, Elapse(m) PROVE ActCurrent'
  BY <1>31, <1>1, <1>2, Named, ActStays DEF Elapse, TypedLedger, Mark, ActCurrent
<1>32. CASE OwnerMoves
  BY <1>32, <1>1, <1>2, Named, ActStays DEF OwnerMoves, TypedLedger, Mark, ActCurrent
<1>. QED
  BY <1>10, <1>11, <1>12, <1>13, <1>14, <1>15, <1>16, <1>17, <1>18, <1>19, <1>20, <1>21, <1>22, <1>23, <1>24, <1>25, <1>26, <1>27, <1>28, <1>29, <1>30, <1>31, <1>32 DEF Next, Registering, Allowing, Revoking, World

LEMMA ApproveStays ==
  ASSUME Inv, Forward, UNCHANGED <<approve, prepared, saved>>
  PROVE  ApproveCopies'
<1>1. approve # None =>
        /\ saved # None /\ saved.id \in Regs /\ approve.record \in Records
        /\ Sound(approve.record, chain)
  BY Typed, Fields DEF Inv, Copies, ApproveCopies
<1>2. approve # None => Sound(approve.record, chain')
  BY <1>1, SoundKept
<1>3. \A m \in Regs : Revoked(m) => \E v \in Revokes : chain'[v].limit = m /\ chain'[v].state # "none"
  BY Named DEF Revoked, Forward
<1>. QED
  BY <1>1, <1>2, <1>3 DEF Inv, Copies, ApproveCopies, Revoked

LEMMA ApproveKept ==
  ASSUME Inv, [Next]_vars
  PROVE  ApproveCopies'
<1>. USE DEF ledger, store, page
<1>1. SavedSound /\ ActCurrent /\ ApproveCopies /\ RevokeCopies /\ KnownIsSo /\ Forward
  BY OnlyForward DEF Inv, Copies
<1>2. TypedLedger
  BY DEF Inv, TypeOK, TypedLedger
<1>10. CASE UNCHANGED vars
  BY <1>10, <1>1, ApproveStays DEF vars, ApproveCopies
<1>11. ASSUME NEW m \in Regs, Activate(m) PROVE ApproveCopies'
  BY <1>11, <1>1, ApproveStays DEF Activate, ApproveCopies
<1>12. CASE PrepareRegistration
  BY <1>12, <1>1, ApproveStays DEF PrepareRegistration, ApproveCopies
<1>13. CASE SignRegistration
  BY <1>13, <1>1, SignWrites DEF ApproveCopies
<1>14. CASE SendRegistration
  BY <1>14, <1>1, ApproveStays DEF SendRegistration, ApproveCopies
<1>15. CASE AwaitRegistration
  BY <1>15, <1>1, AwaitWrites DEF ApproveCopies
<1>16. CASE CheckRegistration
  BY <1>16, <1>1, CheckWrites DEF ApproveCopies
<1>17. CASE Refresh
  BY <1>17, <1>1, ApproveStays DEF Refresh, ApproveCopies
<1>18. CASE PrepareAllowance
  BY <1>18, <1>1, ApproveStays DEF PrepareAllowance, ApproveCopies
<1>19. CASE Approve
  <2>1. approve' = [step |-> "sign", record |-> saved] /\ UNCHANGED <<saved, chain, prepared>>
    BY <1>19 DEF Approve
  <2>2. /\ saved # None /\ saved.registered /\ saved.allowed = None /\ saved.allowance = None
        /\ prepared # None /\ prepared.limit = saved.id
    BY <1>19 DEF Approve, NeedsAllowance
  <2>. QED
    BY <1>1, <2>1, <2>2 DEF SavedSound, ApproveCopies
<1>20. CASE Retain
  <2>1. saved' # None => Sound(saved', chain')
    BY SavedSoundKept DEF SavedSound
  <2>. QED
    BY <1>20, <2>1, RetainWrites, Named DEF ApproveCopies
<1>21. CASE SendAllowance
  BY <1>21, <1>1, ApproveStays DEF SendAllowance, ApproveCopies
<1>22. CASE CheckAllowance
  BY <1>22, <1>1, ApproveStays DEF CheckAllowance, ApproveCopies
<1>23. CASE Revoke
  BY <1>23, <1>1, ApproveStays DEF Revoke, ApproveCopies
<1>24. CASE SendRevoke
  <2>1. /\ saved # None /\ saved.id \in Regs
        /\ approve # None => approve.record \in Records /\ Sound(approve.record, chain')
    BY <1>24, <1>1, SendRevokeWrites, RevokeHas, Typed, Fields, SoundKept DEF ApproveCopies
  <2>2. CASE LogOut
    BY <2>2 DEF LogOut, ApproveCopies
  <2>3. CASE UNCHANGED <<saved, approve, prepared>>
    BY <1>1, <2>3, ApproveStays
  <2>4. ASSUME NEW v \in Revokes, UNCHANGED <<approve, prepared>>,
               chain' = [chain EXCEPT ![v] = [state |-> "sent", seq |-> 0, limit |-> saved.id]],
               saved' \in Records /\ saved'.id = saved.id /\ saved'.registered
        PROVE  ApproveCopies'
    <3>1. chain'[v].limit = saved.id /\ chain'[v].state # "none"
      BY <2>4, <1>2, Named DEF TypedLedger
    <3>2. Revoked(saved.id)'
      BY <2>4, <3>1 DEF Revoked
    <3>. QED
      BY <1>1, <2>1, <2>4, <3>2, Named DEF ApproveCopies
  <2>5. UNCHANGED prepared \/ LogOut
    BY <1>24, SendRevokeWrites
  <2>. QED
    BY <1>24, <2>2, <2>3, <2>4, <2>5, SendRevokeWrites
<1>25. CASE AwaitRevoke
  <2>1. revoke # None /\ revoke.step = "await" /\ UNCHANGED chain
    BY <1>25, AwaitRevokeWrites
  <2>2. Revoked(saved.id) /\ saved # None
    BY <2>1, RevokeHas
  <2>3. CASE LogOut
    BY <2>3 DEF LogOut, ApproveCopies
  <2>4. CASE /\ UNCHANGED <<approve, prepared>>
             /\ saved' \in Records /\ saved'.id = saved.id /\ saved'.registered
    <3>1. Revoked(saved.id)'
      BY <2>1, <2>2, <2>4 DEF Revoked
    <3>. QED
      BY <1>1, <2>1, <2>2, <2>4, <3>1, Named DEF ApproveCopies
  <2>. QED
    BY <1>25, <2>3, <2>4, AwaitRevokeWrites
<1>26. CASE StartFresh
  BY <1>26, <1>1, ApproveStays DEF StartFresh, ApproveCopies
<1>27. CASE Disconnect
  BY <1>27, <1>1, ApproveStays DEF Disconnect, LogOut, ApproveCopies
<1>28. CASE Reload
  BY <1>28, <1>1, ApproveStays DEF Reload, ApproveCopies
<1>29. ASSUME NEW t \in Tx, Execute(t) PROVE ApproveCopies'
  BY <1>29, <1>1, ApproveStays DEF Execute, ApproveCopies
<1>30. ASSUME NEW t \in Tx, Lapse(t) PROVE ApproveCopies'
  BY <1>30, <1>1, ApproveStays DEF Lapse, ApproveCopies
<1>31. ASSUME NEW m \in Regs, Elapse(m) PROVE ApproveCopies'
  BY <1>31, <1>1, ApproveStays DEF Elapse, ApproveCopies
<1>32. CASE OwnerMoves
  BY <1>32, <1>1, ApproveStays DEF OwnerMoves, ApproveCopies
<1>. QED
  BY <1>10, <1>11, <1>12, <1>13, <1>14, <1>15, <1>16, <1>17, <1>18, <1>19, <1>20, <1>21, <1>22, <1>23, <1>24, <1>25, <1>26, <1>27, <1>28, <1>29, <1>30, <1>31, <1>32 DEF Next, Registering, Allowing, Revoking, World

LEMMA RevokeStays ==
  ASSUME Inv, Forward, UNCHANGED revoke,
         saved = None => saved' = None,
         saved # None /\ saved.registered => saved' # None /\ saved'.id = saved.id /\ saved'.registered
  PROVE  RevokeCopies'
<1>1. revoke # None =>
        /\ saved # None /\ saved.id \in Regs /\ revoke.record \in Records
        /\ Sound(revoke.record, chain)
  BY Typed, Fields DEF Inv, Copies, RevokeCopies
<1>2. revoke # None => Sound(revoke.record, chain')
  BY <1>1, SoundKept
<1>3. \A m \in Regs : Revoked(m) => \E v \in Revokes : chain'[v].limit = m /\ chain'[v].state # "none"
  BY Named DEF Revoked, Forward
<1>. QED
  BY <1>1, <1>2, <1>3 DEF Inv, Copies, RevokeCopies, Revoked

LEMMA RevokeKept ==
  ASSUME Inv, [Next]_vars
  PROVE  RevokeCopies'
<1>. USE DEF ledger, store, page
<1>1. SavedSound /\ ActCurrent /\ ApproveCopies /\ RevokeCopies /\ KnownIsSo /\ Forward
  BY OnlyForward DEF Inv, Copies
<1>2. TypedLedger
  BY DEF Inv, TypeOK, TypedLedger
<1>10. CASE UNCHANGED vars
  BY <1>10, <1>1, RevokeStays DEF vars, RevokeCopies
<1>11. ASSUME NEW m \in Regs, Activate(m) PROVE RevokeCopies'
  BY <1>11, <1>1, RevokeStays DEF Activate, RevokeCopies
<1>12. CASE PrepareRegistration
  BY <1>12, <1>1, RevokeStays DEF PrepareRegistration, RevokeCopies
<1>13. CASE SignRegistration
  BY <1>13, <1>1, SignWrites, Named, RevokeStays
<1>14. CASE SendRegistration
  BY <1>14, <1>1, RevokeStays DEF SendRegistration, RevokeCopies
<1>15. CASE AwaitRegistration
  BY <1>15, <1>1, AwaitWrites, Named, RevokeStays DEF Registered
<1>16. CASE CheckRegistration
  BY <1>16, <1>1, CheckWrites, Named, RevokeStays DEF Registered
<1>17. CASE Refresh
  BY <1>17, <1>1, RevokeStays DEF Refresh, RevokeCopies
<1>18. CASE PrepareAllowance
  BY <1>18, <1>1, RevokeStays DEF PrepareAllowance, RevokeCopies
<1>19. CASE Approve
  BY <1>19, <1>1, RevokeStays DEF Approve, RevokeCopies
<1>20. CASE Retain
  BY <1>20, <1>1, RetainWrites, Named, RevokeStays
<1>21. CASE SendAllowance
  BY <1>21, <1>1, SendAllowanceWrites, Named, RevokeStays
<1>22. CASE CheckAllowance
  BY <1>22, <1>1, CheckAllowanceWrites, Named, RevokeStays
<1>23. CASE Revoke
  <2>1. revoke' = [step |-> "look", record |-> saved] /\ UNCHANGED <<saved, chain>>
    BY <1>23 DEF Revoke
  <2>2. saved # None /\ saved.registered
    BY <1>23 DEF Revoke
  <2>. QED
    BY <1>1, <2>1, <2>2 DEF SavedSound, RevokeCopies
<1>24. CASE SendRevoke
  <2>1. /\ revoke # None /\ saved # None /\ saved.id \in Regs /\ saved.registered
        /\ revoke \in Revocations /\ revoke.record.id = saved.id /\ revoke.record \in Records
    BY <1>24, SendRevokeWrites, RevokeHas, Fields
  <2>2. CASE revoke' = None
    BY <2>2 DEF RevokeCopies
  <2>3. CASE /\ revoke' = [revoke EXCEPT !.step = "await"] /\ revoke.record.revocation # None
             /\ UNCHANGED <<chain, saved>>
    <3>1. revoke'.step = "await" /\ revoke'.record = revoke.record
      BY <2>1, <2>3, Made
    <3>2. Sound(revoke.record, chain)
      BY <2>1, RevokeHas
    <3>3. Revoked(saved.id)
      BY <2>1, <2>3, <3>2 DEF Sound, Revoked
    <3>4. Revoked(saved.id)'
      BY <2>3, <3>3 DEF Revoked
    <3>. QED
      BY <1>1, <2>1, <2>3, <3>1, <3>2, <3>4 DEF RevokeCopies
  <2>4. ASSUME NEW v \in Revokes, revoke' = [step |-> "await", record |-> saved'],
               chain' = [chain EXCEPT ![v] = [state |-> "sent", seq |-> 0, limit |-> saved.id]],
               saved' \in Records /\ saved'.id = saved.id /\ saved'.registered
        PROVE  RevokeCopies'
    <3>1. chain'[v].limit = saved.id /\ chain'[v].state # "none"
      BY <2>4, <1>2, Named DEF TypedLedger
    <3>2. Revoked(saved.id)'
      BY <2>4, <3>1 DEF Revoked
    <3>3. saved' # None /\ Sound(saved', chain')
      BY <2>4, SavedSoundKept, Named DEF SavedSound
    <3>. QED
      BY <2>4, <3>2, <3>3 DEF RevokeCopies
  <2>. QED
    BY <1>24, <2>2, <2>3, <2>4, SendRevokeWrites DEF LogOut
<1>25. CASE AwaitRevoke
  BY <1>25, <1>1, RevokeStays DEF AwaitRevoke, Off, LogOut, RevokeCopies
<1>26. CASE StartFresh
  BY <1>26, <1>1, RevokeStays DEF StartFresh, RevokeCopies
<1>27. CASE Disconnect
  BY <1>27, <1>1, RevokeStays DEF Disconnect, LogOut, RevokeCopies
<1>28. CASE Reload
  BY <1>28, <1>1, RevokeStays DEF Reload, RevokeCopies
<1>29. ASSUME NEW t \in Tx, Execute(t) PROVE RevokeCopies'
  BY <1>29, <1>1, RevokeStays DEF Execute, RevokeCopies
<1>30. ASSUME NEW t \in Tx, Lapse(t) PROVE RevokeCopies'
  BY <1>30, <1>1, RevokeStays DEF Lapse, RevokeCopies
<1>31. ASSUME NEW m \in Regs, Elapse(m) PROVE RevokeCopies'
  BY <1>31, <1>1, RevokeStays DEF Elapse, RevokeCopies
<1>32. CASE OwnerMoves
  BY <1>32, <1>1, RevokeStays DEF OwnerMoves, RevokeCopies
<1>. QED
  BY <1>10, <1>11, <1>12, <1>13, <1>14, <1>15, <1>16, <1>17, <1>18, <1>19, <1>20, <1>21, <1>22, <1>23, <1>24, <1>25, <1>26, <1>27, <1>28, <1>29, <1>30, <1>31, <1>32 DEF Next, Registering, Allowing, Revoking, World

LEMMA PreparedKept ==
  ASSUME Inv, [Next]_vars
  PROVE  PreparedAhead'
<1>. USE DEF ledger, store, page
<1>1. SavedSound /\ ActCurrent /\ ApproveCopies /\ RevokeCopies /\ KnownIsSo /\ Forward
  BY OnlyForward DEF Inv, Copies
<1>2. TypedLedger
  BY DEF Inv, TypeOK, TypedLedger
<1>10. CASE UNCHANGED vars
  BY <1>10, <1>1, <1>2, Named DEF vars, TypedLedger, Mark, Sign, Unsigned, PreparedAhead, Inv, Copies, ApproveCopies
<1>11. ASSUME NEW m \in Regs, Activate(m) PROVE PreparedAhead'
  BY <1>11, <1>1, <1>2, Named DEF Activate, TypedLedger, Mark, Sign, Unsigned, PreparedAhead, Inv, Copies, ApproveCopies
<1>12. CASE PrepareRegistration
  BY <1>12, <1>1, <1>2, Named DEF PrepareRegistration, TypedLedger, Mark, Sign, Unsigned, PreparedAhead, Inv, Copies, ApproveCopies
<1>13. CASE SignRegistration
  <2>1. UNCHANGED <<approve, prepared>>
    BY <1>13, SignWrites
  <2>2. \A a \in Allowances : chain'[a] = chain[a]
    <3>1. act.next.id \in Regs
      BY <1>13, SignPicks DEF SignRegistration
    <3>. QED
      BY <1>13, <1>2, <3>1, Named DEF SignRegistration, Sign, TypedLedger
  <2>. QED
    BY <2>1, <2>2 DEF Inv, Copies, PreparedAhead, Unsigned
<1>14. CASE SendRegistration
  BY <1>14, <1>1, <1>2, Named DEF SendRegistration, TypedLedger, Mark, Sign, Unsigned, PreparedAhead, Inv, Copies, ApproveCopies
<1>15. CASE AwaitRegistration
  BY <1>15, <1>1, <1>2, Named DEF AwaitRegistration, TypedLedger, Mark, Sign, Unsigned, PreparedAhead, Inv, Copies, ApproveCopies
<1>16. CASE CheckRegistration
  BY <1>16, <1>1, <1>2, Named DEF CheckRegistration, TypedLedger, Mark, Sign, Unsigned, PreparedAhead, Inv, Copies, ApproveCopies
<1>17. CASE Refresh
  BY <1>17, <1>1, <1>2, Named DEF Refresh, TypedLedger, Mark, Sign, Unsigned, PreparedAhead, Inv, Copies, ApproveCopies
<1>18. CASE PrepareAllowance
  BY <1>18, <1>1, <1>2, Named DEF PrepareAllowance, TypedLedger, Mark, Sign, Unsigned, PreparedAhead, Inv, Copies, ApproveCopies
<1>19. CASE Approve
  BY <1>19, <1>1, <1>2, Named DEF Approve, TypedLedger, Mark, Sign, Unsigned, PreparedAhead, Inv, Copies, ApproveCopies
<1>20. CASE Retain
  <2>1. saved' \in Records => [step |-> "send", record |-> saved'] \in Approvals
    BY Made
  <2>. QED
    BY <1>20, <2>1, RetainWrites, Named DEF PreparedAhead
<1>21. CASE SendAllowance
  BY <1>21, <1>1, <1>2, Named DEF SendAllowance, TypedLedger, Mark, Sign, Unsigned, PreparedAhead, Inv, Copies, ApproveCopies
<1>22. CASE CheckAllowance
  BY <1>22, <1>1, <1>2, Named DEF CheckAllowance, TypedLedger, Mark, Sign, Unsigned, PreparedAhead, Inv, Copies, ApproveCopies
<1>23. CASE Revoke
  BY <1>23, <1>1, <1>2, Named DEF Revoke, TypedLedger, Mark, Sign, Unsigned, PreparedAhead, Inv, Copies, ApproveCopies
<1>24. CASE SendRevoke
  BY <1>24, <1>1, <1>2, Named DEF SendRevoke, Off, LogOut, TypedLedger, Mark, Sign, Unsigned, PreparedAhead, Inv, Copies, ApproveCopies
<1>25. CASE AwaitRevoke
  BY <1>25, <1>1, <1>2, Named DEF AwaitRevoke, Off, LogOut, TypedLedger, Mark, Sign, Unsigned, PreparedAhead, Inv, Copies, ApproveCopies
<1>26. CASE StartFresh
  BY <1>26, <1>1, <1>2, Named DEF StartFresh, TypedLedger, Mark, Sign, Unsigned, PreparedAhead, Inv, Copies, ApproveCopies
<1>27. CASE Disconnect
  BY <1>27, <1>1, <1>2, Named DEF Disconnect, LogOut, TypedLedger, Mark, Sign, Unsigned, PreparedAhead, Inv, Copies, ApproveCopies
<1>28. CASE Reload
  BY <1>28, <1>1, <1>2, Named DEF Reload, TypedLedger, Mark, Sign, Unsigned, PreparedAhead, Inv, Copies, ApproveCopies
<1>29. ASSUME NEW t \in Tx, Execute(t) PROVE PreparedAhead'
  BY <1>29, <1>1, <1>2, Named DEF Execute, TypedLedger, Mark, Sign, Unsigned, PreparedAhead, Inv, Copies, ApproveCopies
<1>30. ASSUME NEW t \in Tx, Lapse(t) PROVE PreparedAhead'
  BY <1>30, <1>1, <1>2, Named DEF Lapse, TypedLedger, Mark, Sign, Unsigned, PreparedAhead, Inv, Copies, ApproveCopies
<1>31. ASSUME NEW m \in Regs, Elapse(m) PROVE PreparedAhead'
  BY <1>31, <1>1, <1>2, Named DEF Elapse, TypedLedger, Mark, Sign, Unsigned, PreparedAhead, Inv, Copies, ApproveCopies
<1>32. CASE OwnerMoves
  BY <1>32, <1>1, <1>2, Named DEF OwnerMoves, TypedLedger, Mark, Sign, Unsigned, PreparedAhead, Inv, Copies, ApproveCopies
<1>. QED
  BY <1>10, <1>11, <1>12, <1>13, <1>14, <1>15, <1>16, <1>17, <1>18, <1>19, <1>20, <1>21, <1>22, <1>23, <1>24, <1>25, <1>26, <1>27, <1>28, <1>29, <1>30, <1>31, <1>32 DEF Next, Registering, Allowing, Revoking, World

LEMMA KnownKept ==
  ASSUME Inv, [Next]_vars
  PROVE  KnownIsSo'
<1>. USE DEF ledger, store, page
<1>1. SavedSound /\ ActCurrent /\ ApproveCopies /\ RevokeCopies /\ KnownIsSo /\ Forward
  BY OnlyForward DEF Inv, Copies
<1>2. TypedLedger
  BY DEF Inv, TypeOK, TypedLedger
<1>10. CASE UNCHANGED vars
  BY <1>10, <1>1, Named, Typed DEF vars, KnownIsSo, View, ActCurrent
<1>11. ASSUME NEW m \in Regs, Activate(m) PROVE KnownIsSo'
  BY <1>11, <1>1, Named, Typed DEF Activate, KnownIsSo, View, ActCurrent
<1>12. CASE PrepareRegistration
  BY <1>12, <1>1, Named, Typed DEF PrepareRegistration, KnownIsSo, View, ActCurrent
<1>13. CASE SignRegistration
  BY <1>13, <1>1, SignWrites DEF KnownIsSo
<1>14. CASE SendRegistration
  BY <1>14, <1>1, Named, Typed DEF SendRegistration, KnownIsSo, View, ActCurrent
<1>15. CASE AwaitRegistration
  BY <1>15, <1>1, AwaitWrites, Named DEF KnownIsSo, View, Registered, AwaitRegistration
<1>16. CASE CheckRegistration
  BY <1>16, <1>1, CheckWrites, Named DEF KnownIsSo, View, Registered, CheckRegistration
<1>17. CASE Refresh
  BY <1>17, <1>1, Named, Typed DEF Refresh, KnownIsSo, View, ActCurrent
<1>18. CASE PrepareAllowance
  BY <1>18, <1>1, Named, Typed DEF PrepareAllowance, KnownIsSo, View, ActCurrent
<1>19. CASE Approve
  BY <1>19, <1>1, Named, Typed DEF Approve, KnownIsSo, View, ActCurrent
<1>20. CASE Retain
  BY <1>20, <1>1, RetainWrites, Named DEF KnownIsSo, Retain
<1>21. CASE SendAllowance
  BY <1>21, <1>1, SendAllowanceWrites, Named DEF KnownIsSo, SendAllowance
<1>22. CASE CheckAllowance
  BY <1>22, <1>1, CheckAllowanceWrites, Named DEF KnownIsSo, View, CheckAllowance
<1>23. CASE Revoke
  BY <1>23, <1>1, Named, Typed DEF Revoke, KnownIsSo, View, ActCurrent
<1>24. CASE SendRevoke
  <2>1. saved # None /\ saved.registered /\ UNCHANGED ended
    BY <1>24, SendRevokeWrites, RevokeHas DEF SendRevoke
  <2>. QED
    BY <1>24, <1>1, <2>1, SendRevokeWrites, Named DEF KnownIsSo, View, LogOut
<1>25. CASE AwaitRevoke
  <2>1. saved # None /\ saved.registered /\ UNCHANGED ended
    BY <1>25, AwaitRevokeWrites, RevokeHas DEF AwaitRevoke
  <2>. QED
    BY <1>25, <1>1, <2>1, AwaitRevokeWrites, Named DEF KnownIsSo, View, LogOut
<1>26. CASE StartFresh
  BY <1>26, <1>1, Named, Typed DEF StartFresh, KnownIsSo, View, ActCurrent
<1>27. CASE Disconnect
  BY <1>27, <1>1, Named, Typed DEF Disconnect, LogOut, KnownIsSo, View, ActCurrent
<1>28. CASE Reload
  BY <1>28, <1>1, Named, Typed DEF Reload, KnownIsSo, View, ActCurrent
<1>29. ASSUME NEW t \in Tx, Execute(t) PROVE KnownIsSo'
  BY <1>29, <1>1, Named, Typed DEF Execute, KnownIsSo, View, ActCurrent
<1>30. ASSUME NEW t \in Tx, Lapse(t) PROVE KnownIsSo'
  BY <1>30, <1>1, Named, Typed DEF Lapse, KnownIsSo, View, ActCurrent
<1>31. ASSUME NEW m \in Regs, Elapse(m) PROVE KnownIsSo'
  BY <1>31, <1>1, Named, Typed DEF Elapse, KnownIsSo, View, ActCurrent
<1>32. CASE OwnerMoves
  BY <1>32, <1>1, Named, Typed DEF OwnerMoves, KnownIsSo, View, ActCurrent
<1>. QED
  BY <1>10, <1>11, <1>12, <1>13, <1>14, <1>15, <1>16, <1>17, <1>18, <1>19, <1>20, <1>21, <1>22, <1>23, <1>24, <1>25, <1>26, <1>27, <1>28, <1>29, <1>30, <1>31, <1>32 DEF Next, Registering, Allowing, Revoking, World

-----------------------------------------------------------------------------
(* The types of the records and of the page.                               *)

LEMMA StoreStays ==
  ASSUME Inv, UNCHANGED <<history, dropped>>,
         saved' = saved \/ saved' = None \/ (saved' \in Records /\ ~(saved'.pending /\ saved'.registered))
  PROVE  TypedStore'
BY DEF Inv, TypeOK, TypedStore

LEMMA StoreTyped ==
  ASSUME Inv, [Next]_vars
  PROVE  TypedStore'
<1>. USE DEF ledger, store, page
<1>1. SavedSound /\ ActCurrent /\ ApproveCopies /\ RevokeCopies
  BY DEF Inv, Copies
<1>2. TypedStore /\ TypedPage
  BY DEF Inv, TypeOK, TypedStore, TypedPage
<1>10. CASE UNCHANGED vars
  BY <1>10, StoreStays DEF vars
<1>11. ASSUME NEW m \in Regs, Activate(m) PROVE TypedStore'
  BY <1>11, ActivateWrites, StoreStays
<1>12. CASE PrepareRegistration
  BY <1>12, StoreStays DEF PrepareRegistration
<1>13. CASE SignRegistration
  BY <1>13, SignWrites, StoreStays
<1>14. CASE SendRegistration
  BY <1>14, StoreStays DEF SendRegistration
<1>15. CASE AwaitRegistration
  BY <1>15, AwaitWrites, StoreStays DEF Registered
<1>16. CASE CheckRegistration
  BY <1>16, CheckWrites, StoreStays DEF Registered
<1>17. CASE Refresh
  BY <1>17, StoreStays DEF Refresh
<1>18. CASE PrepareAllowance
  BY <1>18, StoreStays DEF PrepareAllowance
<1>19. CASE Approve
  BY <1>19, StoreStays DEF Approve
<1>20. CASE Retain
  BY <1>20, RetainWrites, StoreStays
<1>21. CASE SendAllowance
  BY <1>21, SendAllowanceWrites, StoreStays
<1>22. CASE CheckAllowance
  BY <1>22, CheckAllowanceWrites, StoreStays
<1>23. CASE Revoke
  BY <1>23, StoreStays DEF Revoke
<1>24. CASE SendRevoke
  <2>1. UNCHANGED history
    BY <1>24, SendRevokeWrites
  <2>2. CASE LogOut
    BY <1>2, <2>1, <2>2, Typed, Fields DEF LogOut, TypedStore
  <2>. QED
    BY <1>24, <2>1, <2>2, SendRevokeWrites, StoreStays
<1>25. CASE AwaitRevoke
  <2>1. UNCHANGED history
    BY <1>25, AwaitRevokeWrites
  <2>2. CASE LogOut
    BY <1>2, <2>1, <2>2, Typed, Fields DEF LogOut, TypedStore
  <2>. QED
    BY <1>25, <2>1, <2>2, AwaitRevokeWrites, StoreStays
<1>26. CASE StartFresh
  BY <1>26, <1>2, Named, Typed DEF StartFresh, TypedStore
<1>27. CASE Disconnect
  BY <1>27, <1>2, Typed, Fields DEF Disconnect, LogOut, TypedStore
<1>28. CASE Reload
  BY <1>28, StoreStays DEF Reload
<1>29. ASSUME NEW t \in Tx, Execute(t) PROVE TypedStore'
  BY <1>29, StoreStays DEF Execute
<1>30. ASSUME NEW t \in Tx, Lapse(t) PROVE TypedStore'
  BY <1>30, StoreStays DEF Lapse
<1>31. ASSUME NEW m \in Regs, Elapse(m) PROVE TypedStore'
  BY <1>31, StoreStays DEF Elapse
<1>32. CASE OwnerMoves
  BY <1>32, StoreStays DEF OwnerMoves
<1>. QED
  BY <1>10, <1>11, <1>12, <1>13, <1>14, <1>15, <1>16, <1>17, <1>18, <1>19, <1>20, <1>21, <1>22, <1>23, <1>24, <1>25, <1>26, <1>27, <1>28, <1>29, <1>30, <1>31, <1>32 DEF Next, Registering, Allowing, Revoking, World

LEMMA PageTyped ==
  ASSUME Inv, [Next]_vars
  PROVE  TypedPage'
<1>. USE DEF ledger, store, page
<1>1. SavedSound /\ ActCurrent /\ ApproveCopies /\ RevokeCopies
  BY DEF Inv, Copies
<1>2. TypedStore /\ TypedPage
  BY DEF Inv, TypeOK, TypedStore, TypedPage
<1>10. CASE UNCHANGED vars
  BY <1>10, <1>2 DEF vars, TypedPage, View
<1>11. ASSUME NEW m \in Regs, Activate(m) PROVE TypedPage'
  <2>1. [step |-> "prepare", next |-> saved', seq |-> 0] \in Activations
    BY <1>11, ActivateWrites, Made
  <2>. QED
    BY <1>11, <1>2, <2>1, ActivateWrites DEF TypedPage
<1>12. CASE PrepareRegistration
  <2>1. act \in Activations
    BY <1>12, Typed DEF PrepareRegistration
  <2>2. \A n \in Observed : n < MaxSeq => n + 1 \in 0 .. MaxSeq
    BY Typed, Named DEF Observed
  <2>3. \A n \in 0 .. MaxSeq : [act EXCEPT !.step = "sign", !.seq = n] \in Activations
    BY <2>1, Made
  <2>4. act' \in Activations \cup {None}
    BY <1>12, <2>2, <2>3 DEF PrepareRegistration
  <2>. QED
    BY <1>12, <1>2, <2>4 DEF PrepareRegistration, TypedPage
<1>13. CASE SignRegistration
  BY <1>13, <1>2, SignWrites, Made DEF TypedPage
<1>14. CASE SendRegistration
  <2>1. act \in Activations
    BY <1>14, Typed DEF SendRegistration
  <2>2. [act EXCEPT !.step = "await"] \in Activations
    BY <2>1, Made
  <2>. QED
    BY <1>14, <1>2, <2>2 DEF SendRegistration, TypedPage
<1>15. CASE AwaitRegistration
  BY <1>15, <1>2, AwaitWrites DEF TypedPage, Registered, View
<1>16. CASE CheckRegistration
  BY <1>16, <1>2, CheckWrites DEF TypedPage, Registered, View
<1>17. CASE Refresh
  BY <1>17, <1>2 DEF Refresh, TypedPage, View
<1>18. CASE PrepareAllowance
  <2>1. saved \in Records /\ saved.id \in Regs
    BY <1>18, Typed, Fields DEF PrepareAllowance, NeedsAllowance
  <2>2. chain[saved.id].seq \in 0 .. MaxSeq
    BY <2>1, Named DEF Inv, TypeOK
  <2>3. PICK n \in Observed : /\ SelectSequence(n, saved.id) + 1 <= MaxSeq
                              /\ prepared' = [seq |-> SelectSequence(n, saved.id) + 1, limit |-> saved.id]
    BY <1>18 DEF PrepareAllowance
  <2>4. n \in Nat /\ SelectSequence(n, saved.id) \in Nat
    BY <2>2, Named, Typed DEF Observed, SelectSequence
  <2>5. SelectSequence(n, saved.id) + 1 \in 1 .. MaxSeq
    BY <2>3, <2>4, Named
  <2>6. prepared' \in Preparations
    BY <2>1, <2>3, <2>5, Made
  <2>. QED
    BY <1>18, <1>2, <2>6 DEF PrepareAllowance, TypedPage
<1>19. CASE Approve
  BY <1>19, <1>2, Typed, Made DEF Approve, NeedsAllowance, TypedPage
<1>20. CASE Retain
  BY <1>20, <1>2, RetainWrites, Made DEF TypedPage
<1>21. CASE SendAllowance
  BY <1>21, <1>2, SendAllowanceWrites DEF TypedPage
<1>22. CASE CheckAllowance
  BY <1>22, <1>2, CheckAllowanceWrites DEF TypedPage, View
<1>23. CASE Revoke
  BY <1>23, <1>2, Typed, Made DEF Revoke, TypedPage
<1>24. CASE SendRevoke
  <2>1. revoke \in Revocations /\ [revoke EXCEPT !.step = "await"] \in Revocations
    BY <1>24, SendRevokeWrites, RevokeHas, Made
  <2>2. UNCHANGED prepared \/ LogOut
    BY <1>24, SendRevokeWrites
  <2>. QED
    BY <1>24, <1>2, <2>1, <2>2, SendRevokeWrites, Made, ZenonT(60) DEF TypedPage, View, LogOut
<1>25. CASE AwaitRevoke
  BY <1>25, <1>2, AwaitRevokeWrites DEF TypedPage, View, LogOut
<1>26. CASE StartFresh
  BY <1>26, <1>2 DEF StartFresh, TypedPage, View
<1>27. CASE Disconnect
  BY <1>27, <1>2 DEF Disconnect, LogOut, TypedPage, View
<1>28. CASE Reload
  BY <1>28, <1>2 DEF Reload, TypedPage, View
<1>29. ASSUME NEW t \in Tx, Execute(t) PROVE TypedPage'
  BY <1>29, <1>2 DEF Execute, TypedPage, View
<1>30. ASSUME NEW t \in Tx, Lapse(t) PROVE TypedPage'
  BY <1>30, <1>2 DEF Lapse, TypedPage, View
<1>31. ASSUME NEW m \in Regs, Elapse(m) PROVE TypedPage'
  BY <1>31, <1>2 DEF Elapse, TypedPage, View
<1>32. CASE OwnerMoves
  BY <1>32, <1>2 DEF OwnerMoves, TypedPage, View
<1>. QED
  BY <1>10, <1>11, <1>12, <1>13, <1>14, <1>15, <1>16, <1>17, <1>18, <1>19, <1>20, <1>21, <1>22, <1>23, <1>24, <1>25, <1>26, <1>27, <1>28, <1>29, <1>30, <1>31, <1>32 DEF Next, Registering, Allowing, Revoking, World

-----------------------------------------------------------------------------
(* What follows.                                                           *)

LEMMA Inductive ==
  Spec => []Inv
<1>1. Init => Inv
  BY InitInv
<1>2. ASSUME Inv, [Next]_vars PROVE Inv'
  <2>1. TypeOK'
    BY <1>2, LedgerTyped, StoreTyped, PageTyped DEF TypeOK, TypedLedger, TypedStore, TypedPage
  <2>2. Copies'
    BY <1>2, SavedSoundKept, ActKept, ApproveKept, RevokeKept, PreparedKept, KnownKept DEF Copies
  <2>3. Current' /\ Covered'
    BY <1>2, CoveredKept
  <2>. QED
    BY <2>1, <2>2, <2>3 DEF Inv
<1>. QED
  BY <1>1, <1>2, PTL DEF Spec

\* The records, what the page works on and the ledger have their types.
THEOREM TypeCorrectness ==
  Spec => []TypeOK
<1>1. Inv => TypeOK
  BY DEF Inv
<1>. QED
  BY <1>1, Inductive, PTL

\* However answers are lost and pages reloaded, the page signs no second limit
\* beside one that may still be registered or spent, no second allowance of a
\* limit, and none with a sequence number its registration has used.
THEOREM OneAtATime ==
  Spec => []NothingSignedTwice
<1>1. ASSUME Inv PROVE NothingSignedTwice
  <2>1. ASSUME NEW m \in Regs \ dropped, NEW n \in Regs \ dropped, m # n, Live(m), Live(n)
        PROVE  FALSE
    BY <1>1, <2>1 DEF Inv, Current
  <2>2. ASSUME NEW a \in Allowances, NEW b \in Allowances, a # b, chain[a].limit = chain[b].limit,
               chain[a].limit # None, ~Revoked(chain[a].limit),
               {chain[a].state, chain[b].state} \subseteq {"signed", "sent", "landed"}
        PROVE  FALSE
    BY <1>1, <2>2 DEF Inv, Covered, Out
  <2>3. \A a \in Allowances :
          chain[a].state # "none" => chain[a].seq > chain[chain[a].limit].seq
    BY <1>1 DEF Inv, Covered
  <2>. QED
    BY <2>1, <2>2, <2>3 DEF NothingSignedTwice
<1>. QED
  BY <1>1, Inductive, PTL

\* What was sent is on record, in the current setup or in the archive.
THEOREM NothingForgotten ==
  Spec => []SentIsOnRecord
<1>1. ASSUME Inv PROVE SentIsOnRecord
  <2>1. \A m \in Regs \ dropped : chain[m].state \in {"sent", "landed"} => Naming(m) # {}
    BY <1>1 DEF Inv, Current, Out
  <2>2. ASSUME NEW a \in Allowances, chain[a].state \in {"sent", "landed"},
               chain[a].limit \notin dropped, ~Revoked(chain[a].limit)
        PROVE  \E r \in Naming(chain[a].limit) : a \in {r.allowance, r.allowed}
    BY <1>1, <2>2 DEF Inv, Covered, Out
  <2>. QED
    BY <2>1, <2>2 DEF SentIsOnRecord
<1>. QED
  BY <1>1, Inductive, PTL
=============================================================================
