------------------------------ MODULE MandateSetup ------------------------------
(***************************************************************************)
(* How a browser sets up a spending limit: the user signs a registration,  *)
(* then an allowance whose account sequence number follows it, or both in  *)
(* one transaction; later the user may turn spending off, archive an old   *)
(* limit for a new one, or disconnect.  Answers get lost, the page may be  *)
(* reloaded at any moment, and only the record in the browser's storage    *)
(* says what was signed.  (src/components/wallet/WalletChatApp.tsx and     *)
(* src/lib/wallet/mandate-client.ts, registration-recovery.ts,             *)
(* allowance-sequence.ts, client-readiness.ts.)                            *)
(*                                                                         *)
(* A limit is named by the transaction that registers it.  One tab: a tab  *)
(* reads the storage only when it loads.  One clock: the browser's agrees  *)
(* with the ledger's about what has expired.                               *)
(***************************************************************************)
EXTENDS Integers, FiniteSets

CONSTANTS
  Regs,        \* registrations the user may sign, each of a limit of its own
  Allowances,  \* USDC approvals
  Revokes,     \* transactions that turn spending off
  None,
  MaxSeq,      \* bound: account sequence numbers used
  MaxMoves,    \* bound: transactions of the owner elsewhere
  MaxLag,      \* bound: how far the account index may be behind
  MaxDrops     \* bound: with so many records removed, nothing new is set up

Tx == Regs \cup Allowances \cup Revokes

ASSUME SetupAssumption ==
  /\ Regs \cap Allowances = {} /\ Regs \cap Revokes = {} /\ Allowances \cap Revokes = {}
  /\ None \notin Tx \cup {"Active", "Ended"}
  /\ MaxSeq \in Nat /\ MaxMoves \in Nat /\ MaxLag \in Nat /\ MaxDrops \in Nat

Records ==
  [id : Regs,
   state : {"not-submitted", "pending", "failed"},  \* registrationState
   pending : BOOLEAN,                               \* pendingRegistration
   registered : BOOLEAN,                            \* registrationTx
   attempts : SUBSET Regs,                          \* registrationAttempts
   allowance : Allowances \cup {None},              \* pendingAllowance
   allowed : Tx \cup {None},                        \* allowanceTx
   revocation : Revokes \cup {None}]                \* pendingRevokeTx, revokeTx

\* What the page works on: activate, prepareAllowance, retryAllowance, revoke.
Activations == [step : {"prepare", "sign", "send", "await"}, next : Records, seq : 0 .. MaxSeq]
Preparations == [seq : 1 .. MaxSeq, limit : Regs]
Approvals == [step : {"sign", "send"}, record : Records]
Revocations == [step : {"look", "await"}, record : Records]

ASSUME NoneAssumption ==
  None \notin Records \cup Activations \cup Preparations \cup Approvals \cup Revocations

VARIABLES
  combined,    \* config.setup: one contract call registers and approves
  account,     \* sequence number of the wallet's account
  chain,       \* each transaction: where it is, its sequence number, its limit
  over,        \* limits whose expiry has passed
  ended,       \* limits revoked (an exhausted one is as good as over)
  saved,       \* the stored mandate, in the page and in localStorage
  history,     \* the archived records, in localStorage
  act,         \* activate() under way
  prepared,    \* the sequence number and limit of the allowance prepared for signing
  approve,     \* retryAllowance() under way
  revoke,      \* revoke() under way
  known,       \* the page's copy of the limit's status
  dropped      \* history variable: limits whose record a disconnection removed

ledger == <<account, chain, over, ended>>
store == <<saved, history, dropped>>
page == <<act, prepared, approve, revoke, known>>
vars == <<combined, ledger, store, page>>

Init ==
  /\ combined \in BOOLEAN
  /\ account = 0
  /\ chain = [t \in Tx |-> [state |-> "none", seq |-> 0, limit |-> IF t \in Regs THEN t ELSE None]]
  /\ over = {} /\ ended = {}
  /\ saved = None /\ history = {} /\ dropped = {}
  /\ act = None /\ prepared = None /\ approve = None /\ revoke = None
  /\ known = None

NeedsReconciliation(r) ==
  r # None /\ (r.pending \/ (~r.registered /\ r.state = "pending"))

\* The account's sequence number as Horizon's index has it.
Observed == {n \in 0 .. account : account - n <= MaxLag}

Active(m) == chain[m].state = "landed" /\ m \notin over \cup ended

\* mandateOnline: the page believes that the limit can be spent.
KnownActive == saved # None /\ known = "Active" /\ saved.id \notin over

\* What the page is told of a limit.
View(m) == IF m \in ended THEN "Ended" ELSE "Active"

Mark(t, state) == chain' = [chain EXCEPT ![t].state = state]
Sign(t, seq, m) == chain' = [chain EXCEPT ![t] = [state |-> "signed", seq |-> seq, limit |-> m]]

Unsigned(S) == {t \in S : chain[t].state = "none"}

\* Mutant: expired by the local clock, whatever the ledger may still do.
ConfirmationByClock(t) ==
  IF chain[t].state \in {"signed", "sent"} THEN "expired"
  ELSE IF chain[t].state = "landed" THEN "confirmed" ELSE chain[t].state

\* What the RPC node says of a transaction.  It is declared expired only when
\* the node remembers back to its submission and has closed a ledger after its
\* time bound.  A node that no longer remembers gives no answer.
Confirmation(t) ==
  CASE chain[t].state = "landed" -> "confirmed"
    [] chain[t].state \in {"failed", "expired"} -> chain[t].state
    [] OTHER -> "pending"

\* An allowance whose sequence number its own registration took cannot execute.
ReadAllowance(a) ==
  IF Confirmation(a) = "pending" /\ chain[a].seq = chain[chain[a].limit].seq
    THEN "failed" ELSE Confirmation(a)

-------------------------------------------------------------------------------
(* The ledger, the clock and the node *)

\* A transaction executes only with the account's next sequence number, which a
\* revocation is always built for.
Execute(t) ==
  /\ chain[t].state = "sent" /\ account < MaxSeq
  /\ t \in Revokes \/ chain[t].seq = account + 1
  /\ account' = account + 1
  /\ \/ /\ Mark(t, "landed")
        /\ ended' = IF t \in Revokes THEN ended \cup {chain[t].limit} ELSE ended
     \/ Mark(t, "failed") /\ UNCHANGED ended
  /\ UNCHANGED <<combined, over, store, page>>

\* The time bound of a signed transaction passes.  A revocation's makes no
\* difference to the page, which waits for it or for its failure.
Lapse(t) ==
  /\ t \notin Revokes
  /\ chain[t].state \in {"signed", "sent"}
  /\ Mark(t, "expired")
  /\ UNCHANGED <<combined, account, over, ended, store, page>>

\* The owner uses the account elsewhere.
OwnerMoves ==
  /\ account < MaxSeq
  /\ account - Cardinality({t \in Tx : chain[t].state \in {"landed", "failed"}}) < MaxMoves
  /\ account' = account + 1
  /\ UNCHANGED <<combined, chain, over, ended, store, page>>

\* The expiry of the limit on record passes, long after the time bound of its
\* registration: a limit lasts thirty minutes at least.
Elapse(m) ==
  /\ saved # None /\ saved.id = m /\ m \notin over
  /\ chain[m].state \notin {"signed", "sent"}
  /\ over' = over \cup {m}
  /\ UNCHANGED <<combined, account, chain, ended, store, page>>

-------------------------------------------------------------------------------
(* activate *)

Empty(m) ==
  [id |-> m, state |-> "not-submitted", pending |-> FALSE, registered |-> FALSE,
   attempts |-> {}, allowance |-> None, allowed |-> None, revocation |-> None]

\* Mutant: the receipt stays pending beside the result.
ConfirmedPending(r) == [r EXCEPT !.registered = TRUE, !.attempts = @ \cup {r.id}]

\* The record of a confirmed registration; a combined one is its own allowance.
Confirmed(r) ==
  [r EXCEPT !.registered = TRUE, !.pending = FALSE, !.attempts = r.attempts \cup {r.id},
            !.allowed = IF combined THEN r.id ELSE r.allowed]

\* Nothing that may still execute, no registered limit, no limit known as active.
Activate(m) ==
  /\ act = None
  /\ Cardinality(dropped) < MaxDrops
  /\ ~NeedsReconciliation(saved)
  /\ saved # None => ~saved.registered
  /\ ~KnownActive
  /\ LET fresh == Unsigned(Regs) \ (over \cup {r.id : r \in history}) IN
     fresh # {} /\ m = CHOOSE x \in fresh : TRUE
  /\ LET next == [Empty(m) EXCEPT !.attempts = IF saved = None THEN {} ELSE saved.attempts] IN
     /\ saved' = next
     /\ act' = [step |-> "prepare", next |-> next, seq |-> 0]
  /\ UNCHANGED <<combined, ledger, history, dropped, prepared, approve, revoke, known>>

\* The registration is built and simulated, or cannot be.
PrepareRegistration ==
  /\ act # None /\ act.step = "prepare"
  /\ \/ \E n \in Observed : n < MaxSeq /\ act' = [act EXCEPT !.step = "sign", !.seq = n + 1]
     \/ act' = None
  /\ UNCHANGED <<combined, ledger, store, prepared, approve, revoke, known>>

\* The signed envelope is stored before anything is sent, unless the page has
\* turned to something else.  A refused signature or a failed save ends in a
\* record that says so, if that can be stored.
SignRegistration ==
  /\ act # None /\ act.step = "sign"
  /\ \/ LET next == [act.next EXCEPT !.state = "pending", !.pending = TRUE] IN
        /\ saved # None /\ saved.id = next.id
        /\ Sign(next.id, act.seq, next.id)
        /\ saved' = next
        /\ act' = [step |-> "send", next |-> next, seq |-> 0]
     \/ /\ saved' \in {act.next, saved}
        /\ act' = None
        /\ UNCHANGED chain
  /\ UNCHANGED <<combined, account, over, ended, history, dropped, prepared, approve, revoke, known>>

\* The submission reaches the network or not, and its answer the page or not.
SendRegistration ==
  /\ act # None /\ act.step = "send"
  /\ \/ /\ chain[act.next.id].state = "signed"
        /\ Mark(act.next.id, "sent")
        /\ act' \in {None, [act EXCEPT !.step = "await"]}
     \/ act' = None /\ UNCHANGED chain
  /\ UNCHANGED <<combined, account, over, ended, store, prepared, approve, revoke, known>>

\* The page polls the transaction it sent; a failure or a timeout leaves the
\* record to the observer.
AwaitRegistration ==
  /\ act # None /\ act.step = "await"
  /\ \/ /\ Confirmation(act.next.id) = "confirmed"
        /\ saved' = Confirmed(act.next)
        /\ known' \in {known, View(act.next.id)}
     \/ UNCHANGED <<saved, known>>
  /\ act' = None
  /\ UNCHANGED <<combined, ledger, history, dropped, prepared, approve, revoke>>

\* Mutant: only a failure on the ledger ends a registration.
CheckRegistrationLanded ==
  /\ act = None /\ saved # None /\ saved.pending
  /\ LET status == Confirmation(saved.id) IN
     \/ /\ status = "confirmed"
        /\ saved' = Confirmed(saved)
     \/ /\ status = "failed"
        /\ saved' = [saved EXCEPT !.state = "failed", !.pending = FALSE, !.attempts = @ \cup {saved.id}]
  /\ known' = None
  /\ UNCHANGED <<combined, ledger, history, dropped, act, prepared, approve, revoke>>

\* The registration observer reads the receipt of the stored record and nothing
\* else; an outage or an undecided answer changes nothing.
CheckRegistration ==
  /\ act = None /\ saved # None /\ saved.pending
  /\ LET status == Confirmation(saved.id) IN
     \/ /\ status = "confirmed"
        /\ saved' = Confirmed(saved)
        /\ known' = View(saved.id)
     \/ /\ status \in {"failed", "expired"}
        /\ saved' = [saved EXCEPT !.state = "failed", !.pending = FALSE, !.attempts = @ \cup {saved.id}]
        /\ UNCHANGED known
  /\ UNCHANGED <<combined, ledger, history, dropped, act, prepared, approve, revoke>>

\* refreshMandate: the status of a registered limit is read again.
Refresh ==
  /\ saved # None /\ saved.registered
  /\ known' = View(saved.id)
  /\ UNCHANGED <<combined, ledger, store, act, prepared, approve, revoke>>

-------------------------------------------------------------------------------
(* The allowance *)

\* A lagging index cannot lower the sequence number the registration took.
SelectSequence(observed, m) ==
  IF observed > chain[m].seq THEN observed ELSE chain[m].seq

NeedsAllowance(r) ==
  /\ r # None /\ r.registered
  /\ r.allowed = None /\ r.allowance = None
  /\ r.id \notin over

\* In the background or on a click; validateAllowanceSequence checks the result.
PrepareAllowance ==
  /\ NeedsAllowance(saved) /\ approve = None
  /\ Unsigned(Allowances) # {}
  /\ \E n \in Observed :
       LET seq == SelectSequence(n, saved.id) + 1 IN
       /\ seq <= MaxSeq
       /\ prepared' = [seq |-> seq, limit |-> saved.id]
  /\ UNCHANGED <<combined, ledger, store, act, approve, revoke, known>>

\* The click that opens the wallet works on a copy of the record.
Approve ==
  /\ NeedsAllowance(saved) /\ approve = None
  /\ prepared # None /\ prepared.limit = saved.id
  /\ approve' = [step |-> "sign", record |-> saved]
  /\ UNCHANGED <<combined, ledger, store, act, prepared, revoke, known>>

\* Mutant: the transaction is sent unrecorded.
RetainUnsaved ==
  /\ approve # None /\ approve.step = "sign"
  /\ LET a == CHOOSE x \in Unsigned(Allowances) : TRUE IN
     /\ Sign(a, prepared.seq, prepared.limit)
     /\ approve' = [step |-> "send", record |-> [approve.record EXCEPT !.allowance = a]]
  /\ UNCHANGED <<combined, account, over, ended, store, act, prepared, revoke, known>>

\* After the signature the sequence number is checked once more and the exact
\* transaction stored; else nothing is sent.
Retain ==
  /\ approve # None /\ approve.step = "sign"
  /\ \/ \E n \in Observed :
          LET a == CHOOSE x \in Unsigned(Allowances) : TRUE
              kept == [approve.record EXCEPT !.allowance = a] IN
          /\ prepared.seq = SelectSequence(n, approve.record.id) + 1
          /\ Sign(a, prepared.seq, prepared.limit)
          /\ saved' = kept
          /\ approve' = [step |-> "send", record |-> kept]
          /\ UNCHANGED prepared
     \/ /\ approve' = None /\ prepared' = None
        /\ UNCHANGED <<saved, chain>>
  /\ UNCHANGED <<combined, account, over, ended, history, dropped, act, revoke, known>>

\* Sent, answered or not; or rejected, which is noted in the record and decides
\* nothing.
SendAllowance ==
  /\ approve # None /\ approve.step = "send"
  /\ LET a == approve.record.allowance IN
     \/ chain[a].state = "signed" /\ Mark(a, "sent") /\ UNCHANGED saved
     \/ UNCHANGED chain /\ saved' \in {saved, approve.record}
  /\ approve' = None /\ prepared' = None
  /\ UNCHANGED <<combined, account, over, ended, history, dropped, act, revoke, known>>

\* The allowance observer, which keeps out of the way of a revocation.
CheckAllowance ==
  /\ saved # None /\ saved.allowance # None
  /\ approve = None /\ revoke = None
  /\ LET status == ReadAllowance(saved.allowance) IN
     \/ /\ status = "confirmed"
        /\ saved' = [saved EXCEPT !.allowed = saved.allowance, !.allowance = None]
        /\ known' = View(saved.id)
     \/ /\ status \in {"failed", "expired"}
        /\ saved' = [saved EXCEPT !.allowance = None]
        /\ UNCHANGED known
  /\ prepared' = None
  /\ UNCHANGED <<combined, ledger, history, dropped, act, approve, revoke>>

-------------------------------------------------------------------------------
(* revoke *)

\* Offered for a limit the page knows as active; from the dialog the wallet is
\* disconnected afterwards.  The revocation, too, works on a copy of the record.
Revoke ==
  /\ saved # None /\ saved.registered
  /\ known = "Active"
  /\ revoke = None
  /\ revoke' = [step |-> "look", record |-> saved]
  /\ UNCHANGED <<combined, ledger, store, act, prepared, approve, known>>

\* The server ends the session, the record is removed and the page reloaded; what
\* the page does while the server is asked is lost with it.
LogOut ==
  /\ saved' = None
  /\ dropped' = IF saved = None THEN dropped ELSE dropped \cup {saved.id}
  /\ act' = None /\ prepared' = None /\ approve' = None /\ revoke' = None /\ known' = None

\* Spending is confirmed off: nothing is left to do, or the disconnection.
Off(records) ==
  \/ /\ revoke' = None /\ known' = View(revoke.record.id)
     /\ UNCHANGED <<dropped, act, prepared, approve>>
     /\ saved' \in records
  \/ act = None /\ LogOut

\* The limit is read first.  A stored revocation is only awaited; without one a
\* transaction is built, signed and sent, and the record names it when the
\* network has answered.
SendRevoke ==
  /\ revoke # None /\ revoke.step = "look"
  /\ \/ revoke.record.id \in ended /\ Off({saved}) /\ UNCHANGED chain
     \/ /\ revoke.record.id \notin ended
        /\ \/ /\ revoke.record.revocation # None
              /\ revoke' = [revoke EXCEPT !.step = "await"]
              /\ UNCHANGED <<chain, saved>>
           \/ \E v \in Unsigned(Revokes) :
                LET named == [revoke.record EXCEPT !.revocation = v] IN
                /\ revoke.record.revocation = None
                /\ chain' = [chain EXCEPT ![v] = [state |-> "sent", seq |-> 0, limit |-> revoke.record.id]]
                /\ \/ saved' = named /\ revoke' = [step |-> "await", record |-> named]
                   \/ revoke' = None /\ UNCHANGED saved
           \/ revoke' = None /\ UNCHANGED <<chain, saved>>
        /\ UNCHANGED <<dropped, act, prepared, approve, known>>
  /\ UNCHANGED <<combined, account, over, ended, history>>

\* Only a failure on the ledger clears the way for another revocation.
AwaitRevoke ==
  /\ revoke # None /\ revoke.step = "await"
  /\ \/ revoke.record.id \in ended /\ Off({saved, revoke.record})
     \/ /\ \/ /\ Confirmation(revoke.record.revocation) = "failed"
              /\ saved' = [revoke.record EXCEPT !.revocation = None]
           \/ UNCHANGED saved
        /\ revoke' = None
        /\ UNCHANGED <<dropped, act, prepared, approve, known>>
  /\ UNCHANGED <<combined, ledger, history>>

-------------------------------------------------------------------------------
(* A new limit, disconnecting, reloading *)

\* A limit that is over or known to have ended, with nothing undecided, makes
\* room for a new one; its record is archived before it is removed.
StartFresh ==
  /\ saved # None /\ act = None /\ approve = None /\ revoke = None
  /\ ~NeedsReconciliation(saved)
  /\ saved.allowance = None
  /\ saved.id \in over \/ known = "Ended"
  /\ history' = {r \in history : r.id # saved.id} \cup {saved}
  /\ saved' = None
  /\ known' = None /\ prepared' = None
  /\ UNCHANGED <<combined, ledger, dropped, act, approve, revoke>>

\* Refused while a registration is undecided or the limit known to be active.
Disconnect ==
  /\ act = None
  /\ ~NeedsReconciliation(saved)
  /\ ~KnownActive
  /\ LogOut
  /\ UNCHANGED <<combined, ledger, history>>

\* Reload, crash, or a wallet that no longer matches the session.  The record that
\* is loaded again is one that this release wrote, so it is kept.
Reload ==
  /\ act' = None /\ prepared' = None /\ approve' = None /\ revoke' = None /\ known' = None
  /\ UNCHANGED <<combined, ledger, store>>

-------------------------------------------------------------------------------
Registering ==
  \/ \E m \in Regs : Activate(m)
  \/ PrepareRegistration \/ SignRegistration \/ SendRegistration \/ AwaitRegistration
  \/ CheckRegistration \/ Refresh

Allowing == PrepareAllowance \/ Approve \/ Retain \/ SendAllowance \/ CheckAllowance

Revoking == Revoke \/ SendRevoke \/ AwaitRevoke

World ==
  \/ \E t \in Tx : Execute(t) \/ Lapse(t)
  \/ \E m \in Regs : Elapse(m)
  \/ OwnerMoves

Next == Registering \/ Allowing \/ Revoking \/ StartFresh \/ Disconnect \/ Reload \/ World

Spec == Init /\ [][Next]_vars

\* The page runs what it began and every request ends; time bounds pass; the page
\* is open and the user has it check again, whatever else the user does between.
Fairness ==
  /\ WF_vars(PrepareRegistration \/ SignRegistration \/ SendRegistration \/ AwaitRegistration)
  /\ WF_vars(Retain \/ SendAllowance)
  /\ WF_vars(SendRevoke \/ AwaitRevoke)
  /\ WF_vars(CheckRegistration)
  /\ SF_vars(CheckAllowance)
  /\ \A t \in Regs \cup Allowances : WF_vars(Lapse(t))

FairSpec == Spec /\ Fairness

-------------------------------------------------------------------------------
(* What the set-up promises *)

TypeOK ==
  /\ account \in 0 .. MaxSeq
  /\ \A r \in history \cup ({saved} \ {None}) : ~(r.pending /\ r.registered)
  /\ chain \in [Tx -> [state : {"none", "signed", "sent", "landed", "failed", "expired"},
                       seq : 0 .. MaxSeq, limit : Regs \cup {None}]]
  /\ over \subseteq Regs /\ ended \subseteq Regs
  /\ saved \in Records \cup {None} /\ history \subseteq Records /\ dropped \subseteq Regs
  /\ act \in Activations \cup {None} /\ prepared \in Preparations \cup {None}
  /\ approve \in Approvals \cup {None} /\ revoke \in Revocations \cup {None}
  /\ known \in {"Active", "Ended", None}

\* A registration that may still execute, or a limit that can be spent.
Live(m) == chain[m].state \in {"signed", "sent"} \/ Active(m)

Revoked(m) == \E v \in Revokes : chain[v].limit = m /\ chain[v].state # "none"

\* However answers are lost and pages reloaded, nothing is signed a second time while
\* the first may still come to be: no second limit beside one that can be spent or
\* registered, no second allowance of a limit, and no allowance with a sequence
\* number its registration has used.  A limit whose record the user removed by
\* disconnecting, and the allowances of one with a revocation, are excepted.
NothingSignedTwice ==
  /\ \A m, n \in Regs \ dropped : m # n => ~(Live(m) /\ Live(n))
  /\ \A a, b \in Allowances :
       LET m == chain[a].limit IN
       a # b /\ m = chain[b].limit /\ m # None /\ ~Revoked(m) =>
         ~({chain[a].state, chain[b].state} \subseteq {"signed", "sent", "landed"})
  /\ \A a \in Allowances :
       chain[a].state # "none" => chain[a].seq > chain[chain[a].limit].seq

\* The records that name a registration, respectively an allowance, that may
\* still execute or has.
Naming(m) ==
  {r \in history \cup ({saved} \ {None}) : r.id = m /\ (r.pending \/ r.registered)}

\* What was sent is on record, in the current setup or the archive, until it is
\* known to have failed.  Two removals are excepted: a disconnection, and a
\* revocation, whose copy of the record may be older than the allowance.
SentIsOnRecord ==
  /\ \A m \in Regs \ dropped :
       chain[m].state \in {"sent", "landed"} => Naming(m) # {}
  /\ \A a \in Allowances :
       LET m == chain[a].limit IN
       chain[a].state \in {"sent", "landed"} /\ m \notin dropped /\ ~Revoked(m) =>
         \E r \in Naming(m) : a \in {r.allowance, r.allowed}

\* A registration or an allowance on record as undecided is decided in the end,
\* if the page looks before the node forgets.
UndecidedIsDecided ==
  /\ \A m \in Regs :
       (saved # None /\ saved.id = m /\ saved.pending) ~>
         (saved = None \/ saved.id # m \/ ~saved.pending)
  /\ \A a \in Allowances :
       (saved # None /\ saved.allowance = a) ~>
         (saved = None \/ saved.allowance # a)

=============================================================================
