---------------------------- MODULE OneShotDelivery ----------------------------
(***************************************************************************)
(* What a merchant that accepts bound payment proofs promises, seen from   *)
(* outside: one settlement transaction is bound to one proof, the paid     *)
(* work behind it runs at most once, it gets one answer, and every reply   *)
(* ever shown for it is that answer.  BoundRedemption implements this.     *)
(***************************************************************************)
EXTENDS Naturals

CONSTANTS
  Tx,       \* settlement transactions
  Proofs,   \* signed payment proofs
  Answers,  \* stored answers
  TxOf,     \* the settlement a proof names
  None      \* "no proof yet", "no answer yet"

VARIABLES
  stage,    \* stage[t]: "open", "claimed" or "answered"
  owner,    \* owner[t]: the proof t is bound to
  work,     \* work[t]: how often the paid work for t was started
  answer,   \* answer[t]: the one answer
  shown     \* <<proof, answer>> pairs shown to a client

vars == <<stage, owner, work, answer, shown>>

Init ==
  /\ stage = [t \in Tx |-> "open"]
  /\ owner = [t \in Tx |-> None]
  /\ work = [t \in Tx |-> 0]
  /\ answer = [t \in Tx |-> None]
  /\ shown = {}

\* A settlement is bound once, to the proof that gets there first.
Bind(p) ==
  /\ stage[TxOf[p]] = "open"
  /\ stage' = [stage EXCEPT ![TxOf[p]] = "claimed"]
  /\ owner' = [owner EXCEPT ![TxOf[p]] = p]
  /\ UNCHANGED <<work, answer, shown>>

\* The paid work starts once; an operator may have answered in the meantime.
Work(t) ==
  /\ stage[t] # "open"
  /\ work[t] = 0
  /\ work' = [work EXCEPT ![t] = 1]
  /\ UNCHANGED <<stage, owner, answer, shown>>

Answer(t, a) ==
  /\ stage[t] = "claimed"
  /\ stage' = [stage EXCEPT ![t] = "answered"]
  /\ answer' = [answer EXCEPT ![t] = a]
  /\ UNCHANGED <<owner, work, shown>>

\* Only the owning proof sees the answer, as often as it asks.
Show(p) ==
  /\ stage[TxOf[p]] = "answered"
  /\ owner[TxOf[p]] = p
  /\ shown' = shown \cup {<<p, answer[TxOf[p]]>>}
  /\ UNCHANGED <<stage, owner, work, answer>>

\* The executor stores its result and replies with it in one step.
AnswerAndShow(p, a) ==
  /\ stage[TxOf[p]] = "claimed"
  /\ owner[TxOf[p]] = p
  /\ stage' = [stage EXCEPT ![TxOf[p]] = "answered"]
  /\ answer' = [answer EXCEPT ![TxOf[p]] = a]
  /\ shown' = shown \cup {<<p, a>>}
  /\ UNCHANGED <<owner, work>>

Next ==
  \/ \E p \in Proofs : Bind(p) \/ Show(p)
  \/ \E p \in Proofs, a \in Answers : AnswerAndShow(p, a)
  \/ \E t \in Tx : Work(t)
  \/ \E t \in Tx, a \in Answers : Answer(t, a)

Spec == Init /\ [][Next]_vars
=============================================================================
