---------------------------- MODULE ExpressPoolProofs ----------------------------
(***************************************************************************)
(* Proofs about ExpressPool, for any number of requests, owners and limits.*)
(*                                                                         *)
(* Neither limit is inductive: a create takes its place in the table long  *)
(* after the check that admitted it.  What every step keeps is that the    *)
(* workspaces in the table and those on their way to it together fit, and  *)
(* that every one on its way holds a slot.                                 *)
(***************************************************************************)
EXTENDS ExpressPool, FiniteSetTheorems, TLAPS

\* The creates that run, and those that may still enter the table.
Slots == {c \in Creates : Running(c)}
Coming == {c \in Creates : pc[c] \in {"fund", "listen", "register"}}

Capacity ==
  /\ active = Cardinality(Slots)
  /\ active <= MaxCreates
  /\ Cardinality(sessions \cup Coming) <= MaxSessions

\* A server is listening from before its workspace is entered until it is closed,
\* and a workspace that was taken out never returns.
Ownership ==
  /\ ServersHaveOwners
  /\ sessions \cap closing = {}
  /\ \A c \in Creates :
       /\ pc[c] \in {"new", "fund", "listen", "register"} => c \notin sessions \cup closing
       /\ pc[c] \in {"new", "fund", "listen"} => c \notin listening
       /\ pc[c] = "register" => c \in listening

Inv == TypeOK /\ Capacity /\ Ownership /\ CooldownStands

-----------------------------------------------------------------------------
(* The invariant holds initially.                                          *)

LEMMA InitInv == Init => Inv
<1>. SUFFICES ASSUME Init PROVE Inv
  OBVIOUS
<1>. USE PoolAssumption DEF Init
<1>1. TypeOK
  BY DEF TypeOK
<1>2. Capacity
  <2>1. Slots = {} /\ Coming = {}
    BY DEF Slots, Coming, Running
  <2>2. Cardinality({}) = 0
    BY FS_EmptySet
  <2>. QED
    BY <2>1, <2>2 DEF Capacity
<1>3. Ownership /\ CooldownStands
  BY DEF Ownership, ServersHaveOwners, CooldownStands
<1>. QED
  BY <1>1, <1>2, <1>3 DEF Inv

-----------------------------------------------------------------------------
(* Types.                                                                  *)

LEMMA TypeKept == TypeOK /\ [Next]_vars => TypeOK'
<1>. SUFFICES ASSUME TypeOK, [Next]_vars PROVE TypeOK'
  OBVIOUS
<1>. USE PoolAssumption DEF TypeOK, vars, table, servers, Goto
<1>1. ASSUME NEW c \in Creates, Admit(c) \/ Fund(c) \/ Listen(c) \/ Register(c) \/ Close(c)
      PROVE  TypeOK'
  BY <1>1 DEF Admit, Fund, Listen, Register, Close
<1>2. ASSUME NEW c \in Creates, Fail(c) \/ Return(c) \/ CoolDown(c)
      PROVE  TypeOK'
  BY <1>2 DEF Fail, Return, Leave, CoolDown
<1>3. ASSUME NEW c \in Creates, Begin(c) \/ DisposeInAction(c) \/ End(c) \/ FallDue(c)
                             \/ Expire(c) \/ CloseServer(c)
      PROVE  TypeOK'
  BY <1>3 DEF Begin, DisposeInAction, End, FallDue, Expire, CloseServer, Dispose
<1>4. ASSUME UNCHANGED vars PROVE TypeOK'
  BY <1>4
<1>. QED
  BY <1>1, <1>2, <1>3, <1>4, Zenon DEF Next, Create

-----------------------------------------------------------------------------
(* Limits.                                                                 *)

LEMMA Finite ==
  ASSUME TypeOK
  PROVE  /\ IsFiniteSet(Slots) /\ IsFiniteSet(Coming) /\ IsFiniteSet(sessions)
         /\ Cardinality(Slots) \in Nat /\ Cardinality(Coming) \in Nat
         /\ Cardinality(sessions) \in Nat
<1>1. Slots \subseteq Creates /\ Coming \subseteq Creates /\ sessions \subseteq Creates
  BY DEF Slots, Coming, TypeOK
<1>2. \A S \in SUBSET Creates : IsFiniteSet(S)
  BY PoolAssumption, FS_Subset
<1>. QED
  BY <1>1, <1>2, FS_CardinalityType

\* A step that changes neither who runs nor who may be in the table.
LEMMA SamePlaces ==
  ASSUME TypeOK, Capacity, active' = active, Slots' = Slots,
         sessions' \cup Coming' \subseteq sessions \cup Coming
  PROVE  Capacity'
<1>1. IsFiniteSet(sessions \cup Coming)
  BY Finite, FS_Union
<1>2. Cardinality(sessions' \cup Coming') <= Cardinality(sessions \cup Coming)
  BY <1>1, FS_Subset
<1>3. /\ Cardinality(sessions \cup Coming) \in Nat
      /\ Cardinality(sessions' \cup Coming') \in Nat
  BY <1>1, FS_Subset, FS_CardinalityType
<1>. QED
  BY <1>2, <1>3, PoolAssumption DEF Capacity

\* Admission: the workspaces there and on their way leave room for one more.
LEMMA AdmitCapacity ==
  ASSUME TypeOK, Capacity, NEW c \in Creates, Admit(c)
  PROVE  Capacity'
<1>. USE DEF Goto, table, servers
<1>1. CASE active' = active /\ pc' = [pc EXCEPT ![c] = "done"]
  <2>1. Slots' = Slots /\ Coming' = Coming /\ sessions' = sessions
    BY <1>1 DEF TypeOK, Admit, Slots, Coming, Running
  <2>. QED
    BY <1>1, <2>1, SamePlaces
<1>2. CASE ~AtCapacity(c) /\ active' = active + 1 /\ pc' = [pc EXCEPT ![c] = "fund"]
  <2>1. /\ Slots' = Slots \cup {c} /\ Coming' = Coming \cup {c} /\ sessions' = sessions
        /\ c \notin Slots /\ Coming \subseteq Slots
    BY <1>2 DEF TypeOK, Admit, Slots, Coming, Running
  <2>2. Cardinality(Slots \cup {c}) = Cardinality(Slots) + 1
    BY <2>1, Finite, FS_AddElement
  <2>3. active < MaxCreates /\ Cardinality(sessions) + active < MaxSessions
    BY <1>2, Finite, PoolAssumption DEF AtCapacity, TypeOK
  <2>4. Cardinality(Coming) \in Nat /\ Cardinality(Coming) <= active
    BY <2>1, Finite, FS_Subset DEF Capacity
  <2>5. /\ IsFiniteSet(sessions \cup Coming)
        /\ Cardinality(sessions \cup Coming) \in Nat
        /\ Cardinality(sessions \cup Coming) <= Cardinality(sessions) + Cardinality(Coming)
    <3>1. /\ IsFiniteSet(sessions \cup Coming)
          /\ Cardinality(sessions \cup Coming)
               = Cardinality(sessions) + Cardinality(Coming) - Cardinality(sessions \cap Coming)
      BY Finite, FS_Union
    <3>2. Cardinality(sessions \cap Coming) \in Nat
      <4>1. sessions \cap Coming \in SUBSET sessions
        OBVIOUS
      <4>. QED
        BY <4>1, Finite, FS_Subset, FS_CardinalityType
    <3>3. Cardinality(sessions \cup Coming) \in Nat
      BY <3>1, FS_CardinalityType
    <3>. QED
      BY <3>1, <3>2, <3>3, Finite
  <2>6. sessions' \cup Coming' = (sessions \cup Coming) \cup {c}
    BY <2>1
  <2>7. /\ Cardinality(sessions' \cup Coming') \in Nat
        /\ Cardinality(sessions' \cup Coming') <= Cardinality(sessions \cup Coming) + 1
    <3>1. /\ IsFiniteSet((sessions \cup Coming) \cup {c})
          /\ Cardinality((sessions \cup Coming) \cup {c})
               = IF c \in sessions \cup Coming THEN Cardinality(sessions \cup Coming)
                                              ELSE Cardinality(sessions \cup Coming) + 1
      BY <2>5, FS_AddElement
    <3>. QED
      BY <3>1, <2>5, <2>6
  <2>8. Cardinality(sessions' \cup Coming') <= MaxSessions
    BY <2>3, <2>4, <2>5, <2>7, Finite, PoolAssumption DEF TypeOK
  <2>. QED
    BY <1>2, <2>1, <2>2, <2>3, <2>8, PoolAssumption DEF Capacity, TypeOK
<1>. QED
  BY <1>1, <1>2, Zenon DEF Admit

\* A create gives its slot back exactly once.
LEMMA LeaveCapacity ==
  ASSUME TypeOK, Capacity, NEW c \in Creates, Fail(c) \/ Return(c)
  PROVE  Capacity'
<1>. USE DEF Goto, table, servers
<1>1. /\ Slots' = Slots \ {c} /\ c \in Slots
      /\ Coming' = Coming /\ sessions' = sessions
  BY DEF TypeOK, Fail, Return, Slots, Coming, Running
<1>2. Cardinality(Slots \ {c}) = Cardinality(Slots) - 1
  BY <1>1, Finite, FS_RemoveElement
<1>3. Cardinality(Slots \ {c}) \in Nat
  BY Finite, FS_RemoveElement, FS_CardinalityType
<1>4. active' = active - 1
  BY <1>2, <1>3, Finite DEF Fail, Return, Leave, Capacity
<1>. QED
  BY <1>1, <1>2, <1>4, Finite, PoolAssumption DEF Capacity

LEMMA CapacityKept == TypeOK /\ Capacity /\ [Next]_vars => Capacity'
<1>. SUFFICES ASSUME TypeOK, Capacity, [Next]_vars PROVE Capacity'
  OBVIOUS
<1>. USE DEF vars, table, servers, Goto
<1>1. ASSUME NEW c \in Creates, Fund(c) \/ Listen(c) \/ Register(c) \/ Close(c)
      PROVE  Capacity'
  <2>1. active' = active
    BY <1>1 DEF Fund, Listen, Register, Close
  <2>2. Slots' = Slots
    BY <1>1 DEF TypeOK, Fund, Listen, Register, Close, Slots, Running
  <2>3. sessions' \cup Coming' \subseteq sessions \cup Coming
    BY <1>1 DEF TypeOK, Fund, Listen, Register, Close, Coming
  <2>. QED
    BY <2>1, <2>2, <2>3, SamePlaces
<1>2. ASSUME NEW c \in Creates,
             CoolDown(c) \/ Begin(c) \/ DisposeInAction(c) \/ End(c) \/ FallDue(c)
             \/ Expire(c) \/ CloseServer(c)
      PROVE  Capacity'
  <2>1. active' = active /\ pc' = pc /\ sessions' \subseteq sessions
    BY <1>2 DEF CoolDown, Begin, DisposeInAction, End, FallDue, Expire, CloseServer, Dispose
  <2>2. Slots' = Slots /\ Coming' = Coming
    BY <2>1 DEF Slots, Coming, Running
  <2>. QED
    BY <2>1, <2>2, SamePlaces
<1>3. ASSUME UNCHANGED vars PROVE Capacity'
  BY <1>3 DEF Capacity, Slots, Coming, Running
<1>. QED
  BY <1>1, <1>2, <1>3, AdmitCapacity, LeaveCapacity, Zenon DEF Next, Create

-----------------------------------------------------------------------------
(* Servers and cooldowns.                                                  *)

LEMMA OwnershipKept == TypeOK /\ Ownership /\ [Next]_vars => Ownership'
<1>. SUFFICES ASSUME TypeOK, Ownership, [Next]_vars PROVE Ownership'
  OBVIOUS
<1>. USE DEF Ownership, ServersHaveOwners, TypeOK, vars, table, servers, Goto
<1>1. ASSUME NEW c \in Creates, Admit(c) \/ Fund(c) \/ Listen(c) PROVE Ownership'
  BY <1>1 DEF Admit, Fund, Listen
<1>2. ASSUME NEW c \in Creates, Register(c) PROVE Ownership'
  BY <1>2 DEF Register
<1>3. ASSUME NEW c \in Creates, Close(c) \/ Fail(c) \/ Return(c) \/ CoolDown(c)
      PROVE  Ownership'
  BY <1>3 DEF Close, Fail, Return, CoolDown
<1>4. ASSUME NEW s \in sessions, Dispose(s), UNCHANGED <<pc, listening>> PROVE Ownership'
  BY <1>4 DEF Dispose
<1>5. ASSUME UNCHANGED <<pc, sessions, listening, closing>> PROVE Ownership'
  BY <1>5
<1>6. ASSUME NEW s \in Creates, CloseServer(s) PROVE Ownership'
  BY <1>6 DEF CloseServer
<1>7. ASSUME NEW s \in Creates,
             Begin(s) \/ DisposeInAction(s) \/ End(s) \/ FallDue(s) \/ Expire(s)
      PROVE  Ownership'
  <2>1. \/ s \in sessions /\ Dispose(s) /\ UNCHANGED <<pc, listening>>
        \/ UNCHANGED <<pc, sessions, listening, closing>>
    BY <1>7 DEF Begin, DisposeInAction, End, FallDue, Expire
  <2>. QED
    BY <2>1, <1>4, <1>5, Zenon
<1>8. ASSUME UNCHANGED vars PROVE Ownership'
  BY <1>8
<1>. HIDE DEF Ownership, TypeOK, vars
<1>. QED
  BY <1>1, <1>2, <1>3, <1>6, <1>7, <1>8, Zenon DEF Next, Create

LEMMA CooldownKept == TypeOK /\ CooldownStands /\ [Next]_vars => CooldownStands'
<1>. SUFFICES ASSUME TypeOK, CooldownStands, [Next]_vars PROVE CooldownStands'
  OBVIOUS
<1>. USE PoolAssumption DEF TypeOK, CooldownStands, vars, table, servers, Goto
<1>1. ASSUME NEW c \in Creates, Admit(c) PROVE CooldownStands'
  BY <1>1 DEF Admit, RateLimited
<1>2. ASSUME NEW c \in Creates, Fail(c) PROVE CooldownStands'
  BY <1>2 DEF Fail
<1>3. ASSUME NEW c \in Creates,
             Fund(c) \/ Listen(c) \/ Register(c) \/ Close(c) \/ Return(c) \/ CoolDown(c)
      PROVE  CooldownStands'
  BY <1>3 DEF Fund, Listen, Register, Close, Return, CoolDown
<1>4. ASSUME UNCHANGED <<pc, recent, cooling>> PROVE CooldownStands'
  BY <1>4
<1>5. ASSUME NEW s \in Creates,
             Begin(s) \/ DisposeInAction(s) \/ End(s) \/ FallDue(s) \/ Expire(s)
             \/ CloseServer(s)
      PROVE  UNCHANGED <<pc, recent, cooling>>
  BY <1>5 DEF Begin, DisposeInAction, End, FallDue, Expire, CloseServer
<1>6. ASSUME UNCHANGED vars PROVE CooldownStands'
  BY <1>6
<1>. HIDE DEF CooldownStands, TypeOK, vars
<1>. QED
  BY <1>1, <1>2, <1>3, <1>4, <1>5, <1>6, Zenon DEF Next, Create

-----------------------------------------------------------------------------

THEOREM Invariance == Spec => []Inv
<1>1. Inv /\ [Next]_vars => Inv'
  BY TypeKept, CapacityKept, OwnershipKept, CooldownKept, Zenon DEF Inv
<1>. QED
  BY <1>1, InitInv, PTL DEF Spec

\* Every variable of the pool keeps its type.
THEOREM TypeCorrectness == Spec => []TypeOK
  BY Invariance, PTL DEF Inv

\* Creates are admitted by the workspaces that are there; none, however slow, and
\* however many end meanwhile, is entered into a full table; and the slots in use are the
\* creates that run.
THEOREM Limits == Spec => []WithinCapacity
<1>1. Inv => WithinCapacity
  <2>. SUFFICES ASSUME Inv PROVE WithinCapacity
    OBVIOUS
  <2>1. TypeOK /\ Capacity
    BY DEF Inv
  <2>2. IsFiniteSet(sessions \cup Coming)
    BY <2>1, Finite, FS_Union
  <2>3. sessions \in SUBSET (sessions \cup Coming)
    OBVIOUS
  <2>4. /\ Cardinality(sessions) <= Cardinality(sessions \cup Coming)
        /\ Cardinality(sessions \cup Coming) \in Nat
    BY <2>2, <2>3, FS_Subset, FS_CardinalityType
  <2>. QED
    BY <2>1, <2>4, Finite, PoolAssumption DEF Capacity, Slots, WithinCapacity
<1>. QED
  BY <1>1, Invariance, PTL

\* No merchant server listens without a workspace, a create or a close to end it.
THEOREM ServersOwned == Spec => []ServersHaveOwners
  BY Invariance, PTL DEF Inv, Ownership

\* A slow create that fails never lifts the cooldown of a later one.
THEOREM Cooldowns == Spec => []CooldownStands
  BY Invariance, PTL DEF Inv
=============================================================================
