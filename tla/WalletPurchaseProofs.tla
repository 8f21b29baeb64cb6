--------------------------- MODULE WalletPurchaseProofs ---------------------------
(***************************************************************************)
(* Proofs about WalletPurchase, for any number of requests, servers, calls *)
(* and restarts.                                                           *)
(*                                                                         *)
(* Two devices keep requests apart.  The reservation of a tool call, in    *)
(* the database, has one winner, and only the winner of a call signs for   *)
(* it or writes its row (Reserved).  The claim of a server, in memory, has *)
(* one holder while a payment is under way, and nobody else on that server *)
(* saves a receipt meanwhile (Exclusive).  Receipts are deleted only for   *)
(* payments that did not happen or were served (Collected).                *)
(***************************************************************************)
EXTENDS WalletPurchase, TLAPS

\* The steps of an attempt that has won the reservation of its call.
Busy == AttemptSteps \ {"check", "reserve", "done"}

\* The steps before its payment is sent.
Unsent == {"check", "reserve", "list", "adopt", "claim", "hydrate", "sequence", "save", "send"}

\* The steps between an attempt's claim and the verdict on its payment.
Holding == {"hydrate", "sequence", "save", "send", "confirm"}

Won(a) == pc[a] \in Busy \/ chain[a] # "none"

\* One attempt wins a call, and while it is busy nobody has called the call failed.
Reserved ==
  /\ \A a \in Attempts :
       /\ pc[a] \in Unsent => chain[a] = "none"
       /\ Won(a) => tool[CallOf[a]].status # "none"
       /\ pc[a] \in Busy => tool[CallOf[a]].status # "failed"
  /\ \A a, b \in Attempts : Won(a) /\ Won(b) /\ CallOf[a] = CallOf[b] => a = b

\* Which payment a task works on, and what it knows of it.
Follows ==
  /\ \A k \in Tasks :
       /\ pc[k] \in {"adopt", "retry", "await", "record", "complete", "ack", "clear"} => found[k] \in Txs
       /\ pc[k] \in {"record", "complete", "ack", "clear"} => merchant[found[k]] = "ok"
  /\ \A a \in Attempts :
       /\ pc[a] \in {"await", "record"} => found[a] = a
       /\ pc[a] = "catch" => found[a] = a \/ chain[a] \in {"none", "rejected"}
       /\ pc[a] = "drop" => chain[a] \in {"none", "rejected"}

\* The merchant serves settled payments only, and a payment that left keeps its
\* receipt until it is served.
Collected ==
  /\ \A t \in Txs : merchant[t] # "none" => chain[t] = "settled"
  /\ \A a \in Attempts : pc[a] = "send" => a \in receipts
  /\ ReceiptUntilServed

\* What the rows of the tool calls say.
Journalled ==
  /\ \A c \in Calls :
       tool[c].status \in {"delivery_pending", "succeeded"} =>
         tool[c].tx \in Txs /\ UrlOfTx(tool[c].tx) = UrlOf[c]
  /\ OutcomesAreTrue

\* A claim on a payment under way has one holder.
Exclusive ==
  /\ \A j \in joined : claim[Here(j)] # None
  /\ \A a \in Attempts :
       pc[a] \in Holding =>
         /\ claim[Here(a)] = "active" /\ a \in joined
         /\ \A j \in joined : Here(j) = Here(a) => j = a

\* Under its claim an attempt that found no receipt is alone on its server.
Alone ==
  \A a \in Attempts :
    pc[a] \in {"sequence", "save", "send"} =>
      \A u \in receipts : Here(u) = Here(a) => u = a

Inv ==
  /\ TypeOK /\ Reserved /\ Follows /\ Collected /\ Journalled
  /\ Exclusive /\ Alone

-----------------------------------------------------------------------------
(* The steps.                                                              *)

LEMMA Named ==
  /\ Txs = Attempts /\ Tasks = Attempts \cup Recoveries /\ Attempts \cap Recoveries = {}
  /\ None \notin Txs /\ "active" \notin Txs /\ None # "active"
  /\ \A a \in Attempts : CallOf[a] \in Calls /\ UrlOfTx(a) = UrlOf[CallOf[a]]
  /\ \A k \in Tasks : Here(k) \in Servers
BY WalletAssumption DEF Txs, Tasks, Here, UrlOfTx

LEMMA InitInv ==
  Init => Inv
<1>. SUFFICES ASSUME Init PROVE Inv
  OBVIOUS
<1>. USE Named DEF Init
<1>1. TypeOK
  BY WalletAssumption DEF TypeOK, ToolCalls, AttemptSteps, RecoverySteps
<1>2. Reserved /\ Follows
  BY DEF Reserved, Follows, Won, Busy, Unsent
<1>3. Collected /\ Journalled
  BY DEF Collected, Journalled, ReceiptUntilServed, OutcomesAreTrue, PaidFor
<1>4. Exclusive /\ Alone
  BY DEF Exclusive, Alone, Holding
<1>. QED
  BY <1>1, <1>2, <1>3, <1>4 DEF Inv

LEMMA TypeKept ==
  ASSUME Inv, [Next]_vars
  PROVE  TypeOK'
<1>. USE DEF Goto, Write, MaybeWrite, Leave, Join, Release, Requested, ledger, agents, TypeOK, ToolCalls
<1>1. TypeOK
  BY DEF Inv
<1>2. /\ Txs = Attempts /\ Tasks = Attempts \cup Recoveries /\ Attempts \cap Recoveries = {}
      /\ \A a \in Attempts : CallOf[a] \in Calls
      /\ \A k \in Tasks : Here(k) \in Servers
  BY Named
<1>3. \A k \in Tasks : pc[k] \in {"adopt", "retry", "await", "record", "complete", "ack", "clear"}
                          => found[k] \in Txs
  BY DEF Inv, Follows
<1>10. CASE UNCHANGED vars
  BY <1>10, <1>1, <1>2, <1>3 DEF vars, AttemptSteps, RecoverySteps
<1>11. ASSUME NEW a \in Attempts, Check(a) PROVE TypeOK'
  BY <1>11, <1>1, <1>2, <1>3 DEF Check, AttemptSteps, RecoverySteps
<1>12. ASSUME NEW a \in Attempts, Reserve(a) PROVE TypeOK'
  BY <1>12, <1>1, <1>2, <1>3, SMTT(30) DEF Reserve, AttemptSteps, RecoverySteps
<1>13. ASSUME NEW a \in Attempts, List(a) PROVE TypeOK'
  BY <1>13, <1>1, <1>2, <1>3 DEF List, AttemptSteps, RecoverySteps
<1>14. ASSUME NEW a \in Attempts, Adopt(a) PROVE TypeOK'
  BY <1>14, <1>1, <1>2, <1>3 DEF Adopt, AttemptSteps, RecoverySteps
<1>15. ASSUME NEW a \in Attempts, Claim(a) PROVE TypeOK'
  <2>1. claim' \in [Servers -> Txs \cup {"active", None}] /\ joined' \subseteq Tasks
    BY <1>15, <1>1, <1>2 DEF Claim
  <2>2. /\ pc' \in [Tasks -> AttemptSteps \cup RecoverySteps]
        /\ \A x \in Tasks : pc'[x] = pc[x] \/ (x = a /\ pc'[x] \in {"hydrate", "catch"})
    BY <1>15, <1>1, <1>2 DEF Claim, AttemptSteps
  <2>3. /\ \A x \in Attempts : pc'[x] \in AttemptSteps
        /\ \A r \in Recoveries : pc'[r] \in RecoverySteps
    BY <1>1, <1>2, <2>2 DEF AttemptSteps
  <2>. QED
    BY <1>15, <1>1, <2>1, <2>2, <2>3 DEF Claim
<1>16. ASSUME NEW a \in Attempts, Hydrate(a) PROVE TypeOK'
  BY <1>16, <1>1, <1>2, <1>3 DEF Hydrate, AttemptSteps, RecoverySteps
<1>17. ASSUME NEW a \in Attempts, Sequence(a) PROVE TypeOK'
  BY <1>17, <1>1, <1>2, <1>3 DEF Sequence, AttemptSteps, RecoverySteps
<1>18. ASSUME NEW a \in Attempts, Save(a) PROVE TypeOK'
  BY <1>18, <1>1, <1>2, <1>3, SMTT(30) DEF Save, AttemptSteps, RecoverySteps
<1>19. ASSUME NEW a \in Attempts, Send(a) PROVE TypeOK'
  BY <1>19, <1>1, <1>2, <1>3 DEF Send, AttemptSteps, RecoverySteps
<1>20. ASSUME NEW a \in Attempts, Settled(a) PROVE TypeOK'
  BY <1>20, <1>1, <1>2, <1>3 DEF Settled, AttemptSteps, RecoverySteps
<1>21. ASSUME NEW a \in Attempts, Rejected(a) PROVE TypeOK'
  BY <1>21, <1>1, <1>2, <1>3 DEF Rejected, AttemptSteps, RecoverySteps
<1>22. ASSUME NEW a \in Attempts, Uncertain(a) PROVE TypeOK'
  BY <1>22, <1>1, <1>2, <1>3 DEF Uncertain, AttemptSteps, RecoverySteps
<1>23. ASSUME NEW a \in Attempts, Drop(a) PROVE TypeOK'
  BY <1>23, <1>1, <1>2, <1>3 DEF Drop, AttemptSteps, RecoverySteps
<1>24. ASSUME NEW a \in Attempts, Record(a) PROVE TypeOK'
  BY <1>24, <1>1, <1>2, <1>3, SMTT(30) DEF Record, AttemptSteps, RecoverySteps
<1>25. ASSUME NEW a \in Attempts, Catch(a) PROVE TypeOK'
  BY <1>25, <1>1, <1>2, <1>3 DEF Catch, Own, AttemptSteps, RecoverySteps
<1>26. ASSUME NEW r \in Recoveries, Recover(r) PROVE TypeOK'
  BY <1>26, <1>1, <1>2, <1>3 DEF Recover, AttemptSteps, RecoverySteps
<1>27. ASSUME NEW r \in Recoveries, Retry(r) PROVE TypeOK'
  BY <1>27, <1>1, <1>2, <1>3, SMTT(30) DEF Retry, AttemptSteps, RecoverySteps
<1>28. ASSUME NEW r \in Recoveries, Complete(r) PROVE TypeOK'
  BY <1>28, <1>1, <1>2, <1>3, SMTT(30) DEF Complete, Succeed, Waiting, AttemptSteps, RecoverySteps
<1>29. ASSUME NEW k \in Tasks, Delivered(k) PROVE TypeOK'
  BY <1>29, <1>1, <1>2, <1>3 DEF Delivered, AttemptSteps, RecoverySteps
<1>30. ASSUME NEW k \in Tasks, Undelivered(k) PROVE TypeOK'
  BY <1>30, <1>1, <1>2, <1>3 DEF Undelivered, Failed, AttemptSteps, RecoverySteps
<1>31. ASSUME NEW k \in Tasks, Ack(k) PROVE TypeOK'
  BY <1>31, <1>1, <1>2, <1>3 DEF Ack, Finished, AttemptSteps, RecoverySteps
<1>32. ASSUME NEW k \in Tasks, Clear(k) PROVE TypeOK'
  BY <1>32, <1>1, <1>2, <1>3 DEF Clear, Finished, AttemptSteps, RecoverySteps
<1>33. ASSUME NEW k \in Tasks, LetGo(k) PROVE TypeOK'
  BY <1>33, <1>1, <1>2, <1>3 DEF LetGo, AttemptSteps, RecoverySteps
<1>34. ASSUME NEW t \in Txs, Execute(t) PROVE TypeOK'
  BY <1>34, <1>1, <1>2, <1>3 DEF Execute, AttemptSteps, RecoverySteps
<1>35. ASSUME NEW t \in Txs, Refuse(t) PROVE TypeOK'
  BY <1>35, <1>1, <1>2, <1>3 DEF Refuse, AttemptSteps, RecoverySteps
<1>36. ASSUME NEW t \in Txs, Fulfil(t) PROVE TypeOK'
  BY <1>36, <1>1, <1>2, <1>3 DEF Fulfil, AttemptSteps, RecoverySteps
<1>37. ASSUME NEW s \in Servers, Crash(s) PROVE TypeOK'
  <2>1. crashes' \in 0 .. MaxCrashes
    BY <1>37, <1>1, WalletAssumption DEF Crash
  <2>2. /\ pc' \in [Tasks -> AttemptSteps \cup RecoverySteps]
        /\ \A x \in Tasks : pc'[x] = pc[x]
             \/ (x \in Recoveries /\ pc'[x] = "idle") \/ (x \in Attempts /\ pc'[x] \in {"check", "done"})
    BY <1>37, <1>1, <1>2 DEF Crash, AttemptSteps, RecoverySteps
  <2>3. /\ \A x \in Attempts : pc'[x] \in AttemptSteps
        /\ \A r \in Recoveries : pc'[r] \in RecoverySteps
    BY <1>1, <1>2, <2>2 DEF AttemptSteps, RecoverySteps
  <2>4. /\ claim' \in [Servers -> Txs \cup {"active", None}] /\ joined' \subseteq Tasks
        /\ found' \in [Tasks -> Txs \cup {None}]
    BY <1>37, <1>1, <1>2 DEF Crash
  <2>. QED
    BY <1>37, <1>1, <2>1, <2>2, <2>3, <2>4 DEF Crash
<1>. QED
  BY <1>10, <1>11, <1>12, <1>13, <1>14, <1>15, <1>16, <1>17, <1>18, <1>19, <1>20, <1>21, <1>22, <1>23, <1>24, <1>25, <1>26, <1>27, <1>28, <1>29, <1>30, <1>31, <1>32, <1>33, <1>34, <1>35, <1>36, <1>37 DEF Next, Buy, Deliver

LEMMA ReservedKept ==
  ASSUME Inv, [Next]_vars
  PROVE  Reserved'
<1>. USE DEF Goto, Write, MaybeWrite, Leave, Join, Release, Requested, ledger, agents
<1>1. /\ tool \in [Calls -> ToolCalls] /\ pc \in [Tasks -> AttemptSteps \cup RecoverySteps]
      /\ chain \in [Txs -> {"none", "sent", "settled", "rejected"}]
      /\ found \in [Tasks -> Txs \cup {None}]
      /\ merchant \in [Txs -> {"none", "executing", "ok", "bad"}]
      /\ receipts \subseteq Txs
      /\ claim \in [Servers -> Txs \cup {"active", None}] /\ joined \subseteq Tasks
      /\ \A a \in Attempts : pc[a] \in AttemptSteps
      /\ \A r \in Recoveries : pc[r] \in RecoverySteps
  BY DEF Inv, TypeOK
<1>2. /\ Txs = Attempts /\ Tasks = Attempts \cup Recoveries /\ Attempts \cap Recoveries = {}
      /\ None \notin Txs /\ "active" \notin Txs /\ None # "active"
      /\ \A a \in Attempts : CallOf[a] \in Calls /\ UrlOfTx(a) = UrlOf[CallOf[a]]
      /\ \A k \in Tasks : Here(k) \in Servers
  BY Named
<1>3. Reserved
  BY DEF Inv
<1>10. CASE UNCHANGED vars
  BY <1>10, <1>1, <1>2, <1>3 DEF vars, Reserved, Won, Busy, Unsent, AttemptSteps, RecoverySteps, ToolCalls
<1>11. ASSUME NEW a \in Attempts, Check(a) PROVE Reserved'
  BY <1>11, <1>1, <1>2, <1>3 DEF Check, Reserved, Won, Busy, Unsent, AttemptSteps, RecoverySteps, ToolCalls
<1>12. ASSUME NEW a \in Attempts, Reserve(a) PROVE Reserved'
  BY <1>12, <1>1, <1>2, <1>3 DEF Reserve, Reserved, Won, Busy, Unsent, AttemptSteps, RecoverySteps, ToolCalls
<1>13. ASSUME NEW a \in Attempts, List(a) PROVE Reserved'
  BY <1>13, <1>1, <1>2, <1>3 DEF List, Reserved, Won, Busy, Unsent, AttemptSteps, RecoverySteps, ToolCalls
<1>14. ASSUME NEW a \in Attempts, Adopt(a) PROVE Reserved'
  BY <1>14, <1>1, <1>2, <1>3 DEF Adopt, Reserved, Won, Busy, Unsent, AttemptSteps, RecoverySteps, ToolCalls
<1>15. ASSUME NEW a \in Attempts, Claim(a) PROVE Reserved'
  BY <1>15, <1>1, <1>2, <1>3 DEF Claim, Reserved, Won, Busy, Unsent, AttemptSteps, RecoverySteps, ToolCalls
<1>16. ASSUME NEW a \in Attempts, Hydrate(a) PROVE Reserved'
  BY <1>16, <1>1, <1>2, <1>3 DEF Hydrate, Reserved, Won, Busy, Unsent, AttemptSteps, RecoverySteps, ToolCalls
<1>17. ASSUME NEW a \in Attempts, Sequence(a) PROVE Reserved'
  BY <1>17, <1>1, <1>2, <1>3 DEF Sequence, Reserved, Won, Busy, Unsent, AttemptSteps, RecoverySteps, ToolCalls
<1>18. ASSUME NEW a \in Attempts, Save(a) PROVE Reserved'
  BY <1>18, <1>1, <1>2, <1>3 DEF Save, Reserved, Won, Busy, Unsent, AttemptSteps, RecoverySteps, ToolCalls
<1>19. ASSUME NEW a \in Attempts, Send(a) PROVE Reserved'
  BY <1>19, <1>1, <1>2, <1>3 DEF Send, Reserved, Won, Busy, Unsent, AttemptSteps, RecoverySteps, ToolCalls
<1>20. ASSUME NEW a \in Attempts, Settled(a) PROVE Reserved'
  BY <1>20, <1>1, <1>2, <1>3 DEF Settled, Reserved, Won, Busy, Unsent, AttemptSteps, RecoverySteps, ToolCalls
<1>21. ASSUME NEW a \in Attempts, Rejected(a) PROVE Reserved'
  BY <1>21, <1>1, <1>2, <1>3 DEF Rejected, Reserved, Won, Busy, Unsent, AttemptSteps, RecoverySteps, ToolCalls
<1>22. ASSUME NEW a \in Attempts, Uncertain(a) PROVE Reserved'
  BY <1>22, <1>1, <1>2, <1>3 DEF Uncertain, Reserved, Won, Busy, Unsent, AttemptSteps, RecoverySteps, ToolCalls
<1>23. ASSUME NEW a \in Attempts, Drop(a) PROVE Reserved'
  BY <1>23, <1>1, <1>2, <1>3 DEF Drop, Reserved, Won, Busy, Unsent, AttemptSteps, RecoverySteps, ToolCalls
<1>24. ASSUME NEW a \in Attempts, Record(a) PROVE Reserved'
  BY <1>24, <1>1, <1>2, <1>3 DEF Record, Reserved, Won, Busy, Unsent, AttemptSteps, RecoverySteps, ToolCalls
<1>25. ASSUME NEW a \in Attempts, Catch(a) PROVE Reserved'
  BY <1>25, <1>1, <1>2, <1>3 DEF Catch, Own, Reserved, Won, Busy, Unsent, AttemptSteps, RecoverySteps, ToolCalls
<1>26. ASSUME NEW r \in Recoveries, Recover(r) PROVE Reserved'
  BY <1>26, <1>1, <1>2, <1>3 DEF Recover, Reserved, Won, Busy, Unsent, AttemptSteps, RecoverySteps, ToolCalls
<1>27. ASSUME NEW r \in Recoveries, Retry(r) PROVE Reserved'
  <2>1. UNCHANGED <<tool, chain>> /\ \A a \in Attempts : pc'[a] = pc[a]
    BY <1>27, <1>1, <1>2 DEF Retry
  <2>. QED
    BY <1>3, <2>1 DEF Reserved, Won
<1>28. ASSUME NEW r \in Recoveries, Complete(r) PROVE Reserved'
  BY <1>28, <1>1, <1>2, <1>3 DEF Complete, Succeed, Waiting, Reserved, Won, Busy, Unsent, AttemptSteps, RecoverySteps, ToolCalls
<1>29. ASSUME NEW k \in Tasks, Delivered(k) PROVE Reserved'
  BY <1>29, <1>1, <1>2, <1>3 DEF Delivered, Reserved, Won, Busy, Unsent, AttemptSteps, RecoverySteps, ToolCalls
<1>30. ASSUME NEW k \in Tasks, Undelivered(k) PROVE Reserved'
  BY <1>30, <1>1, <1>2, <1>3, SMTT(30) DEF Undelivered, Failed, Reserved, Won, Busy, Unsent, AttemptSteps, RecoverySteps, ToolCalls
<1>31. ASSUME NEW k \in Tasks, Ack(k) PROVE Reserved'
  BY <1>31, <1>1, <1>2, <1>3 DEF Ack, Finished, Reserved, Won, Busy, Unsent, AttemptSteps, RecoverySteps, ToolCalls
<1>32. ASSUME NEW k \in Tasks, Clear(k) PROVE Reserved'
  BY <1>32, <1>1, <1>2, <1>3 DEF Clear, Finished, Reserved, Won, Busy, Unsent, AttemptSteps, RecoverySteps, ToolCalls
<1>33. ASSUME NEW k \in Tasks, LetGo(k) PROVE Reserved'
  BY <1>33, <1>1, <1>2, <1>3 DEF LetGo, Reserved, Won, Busy, Unsent, AttemptSteps, RecoverySteps, ToolCalls
<1>34. ASSUME NEW t \in Txs, Execute(t) PROVE Reserved'
  BY <1>34, <1>1, <1>2, <1>3 DEF Execute, Reserved, Won, Busy, Unsent, AttemptSteps, RecoverySteps, ToolCalls
<1>35. ASSUME NEW t \in Txs, Refuse(t) PROVE Reserved'
  BY <1>35, <1>1, <1>2, <1>3 DEF Refuse, Reserved, Won, Busy, Unsent, AttemptSteps, RecoverySteps, ToolCalls
<1>36. ASSUME NEW t \in Txs, Fulfil(t) PROVE Reserved'
  BY <1>36, <1>1, <1>2, <1>3 DEF Fulfil, Reserved, Won, Busy, Unsent, AttemptSteps, RecoverySteps, ToolCalls
<1>37. ASSUME NEW s \in Servers, Crash(s) PROVE Reserved'
  BY <1>37, <1>1, <1>2, <1>3 DEF Crash, Reserved, Won, Busy, Unsent, AttemptSteps, RecoverySteps, ToolCalls
<1>. QED
  BY <1>10, <1>11, <1>12, <1>13, <1>14, <1>15, <1>16, <1>17, <1>18, <1>19, <1>20, <1>21, <1>22, <1>23, <1>24, <1>25, <1>26, <1>27, <1>28, <1>29, <1>30, <1>31, <1>32, <1>33, <1>34, <1>35, <1>36, <1>37 DEF Next, Buy, Deliver

LEMMA FollowsKept ==
  ASSUME Inv, [Next]_vars
  PROVE  Follows'
<1>. USE DEF Goto, Write, MaybeWrite, Leave, Join, Release, Requested, ledger, agents
<1>1. /\ tool \in [Calls -> ToolCalls] /\ pc \in [Tasks -> AttemptSteps \cup RecoverySteps]
      /\ chain \in [Txs -> {"none", "sent", "settled", "rejected"}]
      /\ found \in [Tasks -> Txs \cup {None}]
      /\ merchant \in [Txs -> {"none", "executing", "ok", "bad"}]
      /\ receipts \subseteq Txs
      /\ claim \in [Servers -> Txs \cup {"active", None}] /\ joined \subseteq Tasks
      /\ \A a \in Attempts : pc[a] \in AttemptSteps
      /\ \A r \in Recoveries : pc[r] \in RecoverySteps
  BY DEF Inv, TypeOK
<1>2. /\ Txs = Attempts /\ Tasks = Attempts \cup Recoveries /\ Attempts \cap Recoveries = {}
      /\ None \notin Txs /\ "active" \notin Txs /\ None # "active"
      /\ \A a \in Attempts : CallOf[a] \in Calls /\ UrlOfTx(a) = UrlOf[CallOf[a]]
      /\ \A k \in Tasks : Here(k) \in Servers
  BY Named
<1>3. Follows /\ Reserved
  BY DEF Inv
<1>10. CASE UNCHANGED vars
  BY <1>10, <1>1, <1>2, <1>3 DEF vars, Follows, Reserved, Unsent, AttemptSteps, RecoverySteps
<1>11. ASSUME NEW a \in Attempts, Check(a) PROVE Follows'
  BY <1>11, <1>1, <1>2, <1>3 DEF Check, Follows, Reserved, Unsent, AttemptSteps, RecoverySteps
<1>12. ASSUME NEW a \in Attempts, Reserve(a) PROVE Follows'
  BY <1>12, <1>1, <1>2, <1>3 DEF Reserve, Follows, Reserved, Unsent, AttemptSteps, RecoverySteps
<1>13. ASSUME NEW a \in Attempts, List(a) PROVE Follows'
  BY <1>13, <1>1, <1>2, <1>3 DEF List, Follows, Reserved, Unsent, AttemptSteps, RecoverySteps
<1>14. ASSUME NEW a \in Attempts, Adopt(a) PROVE Follows'
  BY <1>14, <1>1, <1>2, <1>3 DEF Adopt, Follows, Reserved, Unsent, AttemptSteps, RecoverySteps
<1>15. ASSUME NEW a \in Attempts, Claim(a) PROVE Follows'
  BY <1>15, <1>1, <1>2, <1>3 DEF Claim, Follows, Reserved, Unsent, AttemptSteps, RecoverySteps
<1>16. ASSUME NEW a \in Attempts, Hydrate(a) PROVE Follows'
  BY <1>16, <1>1, <1>2, <1>3 DEF Hydrate, Follows, Reserved, Unsent, AttemptSteps, RecoverySteps
<1>17. ASSUME NEW a \in Attempts, Sequence(a) PROVE Follows'
  BY <1>17, <1>1, <1>2, <1>3 DEF Sequence, Follows, Reserved, Unsent, AttemptSteps, RecoverySteps
<1>18. ASSUME NEW a \in Attempts, Save(a) PROVE Follows'
  BY <1>18, <1>1, <1>2, <1>3 DEF Save, Follows, Reserved, Unsent, AttemptSteps, RecoverySteps
<1>19. ASSUME NEW a \in Attempts, Send(a) PROVE Follows'
  BY <1>19, <1>1, <1>2, <1>3 DEF Send, Follows, Reserved, Unsent, AttemptSteps, RecoverySteps
<1>20. ASSUME NEW a \in Attempts, Settled(a) PROVE Follows'
  BY <1>20, <1>1, <1>2, <1>3 DEF Settled, Follows, Reserved, Unsent, AttemptSteps, RecoverySteps
<1>21. ASSUME NEW a \in Attempts, Rejected(a) PROVE Follows'
  BY <1>21, <1>1, <1>2, <1>3 DEF Rejected, Follows, Reserved, Unsent, AttemptSteps, RecoverySteps
<1>22. ASSUME NEW a \in Attempts, Uncertain(a) PROVE Follows'
  BY <1>22, <1>1, <1>2, <1>3 DEF Uncertain, Follows, Reserved, Unsent, AttemptSteps, RecoverySteps
<1>23. ASSUME NEW a \in Attempts, Drop(a) PROVE Follows'
  BY <1>23, <1>1, <1>2, <1>3 DEF Drop, Follows, Reserved, Unsent, AttemptSteps, RecoverySteps
<1>24. ASSUME NEW a \in Attempts, Record(a) PROVE Follows'
  BY <1>24, <1>1, <1>2, <1>3 DEF Record, Follows, Reserved, Unsent, AttemptSteps, RecoverySteps
<1>25. ASSUME NEW a \in Attempts, Catch(a) PROVE Follows'
  BY <1>25, <1>1, <1>2, <1>3 DEF Catch, Own, Follows, Reserved, Unsent, AttemptSteps, RecoverySteps
<1>26. ASSUME NEW r \in Recoveries, Recover(r) PROVE Follows'
  BY <1>26, <1>1, <1>2, <1>3 DEF Recover, Follows, Reserved, Unsent, AttemptSteps, RecoverySteps
<1>27. ASSUME NEW r \in Recoveries, Retry(r) PROVE Follows'
  BY <1>27, <1>1, <1>2, <1>3 DEF Retry, Follows, Reserved, Unsent, AttemptSteps, RecoverySteps
<1>28. ASSUME NEW r \in Recoveries, Complete(r) PROVE Follows'
  BY <1>28, <1>1, <1>2, <1>3 DEF Complete, Succeed, Waiting, Follows, Reserved, Unsent, AttemptSteps, RecoverySteps
<1>29. ASSUME NEW k \in Tasks, Delivered(k) PROVE Follows'
  BY <1>29, <1>1, <1>2, <1>3 DEF Delivered, Follows, Reserved, Unsent, AttemptSteps, RecoverySteps
<1>30. ASSUME NEW k \in Tasks, Undelivered(k) PROVE Follows'
  BY <1>30, <1>1, <1>2, <1>3 DEF Undelivered, Failed, Follows, Reserved, Unsent, AttemptSteps, RecoverySteps
<1>31. ASSUME NEW k \in Tasks, Ack(k) PROVE Follows'
  BY <1>31, <1>1, <1>2, <1>3 DEF Ack, Finished, Follows, Reserved, Unsent, AttemptSteps, RecoverySteps
<1>32. ASSUME NEW k \in Tasks, Clear(k) PROVE Follows'
  BY <1>32, <1>1, <1>2, <1>3 DEF Clear, Finished, Follows, Reserved, Unsent, AttemptSteps, RecoverySteps
<1>33. ASSUME NEW k \in Tasks, LetGo(k) PROVE Follows'
  BY <1>33, <1>1, <1>2, <1>3 DEF LetGo, Follows, Reserved, Unsent, AttemptSteps, RecoverySteps
<1>34. ASSUME NEW t \in Txs, Execute(t) PROVE Follows'
  BY <1>34, <1>1, <1>2, <1>3 DEF Execute, Follows, Reserved, Unsent, AttemptSteps, RecoverySteps
<1>35. ASSUME NEW t \in Txs, Refuse(t) PROVE Follows'
  BY <1>35, <1>1, <1>2, <1>3 DEF Refuse, Follows, Reserved, Unsent, AttemptSteps, RecoverySteps
<1>36. ASSUME NEW t \in Txs, Fulfil(t) PROVE Follows'
  BY <1>36, <1>1, <1>2, <1>3 DEF Fulfil, Follows, Reserved, Unsent, AttemptSteps, RecoverySteps
<1>37. ASSUME NEW s \in Servers, Crash(s) PROVE Follows'
  BY <1>37, <1>1, <1>2, <1>3 DEF Crash, Follows, Reserved, Unsent, AttemptSteps, RecoverySteps
<1>. QED
  BY <1>10, <1>11, <1>12, <1>13, <1>14, <1>15, <1>16, <1>17, <1>18, <1>19, <1>20, <1>21, <1>22, <1>23, <1>24, <1>25, <1>26, <1>27, <1>28, <1>29, <1>30, <1>31, <1>32, <1>33, <1>34, <1>35, <1>36, <1>37 DEF Next, Buy, Deliver

LEMMA CollectedKept ==
  ASSUME Inv, [Next]_vars
  PROVE  Collected'
<1>. USE DEF Goto, Write, MaybeWrite, Leave, Join, Release, Requested, ledger, agents
<1>1. /\ tool \in [Calls -> ToolCalls] /\ pc \in [Tasks -> AttemptSteps \cup RecoverySteps]
      /\ chain \in [Txs -> {"none", "sent", "settled", "rejected"}]
      /\ found \in [Tasks -> Txs \cup {None}]
      /\ merchant \in [Txs -> {"none", "executing", "ok", "bad"}]
      /\ receipts \subseteq Txs
      /\ claim \in [Servers -> Txs \cup {"active", None}] /\ joined \subseteq Tasks
      /\ \A a \in Attempts : pc[a] \in AttemptSteps
      /\ \A r \in Recoveries : pc[r] \in RecoverySteps
  BY DEF Inv, TypeOK
<1>2. /\ Txs = Attempts /\ Tasks = Attempts \cup Recoveries /\ Attempts \cap Recoveries = {}
      /\ None \notin Txs /\ "active" \notin Txs /\ None # "active"
      /\ \A a \in Attempts : CallOf[a] \in Calls /\ UrlOfTx(a) = UrlOf[CallOf[a]]
      /\ \A k \in Tasks : Here(k) \in Servers
  BY Named
<1>3. Follows /\ Reserved /\ Collected
  BY DEF Inv
<1>10. CASE UNCHANGED vars
  BY <1>10, <1>1, <1>2, <1>3 DEF vars, Collected, ReceiptUntilServed, PaidFor, Follows, Reserved, Unsent
<1>11. ASSUME NEW a \in Attempts, Check(a) PROVE Collected'
  BY <1>11, <1>1, <1>2, <1>3 DEF Check, Collected, ReceiptUntilServed, PaidFor, Follows, Reserved, Unsent
<1>12. ASSUME NEW a \in Attempts, Reserve(a) PROVE Collected'
  BY <1>12, <1>1, <1>2, <1>3 DEF Reserve, Collected, ReceiptUntilServed, PaidFor, Follows, Reserved, Unsent
<1>13. ASSUME NEW a \in Attempts, List(a) PROVE Collected'
  BY <1>13, <1>1, <1>2, <1>3 DEF List, Collected, ReceiptUntilServed, PaidFor, Follows, Reserved, Unsent
<1>14. ASSUME NEW a \in Attempts, Adopt(a) PROVE Collected'
  BY <1>14, <1>1, <1>2, <1>3 DEF Adopt, Collected, ReceiptUntilServed, PaidFor, Follows, Reserved, Unsent
<1>15. ASSUME NEW a \in Attempts, Claim(a) PROVE Collected'
  BY <1>15, <1>1, <1>2, <1>3 DEF Claim, Collected, ReceiptUntilServed, PaidFor, Follows, Reserved, Unsent
<1>16. ASSUME NEW a \in Attempts, Hydrate(a) PROVE Collected'
  BY <1>16, <1>1, <1>2, <1>3 DEF Hydrate, Collected, ReceiptUntilServed, PaidFor, Follows, Reserved, Unsent
<1>17. ASSUME NEW a \in Attempts, Sequence(a) PROVE Collected'
  BY <1>17, <1>1, <1>2, <1>3 DEF Sequence, Collected, ReceiptUntilServed, PaidFor, Follows, Reserved, Unsent
<1>18. ASSUME NEW a \in Attempts, Save(a) PROVE Collected'
  BY <1>18, <1>1, <1>2, <1>3 DEF Save, Collected, ReceiptUntilServed, PaidFor, Follows, Reserved, Unsent
<1>19. ASSUME NEW a \in Attempts, Send(a) PROVE Collected'
  BY <1>19, <1>1, <1>2, <1>3 DEF Send, Collected, ReceiptUntilServed, PaidFor, Follows, Reserved, Unsent
<1>20. ASSUME NEW a \in Attempts, Settled(a) PROVE Collected'
  BY <1>20, <1>1, <1>2, <1>3 DEF Settled, Collected, ReceiptUntilServed, PaidFor, Follows, Reserved, Unsent
<1>21. ASSUME NEW a \in Attempts, Rejected(a) PROVE Collected'
  BY <1>21, <1>1, <1>2, <1>3 DEF Rejected, Collected, ReceiptUntilServed, PaidFor, Follows, Reserved, Unsent
<1>22. ASSUME NEW a \in Attempts, Uncertain(a) PROVE Collected'
  BY <1>22, <1>1, <1>2, <1>3 DEF Uncertain, Collected, ReceiptUntilServed, PaidFor, Follows, Reserved, Unsent
<1>23. ASSUME NEW a \in Attempts, Drop(a) PROVE Collected'
  BY <1>23, <1>1, <1>2, <1>3 DEF Drop, Collected, ReceiptUntilServed, PaidFor, Follows, Reserved, Unsent
<1>24. ASSUME NEW a \in Attempts, Record(a) PROVE Collected'
  BY <1>24, <1>1, <1>2, <1>3 DEF Record, Collected, ReceiptUntilServed, PaidFor, Follows, Reserved, Unsent
<1>25. ASSUME NEW a \in Attempts, Catch(a) PROVE Collected'
  BY <1>25, <1>1, <1>2, <1>3 DEF Catch, Own, Collected, ReceiptUntilServed, PaidFor, Follows, Reserved, Unsent
<1>26. ASSUME NEW r \in Recoveries, Recover(r) PROVE Collected'
  BY <1>26, <1>1, <1>2, <1>3 DEF Recover, Collected, ReceiptUntilServed, PaidFor, Follows, Reserved, Unsent
<1>27. ASSUME NEW r \in Recoveries, Retry(r) PROVE Collected'
  BY <1>27, <1>1, <1>2, <1>3 DEF Retry, Collected, ReceiptUntilServed, PaidFor, Follows, Reserved, Unsent
<1>28. ASSUME NEW r \in Recoveries, Complete(r) PROVE Collected'
  BY <1>28, <1>1, <1>2, <1>3 DEF Complete, Succeed, Waiting, Collected, ReceiptUntilServed, PaidFor, Follows, Reserved, Unsent
<1>29. ASSUME NEW k \in Tasks, Delivered(k) PROVE Collected'
  BY <1>29, <1>1, <1>2, <1>3 DEF Delivered, Collected, ReceiptUntilServed, PaidFor, Follows, Reserved, Unsent
<1>30. ASSUME NEW k \in Tasks, Undelivered(k) PROVE Collected'
  BY <1>30, <1>1, <1>2, <1>3 DEF Undelivered, Failed, Collected, ReceiptUntilServed, PaidFor, Follows, Reserved, Unsent
<1>31. ASSUME NEW k \in Tasks, Ack(k) PROVE Collected'
  BY <1>31, <1>1, <1>2, <1>3 DEF Ack, Finished, Collected, ReceiptUntilServed, PaidFor, Follows, Reserved, Unsent
<1>32. ASSUME NEW k \in Tasks, Clear(k) PROVE Collected'
  BY <1>32, <1>1, <1>2, <1>3 DEF Clear, Finished, Collected, ReceiptUntilServed, PaidFor, Follows, Reserved, Unsent
<1>33. ASSUME NEW k \in Tasks, LetGo(k) PROVE Collected'
  BY <1>33, <1>1, <1>2, <1>3 DEF LetGo, Collected, ReceiptUntilServed, PaidFor, Follows, Reserved, Unsent
<1>34. ASSUME NEW t \in Txs, Execute(t) PROVE Collected'
  BY <1>34, <1>1, <1>2, <1>3 DEF Execute, Collected, ReceiptUntilServed, PaidFor, Follows, Reserved, Unsent
<1>35. ASSUME NEW t \in Txs, Refuse(t) PROVE Collected'
  BY <1>35, <1>1, <1>2, <1>3 DEF Refuse, Collected, ReceiptUntilServed, PaidFor, Follows, Reserved, Unsent
<1>36. ASSUME NEW t \in Txs, Fulfil(t) PROVE Collected'
  BY <1>36, <1>1, <1>2, <1>3 DEF Fulfil, Collected, ReceiptUntilServed, PaidFor, Follows, Reserved, Unsent
<1>37. ASSUME NEW s \in Servers, Crash(s) PROVE Collected'
  BY <1>37, <1>1, <1>2, <1>3 DEF Crash, Collected, ReceiptUntilServed, PaidFor, Follows, Reserved, Unsent
<1>. QED
  BY <1>10, <1>11, <1>12, <1>13, <1>14, <1>15, <1>16, <1>17, <1>18, <1>19, <1>20, <1>21, <1>22, <1>23, <1>24, <1>25, <1>26, <1>27, <1>28, <1>29, <1>30, <1>31, <1>32, <1>33, <1>34, <1>35, <1>36, <1>37 DEF Next, Buy, Deliver

LEMMA JournalledKept ==
  ASSUME Inv, [Next]_vars
  PROVE  Journalled'
<1>. USE DEF Goto, Write, MaybeWrite, Leave, Join, Release, Requested, ledger, agents
<1>1. /\ tool \in [Calls -> ToolCalls] /\ pc \in [Tasks -> AttemptSteps \cup RecoverySteps]
      /\ chain \in [Txs -> {"none", "sent", "settled", "rejected"}]
      /\ found \in [Tasks -> Txs \cup {None}]
      /\ merchant \in [Txs -> {"none", "executing", "ok", "bad"}]
      /\ receipts \subseteq Txs
      /\ claim \in [Servers -> Txs \cup {"active", None}] /\ joined \subseteq Tasks
      /\ \A a \in Attempts : pc[a] \in AttemptSteps
      /\ \A r \in Recoveries : pc[r] \in RecoverySteps
  BY DEF Inv, TypeOK
<1>2. /\ Txs = Attempts /\ Tasks = Attempts \cup Recoveries /\ Attempts \cap Recoveries = {}
      /\ None \notin Txs /\ "active" \notin Txs /\ None # "active"
      /\ \A a \in Attempts : CallOf[a] \in Calls /\ UrlOfTx(a) = UrlOf[CallOf[a]]
      /\ \A k \in Tasks : Here(k) \in Servers
  BY Named
<1>3. Follows /\ Reserved /\ Collected /\ Journalled
  BY DEF Inv
<1>10. CASE UNCHANGED vars
  BY <1>10, <1>1, <1>2, <1>3 DEF vars, Journalled, OutcomesAreTrue, PaidFor, Collected, Follows, Reserved, Won, Busy, AttemptSteps, Unsent, ToolCalls
<1>11. ASSUME NEW a \in Attempts, Check(a) PROVE Journalled'
  BY <1>11, <1>1, <1>2, <1>3 DEF Check, Journalled, OutcomesAreTrue, PaidFor, Collected, Follows, Reserved, Won, Busy, AttemptSteps, Unsent, ToolCalls
<1>12. ASSUME NEW a \in Attempts, Reserve(a) PROVE Journalled'
  <2>1. UNCHANGED <<chain, merchant>>
        /\ \A c \in Calls : tool'[c] = tool[c] \/ tool'[c].status = "running"
    BY <1>12, <1>1, <1>2 DEF Reserve, ToolCalls
  <2>. QED
    BY <1>2, <1>3, <2>1 DEF Journalled, OutcomesAreTrue, PaidFor
<1>13. ASSUME NEW a \in Attempts, List(a) PROVE Journalled'
  BY <1>13, <1>1, <1>2, <1>3 DEF List, Journalled, OutcomesAreTrue, PaidFor, Collected, Follows, Reserved, Won, Busy, AttemptSteps, Unsent, ToolCalls
<1>14. ASSUME NEW a \in Attempts, Adopt(a) PROVE Journalled'
  BY <1>14, <1>1, <1>2, <1>3 DEF Adopt, Journalled, OutcomesAreTrue, PaidFor, Collected, Follows, Reserved, Won, Busy, AttemptSteps, Unsent, ToolCalls
<1>15. ASSUME NEW a \in Attempts, Claim(a) PROVE Journalled'
  BY <1>15, <1>1, <1>2, <1>3 DEF Claim, Journalled, OutcomesAreTrue, PaidFor, Collected, Follows, Reserved, Won, Busy, AttemptSteps, Unsent, ToolCalls
<1>16. ASSUME NEW a \in Attempts, Hydrate(a) PROVE Journalled'
  BY <1>16, <1>1, <1>2, <1>3 DEF Hydrate, Journalled, OutcomesAreTrue, PaidFor, Collected, Follows, Reserved, Won, Busy, AttemptSteps, Unsent, ToolCalls
<1>17. ASSUME NEW a \in Attempts, Sequence(a) PROVE Journalled'
  BY <1>17, <1>1, <1>2, <1>3 DEF Sequence, Journalled, OutcomesAreTrue, PaidFor, Collected, Follows, Reserved, Won, Busy, AttemptSteps, Unsent, ToolCalls
<1>18. ASSUME NEW a \in Attempts, Save(a) PROVE Journalled'
  BY <1>18, <1>1, <1>2, <1>3 DEF Save, Journalled, OutcomesAreTrue, PaidFor, Collected, Follows, Reserved, Won, Busy, AttemptSteps, Unsent, ToolCalls
<1>19. ASSUME NEW a \in Attempts, Send(a) PROVE Journalled'
  BY <1>19, <1>1, <1>2, <1>3 DEF Send, Journalled, OutcomesAreTrue, PaidFor, Collected, Follows, Reserved, Won, Busy, AttemptSteps, Unsent, ToolCalls
<1>20. ASSUME NEW a \in Attempts, Settled(a) PROVE Journalled'
  BY <1>20, <1>1, <1>2, <1>3 DEF Settled, Journalled, OutcomesAreTrue, PaidFor, Collected, Follows, Reserved, Won, Busy, AttemptSteps, Unsent, ToolCalls
<1>21. ASSUME NEW a \in Attempts, Rejected(a) PROVE Journalled'
  BY <1>21, <1>1, <1>2, <1>3 DEF Rejected, Journalled, OutcomesAreTrue, PaidFor, Collected, Follows, Reserved, Won, Busy, AttemptSteps, Unsent, ToolCalls
<1>22. ASSUME NEW a \in Attempts, Uncertain(a) PROVE Journalled'
  BY <1>22, <1>1, <1>2, <1>3 DEF Uncertain, Journalled, OutcomesAreTrue, PaidFor, Collected, Follows, Reserved, Won, Busy, AttemptSteps, Unsent, ToolCalls
<1>23. ASSUME NEW a \in Attempts, Drop(a) PROVE Journalled'
  BY <1>23, <1>1, <1>2, <1>3 DEF Drop, Journalled, OutcomesAreTrue, PaidFor, Collected, Follows, Reserved, Won, Busy, AttemptSteps, Unsent, ToolCalls
<1>24. ASSUME NEW a \in Attempts, Record(a) PROVE Journalled'
  <2>1. /\ UNCHANGED <<chain, merchant>>
        /\ \A c \in Calls : tool'[c] = tool[c]
                              \/ (c = CallOf[a] /\ tool'[c] = [status |-> "succeeded", tx |-> a])
    BY <1>24, <1>1, <1>2 DEF Record
  <2>2. merchant[a] = "ok" /\ chain[a] = "settled" /\ a # None
    BY <1>24, <1>2, <1>3 DEF Record, Follows, Collected
  <2>. QED
    BY <1>2, <1>3, <2>1, <2>2 DEF Journalled, OutcomesAreTrue, PaidFor
<1>25. ASSUME NEW a \in Attempts, Catch(a) PROVE Journalled'
  <2>1. pc[a] = "catch" /\ Won(a)
    BY <1>25 DEF Catch, Won, Busy, AttemptSteps
  <2>2. CASE Own(a, found[a]) \/ UNCHANGED tool
    <3>1. /\ UNCHANGED <<chain, merchant>>
          /\ \A c \in Calls :
               \/ tool'[c] = tool[c]
               \/ /\ tool'[c] = [status |-> "delivery_pending", tx |-> found[a]]
                  /\ found[a] \in Txs /\ UrlOfTx(found[a]) = UrlOf[c]
      BY <1>25, <1>1, <1>2, <2>2 DEF Catch, Own
    <3>. QED
      BY <1>2, <1>3, <3>1 DEF Journalled, OutcomesAreTrue, PaidFor
  <2>3. CASE ~ Own(a, found[a])
    <3>1. ~ PaidFor(a)
      BY <1>2, <1>3, <2>1, <2>3 DEF Own, Follows, PaidFor
    <3>2. \A b \in Attempts : CallOf[b] = CallOf[a] => ~ PaidFor(b)
      BY <1>3, <2>1, <3>1 DEF Reserved, Won, PaidFor
    <3>3. /\ UNCHANGED <<chain, merchant>>
          /\ \A c \in Calls :
               \/ tool'[c] = tool[c]
               \/ c = CallOf[a] /\ tool'[c] = [status |-> "failed", tx |-> None]
      BY <1>25, <1>1, <1>2, <2>3 DEF Catch
    <3>. QED
      BY <1>2, <1>3, <3>2, <3>3 DEF Journalled, OutcomesAreTrue, PaidFor
  <2>. QED
    BY <2>2, <2>3
<1>26. ASSUME NEW r \in Recoveries, Recover(r) PROVE Journalled'
  BY <1>26, <1>1, <1>2, <1>3 DEF Recover, Journalled, OutcomesAreTrue, PaidFor, Collected, Follows, Reserved, Won, Busy, AttemptSteps, Unsent, ToolCalls
<1>27. ASSUME NEW r \in Recoveries, Retry(r) PROVE Journalled'
  BY <1>27, <1>1, <1>2, <1>3 DEF Retry, Journalled, OutcomesAreTrue, PaidFor, Collected, Follows, Reserved, Won, Busy, AttemptSteps, Unsent, ToolCalls
<1>28. ASSUME NEW r \in Recoveries, Complete(r) PROVE Journalled'
  BY <1>28, <1>1, <1>2, <1>3 DEF Complete, Succeed, Waiting, Journalled, OutcomesAreTrue, PaidFor, Collected, Follows, Reserved, Won, Busy, AttemptSteps, Unsent, ToolCalls
<1>29. ASSUME NEW k \in Tasks, Delivered(k) PROVE Journalled'
  BY <1>29, <1>1, <1>2, <1>3 DEF Delivered, Journalled, OutcomesAreTrue, PaidFor, Collected, Follows, Reserved, Won, Busy, AttemptSteps, Unsent, ToolCalls
<1>30. ASSUME NEW k \in Tasks, Undelivered(k) PROVE Journalled'
  BY <1>30, <1>1, <1>2, <1>3 DEF Undelivered, Failed, Journalled, OutcomesAreTrue, PaidFor, Collected, Follows, Reserved, Won, Busy, AttemptSteps, Unsent, ToolCalls
<1>31. ASSUME NEW k \in Tasks, Ack(k) PROVE Journalled'
  BY <1>31, <1>1, <1>2, <1>3 DEF Ack, Finished, Journalled, OutcomesAreTrue, PaidFor, Collected, Follows, Reserved, Won, Busy, AttemptSteps, Unsent, ToolCalls
<1>32. ASSUME NEW k \in Tasks, Clear(k) PROVE Journalled'
  BY <1>32, <1>1, <1>2, <1>3 DEF Clear, Finished, Journalled, OutcomesAreTrue, PaidFor, Collected, Follows, Reserved, Won, Busy, AttemptSteps, Unsent, ToolCalls
<1>33. ASSUME NEW k \in Tasks, LetGo(k) PROVE Journalled'
  BY <1>33, <1>1, <1>2, <1>3 DEF LetGo, Journalled, OutcomesAreTrue, PaidFor, Collected, Follows, Reserved, Won, Busy, AttemptSteps, Unsent, ToolCalls
<1>34. ASSUME NEW t \in Txs, Execute(t) PROVE Journalled'
  BY <1>34, <1>1, <1>2, <1>3 DEF Execute, Journalled, OutcomesAreTrue, PaidFor, Collected, Follows, Reserved, Won, Busy, AttemptSteps, Unsent, ToolCalls
<1>35. ASSUME NEW t \in Txs, Refuse(t) PROVE Journalled'
  BY <1>35, <1>1, <1>2, <1>3 DEF Refuse, Journalled, OutcomesAreTrue, PaidFor, Collected, Follows, Reserved, Won, Busy, AttemptSteps, Unsent, ToolCalls
<1>36. ASSUME NEW t \in Txs, Fulfil(t) PROVE Journalled'
  BY <1>36, <1>1, <1>2, <1>3 DEF Fulfil, Journalled, OutcomesAreTrue, PaidFor, Collected, Follows, Reserved, Won, Busy, AttemptSteps, Unsent, ToolCalls
<1>37. ASSUME NEW s \in Servers, Crash(s) PROVE Journalled'
  BY <1>37, <1>1, <1>2, <1>3 DEF Crash, Journalled, OutcomesAreTrue, PaidFor, Collected, Follows, Reserved, Won, Busy, AttemptSteps, Unsent, ToolCalls
<1>. QED
  BY <1>10, <1>11, <1>12, <1>13, <1>14, <1>15, <1>16, <1>17, <1>18, <1>19, <1>20, <1>21, <1>22, <1>23, <1>24, <1>25, <1>26, <1>27, <1>28, <1>29, <1>30, <1>31, <1>32, <1>33, <1>34, <1>35, <1>36, <1>37 DEF Next, Buy, Deliver

LEMMA ExclusiveKept ==
  ASSUME Inv, [Next]_vars
  PROVE  Exclusive'
<1>. USE DEF Goto, Write, MaybeWrite, Leave, Join, Release, Requested, ledger, agents
<1>1. /\ tool \in [Calls -> ToolCalls] /\ pc \in [Tasks -> AttemptSteps \cup RecoverySteps]
      /\ chain \in [Txs -> {"none", "sent", "settled", "rejected"}]
      /\ found \in [Tasks -> Txs \cup {None}]
      /\ merchant \in [Txs -> {"none", "executing", "ok", "bad"}]
      /\ receipts \subseteq Txs
      /\ claim \in [Servers -> Txs \cup {"active", None}] /\ joined \subseteq Tasks
      /\ \A a \in Attempts : pc[a] \in AttemptSteps
      /\ \A r \in Recoveries : pc[r] \in RecoverySteps
  BY DEF Inv, TypeOK
<1>2. /\ Txs = Attempts /\ Tasks = Attempts \cup Recoveries /\ Attempts \cap Recoveries = {}
      /\ None \notin Txs /\ "active" \notin Txs /\ None # "active"
      /\ \A a \in Attempts : CallOf[a] \in Calls /\ UrlOfTx(a) = UrlOf[CallOf[a]]
      /\ \A k \in Tasks : Here(k) \in Servers
  BY Named
<1>3. Follows /\ Exclusive
  BY DEF Inv
<1>10. CASE UNCHANGED vars
  BY <1>10, <1>1, <1>2, <1>3 DEF vars, Exclusive, Holding, CanJoin, Follows, AttemptSteps, RecoverySteps
<1>11. ASSUME NEW a \in Attempts, Check(a) PROVE Exclusive'
  BY <1>11, <1>1, <1>2, <1>3 DEF Check, Exclusive, Holding, CanJoin, Follows, AttemptSteps, RecoverySteps
<1>12. ASSUME NEW a \in Attempts, Reserve(a) PROVE Exclusive'
  BY <1>12, <1>1, <1>2, <1>3 DEF Reserve, Exclusive, Holding, CanJoin, Follows, AttemptSteps, RecoverySteps
<1>13. ASSUME NEW a \in Attempts, List(a) PROVE Exclusive'
  BY <1>13, <1>1, <1>2, <1>3 DEF List, Exclusive, Holding, CanJoin, Follows, AttemptSteps, RecoverySteps
<1>14. ASSUME NEW a \in Attempts, Adopt(a) PROVE Exclusive'
  BY <1>14, <1>1, <1>2, <1>3 DEF Adopt, Exclusive, Holding, CanJoin, Follows, AttemptSteps, RecoverySteps
<1>15. ASSUME NEW a \in Attempts, Claim(a) PROVE Exclusive'
  BY <1>15, <1>1, <1>2, <1>3 DEF Claim, Exclusive, Holding, CanJoin, Follows, AttemptSteps, RecoverySteps
<1>16. ASSUME NEW a \in Attempts, Hydrate(a) PROVE Exclusive'
  BY <1>16, <1>1, <1>2, <1>3 DEF Hydrate, Exclusive, Holding, CanJoin, Follows, AttemptSteps, RecoverySteps
<1>17. ASSUME NEW a \in Attempts, Sequence(a) PROVE Exclusive'
  BY <1>17, <1>1, <1>2, <1>3 DEF Sequence, Exclusive, Holding, CanJoin, Follows, AttemptSteps, RecoverySteps
<1>18. ASSUME NEW a \in Attempts, Save(a) PROVE Exclusive'
  BY <1>18, <1>1, <1>2, <1>3 DEF Save, Exclusive, Holding, CanJoin, Follows, AttemptSteps, RecoverySteps
<1>19. ASSUME NEW a \in Attempts, Send(a) PROVE Exclusive'
  BY <1>19, <1>1, <1>2, <1>3 DEF Send, Exclusive, Holding, CanJoin, Follows, AttemptSteps, RecoverySteps
<1>20. ASSUME NEW a \in Attempts, Settled(a) PROVE Exclusive'
  BY <1>20, <1>1, <1>2, <1>3 DEF Settled, Exclusive, Holding, CanJoin, Follows, AttemptSteps, RecoverySteps
<1>21. ASSUME NEW a \in Attempts, Rejected(a) PROVE Exclusive'
  BY <1>21, <1>1, <1>2, <1>3 DEF Rejected, Exclusive, Holding, CanJoin, Follows, AttemptSteps, RecoverySteps
<1>22. ASSUME NEW a \in Attempts, Uncertain(a) PROVE Exclusive'
  BY <1>22, <1>1, <1>2, <1>3 DEF Uncertain, Exclusive, Holding, CanJoin, Follows, AttemptSteps, RecoverySteps
<1>23. ASSUME NEW a \in Attempts, Drop(a) PROVE Exclusive'
  BY <1>23, <1>1, <1>2, <1>3 DEF Drop, Exclusive, Holding, CanJoin, Follows, AttemptSteps, RecoverySteps
<1>24. ASSUME NEW a \in Attempts, Record(a) PROVE Exclusive'
  BY <1>24, <1>1, <1>2, <1>3 DEF Record, Exclusive, Holding, CanJoin, Follows, AttemptSteps, RecoverySteps
<1>25. ASSUME NEW a \in Attempts, Catch(a) PROVE Exclusive'
  BY <1>25, <1>1, <1>2, <1>3 DEF Catch, Own, Exclusive, Holding, CanJoin, Follows, AttemptSteps, RecoverySteps
<1>26. ASSUME NEW r \in Recoveries, Recover(r) PROVE Exclusive'
  BY <1>26, <1>1, <1>2, <1>3 DEF Recover, Exclusive, Holding, CanJoin, Follows, AttemptSteps, RecoverySteps
<1>27. ASSUME NEW r \in Recoveries, Retry(r) PROVE Exclusive'
  BY <1>27, <1>1, <1>2, <1>3 DEF Retry, Exclusive, Holding, CanJoin, Follows, AttemptSteps, RecoverySteps
<1>28. ASSUME NEW r \in Recoveries, Complete(r) PROVE Exclusive'
  BY <1>28, <1>1, <1>2, <1>3 DEF Complete, Succeed, Waiting, Exclusive, Holding, CanJoin, Follows, AttemptSteps, RecoverySteps
<1>29. ASSUME NEW k \in Tasks, Delivered(k) PROVE Exclusive'
  BY <1>29, <1>1, <1>2, <1>3 DEF Delivered, Exclusive, Holding, CanJoin, Follows, AttemptSteps, RecoverySteps
<1>30. ASSUME NEW k \in Tasks, Undelivered(k) PROVE Exclusive'
  BY <1>30, <1>1, <1>2, <1>3 DEF Undelivered, Failed, Exclusive, Holding, CanJoin, Follows, AttemptSteps, RecoverySteps
<1>31. ASSUME NEW k \in Tasks, Ack(k) PROVE Exclusive'
  BY <1>31, <1>1, <1>2, <1>3 DEF Ack, Finished, Exclusive, Holding, CanJoin, Follows, AttemptSteps, RecoverySteps
<1>32. ASSUME NEW k \in Tasks, Clear(k) PROVE Exclusive'
  BY <1>32, <1>1, <1>2, <1>3 DEF Clear, Finished, Exclusive, Holding, CanJoin, Follows, AttemptSteps, RecoverySteps
<1>33. ASSUME NEW k \in Tasks, LetGo(k) PROVE Exclusive'
  BY <1>33, <1>1, <1>2, <1>3 DEF LetGo, Exclusive, Holding, CanJoin, Follows, AttemptSteps, RecoverySteps
<1>34. ASSUME NEW t \in Txs, Execute(t) PROVE Exclusive'
  BY <1>34, <1>1, <1>2, <1>3 DEF Execute, Exclusive, Holding, CanJoin, Follows, AttemptSteps, RecoverySteps
<1>35. ASSUME NEW t \in Txs, Refuse(t) PROVE Exclusive'
  BY <1>35, <1>1, <1>2, <1>3 DEF Refuse, Exclusive, Holding, CanJoin, Follows, AttemptSteps, RecoverySteps
<1>36. ASSUME NEW t \in Txs, Fulfil(t) PROVE Exclusive'
  BY <1>36, <1>1, <1>2, <1>3 DEF Fulfil, Exclusive, Holding, CanJoin, Follows, AttemptSteps, RecoverySteps
<1>37. ASSUME NEW s \in Servers, Crash(s) PROVE Exclusive'
  BY <1>37, <1>1, <1>2, <1>3 DEF Crash, Exclusive, Holding, CanJoin, Follows, AttemptSteps, RecoverySteps
<1>. QED
  BY <1>10, <1>11, <1>12, <1>13, <1>14, <1>15, <1>16, <1>17, <1>18, <1>19, <1>20, <1>21, <1>22, <1>23, <1>24, <1>25, <1>26, <1>27, <1>28, <1>29, <1>30, <1>31, <1>32, <1>33, <1>34, <1>35, <1>36, <1>37 DEF Next, Buy, Deliver

LEMMA AloneKept ==
  ASSUME Inv, [Next]_vars
  PROVE  Alone'
<1>. USE DEF Goto, Write, MaybeWrite, Leave, Join, Release, Requested, ledger, agents
<1>1. /\ tool \in [Calls -> ToolCalls] /\ pc \in [Tasks -> AttemptSteps \cup RecoverySteps]
      /\ chain \in [Txs -> {"none", "sent", "settled", "rejected"}]
      /\ found \in [Tasks -> Txs \cup {None}]
      /\ merchant \in [Txs -> {"none", "executing", "ok", "bad"}]
      /\ receipts \subseteq Txs
      /\ claim \in [Servers -> Txs \cup {"active", None}] /\ joined \subseteq Tasks
      /\ \A a \in Attempts : pc[a] \in AttemptSteps
      /\ \A r \in Recoveries : pc[r] \in RecoverySteps
  BY DEF Inv, TypeOK
<1>2. /\ Txs = Attempts /\ Tasks = Attempts \cup Recoveries /\ Attempts \cap Recoveries = {}
      /\ None \notin Txs /\ "active" \notin Txs /\ None # "active"
      /\ \A a \in Attempts : CallOf[a] \in Calls /\ UrlOfTx(a) = UrlOf[CallOf[a]]
      /\ \A k \in Tasks : Here(k) \in Servers
  BY Named
<1>3. Exclusive /\ Alone
  BY DEF Inv
<1>10. CASE UNCHANGED vars
  BY <1>10, <1>1, <1>2, <1>3 DEF vars, Exclusive, Alone, Holding, AttemptSteps, RecoverySteps
<1>11. ASSUME NEW a \in Attempts, Check(a) PROVE Alone'
  BY <1>11, <1>1, <1>2, <1>3 DEF Check, Exclusive, Alone, Holding, AttemptSteps, RecoverySteps
<1>12. ASSUME NEW a \in Attempts, Reserve(a) PROVE Alone'
  BY <1>12, <1>1, <1>2, <1>3 DEF Reserve, Exclusive, Alone, Holding, AttemptSteps, RecoverySteps
<1>13. ASSUME NEW a \in Attempts, List(a) PROVE Alone'
  BY <1>13, <1>1, <1>2, <1>3 DEF List, Exclusive, Alone, Holding, AttemptSteps, RecoverySteps
<1>14. ASSUME NEW a \in Attempts, Adopt(a) PROVE Alone'
  BY <1>14, <1>1, <1>2, <1>3 DEF Adopt, Exclusive, Alone, Holding, AttemptSteps, RecoverySteps
<1>15. ASSUME NEW a \in Attempts, Claim(a) PROVE Alone'
  BY <1>15, <1>1, <1>2, <1>3 DEF Claim, Exclusive, Alone, Holding, AttemptSteps, RecoverySteps
<1>16. ASSUME NEW a \in Attempts, Hydrate(a) PROVE Alone'
  BY <1>16, <1>1, <1>2, <1>3 DEF Hydrate, Exclusive, Alone, Holding, AttemptSteps, RecoverySteps
<1>17. ASSUME NEW a \in Attempts, Sequence(a) PROVE Alone'
  BY <1>17, <1>1, <1>2, <1>3 DEF Sequence, Exclusive, Alone, Holding, AttemptSteps, RecoverySteps
<1>18. ASSUME NEW a \in Attempts, Save(a) PROVE Alone'
  BY <1>18, <1>1, <1>2, <1>3 DEF Save, Exclusive, Alone, Holding, AttemptSteps, RecoverySteps
<1>19. ASSUME NEW a \in Attempts, Send(a) PROVE Alone'
  BY <1>19, <1>1, <1>2, <1>3 DEF Send, Exclusive, Alone, Holding, AttemptSteps, RecoverySteps
<1>20. ASSUME NEW a \in Attempts, Settled(a) PROVE Alone'
  BY <1>20, <1>1, <1>2, <1>3 DEF Settled, Exclusive, Alone, Holding, AttemptSteps, RecoverySteps
<1>21. ASSUME NEW a \in Attempts, Rejected(a) PROVE Alone'
  BY <1>21, <1>1, <1>2, <1>3 DEF Rejected, Exclusive, Alone, Holding, AttemptSteps, RecoverySteps
<1>22. ASSUME NEW a \in Attempts, Uncertain(a) PROVE Alone'
  BY <1>22, <1>1, <1>2, <1>3 DEF Uncertain, Exclusive, Alone, Holding, AttemptSteps, RecoverySteps
<1>23. ASSUME NEW a \in Attempts, Drop(a) PROVE Alone'
  BY <1>23, <1>1, <1>2, <1>3 DEF Drop, Exclusive, Alone, Holding, AttemptSteps, RecoverySteps
<1>24. ASSUME NEW a \in Attempts, Record(a) PROVE Alone'
  BY <1>24, <1>1, <1>2, <1>3 DEF Record, Exclusive, Alone, Holding, AttemptSteps, RecoverySteps
<1>25. ASSUME NEW a \in Attempts, Catch(a) PROVE Alone'
  BY <1>25, <1>1, <1>2, <1>3 DEF Catch, Own, Exclusive, Alone, Holding, AttemptSteps, RecoverySteps
<1>26. ASSUME NEW r \in Recoveries, Recover(r) PROVE Alone'
  BY <1>26, <1>1, <1>2, <1>3 DEF Recover, Exclusive, Alone, Holding, AttemptSteps, RecoverySteps
<1>27. ASSUME NEW r \in Recoveries, Retry(r) PROVE Alone'
  BY <1>27, <1>1, <1>2, <1>3 DEF Retry, Exclusive, Alone, Holding, AttemptSteps, RecoverySteps
<1>28. ASSUME NEW r \in Recoveries, Complete(r) PROVE Alone'
  BY <1>28, <1>1, <1>2, <1>3 DEF Complete, Succeed, Waiting, Exclusive, Alone, Holding, AttemptSteps, RecoverySteps
<1>29. ASSUME NEW k \in Tasks, Delivered(k) PROVE Alone'
  BY <1>29, <1>1, <1>2, <1>3 DEF Delivered, Exclusive, Alone, Holding, AttemptSteps, RecoverySteps
<1>30. ASSUME NEW k \in Tasks, Undelivered(k) PROVE Alone'
  BY <1>30, <1>1, <1>2, <1>3 DEF Undelivered, Failed, Exclusive, Alone, Holding, AttemptSteps, RecoverySteps
<1>31. ASSUME NEW k \in Tasks, Ack(k) PROVE Alone'
  BY <1>31, <1>1, <1>2, <1>3 DEF Ack, Finished, Exclusive, Alone, Holding, AttemptSteps, RecoverySteps
<1>32. ASSUME NEW k \in Tasks, Clear(k) PROVE Alone'
  BY <1>32, <1>1, <1>2, <1>3 DEF Clear, Finished, Exclusive, Alone, Holding, AttemptSteps, RecoverySteps
<1>33. ASSUME NEW k \in Tasks, LetGo(k) PROVE Alone'
  BY <1>33, <1>1, <1>2, <1>3 DEF LetGo, Exclusive, Alone, Holding, AttemptSteps, RecoverySteps
<1>34. ASSUME NEW t \in Txs, Execute(t) PROVE Alone'
  BY <1>34, <1>1, <1>2, <1>3 DEF Execute, Exclusive, Alone, Holding, AttemptSteps, RecoverySteps
<1>35. ASSUME NEW t \in Txs, Refuse(t) PROVE Alone'
  BY <1>35, <1>1, <1>2, <1>3 DEF Refuse, Exclusive, Alone, Holding, AttemptSteps, RecoverySteps
<1>36. ASSUME NEW t \in Txs, Fulfil(t) PROVE Alone'
  BY <1>36, <1>1, <1>2, <1>3 DEF Fulfil, Exclusive, Alone, Holding, AttemptSteps, RecoverySteps
<1>37. ASSUME NEW s \in Servers, Crash(s) PROVE Alone'
  BY <1>37, <1>1, <1>2, <1>3 DEF Crash, Exclusive, Alone, Holding, AttemptSteps, RecoverySteps
<1>. QED
  BY <1>10, <1>11, <1>12, <1>13, <1>14, <1>15, <1>16, <1>17, <1>18, <1>19, <1>20, <1>21, <1>22, <1>23, <1>24, <1>25, <1>26, <1>27, <1>28, <1>29, <1>30, <1>31, <1>32, <1>33, <1>34, <1>35, <1>36, <1>37 DEF Next, Buy, Deliver

-----------------------------------------------------------------------------
(* The theorems.                                                           *)

LEMMA Invariance == Spec => []Inv
<1>1. Inv /\ [Next]_vars => Inv'
  BY TypeKept, ReservedKept, FollowsKept, CollectedKept, JournalledKept, ExclusiveKept, AloneKept DEF Inv
<1>. QED
  BY <1>1, InitInv, PTL DEF Spec

\* Journal, claims, requests and ledger stay well formed across errors and restarts.
THEOREM TypeCorrectness == Spec => []TypeOK
<1>1. Inv => TypeOK
  BY DEF Inv
<1>. QED
  BY <1>1, Invariance, PTL

\* reserveToolCall lets one tool call id pay at most once, on any number of servers.
THEOREM PaidOnce == Spec => []OnePaymentPerCall
<1>1. Inv => OnePaymentPerCall
  BY DEF Inv, Reserved, Won, OnePaymentPerCall, PaidFor
<1>. QED
  BY <1>1, Invariance, PTL

\* purchase.ts and the agent never discard the receipt of a payment that left and was
\* not served, whatever fails.
THEOREM ReceiptsKept == Spec => []ReceiptUntilServed
<1>1. Inv => ReceiptUntilServed
  BY DEF Inv, Collected
<1>. QED
  BY <1>1, Invariance, PTL

\* The journal shows an output only for a settled and served payment of the same URL,
\* and a failure only when no payment of the call is out.
THEOREM TruthfulOutcomes == Spec => []OutcomesAreTrue
<1>1. Inv => OutcomesAreTrue
  BY DEF Inv, Journalled
<1>. QED
  BY <1>1, Invariance, PTL

\* On one server a payment is sent only when no other payment made there is still
\* retained: the claim in memory and the second look at the receipts suffice.
THEOREM SentAlone == Spec => SendAloneOnServer
<1>1. Inv /\ [Next]_vars =>
        [\A t, u \in Txs : chain[t] = "none" /\ chain'[t] = "sent" /\ u \in receipts
           /\ ServerOf[u] = ServerOf[t] => u = t]_vars
  <2>. SUFFICES ASSUME Inv, [Next]_vars, NEW t \in Txs, NEW u \in Txs,
                       chain[t] = "none", chain'[t] = "sent", u \in receipts,
                       ServerOf[u] = ServerOf[t]
                PROVE  u = t
    OBVIOUS
  <2>1. chain \in [Txs -> {"none", "sent", "settled", "rejected"}] /\ Txs = Attempts
    BY Named DEF Inv, TypeOK
  <2>2. pc[t] = "send"
    BY <2>1 DEF Next, Buy, Deliver, vars, ledger, Check, Reserve, List, Adopt, Claim, Hydrate,
       Sequence, Save, Send, Settled, Rejected, Uncertain, Drop, Record, Catch, Recover, Retry,
       Complete, Delivered, Undelivered, Ack, Clear, LetGo, Execute, Refuse, Fulfil, Crash
  <2>. QED
    BY <2>1, <2>2 DEF Inv, Alone, Here
<1>. QED
  BY <1>1, Invariance, PTL DEF Spec, SendAloneOnServer
=============================================================================
