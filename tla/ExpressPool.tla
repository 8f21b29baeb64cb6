------------------------------- MODULE ExpressPool -------------------------------
(***************************************************************************)
(* The workspaces of the hosted testnet demo: app/api/express/route.ts     *)
(* admits requests to create one, lib/express-demo.ts builds it, keeps it  *)
(* in a table until it expires, and lets one action at a time use it.      *)
(*                                                                         *)
(* All of it is one process: a step is what runs between two awaits.  A    *)
(* workspace and its merchant server are named by the request that created *)
(* them.  What an action does to its workspace is ExpressWorkspace's.  The *)
(* tombstones of expired workspaces, which only choose between two error   *)
(* messages, are left out.                                                 *)
(***************************************************************************)
EXTENDS Naturals, FiniteSets

CONSTANTS
  Creates,      \* requests to create a workspace
  Owners,       \* client addresses
  OwnerOf,      \* OwnerOf[c]: the address request c came from
  BadOrigin,    \* the requests whose public origin cannot be derived
  MaxSessions,  \* MAX_ACTIVE_SESSIONS
  MaxCreates,   \* MAX_CONCURRENT_CREATES
  None

ASSUME PoolAssumption ==
  /\ IsFiniteSet(Creates)
  /\ OwnerOf \in [Creates -> Owners]
  /\ BadOrigin \subseteq Creates
  /\ MaxSessions \in Nat
  /\ MaxCreates \in Nat
  /\ None \notin Creates

VARIABLES
  pc,          \* pc[c]: how far request c is
  active,      \* activeCreates
  recent,      \* recentCreates[o]: the request whose time is kept, if any
  cooling,     \* the requests admitted less than CREATE_COOLDOWN_MS ago
  sessions,    \* the workspaces in the table
  busy,        \* the workspaces an action is using
  overdue,     \* the workspaces past their expiresAt
  listening,   \* the merchant servers that listen
  closing      \* the merchant servers told to close

vars == <<pc, active, recent, cooling, sessions, busy, overdue, listening, closing>>

table == <<sessions, busy, overdue>>
servers == <<listening, closing>>

TypeOK ==
  /\ pc \in [Creates -> {"new", "fund", "listen", "register", "close", "fail",
                         "return", "done", "failed"}]
  /\ active \in Nat
  /\ recent \in [Owners -> Creates \cup {None}]
  /\ cooling \subseteq Creates
  /\ sessions \subseteq Creates
  /\ busy \subseteq Creates
  /\ overdue \subseteq sessions
  /\ listening \subseteq Creates
  /\ closing \subseteq Creates

Init ==
  /\ pc = [c \in Creates |-> "new"]
  /\ active = 0
  /\ recent = [o \in Owners |-> None]
  /\ cooling = {}
  /\ sessions = {}
  /\ busy = {}
  /\ overdue = {}
  /\ listening = {}
  /\ closing = {}

Goto(c, step) == pc' = [pc EXCEPT ![c] = step]

-----------------------------------------------------------------------------
(* Creating a workspace.                                                   *)

RateLimited(c) == recent[OwnerOf[c]] \in cooling

\* A mutant: workspaces still being created are not counted.
AtCapacityLater(c) == active >= MaxCreates \/ Cardinality(sessions) >= MaxSessions

AtCapacity(c) == active >= MaxCreates \/ Cardinality(sessions) + active >= MaxSessions

\* From the request to its first await nothing else runs.  Without an origin the
\* request ends at once, and its cooldown stays.
Admit(c) ==
  /\ pc[c] = "new"
  /\ IF RateLimited(c) \/ AtCapacity(c)
       THEN Goto(c, "done") /\ UNCHANGED <<active, recent, cooling>>
       ELSE /\ recent' = [recent EXCEPT ![OwnerOf[c]] = c]
            /\ cooling' = cooling \cup {c}
            /\ IF c \in BadOrigin
                 THEN Goto(c, "done") /\ UNCHANGED active
                 ELSE Goto(c, "fund") /\ active' = active + 1
  /\ UNCHANGED <<table, servers>>

Leave == active' = IF active = 0 THEN 0 ELSE active - 1

\* Accounts, registration and allowance: one of them may fail, or the client leave.
Fund(c) ==
  /\ pc[c] = "fund"
  /\ Goto(c, "listen") \/ Goto(c, "fail")
  /\ UNCHANGED <<active, recent, cooling, table, servers>>

Listen(c) ==
  /\ pc[c] = "listen"
  /\ \/ listening' = listening \cup {c} /\ Goto(c, "register")
     \/ UNCHANGED listening /\ Goto(c, "fail")
  /\ UNCHANGED <<active, recent, cooling, table, closing>>

\* A mutant: the server of a create that was abandoned is forgotten.
RegisterOrForget(c) ==
  /\ pc[c] = "register"
  /\ \/ sessions' = sessions \cup {c} /\ Goto(c, "return")
     \/ UNCHANGED sessions /\ Goto(c, "fail")
  /\ UNCHANGED <<active, recent, cooling, busy, overdue, servers>>

\* The client may have left while the server was starting.
Register(c) ==
  /\ pc[c] = "register"
  /\ \/ sessions' = sessions \cup {c} /\ Goto(c, "return") /\ UNCHANGED closing
     \/ closing' = closing \cup {c} /\ Goto(c, "close") /\ UNCHANGED sessions
  /\ UNCHANGED <<active, recent, cooling, busy, overdue, listening>>

Close(c) ==
  /\ pc[c] = "close"
  /\ c \notin listening
  /\ Goto(c, "fail")
  /\ UNCHANGED <<active, recent, cooling, table, servers>>

\* A mutant: a failure lifts the cooldown of its owner whoever set it.
FailAnyCooldown(c) ==
  /\ pc[c] = "fail"
  /\ recent' = [recent EXCEPT ![OwnerOf[c]] = None]
  /\ Leave
  /\ Goto(c, "failed")
  /\ UNCHANGED <<cooling, table, servers>>

\* A failure lifts the cooldown, unless a later request has set it since.
Fail(c) ==
  /\ pc[c] = "fail"
  /\ recent' = [recent EXCEPT ![OwnerOf[c]] = IF @ = c THEN None ELSE @]
  /\ Leave
  /\ Goto(c, "failed")
  /\ UNCHANGED <<cooling, table, servers>>

Return(c) ==
  /\ pc[c] = "return"
  /\ Leave
  /\ Goto(c, "done")
  /\ UNCHANGED <<recent, cooling, table, servers>>

\* A minute passes.
CoolDown(c) ==
  /\ c \in cooling
  /\ cooling' = cooling \ {c}
  /\ UNCHANGED <<pc, active, recent, table, servers>>

-----------------------------------------------------------------------------
(* Using a workspace, and its end.                                         *)

\* A mutant: its timer is left running.
DisposeKeepsTimer(s) ==
  /\ sessions' = sessions \ {s}
  /\ closing' = closing \cup {s}
  /\ UNCHANGED overdue

\* Taken out of the table at once; its server closes when its connections end.
Dispose(s) ==
  /\ sessions' = sessions \ {s}
  /\ overdue' = overdue \ {s}
  /\ closing' = closing \cup {s}

\* closeServer: when its connections have ended, or two seconds later.
CloseServer(s) ==
  /\ s \in closing
  /\ listening' = listening \ {s}
  /\ closing' = closing \ {s}
  /\ UNCHANGED <<pc, active, recent, cooling, table>>

\* withSession, or withPublicSession: one action at a time.  Starting one restarts
\* the workspace's thirty minutes; finding it overdue ends it, busy or not.
Begin(s) ==
  /\ s \in sessions
  /\ \/ /\ s \in overdue
        /\ Dispose(s)
        /\ UNCHANGED busy
     \/ /\ s \notin overdue \cup busy
        /\ busy' = busy \cup {s}
        /\ UNCHANGED <<sessions, overdue, closing>>
  /\ UNCHANGED <<pc, active, recent, cooling, listening>>

\* A reset, and some purchases, dispose of the workspace in their action.
DisposeInAction(s) ==
  /\ s \in busy
  /\ s \in sessions
  /\ Dispose(s)
  /\ UNCHANGED <<pc, active, recent, cooling, busy, listening>>

End(s) ==
  /\ s \in busy
  /\ busy' = busy \ {s}
  /\ overdue' = overdue \ {s}
  /\ UNCHANGED <<pc, active, recent, cooling, sessions, servers>>

\* Thirty minutes pass.
FallDue(s) ==
  /\ s \in sessions
  /\ s \notin overdue
  /\ overdue' = overdue \cup {s}
  /\ UNCHANGED <<pc, active, recent, cooling, sessions, busy, servers>>

\* expireSession: the timer leaves a busy workspace alone for another thirty minutes.
Expire(s) ==
  /\ s \in overdue
  /\ \/ s \in busy /\ overdue' = overdue \ {s} /\ UNCHANGED <<sessions, closing>>
     \/ s \notin busy /\ Dispose(s)
  /\ UNCHANGED <<pc, active, recent, cooling, busy, listening>>

-----------------------------------------------------------------------------

Create(c) ==
  Admit(c) \/ Fund(c) \/ Listen(c) \/ Register(c) \/ Close(c) \/ Fail(c)
  \/ Return(c)

Next ==
  \E c \in Creates :
    \/ Create(c) \/ CoolDown(c)
    \/ Begin(c) \/ DisposeInAction(c) \/ End(c) \/ FallDue(c) \/ Expire(c)
    \/ CloseServer(c)

Spec == Init /\ [][Next]_vars

-----------------------------------------------------------------------------

Running(c) == pc[c] \in {"fund", "listen", "register", "close", "fail", "return"}

\* However creates overlap, the table never outgrows its limit, and the second
\* check, inside createExpressDemoSession, has nothing left to refuse; and
\* activeCreates counts the creates that run: every way out of one, and no other
\* step, gives its slot back.
WithinCapacity ==
  /\ Cardinality(sessions) <= MaxSessions
  /\ active <= MaxCreates
  /\ active = Cardinality({c \in Creates : Running(c)})

\* A merchant server listens only for a workspace in the table, for a create that
\* is about to enter it there, or until it has closed.
ServersHaveOwners ==
  /\ sessions \subseteq listening
  /\ listening \subseteq sessions \cup closing \cup {c \in Creates : pc[c] = "register"}

\* For a minute after it was admitted a request holds its owner's cooldown, unless
\* it failed: the failure of an earlier, slower request of the owner leaves it.
CooldownStands ==
  \A c \in cooling : pc[c] # "failed" => recent[OwnerOf[c]] = c

=============================================================================
