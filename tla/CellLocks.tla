------------------------------- MODULE CellLocks -------------------------------
(***************************************************************************)
(* The lock of one cell of the reservation sheet.  The server keeps it in  *)
(* memory with the time it expires.  A browser tab asks for the lock       *)
(* before it edits, renews it by heartbeats while it edits and gives it    *)
(* back afterwards; heartbeats and releases are sent without waiting for   *)
(* an answer.  Locks of different cells share nothing, so one stands for   *)
(* all.  Time is discrete.                                                 *)
(***************************************************************************)
EXTENDS Integers

CONSTANTS
    Tabs, Users,
    Ttl,        \* LOCK_TTL_MS, in ticks
    Beat,       \* the period of the heartbeats, in ticks
    None

ASSUME LockAssumption ==
    /\ None \notin Users
    /\ Beat \in Nat \ {0} /\ Ttl \in Nat /\ Beat < Ttl

VARIABLES
    user,       \* who is logged in in each tab
    calm,       \* every message arrives, within the tick and in order; timers
                \* are punctual and the server stays up
    lock,       \* the entry of the cell; one that has expired is no entry,
                \* for every operation prunes first
    editing,    \* the tab is editing the cell
    asking,     \* the stage of the tab's request for the lock
    timer,      \* ticks since the edit began or the last heartbeat
    foreign,    \* foreignCellLocks has the cell: the last read of the locks
                \* showed it held by another user
    sent        \* per tab, the messages not yet received

vars == <<user, calm, lock, editing, asking, timer, foreign, sent>>

Stages == {"no", "asked", "granted", "refused", "closed"}
Messages == {"heartbeat", "release", "ask"}
Locks == [owner : Users \cup {None}, left : 0 .. Ttl]
NoLock == [owner |-> None, left |-> 0]

TypeOK ==
    /\ user \in [Tabs -> Users]
    /\ calm \in BOOLEAN
    /\ lock \in Locks
    /\ editing \in [Tabs -> BOOLEAN]
    /\ asking \in [Tabs -> Stages]
    /\ timer \in [Tabs -> 0 .. Beat]
    /\ foreign \in [Tabs -> BOOLEAN]
    /\ sent \in [Tabs -> SUBSET Messages]

Init ==
    /\ user \in [Tabs -> Users]
    /\ calm \in BOOLEAN
    /\ lock = NoLock
    /\ editing = [t \in Tabs |-> FALSE]
    /\ asking = [t \in Tabs |-> "no"]
    /\ timer = [t \in Tabs |-> 0]
    /\ foreign = [t \in Tabs |-> FALSE]
    /\ sent = [t \in Tabs |-> {}]

-----------------------------------------------------------------------------
(* The server: SheetPresenceService. *)

HeldByOther(t) == lock.owner \notin {None, user[t]}

Taken(t) == [owner |-> user[t], left |-> Ttl]

\* Mutated: a lock held by another user is no obstacle.
Overrule(t) ==
    /\ lock' = Taken(t)
    /\ asking' = [asking EXCEPT ![t] = IF @ = "asked" THEN "granted" ELSE "no"]

\* A tab closed meanwhile takes the lock all the same, and nobody is told.
Acquire(t) ==
    /\ lock' = IF HeldByOther(t) THEN lock ELSE Taken(t)
    /\ asking' = [asking EXCEPT ![t] =
                    IF @ = "closed" THEN "no"
                    ELSE IF HeldByOther(t) THEN "refused" ELSE "granted"]

\* Mutated: a heartbeat prolongs a lock, and never takes one.
ProlongOnly(t) ==
    /\ lock' = IF lock.owner = user[t] THEN Taken(t) ELSE lock
    /\ UNCHANGED asking

\* A heartbeat prolongs the lock of its user, and takes the cell whether it
\* has no lock or that of another user.
Heartbeat(t) ==
    /\ lock' = Taken(t)
    /\ UNCHANGED asking

\* Only the owner's release counts.
Release(t) ==
    /\ lock' = IF lock.owner = user[t] THEN NoLock ELSE lock
    /\ UNCHANGED asking

\* The messages of a tab that may arrive next.  A calm network keeps the order
\* in which they are sent, which is then always heartbeat, release, ask: a tab
\* that asks edits after the answer, and its first heartbeat is ticks away.
Arriving(t) ==
    {m \in sent[t] : calm =>
        CASE m = "heartbeat" -> TRUE
          [] m = "release"   -> "heartbeat" \notin sent[t]
          [] m = "ask"       -> sent[t] = {"ask"}}

Deliver(t, m) ==
    /\ m \in Arriving(t)
    /\ sent' = [sent EXCEPT ![t] = @ \ {m}]
    /\ CASE m = "ask"       -> Acquire(t)
         [] m = "heartbeat" -> Heartbeat(t)
         [] m = "release"   -> Release(t)
    /\ UNCHANGED <<user, calm, editing, timer, foreign>>

\* A message is lost; a request for the lock ends in an error.
Lose(t, m) ==
    /\ ~calm
    /\ m \in sent[t]
    /\ sent' = [sent EXCEPT ![t] = @ \ {m}]
    /\ asking' = IF m # "ask" THEN asking
                 ELSE [asking EXCEPT ![t] = IF @ = "closed" THEN "no" ELSE "refused"]
    /\ UNCHANGED <<user, calm, lock, editing, timer, foreign>>

\* The map of locks is in memory only.
Restart ==
    /\ ~calm
    /\ lock' = NoLock
    /\ UNCHANGED <<user, calm, editing, asking, timer, foreign, sent>>

-----------------------------------------------------------------------------
(* A tab: the grid, the page and its presence hook. *)

\* A cell shown as locked is refused without asking.
TryStartEdit(t) ==
    /\ ~editing[t] /\ asking[t] = "no"
    /\ ~foreign[t]
    /\ asking' = [asking EXCEPT ![t] = "asked"]
    /\ sent' = [sent EXCEPT ![t] = @ \cup {"ask"}]
    /\ UNCHANGED <<user, calm, lock, editing, timer, foreign>>

\* The answer arrives: the edit begins, whatever became of the lock since.
\* acquireLock has read the locks again by then.
StartEdit(t) ==
    /\ asking[t] \in {"granted", "refused"}
    /\ editing' = [editing EXCEPT ![t] = asking[t] = "granted"]
    /\ timer' = [timer EXCEPT ![t] = 0]
    /\ asking' = [asking EXCEPT ![t] = "no"]
    /\ foreign' = [foreign EXCEPT ![t] = HeldByOther(t)]
    /\ UNCHANGED <<user, calm, lock, sent>>

\* The interval of the page while a cell is being edited.
SendHeartbeat(t) ==
    /\ editing[t] /\ timer[t] = Beat
    /\ timer' = [timer EXCEPT ![t] = 0]
    /\ sent' = [sent EXCEPT ![t] = @ \cup {"heartbeat"}]
    /\ UNCHANGED <<user, calm, lock, editing, asking, foreign>>

\* commitEdit, cancelEdit, undo and redo: onAfterEdit releases the cell.
EndEdit(t) ==
    /\ editing[t]
    /\ editing' = [editing EXCEPT ![t] = FALSE]
    /\ sent' = [sent EXCEPT ![t] = @ \cup {"release"}]
    /\ UNCHANGED <<user, calm, lock, asking, timer, foreign>>

\* A click with shift inside the cell being edited: handleCellClick commits
\* only the edit of another cell, and closes this one without onAfterEdit.
LeaveUnreleased(t) ==
    /\ editing[t]
    /\ editing' = [editing EXCEPT ![t] = FALSE]
    /\ UNCHANGED <<user, calm, lock, asking, timer, foreign, sent>>

\* The tab is closed, or the page left; it may be opened again.
ClosePage(t) ==
    /\ editing[t] \/ asking[t] \in {"asked", "granted", "refused"}
    /\ editing' = [editing EXCEPT ![t] = FALSE]
    /\ asking' = [asking EXCEPT ![t] = IF @ = "asked" THEN "closed" ELSE "no"]
    /\ foreign' = [foreign EXCEPT ![t] = FALSE]
    /\ UNCHANGED <<user, calm, lock, timer, sent>>

\* The locks are read every two seconds.
Refetch(t) ==
    /\ foreign[t] # HeldByOther(t)
    /\ foreign' = [foreign EXCEPT ![t] = HeldByOther(t)]
    /\ UNCHANGED <<user, calm, lock, editing, asking, timer, sent>>

-----------------------------------------------------------------------------
Settled(t) ==
    /\ sent[t] = {} /\ asking[t] = "no"
    /\ ~(editing[t] /\ timer[t] = Beat)

\* Mutated: an entry is kept at the moment it expires.
KeepExpired ==
    /\ calm => \A t \in Tabs : Settled(t)
    /\ lock' = IF lock.left < 0 THEN NoLock ELSE [lock EXCEPT !.left = @ - 1]
    /\ timer' = [t \in Tabs |-> IF editing[t] /\ timer[t] < Beat
                                THEN timer[t] + 1 ELSE timer[t]]
    /\ UNCHANGED <<user, calm, editing, asking, foreign, sent>>

\* Mutated: expired entries are not pruned.
NeverPrune ==
    /\ calm => \A t \in Tabs : Settled(t)
    /\ lock' = IF lock.left <= 1 THEN lock ELSE [lock EXCEPT !.left = @ - 1]
    /\ timer' = [t \in Tabs |-> IF editing[t] /\ timer[t] < Beat
                                THEN timer[t] + 1 ELSE timer[t]]
    /\ UNCHANGED <<user, calm, editing, asking, foreign, sent>>

\* The lock expires when nothing is left of it.
Tick ==
    /\ calm => \A t \in Tabs : Settled(t)
    /\ lock' = IF lock.left <= 1 THEN NoLock ELSE [lock EXCEPT !.left = @ - 1]
    /\ timer' = [t \in Tabs |-> IF editing[t] /\ timer[t] < Beat
                                THEN timer[t] + 1 ELSE timer[t]]
    /\ UNCHANGED <<user, calm, editing, asking, foreign, sent>>

TabStep(t) ==
    \/ TryStartEdit(t) \/ StartEdit(t) \/ SendHeartbeat(t) \/ EndEdit(t)
    \/ LeaveUnreleased(t) \/ ClosePage(t) \/ Refetch(t)
    \/ \E m \in Messages : Deliver(t, m) \/ Lose(t, m)

Next == Tick \/ Restart \/ \E t \in Tabs : TabStep(t)

Spec == Init /\ [][Next]_vars

\* Time goes on; a browser's answers and intervals run; of the messages sent
\* again and again some arrive.  Nothing makes a user act.
FairSpec ==
    /\ Spec
    /\ SF_vars(Tick)
    /\ \A t \in Tabs : /\ WF_vars(StartEdit(t)) /\ WF_vars(SendHeartbeat(t))
                       /\ WF_vars(Refetch(t))
                       /\ SF_vars(\E m \in Messages : Deliver(t, m))

-----------------------------------------------------------------------------
OneTabEach == \A t, s \in Tabs : user[t] = user[s] => t = s

\* Two tabs never edit the cell at once, as long as messages are prompt and in
\* order, timers punctual and the server up, and no user has two tabs.  Each
\* assumption is needed: the code has nothing else to keep two editors apart.
ExclusiveWhenCalm ==
    calm /\ OneTabEach => \A t, s \in Tabs : editing[t] /\ editing[s] => t = s

\* A cell being edited does not stay without a lock: whatever was lost, a
\* heartbeat puts one back (the first branch of heartbeat).
EditIsLocked ==
    \A t \in Tabs : (editing[t] /\ lock = NoLock) ~> (lock # NoLock \/ ~editing[t])

\* A lock left behind by a tab that was closed, whose edit ended without a
\* release, or whose release was lost or overtaken by a heartbeat, comes free.
LeftLockComesFree ==
    \A u \in Users :
        LET Held == lock.owner = u
            Idle == \A t \in Tabs : user[t] = u => ~editing[t] /\ asking[t] = "no"
        IN  (Held /\ Idle) ~> (~Held \/ ~Idle)
================================================================================
