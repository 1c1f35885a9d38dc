---------------------------- MODULE CellLocksProofs ----------------------------
(***************************************************************************)
(* The typing of CellLocks, and the exclusion of two editors in the calm:  *)
(* for any number of tabs and users and any period of the heartbeats that  *)
(* is shorter than the life of a lock.                                     *)
(***************************************************************************)
EXTENDS CellLocks, TLAPS

\* A step keeps the typing of the state.
LEMMA TypeStep == TypeOK /\ [Next]_vars => TypeOK'
<1> SUFFICES ASSUME TypeOK, [Next]_vars PROVE TypeOK'
  OBVIOUS
<1> USE LockAssumption DEF TypeOK, Locks, NoLock, Taken, Stages, Messages
<1>1. CASE Tick
  BY <1>1 DEF Tick
<1>2. CASE Restart
  BY <1>2 DEF Restart
<1>3. ASSUME NEW t \in Tabs, TryStartEdit(t) PROVE TypeOK'
  BY <1>3 DEF TryStartEdit
<1>4. ASSUME NEW t \in Tabs, StartEdit(t) PROVE TypeOK'
  BY <1>4 DEF StartEdit, HeldByOther
<1>5. ASSUME NEW t \in Tabs, SendHeartbeat(t) PROVE TypeOK'
  BY <1>5 DEF SendHeartbeat
<1>6. ASSUME NEW t \in Tabs, EndEdit(t) PROVE TypeOK'
  BY <1>6 DEF EndEdit
<1>7. ASSUME NEW t \in Tabs, LeaveUnreleased(t) PROVE TypeOK'
  BY <1>7 DEF LeaveUnreleased
<1>8. ASSUME NEW t \in Tabs, ClosePage(t) PROVE TypeOK'
  BY <1>8 DEF ClosePage
<1>9. ASSUME NEW t \in Tabs, Refetch(t) PROVE TypeOK'
  BY <1>9 DEF Refetch, HeldByOther
<1>10. ASSUME NEW t \in Tabs, NEW m \in Messages, Deliver(t, m) PROVE TypeOK'
  <2>1. CASE m = "ask"
    BY <1>10, <2>1 DEF Deliver, Acquire, HeldByOther
  <2>2. CASE m = "heartbeat"
    BY <1>10, <2>2 DEF Deliver, Heartbeat
  <2>3. CASE m = "release"
    BY <1>10, <2>3 DEF Deliver, Release
  <2> QED BY <2>1, <2>2, <2>3
<1>11. ASSUME NEW t \in Tabs, NEW m \in Messages, Lose(t, m) PROVE TypeOK'
  BY <1>11 DEF Lose
<1>12. CASE UNCHANGED vars
  BY <1>12 DEF vars
<1> QED
  BY <1>1, <1>2, <1>3, <1>4, <1>5, <1>6, <1>7, <1>8, <1>9, <1>10, <1>11, <1>12
     DEF Next, TabStep

\* The state of CellLocks is typed, whatever is lost and whenever the server
\* restarts.
THEOREM TypeCorrect == Spec => []TypeOK
<1>1. Init => TypeOK
  BY LockAssumption DEF Init, TypeOK, Locks, NoLock, Stages, Messages
<1> QED
  BY <1>1, TypeStep, PTL DEF Spec

-----------------------------------------------------------------------------
\* What an editing tab holds in the calm: the lock, with as much of it left as
\* the heartbeats have not used up.
EditorHolds(t) ==
    editing[t] =>
        /\ lock.owner = user[t] /\ asking[t] = "no" /\ "release" \notin sent[t]
        /\ \/ lock.left + timer[t] >= Ttl
           \/ "heartbeat" \in sent[t] /\ lock.left + Beat >= Ttl

\* A granted tab holds a lock of full length.
GrantedHolds(t) ==
    asking[t] = "granted" =>
        lock.owner = user[t] /\ lock.left = Ttl /\ sent[t] = {}

\* A heartbeat or a release under way finds the lock still its sender's.
SenderHolds(t) ==
    sent[t] \cap {"heartbeat", "release"} # {} => lock.owner = user[t]

AskIsAwaited(t) == "ask" \in sent[t] => asking[t] \in {"asked", "closed"}

CalmTab(t) == EditorHolds(t) /\ GrantedHolds(t) /\ SenderHolds(t) /\ AskIsAwaited(t)

CalmInv == calm /\ OneTabEach => \A t \in Tabs : CalmTab(t)

\* In the calm a message never takes the lock away from a tab that holds it.
LEMMA DeliverCalm ==
    ASSUME TypeOK, CalmInv, calm, OneTabEach,
           NEW t \in Tabs, NEW m \in Messages, Deliver(t, m)
    PROVE  \A s \in Tabs : CalmTab(s)'
<1> USE LockAssumption
<1> SUFFICES ASSUME NEW s \in Tabs PROVE CalmTab(s)'
  OBVIOUS
<1>0. CalmTab(t) /\ CalmTab(s)
  BY DEF CalmInv
<1>a. user[t] \in Users /\ user[s] \in Users /\ (user[t] = user[s] => t = s)
  BY DEF TypeOK, OneTabEach
<1>1. CASE m = "ask"
  <2>1. sent[t] = {"ask"} /\ sent'[t] = {} /\ (s # t => sent'[s] = sent[s])
    BY <1>1 DEF Deliver, Arriving, TypeOK
  <2>2. asking[t] \in {"asked", "closed"} /\ ~editing[t]
    BY <2>1, <1>0 DEF CalmTab, EditorHolds, AskIsAwaited
  <2>3. CASE s = t
    BY <1>0, <1>1, <2>1, <2>2, <2>3
       DEF Deliver, Acquire, HeldByOther, Taken, TypeOK, CalmTab, EditorHolds,
           GrantedHolds, SenderHolds, AskIsAwaited
  <2>4. CASE s # t
    <3>1. asking'[s] = asking[s] /\ editing'[s] = editing[s] /\ timer'[s] = timer[s]
          /\ user'[s] = user[s]
      BY <1>1, <2>4 DEF Deliver, Acquire, TypeOK
    <3>2. lock.owner = user[s] => lock' = lock
      BY <1>a, <1>1, <2>4 DEF Deliver, Acquire, HeldByOther
    <3> QED
      BY <1>0, <2>1, <2>4, <3>1, <3>2
         DEF CalmTab, EditorHolds, GrantedHolds, SenderHolds, AskIsAwaited
  <2> QED BY <2>3, <2>4
<1>2. CASE m \in {"heartbeat", "release"}
  <2>1. m \in sent[t] /\ lock.owner = user[t]
    BY <1>0, <1>2 DEF Deliver, Arriving, CalmTab, SenderHolds
  <2>2. /\ asking' = asking /\ editing' = editing /\ timer' = timer /\ user' = user
        /\ sent'[s] = IF s = t THEN sent[t] \ {m} ELSE sent[s]
    BY <1>2 DEF Deliver, Heartbeat, Release, TypeOK
  <2>3. CASE s # t
    <3>1. lock.owner # user[s]
      BY <2>1, <2>3, <1>a
    <3>2. ~editing[s] /\ asking[s] # "granted" /\ sent[s] \cap {"heartbeat", "release"} = {}
      BY <1>0, <3>1 DEF CalmTab, EditorHolds, GrantedHolds, SenderHolds
    <3> QED
      BY <1>0, <2>2, <2>3, <3>2
         DEF CalmTab, EditorHolds, GrantedHolds, SenderHolds, AskIsAwaited
  <2>4. CASE s = t /\ m = "heartbeat"
    <3>1. lock' = [owner |-> user[t], left |-> Ttl]
      BY <2>4 DEF Deliver, Heartbeat, Taken
    <3>2. timer[t] \in 0 .. Beat
      BY DEF TypeOK
    <3> QED
      BY <1>0, <2>1, <2>2, <2>4, <3>1, <3>2
         DEF CalmTab, EditorHolds, GrantedHolds, SenderHolds, AskIsAwaited
  <2>5. CASE s = t /\ m = "release"
    <3>1. "heartbeat" \notin sent[t]
      BY <2>5 DEF Deliver, Arriving
    <3> QED
      BY <1>0, <2>1, <2>2, <2>5, <3>1
         DEF CalmTab, EditorHolds, GrantedHolds, SenderHolds, AskIsAwaited
  <2> QED BY <1>2, <2>3, <2>4, <2>5
<1> QED BY <1>1, <1>2 DEF Messages

\* A tick wears a lock down, and never to nothing under an editor: it waits
\* for the messages and the heartbeats that are due.
LEMMA TickCalm ==
    ASSUME TypeOK, CalmInv, calm, OneTabEach, Tick
    PROVE  \A s \in Tabs : CalmTab(s)'
<1> USE LockAssumption
<1> SUFFICES ASSUME NEW s \in Tabs PROVE CalmTab(s)'
  OBVIOUS
<1>0. CalmTab(s) /\ Settled(s)
  BY DEF CalmInv, Tick
<1>1. /\ sent'[s] = {} /\ asking'[s] = "no" /\ editing'[s] = editing[s]
      /\ sent[s] = {} /\ user'[s] = user[s]
  BY <1>0 DEF Tick, Settled
<1>2. ASSUME editing[s]
      PROVE  lock'.owner = user[s] /\ lock'.left + timer'[s] >= Ttl
  <2>1. timer[s] \in 0 .. Beat /\ timer[s] # Beat /\ lock.left \in 0 .. Ttl
    BY <1>0, <1>2 DEF Settled, TypeOK, Locks
  <2>2. lock.owner = user[s] /\ lock.left + timer[s] >= Ttl
    BY <1>0, <1>1, <1>2 DEF CalmTab, EditorHolds
  <2>3. timer'[s] = timer[s] + 1 /\ lock.left >= 2
    BY <1>2, <2>1, <2>2 DEF Tick
  <2>4. lock' = [lock EXCEPT !.left = @ - 1]
    BY <2>1, <2>3 DEF Tick
  <2>5. lock'.owner = user[s] /\ lock'.left = lock.left - 1
    BY <2>2, <2>4 DEF TypeOK, Locks
  <2> QED BY <2>1, <2>2, <2>3, <2>5
<1> QED
  BY <1>0, <1>1, <1>2 DEF CalmTab, EditorHolds, GrantedHolds, SenderHolds, AskIsAwaited

LEMMA CalmStep == TypeOK /\ CalmInv /\ [Next]_vars => CalmInv'
<1> SUFFICES ASSUME TypeOK, CalmInv, [Next]_vars, calm', OneTabEach'
             PROVE  \A s \in Tabs : CalmTab(s)'
  BY DEF CalmInv
<1>0. calm /\ OneTabEach
  BY DEF Next, TabStep, Tick, Restart, TryStartEdit, StartEdit, SendHeartbeat, EndEdit,
         LeaveUnreleased, ClosePage, Refetch, Deliver, Lose, vars, OneTabEach
<1>a. \A s \in Tabs : CalmTab(s)
  BY <1>0 DEF CalmInv
<1> USE DEF CalmTab, EditorHolds, GrantedHolds, SenderHolds, AskIsAwaited
<1>1. CASE Tick
  BY <1>0, <1>1, TickCalm
<1>2. CASE Restart
  BY <1>0, <1>2 DEF Restart
<1>3. ASSUME NEW t \in Tabs, TryStartEdit(t) PROVE \A s \in Tabs : CalmTab(s)'
  BY <1>a, <1>3 DEF TryStartEdit, TypeOK
<1>4. ASSUME NEW t \in Tabs, StartEdit(t) PROVE \A s \in Tabs : CalmTab(s)'
  BY <1>a, <1>4, LockAssumption DEF StartEdit, TypeOK
<1>5. ASSUME NEW t \in Tabs, SendHeartbeat(t) PROVE \A s \in Tabs : CalmTab(s)'
  BY <1>a, <1>5, LockAssumption DEF SendHeartbeat, TypeOK, Locks
<1>6. ASSUME NEW t \in Tabs, EndEdit(t) PROVE \A s \in Tabs : CalmTab(s)'
  BY <1>a, <1>6 DEF EndEdit, TypeOK
<1>7. ASSUME NEW t \in Tabs, LeaveUnreleased(t) PROVE \A s \in Tabs : CalmTab(s)'
  BY <1>a, <1>7 DEF LeaveUnreleased, TypeOK
<1>8. ASSUME NEW t \in Tabs, ClosePage(t) PROVE \A s \in Tabs : CalmTab(s)'
  BY <1>a, <1>8 DEF ClosePage, TypeOK
<1>9. ASSUME NEW t \in Tabs, Refetch(t) PROVE \A s \in Tabs : CalmTab(s)'
  BY <1>a, <1>9 DEF Refetch
<1>10. ASSUME NEW t \in Tabs, NEW m \in Messages, Deliver(t, m)
       PROVE  \A s \in Tabs : CalmTab(s)'
  BY <1>0, <1>10, DeliverCalm
<1>11. ASSUME NEW t \in Tabs, NEW m \in Messages, Lose(t, m)
       PROVE  \A s \in Tabs : CalmTab(s)'
  BY <1>0, <1>11 DEF Lose
<1>12. CASE UNCHANGED vars
  BY <1>a, <1>12 DEF vars
<1> QED
  BY <1>1, <1>2, <1>3, <1>4, <1>5, <1>6, <1>7, <1>8, <1>9, <1>10, <1>11, <1>12
     DEF Next, TabStep

\* Two tabs never edit the cell at once while messages are prompt and in order,
\* timers punctual and the server up, and each user has one tab: for every life
\* of a lock that is longer than the period of the heartbeats.
THEOREM ExclusionInTheCalm == Spec => []ExclusiveWhenCalm
<1>1. Init => CalmInv
  BY DEF Init, CalmInv, CalmTab, EditorHolds, GrantedHolds, SenderHolds, AskIsAwaited
<1>2. TypeOK /\ CalmInv => ExclusiveWhenCalm
  BY DEF TypeOK, CalmInv, CalmTab, EditorHolds, ExclusiveWhenCalm, OneTabEach
<1> QED
  BY <1>1, <1>2, TypeCorrect, CalmStep, PTL DEF Spec
================================================================================
