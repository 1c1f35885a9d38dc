--------------------------- MODULE SharedSheetProofs ---------------------------
(***************************************************************************)
(* What a browser's save queue guarantees for any browsers, columns,       *)
(* contents, connections and edits.                                        *)
(***************************************************************************)
EXTENDS SharedSheet, TLAPS

\* A row with a save that has not left is pending, so no merge touches it.
WaitingIsPending == \A u \in Clients : StillQueued(u) => pending[u]

\* A row is pending only while a save of it is still to end, and marked as in
\* flight only while a connection carries it: what would release it exists.
Carried(u) == \E s \in Slots : put[u][s].at # "idle"
PendingHasCause ==
    \A u \in Clients : /\ pending[u] => StillQueued(u) \/ inFlight[u]
                       /\ inFlight[u] => Carried(u)

QueueInv == SavesWhatIsShown /\ WaitingIsPending /\ PendingHasCause

-----------------------------------------------------------------------------
(* Types. *)

LEMMA RowFacts ==
    /\ Blank \in RowValues
    /\ Idle \in Put
BY DEF Blank, RowValues, Contents, Put, Idle, Stage

LEMMA InitTyped == Init => TypeOK
<1> SUFFICES ASSUME Init PROVE TypeOK OBVIOUS
<1>1. [s \in Slots |-> Idle] \in [Slots -> Put] BY RowFacts
<1> QED BY <1>1, SheetAssumption DEF Init, TypeOK

\* The data a browser receives, whichever it is, keeps the grid a grid.
LEMMA ReceiveTyped ==
    ASSUME TypeOK, NEW u \in Clients, NEW data \in RowValues, NEW p \in BOOLEAN, NEW k \in BOOLEAN,
           Receive(u, data, p, k)
    PROVE  /\ cells' \in [Clients -> RowValues]
           /\ cache' \in [Clients -> RowValues]
           /\ purge' \in [Clients -> BOOLEAN]
<1>1. Merged(u, data, p) \in RowValues BY RowFacts DEF Merged, TypeOK
<1> QED BY <1>1 DEF Receive, TypeOK

\* A connection's save moves on with a stage, a row and an answer.
LEMMA PutTyped ==
    ASSUME TypeOK, NEW u \in Clients, NEW s \in Slots, NEW p \in Put,
           put' = [put EXCEPT ![u][s] = p]
    PROVE  put' \in [Clients -> [Slots -> Put]]
BY DEF TypeOK

LEMMA UserTyped ==
    ASSUME TypeOK, NEW u \in Clients, UserNext(u) PROVE TypeOK'
<1>b. Blank \in RowValues BY RowFacts
<1>e. CountEdit => edits' \in 0 .. MaxEdits BY SheetAssumption DEF CountEdit, TypeOK
<1>s. ASSUME NEW v \in RowValues, Schedule(u, v), Remember(u, v)
      PROVE  /\ latest' \in [Clients -> RowValues \cup {None}]
             /\ queue' \in [Clients -> RowValues \cup {None}]
             /\ pending' \in [Clients -> BOOLEAN]
             /\ inFlight' \in [Clients -> BOOLEAN]
             /\ suppressed' \in [Clients -> BOOLEAN]
             /\ past' \in [Clients -> Seq(RowValues)]
  <2>1. Append(past[u], cells[u]) \in Seq(RowValues) BY DEF TypeOK
  <2>2. past' \in [Clients -> Seq(RowValues)] BY <1>s, <2>1 DEF Remember, TypeOK
  <2> QED BY <1>s, <2>2 DEF Schedule, TypeOK
<1>1. ASSUME NEW c \in Cols, StartEdit(u, c) PROVE TypeOK'
    BY <1>1, <1>e DEF StartEdit, TypeOK, saveVars, remoteVars
<1>2. ASSUME NEW v \in Contents, NEW dep \in SUBSET Cols, CommitEdit(u, v, dep) PROVE TypeOK'
  <2> DEFINE next == [c \in Cols |-> CASE c = editing[u] -> v
                                       [] c \in dep       -> Empty
                                       [] OTHER          -> cells[u][c]]
  <2>1. next \in RowValues BY DEF TypeOK, RowValues, Contents
  <2>2. /\ cells' = [cells EXCEPT ![u] = next]
        /\ Remember(u, next) /\ Schedule(u, next)
        /\ editing' = [editing EXCEPT ![u] = None]
        /\ UNCHANGED <<row, remoteVars, channel, put, edits>>
      BY <1>2 DEF CommitEdit
  <2> HIDE DEF next
  <2> QED BY <1>s, <2>1, <2>2 DEF TypeOK, remoteVars
<1>3. CASE LeaveEdit(u) BY <1>3 DEF LeaveEdit, TypeOK, saveVars, remoteVars
<1>4. CASE ClearRow(u)
    BY <1>4, <1>b, <1>e, <1>s DEF ClearRow, TypeOK, remoteVars
<1>5. CASE Undo(u)
  <2>1. past[u][Len(past[u])] \in RowValues /\ SubSeq(past[u], 1, Len(past[u]) - 1) \in Seq(RowValues)
    <3>1. past[u] \in Seq(RowValues) /\ past[u] # <<>> BY <1>5 DEF Undo, InvalidatePending, TypeOK
    <3> QED BY <3>1
  <2> DEFINE aged == [s \in Slots |-> IF put[u][s].at = "idle" THEN put[u][s]
                                      ELSE [put[u][s] EXCEPT !.old = TRUE]]
  <2>2. aged \in [Slots -> Put]
    <3>1. ASSUME NEW s \in Slots
          PROVE  put[u][s] \in Put /\ [put[u][s] EXCEPT !.old = TRUE] \in Put
      <4>1. put[u][s] \in Put BY DEF TypeOK
      <4> QED BY <4>1 DEF Put
    <3> QED BY <3>1
  <2>3. put' = [put EXCEPT ![u] = aged] BY <1>5 DEF Undo, InvalidatePending, TypeOK
  <2> HIDE DEF aged
  <2>4. put' \in [Clients -> [Slots -> Put]] BY <2>2, <2>3 DEF TypeOK
  <2>5. /\ cells' \in [Clients -> RowValues]
        /\ past' \in [Clients -> Seq(RowValues)]
      BY <1>5, <2>1 DEF Undo, TypeOK
  <2>6. /\ editing' \in [Clients -> Cols \cup {None}]
        /\ latest' \in [Clients -> RowValues \cup {None}]
        /\ queue' \in [Clients -> RowValues \cup {None}]
        /\ pending' \in [Clients -> BOOLEAN]
      BY <1>5 DEF Undo, InvalidatePending, TypeOK
  <2> QED BY <1>5, <1>e, <2>4, <2>5, <2>6 DEF Undo, InvalidatePending, TypeOK, remoteVars
<1> QED BY <1>1, <1>2, <1>3, <1>4, <1>5 DEF UserNext

LEMMA FinishTyped ==
    ASSUME TypeOK, NEW u \in Clients, NEW s \in Slots, FinishPut(u, s)
    PROVE  /\ put' \in [Clients -> [Slots -> Put]]
           /\ latest' \in [Clients -> RowValues \cup {None}]
           /\ queue' \in [Clients -> RowValues \cup {None}]
           /\ pending' \in [Clients -> BOOLEAN]
           /\ inFlight' \in [Clients -> BOOLEAN]
           /\ suppressed' \in [Clients -> BOOLEAN]
<1>1. put' \in [Clients -> [Slots -> Put]] BY RowFacts, PutTyped DEF FinishPut
<1>2. put[u][s].old \in BOOLEAN /\ StillQueued(u) \in BOOLEAN BY DEF TypeOK, Put, StillQueued
<1>3. suppressed' \in [Clients -> BOOLEAN] BY <1>2 DEF FinishPut, TypeOK
<1>4. pending' \in [Clients -> BOOLEAN] BY <1>2 DEF FinishPut, TypeOK
<1> QED BY <1>1, <1>3, <1>4 DEF FinishPut, TypeOK

LEMMA SaveTyped ==
    ASSUME TypeOK, NEW u \in Clients, SaveNext(u) PROVE TypeOK'
<1>1. CASE DebounceFires(u) BY <1>1 DEF DebounceFires, TypeOK, gridVars, remoteVars
<1>2. CASE SuppressEnds(u) BY <1>2 DEF SuppressEnds, TypeOK, gridVars, remoteVars
<1>3. ASSUME NEW s \in Slots, Drain(u, s) PROVE TypeOK'
  <2> DEFINE p == [Idle EXCEPT !.at = "sent", !.vals = queue[u]]
  <2>1. p \in Put BY <1>3, RowFacts DEF Drain, TypeOK, Idle, Put, Stage
  <2>2. put' = [put EXCEPT ![u][s] = p] BY <1>3 DEF Drain
  <2> HIDE DEF p
  <2>3. put' \in [Clients -> [Slots -> Put]] BY <2>1, <2>2, PutTyped
  <2> QED BY <1>3, <2>3 DEF Drain, TypeOK, gridVars, remoteVars
<1>4. ASSUME NEW s \in Slots, PutSucceeds(u, s) PROVE TypeOK'
  <2>1. put[u][s].saved \in RowValues BY DEF TypeOK, Put
  <2>2. /\ FinishPut(u, s)
        /\ Receive(u, put[u][s].saved, purge[u] \/ put[u][s].saved = Blank,
                   editing[u] # None \/ pending'[u] \/ suppressed'[u])
      BY <1>4 DEF PutSucceeds
  <2>3. /\ (purge[u] \/ put[u][s].saved = Blank) \in BOOLEAN
        /\ (editing[u] # None \/ pending'[u] \/ suppressed'[u]) \in BOOLEAN
      OBVIOUS
  <2>4. /\ cells' \in [Clients -> RowValues]
        /\ cache' \in [Clients -> RowValues]
        /\ purge' \in [Clients -> BOOLEAN]
      BY <2>1, <2>2, <2>3, ReceiveTyped
  <2>5. UNCHANGED <<row, editing, past, poll, channel, edits>> BY <1>4 DEF PutSucceeds
  <2> QED BY <2>2, <2>4, <2>5, FinishTyped DEF TypeOK
<1>5. ASSUME NEW s \in Slots, PutErrors(u, s) PROVE TypeOK'
  <2>1. FinishPut(u, s) /\ UNCHANGED <<row, gridVars, remoteVars, channel, edits>>
      BY <1>5 DEF PutErrors
  <2> QED BY <2>1, FinishTyped DEF TypeOK, gridVars, remoteVars
<1> QED BY <1>1, <1>2, <1>3, <1>4, <1>5 DEF SaveNext

\* Every step of the server leaves the browsers alone and moves one save on.
LEMMA ServerTyped ==
    ASSUME TypeOK, NEW u \in Clients, ServerNext(u) PROVE TypeOK'
<1>1. PICK s \in Slots : PutFind(u, s) \/ PutWrite(u, s) \/ PutReadBack(u, s) \/ PutBroadcast(u, s)
    BY DEF ServerNext
<1>2. put[u][s] \in Put BY DEF TypeOK
<1>3. ASSUME NEW stage \in Stage, put' = [put EXCEPT ![u][s].at = stage]
      PROVE  put' \in [Clients -> [Slots -> Put]]
    BY <1>2, <1>3 DEF TypeOK, Put
<1>4. CASE PutFind(u, s)
  <2>1. put' \in [Clients -> [Slots -> Put]]
    <3> DEFINE stage == IF put[u][s].vals = Blank /\ row = Blank THEN "answered" ELSE "found"
    <3>1. stage \in Stage BY DEF Stage
    <3>2. put' = [put EXCEPT ![u][s].at = stage] BY <1>4 DEF PutFind
    <3> HIDE DEF stage
    <3> QED BY <1>3, <3>1, <3>2
  <2> QED BY <1>4, <2>1 DEF PutFind, Stays, TypeOK, gridVars, saveVars, remoteVars
<1>5. CASE PutWrite(u, s)
  <2>1. put' \in [Clients -> [Slots -> Put]]
    <3> DEFINE stage == IF put[u][s].vals = Blank THEN "read" ELSE "written"
    <3>1. stage \in Stage BY DEF Stage
    <3>2. put' = [put EXCEPT ![u][s].at = stage] BY <1>5 DEF PutWrite
    <3> HIDE DEF stage
    <3> QED BY <1>3, <3>1, <3>2
  <2>2. row' \in RowValues BY <1>5, <1>2 DEF PutWrite, Put
  <2> QED BY <1>5, <2>1, <2>2 DEF PutWrite, Stays, TypeOK, gridVars, saveVars, remoteVars
<1>6. CASE PutReadBack(u, s)
  <2>1. put' \in [Clients -> [Slots -> Put]]
      BY <1>6, <1>2 DEF PutReadBack, TypeOK, Put, Stage
  <2> QED BY <1>6, <2>1 DEF PutReadBack, Stays, TypeOK, gridVars, saveVars, remoteVars
<1>7. CASE PutBroadcast(u, s)
  <2>1. put' \in [Clients -> [Slots -> Put]] BY <1>7, <1>3 DEF PutBroadcast, Stage
  <2>2. channel' \in [Clients -> Seq(RowValues)] BY <1>7, <1>2 DEF PutBroadcast, TypeOK, Put
  <2> QED BY <1>7, <2>1, <2>2 DEF PutBroadcast, Stays, TypeOK, gridVars, saveVars, remoteVars
<1> QED BY <1>1, <1>4, <1>5, <1>6, <1>7

LEMMA RemoteTyped ==
    ASSUME TypeOK, NEW u \in Clients, RemoteNext(u) PROVE TypeOK'
<1>k. Skipped(u) \in BOOLEAN BY DEF Skipped
<1>1. CASE Deliver(u)
  <2>1. Head(channel[u]) \in RowValues /\ Tail(channel[u]) \in Seq(RowValues)
      BY <1>1 DEF Deliver, TypeOK
  <2>2. /\ cells' \in [Clients -> RowValues]
        /\ cache' \in [Clients -> RowValues]
        /\ purge' \in [Clients -> BOOLEAN]
      BY <1>1, <1>k, <2>1, ReceiveTyped DEF Deliver
  <2> QED BY <1>1, <2>1, <2>2 DEF Deliver, TypeOK, saveVars
<1>2. CASE LoseEvent(u)
  <2>1. Tail(channel[u]) \in Seq(RowValues) BY <1>2 DEF LoseEvent, TypeOK
  <2> QED BY <1>2, <2>1 DEF LoseEvent, TypeOK, gridVars, saveVars, remoteVars
<1>3. CASE FrameEnds(u)
  <2>1. /\ cells' \in [Clients -> RowValues]
        /\ cache' \in [Clients -> RowValues]
        /\ purge' \in [Clients -> BOOLEAN]
    <3>1. cache[u] \in RowValues BY DEF TypeOK
    <3> QED BY <1>3, <1>k, <3>1, ReceiveTyped DEF FrameEnds
  <2> QED BY <1>3, <2>1 DEF FrameEnds, TypeOK, saveVars
<1>4. CASE PollRead(u)
    BY <1>4 DEF PollRead, TypeOK, gridVars, saveVars
<1>5. CASE PollApply(u)
  <2>1. poll[u] \in RowValues /\ purge[u] \in BOOLEAN BY <1>5 DEF PollApply, TypeOK
  <2>2. /\ cells' \in [Clients -> RowValues]
        /\ cache' \in [Clients -> RowValues]
        /\ purge' \in [Clients -> BOOLEAN]
      BY <1>5, <1>k, <2>1, ReceiveTyped DEF PollApply
  <2> QED BY <1>5, <2>2 DEF PollApply, TypeOK, saveVars
<1> QED BY <1>1, <1>2, <1>3, <1>4, <1>5 DEF RemoteNext

LEMMA StepTyped == TypeOK /\ [Next]_vars => TypeOK'
<1> SUFFICES ASSUME TypeOK, [Next]_vars PROVE TypeOK' OBVIOUS
<1>1. CASE UNCHANGED vars BY <1>1 DEF vars, gridVars, saveVars, remoteVars, TypeOK
<1>2. CASE Next BY <1>2, UserTyped, SaveTyped, ServerTyped, RemoteTyped DEF Next
<1> QED BY <1>1, <1>2

\* Whatever the browsers, the network and the server do, every variable keeps
\* its type: in particular no browser sends or shows a row that is not there.
THEOREM TypeCorrect == Spec => []TypeOK
<1> QED BY InitTyped, StepTyped, PTL DEF Spec

-----------------------------------------------------------------------------
(* The save queue. *)

LEMMA InitQueue == Init => QueueInv
BY DEF Init, QueueInv, SavesWhatIsShown, WaitingIsPending, PendingHasCause, StillQueued

\* A merge of whatever data leaves the grid alone where a save waits.
LEMMA ReceiveKeeps ==
    ASSUME TypeOK, QueueInv, NEW u \in Clients, NEW data, NEW p,
           NEW k \in BOOLEAN, Receive(u, data, p, k), StillQueued(u) => k,
           UNCHANGED <<latest, queue>>
    PROVE  SavesWhatIsShown'
<1> SUFFICES ASSUME NEW v \in Clients
             PROVE  /\ latest[v] # None => latest[v] = cells'[v]
                    /\ latest[v] = None /\ queue[v] # None => queue[v] = cells'[v]
    BY DEF SavesWhatIsShown
<1>1. StillQueued(v) => cells'[v] = cells[v]
  <2>1. CASE v # u BY <2>1 DEF Receive, TypeOK
  <2>2. CASE v = u BY <2>2 DEF Receive, TypeOK
  <2> QED BY <2>1, <2>2
<1> QED BY <1>1 DEF QueueInv, SavesWhatIsShown, StillQueued

\* Steps that leave the save queue, its flags and its connections alone.
LEMMA RestKept ==
    ASSUME QueueInv, UNCHANGED <<saveVars, put>>, SavesWhatIsShown'
    PROVE  QueueInv'
BY DEF QueueInv, WaitingIsPending, PendingHasCause, StillQueued, Carried, saveVars

LEMMA ShownKept ==
    ASSUME QueueInv, UNCHANGED <<cells, latest, queue>> PROVE SavesWhatIsShown'
BY DEF QueueInv, SavesWhatIsShown

LEMMA UserQueue ==
    ASSUME TypeOK, QueueInv, NEW u \in Clients, UserNext(u) PROVE QueueInv'
<1>1. ASSUME NEW c \in Cols, StartEdit(u, c) PROVE QueueInv'
    BY <1>1, ShownKept, RestKept DEF StartEdit, saveVars
<1>s. ASSUME NEW next \in RowValues, cells' = [cells EXCEPT ![u] = next],
             Schedule(u, next), UNCHANGED put
      PROVE  QueueInv'
  <2>1. SavesWhatIsShown'
      BY <1>s, SheetAssumption DEF Schedule, QueueInv, SavesWhatIsShown, TypeOK
  <2>2. WaitingIsPending'
      BY <1>s DEF Schedule, QueueInv, WaitingIsPending, StillQueued, TypeOK
  <2>3. PendingHasCause'
      BY <1>s, SheetAssumption DEF Schedule, QueueInv, PendingHasCause, StillQueued, Carried, TypeOK
  <2> QED BY <2>1, <2>2, <2>3 DEF QueueInv
<1>2. ASSUME NEW v \in Contents, NEW dep \in SUBSET Cols, CommitEdit(u, v, dep) PROVE QueueInv'
  <2> DEFINE next == [c \in Cols |-> CASE c = editing[u] -> v
                                       [] c \in dep       -> Empty
                                       [] OTHER          -> cells[u][c]]
  <2>1. next \in RowValues BY DEF TypeOK, RowValues, Contents
  <2>2. cells' = [cells EXCEPT ![u] = next] /\ Schedule(u, next) /\ UNCHANGED put
      BY <1>2 DEF CommitEdit
  <2> HIDE DEF next
  <2> QED BY <1>s, <2>1, <2>2
<1>3. CASE LeaveEdit(u) BY <1>3, ShownKept, RestKept DEF LeaveEdit, saveVars
<1>4. CASE ClearRow(u) BY <1>4, <1>s, RowFacts DEF ClearRow
<1>5. CASE Undo(u)
  <2>1. SavesWhatIsShown' BY <1>5 DEF Undo, InvalidatePending, QueueInv, SavesWhatIsShown, TypeOK
  <2>2. WaitingIsPending' BY <1>5 DEF Undo, InvalidatePending, QueueInv, WaitingIsPending, StillQueued, TypeOK
  <2>3. ASSUME NEW v \in Clients PROVE Carried(v) => Carried(v)'
    <3> DEFINE aged == [s \in Slots |-> IF put[u][s].at = "idle" THEN put[u][s]
                                        ELSE [put[u][s] EXCEPT !.old = TRUE]]
    <3>1. put' = [put EXCEPT ![u] = aged] BY <1>5 DEF Undo, InvalidatePending, TypeOK
    <3>2. ASSUME NEW s \in Slots PROVE aged[s].at = put[u][s].at
      <4>1. put[u][s] \in Put BY DEF TypeOK
      <4> QED BY <4>1 DEF Put
    <3> HIDE DEF aged
    <3>3. ASSUME NEW s \in Slots PROVE put'[v][s].at = put[v][s].at
      <4>1. CASE v = u BY <3>1, <3>2, <4>1 DEF TypeOK
      <4>2. CASE v # u BY <3>1, <4>2 DEF TypeOK
      <4> QED BY <4>1, <4>2
    <3> QED BY <3>3 DEF Carried
  <2>4. PendingHasCause'
      BY <1>5, <2>3 DEF Undo, InvalidatePending, QueueInv, PendingHasCause, StillQueued, TypeOK
  <2> QED BY <2>1, <2>2, <2>4 DEF QueueInv
<1> QED BY <1>1, <1>2, <1>3, <1>4, <1>5 DEF UserNext

\* The end of a save: what waits stays pending, what does not is released.
LEMMA FinishQueue ==
    ASSUME TypeOK, QueueInv, NEW u \in Clients, NEW s \in Slots, FinishPut(u, s)
    PROVE  WaitingIsPending' /\ PendingHasCause' /\ (StillQueued(u) => pending'[u])
<1>1. ASSUME NEW v \in Clients PROVE StillQueued(v)' <=> StillQueued(v)
    BY DEF FinishPut, StillQueued
<1>2. ASSUME NEW v \in Clients, v # u
      PROVE  /\ pending'[v] = pending[v] /\ inFlight'[v] = inFlight[v]
             /\ Carried(v)' <=> Carried(v)
    BY <1>2 DEF FinishPut, TypeOK, Carried
<1>3. /\ pending'[u] <=> pending[u] /\ StillQueued(u)
      /\ inFlight'[u] = FALSE
    BY DEF FinishPut, TypeOK
<1>4. WaitingIsPending'
  <2> SUFFICES ASSUME NEW v \in Clients, StillQueued(v)' PROVE pending'[v]
      BY DEF WaitingIsPending
  <2>1. pending[v] BY <1>1 DEF QueueInv, WaitingIsPending
  <2> QED BY <1>1, <1>2, <1>3, <2>1
<1>5. PendingHasCause'
  <2> SUFFICES ASSUME NEW v \in Clients
               PROVE  /\ pending'[v] => StillQueued(v)' \/ inFlight'[v]
                      /\ inFlight'[v] => Carried(v)'
      BY DEF PendingHasCause
  <2>1. CASE v = u BY <1>1, <1>3, <2>1
  <2>2. CASE v # u BY <1>1, <1>2, <2>2 DEF QueueInv, PendingHasCause
  <2> QED BY <2>1, <2>2
<1>6. StillQueued(u) => pending'[u] BY <1>3 DEF QueueInv, WaitingIsPending
<1> QED BY <1>4, <1>5, <1>6

LEMMA SaveQueue ==
    ASSUME TypeOK, QueueInv, NEW u \in Clients, SaveNext(u) PROVE QueueInv'
<1>1. CASE DebounceFires(u)
  <2>1. SavesWhatIsShown'
      BY <1>1 DEF DebounceFires, QueueInv, SavesWhatIsShown, TypeOK, gridVars
  <2>2. WaitingIsPending'
      BY <1>1 DEF DebounceFires, QueueInv, WaitingIsPending, StillQueued, TypeOK
  <2>3. PendingHasCause'
      BY <1>1 DEF DebounceFires, QueueInv, PendingHasCause, StillQueued, Carried, TypeOK
  <2> QED BY <2>1, <2>2, <2>3 DEF QueueInv
<1>2. CASE SuppressEnds(u)
  <2>1. SavesWhatIsShown' BY <1>2, ShownKept DEF SuppressEnds, gridVars
  <2> QED BY <1>2, <2>1 DEF SuppressEnds, QueueInv, WaitingIsPending, PendingHasCause,
                            StillQueued, Carried
<1>3. ASSUME NEW s \in Slots, Drain(u, s) PROVE QueueInv'
  <2>1. SavesWhatIsShown'
      BY <1>3 DEF Drain, QueueInv, SavesWhatIsShown, TypeOK, gridVars
  <2>2. WaitingIsPending'
      BY <1>3 DEF Drain, QueueInv, WaitingIsPending, StillQueued, TypeOK
  <2>3. ASSUME NEW v \in Clients PROVE inFlight'[v] => Carried(v)'
    <3>1. CASE v = u
      <4>1. put'[u][s].at = "sent" BY <1>3 DEF Drain, TypeOK, Idle
      <4> QED BY <3>1, <4>1 DEF Carried
    <3>2. CASE v # u
      <4>1. put'[v] = put[v] /\ inFlight'[v] = inFlight[v] BY <1>3, <3>2 DEF Drain, TypeOK
      <4> QED BY <4>1 DEF QueueInv, PendingHasCause, Carried
    <3> QED BY <3>1, <3>2
  <2>4. PendingHasCause'
      BY <1>3, <2>3 DEF Drain, QueueInv, PendingHasCause, StillQueued, TypeOK
  <2> QED BY <2>1, <2>2, <2>4 DEF QueueInv
<1>4. ASSUME NEW s \in Slots, PutSucceeds(u, s) PROVE QueueInv'
  <2>1. FinishPut(u, s) /\ UNCHANGED <<latest, queue>> BY <1>4 DEF PutSucceeds, FinishPut
  <2>2. WaitingIsPending' /\ PendingHasCause' /\ (StillQueued(u) => pending'[u])
      BY <2>1, FinishQueue
  <2> DEFINE k == editing[u] # None \/ pending'[u] \/ suppressed'[u]
             p == purge[u] \/ put[u][s].saved = Blank
  <2>3. k \in BOOLEAN /\ (StillQueued(u) => k) BY <2>2
  <2>4. Receive(u, put[u][s].saved, p, k) BY <1>4 DEF PutSucceeds
  <2> HIDE DEF k, p
  <2>5. SavesWhatIsShown' BY <2>1, <2>3, <2>4, ReceiveKeeps
  <2> QED BY <2>2, <2>5 DEF QueueInv
<1>5. ASSUME NEW s \in Slots, PutErrors(u, s) PROVE QueueInv'
  <2>1. FinishPut(u, s) /\ UNCHANGED <<cells, latest, queue>>
      BY <1>5 DEF PutErrors, FinishPut, gridVars
  <2> QED BY <2>1, FinishQueue, ShownKept DEF QueueInv
<1> QED BY <1>1, <1>2, <1>3, <1>4, <1>5 DEF SaveNext

\* The server frees no connection: only the browser does, when a save ends.
LEMMA ServerQueue ==
    ASSUME TypeOK, QueueInv, NEW u \in Clients, ServerNext(u) PROVE QueueInv'
<1>1. PICK s \in Slots : PutFind(u, s) \/ PutWrite(u, s) \/ PutReadBack(u, s) \/ PutBroadcast(u, s)
    BY DEF ServerNext
<1>2. Stays BY <1>1 DEF PutFind, PutWrite, PutReadBack, PutBroadcast
<1>3. SavesWhatIsShown' BY <1>2, ShownKept DEF Stays, gridVars, saveVars
<1>4. ASSUME NEW v \in Clients PROVE Carried(v) => Carried(v)'
  <2>1. put'[u][s].at # "idle"
    <3>0. put[u][s] \in Put BY DEF TypeOK
    <3>1. CASE PutFind(u, s) BY <3>0, <3>1 DEF PutFind, TypeOK, Put
    <3>2. CASE PutWrite(u, s) BY <3>0, <3>2 DEF PutWrite, TypeOK, Put
    <3>3. CASE PutReadBack(u, s) BY <3>0, <3>3 DEF PutReadBack, TypeOK, Put
    <3>4. CASE PutBroadcast(u, s) BY <3>0, <3>4 DEF PutBroadcast, TypeOK, Put
    <3> QED BY <1>1, <3>1, <3>2, <3>3, <3>4
  <2>2. CASE v = u BY <2>1, <2>2 DEF Carried
  <2>3. CASE v # u
    <3>1. put'[v] = put[v]
        BY <1>1, <2>3 DEF PutFind, PutWrite, PutReadBack, PutBroadcast, TypeOK
    <3> QED BY <3>1 DEF Carried
  <2> QED BY <2>2, <2>3
<1> QED BY <1>2, <1>3, <1>4 DEF QueueInv, Stays, saveVars, WaitingIsPending,
                                PendingHasCause, StillQueued

LEMMA RemoteQueue ==
    ASSUME TypeOK, QueueInv, NEW u \in Clients, RemoteNext(u) PROVE QueueInv'
<1>k. Skipped(u) \in BOOLEAN /\ (StillQueued(u) => Skipped(u))
    BY DEF QueueInv, WaitingIsPending, Skipped
<1>r. ASSUME NEW data, NEW p, Receive(u, data, p, Skipped(u)), UNCHANGED <<saveVars, put>>
      PROVE  QueueInv'
  <2> DEFINE k == Skipped(u)
  <2>1. k \in BOOLEAN /\ (StillQueued(u) => k) /\ Receive(u, data, p, k) BY <1>k, <1>r
  <2> HIDE DEF k
  <2>2. SavesWhatIsShown' BY <1>r, <2>1, ReceiveKeeps DEF saveVars
  <2> QED BY <1>r, <2>2, RestKept
<1>1. CASE Deliver(u) BY <1>1, <1>r DEF Deliver
<1>2. CASE LoseEvent(u) BY <1>2, ShownKept, RestKept DEF LoseEvent, gridVars, saveVars
<1>3. CASE FrameEnds(u) BY <1>3, <1>r DEF FrameEnds
<1>4. CASE PollRead(u) BY <1>4, ShownKept, RestKept DEF PollRead, gridVars, saveVars
<1>5. CASE PollApply(u) BY <1>5, <1>r DEF PollApply
<1> QED BY <1>1, <1>2, <1>3, <1>4, <1>5 DEF RemoteNext

LEMMA StepQueue == TypeOK /\ QueueInv /\ [Next]_vars => QueueInv'
<1> SUFFICES ASSUME TypeOK, QueueInv, [Next]_vars PROVE QueueInv' OBVIOUS
<1>1. CASE UNCHANGED vars
    BY <1>1, ShownKept, RestKept DEF vars, gridVars, saveVars
<1>2. CASE Next BY <1>2, UserQueue, SaveQueue, ServerQueue, RemoteQueue DEF Next
<1> QED BY <1>1, <1>2

LEMMA QueueCorrect == Spec => []QueueInv
<1> QED BY InitQueue, StepQueue, TypeCorrect, PTL DEF Spec

\* Every save that has not left the browser carries what the grid shows, for
\* any number of browsers, columns and connections: the merge effect's test of
\* pendingPersistRowsRef is enough.
THEOREM SavesShown == Spec => []SavesWhatIsShown
<1>1. QueueInv => SavesWhatIsShown BY DEF QueueInv
<1> QED BY <1>1, QueueCorrect, PTL

\* A row marked as being saved always has a timer, a queued save or a save on a
\* connection left to release it, whatever is undone, fails or overlaps.
THEOREM PendingCaused == Spec => []PendingHasCause
<1>1. QueueInv => PendingHasCause BY DEF QueueInv
<1> QED BY <1>1, QueueCorrect, PTL
=============================================================================
