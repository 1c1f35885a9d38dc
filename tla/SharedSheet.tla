------------------------------ MODULE SharedSheet ------------------------------
(***************************************************************************)
(* One row of the reservation sheet, shown and edited by several browsers. *)
(* A browser saves the whole row: a commit starts a debounce timer, the    *)
(* timer queues the row, a free connection takes it, and several PUTs of   *)
(* one row may be under way at once.  The server writes the row, or        *)
(* deletes it when every cell is empty, and tells every browser; browsers  *)
(* also read the whole sheet from time to time.  What arrives is merged    *)
(* into the grid unless the row is being edited or saved, or was saved a   *)
(* moment ago.                                                             *)
(***************************************************************************)
EXTENDS Integers, Sequences

CONSTANTS
    Clients, Cols,
    Typed,      \* what a user may type into a cell
    Empty,      \* the content of an empty cell
    MaxConcurrent,  \* MAX_CONCURRENT_PERSIST_ROWS
    MaxEdits,   \* bound: edits started, clearings and undos
    None

Contents == Typed \cup {Empty}
RowValues == [Cols -> Contents]
Blank == [c \in Cols |-> Empty]
Slots == 1 .. MaxConcurrent

ASSUME SheetAssumption ==
    /\ None \notin RowValues \cup Cols
    /\ MaxConcurrent \in Nat /\ MaxEdits \in Nat

VARIABLES
    row,         \* the row in the database; Blank stands for no row
    cells,       \* per browser: what the grid shows
    editing,     \* the column being edited, or None
    past,        \* the undo stack
    latest,      \* the row whose debounce timer runs, or None
    queue,       \* the row waiting for a connection, or None
    pending,     \* the row is in pendingPersistRowsRef
    inFlight,    \* the row is in persistInFlightRowsRef
    suppressed,  \* remoteRowMergeSuppressUntilRef is in the future
    cache,       \* the row in the query's data; Blank when the data has none
    purge,       \* purgeRowIndex is this row
    poll,        \* the row in an answer under way to a read of the sheet, or None
    channel,     \* server-sent events not yet received; Blank is row-deleted
    put,         \* per connection: the save it carries
    edits

gridVars == <<cells, editing, past>>
saveVars == <<latest, queue, pending, inFlight, suppressed>>
remoteVars == <<cache, purge, poll>>
vars == <<row, gridVars, saveVars, remoteVars, channel, put, edits>>

Stage == {"idle", "sent", "found", "written", "read", "answered", "failed"}
Put == [at: Stage, vals: RowValues, saved: RowValues, old: BOOLEAN]
Idle == [at |-> "idle", vals |-> Blank, saved |-> Blank, old |-> FALSE]

TypeOK ==
    /\ row \in RowValues
    /\ cells \in [Clients -> RowValues]
    /\ editing \in [Clients -> Cols \cup {None}]
    /\ past \in [Clients -> Seq(RowValues)]
    /\ latest \in [Clients -> RowValues \cup {None}]
    /\ queue \in [Clients -> RowValues \cup {None}]
    /\ pending \in [Clients -> BOOLEAN]
    /\ inFlight \in [Clients -> BOOLEAN]
    /\ suppressed \in [Clients -> BOOLEAN]
    /\ cache \in [Clients -> RowValues]
    /\ purge \in [Clients -> BOOLEAN]
    /\ poll \in [Clients -> RowValues \cup {None}]
    /\ channel \in [Clients -> Seq(RowValues)]
    /\ put \in [Clients -> [Slots -> Put]]
    /\ edits \in 0 .. MaxEdits

\* Every browser has loaded the sheet.
Init ==
    /\ row \in RowValues
    /\ cells = [u \in Clients |-> row]
    /\ editing = [u \in Clients |-> None]
    /\ past = [u \in Clients |-> <<>>]
    /\ latest = [u \in Clients |-> None]
    /\ queue = [u \in Clients |-> None]
    /\ pending = [u \in Clients |-> FALSE]
    /\ inFlight = [u \in Clients |-> FALSE]
    /\ suppressed = [u \in Clients |-> FALSE]
    /\ cache = [u \in Clients |-> row]
    /\ purge = [u \in Clients |-> FALSE]
    /\ poll = [u \in Clients |-> None]
    /\ channel = [u \in Clients |-> <<>>]
    /\ put = [u \in Clients |-> [s \in Slots |-> Idle]]
    /\ edits = 0

-----------------------------------------------------------------------------
\* The merge of the query's data into the grid.  Data without the row has no
\* key for its cells and leaves them alone; the purge overlays empty cells.
Skipped(u) == editing[u] # None \/ pending[u] \/ suppressed[u]

Merged(u, data, purging) ==
    IF purging THEN Blank ELSE IF data = Blank THEN cells[u] ELSE data

\* Mutated: the merge runs only when the data differs, not on every answer.
ReceiveNews(u, data, purging, skipped) ==
    /\ cache' = [cache EXCEPT ![u] = data]
    /\ purge' = [purge EXCEPT ![u] = purging]
    /\ cells' = [cells EXCEPT ![u] =
                    IF skipped \/ (data = cache[u] /\ purging = purge[u])
                    THEN @ ELSE Merged(u, data, purging)]

\* The data of browser u becomes data; the grid merges it unless skipped.
Receive(u, data, purging, skipped) ==
    /\ cache' = [cache EXCEPT ![u] = data]
    /\ purge' = [purge EXCEPT ![u] = purging]
    /\ cells' = [cells EXCEPT ![u] = IF skipped THEN @ ELSE Merged(u, data, purging)]

-----------------------------------------------------------------------------
(* The user. *)

CountEdit == edits < MaxEdits /\ edits' = edits + 1

\* setCellsWithHistory keeps the former cells for undo, if anything changed.
Remember(u, next) ==
    past' = IF next = cells[u] THEN past
            ELSE [past EXCEPT ![u] = Append(@, cells[u])]

\* schedulePersistRow: the timer starts afresh with the whole row.
Schedule(u, vals) ==
    /\ latest' = [latest EXCEPT ![u] = vals]
    /\ pending' = [pending EXCEPT ![u] = TRUE]
    /\ UNCHANGED <<queue, inFlight, suppressed>>

StartEdit(u, c) ==
    /\ editing[u] = None
    /\ CountEdit
    /\ editing' = [editing EXCEPT ![u] = c]
    /\ UNCHANGED <<row, cells, past, saveVars, remoteVars, channel, put>>

\* Choosing a product or a grade empties the cells that depend on it.
CommitEdit(u, v, dependent) ==
    /\ editing[u] # None /\ editing[u] \notin dependent
    /\ LET next == [c \in Cols |-> CASE c = editing[u]   -> v
                                     [] c \in dependent   -> Empty
                                     [] OTHER            -> cells[u][c]]
       IN  /\ next # cells[u]
           /\ cells' = [cells EXCEPT ![u] = next]
           /\ Remember(u, next)
           /\ Schedule(u, next)
    /\ editing' = [editing EXCEPT ![u] = None]
    /\ UNCHANGED <<row, remoteVars, channel, put, edits>>

\* cancelEdit, and a commit of what the cell already held.
LeaveEdit(u) ==
    /\ editing[u] # None
    /\ editing' = [editing EXCEPT ![u] = None]
    /\ UNCHANGED <<row, cells, past, saveVars, remoteVars, channel, put, edits>>

\* The context menu's clear; opening the menu ended the edit.  It saves even
\* a row that was empty already.
ClearRow(u) ==
    /\ editing[u] = None
    /\ CountEdit
    /\ cells' = [cells EXCEPT ![u] = Blank]
    /\ Remember(u, Blank)
    /\ Schedule(u, Blank)
    /\ UNCHANGED <<row, editing, remoteVars, channel, put>>

\* invalidatePendingPersists: saves that have not left are dropped, and those
\* under way belong to an old generation.
InvalidatePending(u) ==
    /\ latest' = [latest EXCEPT ![u] = None]
    /\ queue' = [queue EXCEPT ![u] = None]
    /\ pending' = [pending EXCEPT ![u] = @ /\ inFlight[u]]
    /\ put' = [put EXCEPT ![u] = [s \in Slots |->
                  IF @[s].at = "idle" THEN @[s] ELSE [@[s] EXCEPT !.old = TRUE]]]
    /\ UNCHANGED <<inFlight, suppressed>>

\* No save of the former cells is scheduled.
Undo(u) ==
    /\ past[u] # <<>>
    /\ CountEdit
    /\ InvalidatePending(u)
    /\ cells' = [cells EXCEPT ![u] = past[u][Len(past[u])]]
    /\ past' = [past EXCEPT ![u] = SubSeq(@, 1, Len(@) - 1)]
    /\ editing' = [editing EXCEPT ![u] = None]
    /\ UNCHANGED <<row, remoteVars, channel>>

-----------------------------------------------------------------------------
(* The save queue of a browser. *)

\* The timer fires, or the tab is hidden and flushes it: the row replaces the
\* one that waits in the queue.
DebounceFires(u) ==
    /\ latest[u] # None
    /\ queue' = [queue EXCEPT ![u] = latest[u]]
    /\ latest' = [latest EXCEPT ![u] = None]
    /\ UNCHANGED <<row, gridVars, pending, inFlight, suppressed, remoteVars,
                   channel, put, edits>>

\* runPersistQueueDrain.  It runs whenever a row is queued or a save ends, but
\* the rows this module leaves out may hold the connections, so the row waits
\* for any time.
Drain(u, s) ==
    /\ queue[u] # None /\ put[u][s].at = "idle"
    /\ \A t \in Slots : t < s => put[u][t].at # "idle"
    /\ put' = [put EXCEPT ![u][s] = [Idle EXCEPT !.at = "sent", !.vals = queue[u]]]
    /\ queue' = [queue EXCEPT ![u] = None]
    /\ inFlight' = [inFlight EXCEPT ![u] = TRUE]
    /\ UNCHANGED <<row, gridVars, latest, pending, suppressed, remoteVars,
                   channel, edits>>

\* releasePersistPendingIfIdle, once the row has left persistInFlightRowsRef: it
\* stays pending while a later save of it has not left.
\* Mutated: a row whose timer runs is not held back.
QueuedOnly(u) == queue[u] # None
StillQueued(u) == latest[u] # None \/ queue[u] # None

\* The finally of a save: the row leaves persistInFlightRowsRef even while
\* another save of it is under way, and the merge is suppressed for a while.
FinishPut(u, s) ==
    /\ put' = [put EXCEPT ![u][s] = Idle]
    /\ inFlight' = [inFlight EXCEPT ![u] = FALSE]
    /\ suppressed' = [suppressed EXCEPT ![u] = @ \/ ~put[u][s].old]
    /\ pending' = [pending EXCEPT ![u] = @ /\ StillQueued(u)]
    /\ UNCHANGED <<latest, queue>>

\* The answer goes into the query's data before the finally runs, the grid
\* merges the data after it.
PutSucceeds(u, s) ==
    /\ put[u][s].at = "answered"
    /\ FinishPut(u, s)
    /\ Receive(u, put[u][s].saved, purge[u] \/ put[u][s].saved = Blank,
               editing[u] # None \/ pending'[u] \/ suppressed'[u])
    /\ UNCHANGED <<row, editing, past, poll, channel, edits>>

\* Mutated: an error leaves the row pending.
PutErrorsUnreleased(u, s) ==
    /\ put[u][s].at \in {"sent", "answered", "failed"}
    /\ put' = [put EXCEPT ![u][s] = Idle]
    /\ inFlight' = [inFlight EXCEPT ![u] = FALSE]
    /\ UNCHANGED <<row, gridVars, latest, queue, pending, suppressed, remoteVars,
                   channel, edits>>

\* The server failed, or the request or its answer was lost.
PutErrors(u, s) ==
    /\ put[u][s].at \in {"sent", "answered", "failed"}
    /\ FinishPut(u, s)
    /\ UNCHANGED <<row, gridVars, remoteVars, channel, edits>>

SuppressEnds(u) ==
    /\ suppressed[u]
    /\ suppressed' = [suppressed EXCEPT ![u] = FALSE]
    /\ UNCHANGED <<row, gridVars, latest, queue, pending, inFlight, remoteVars,
                   channel, put, edits>>

-----------------------------------------------------------------------------
(* upsertRow on the server, one await per step. *)

Stays == UNCHANGED <<gridVars, saveVars, remoteVars, edits>>

\* An empty row that does not exist is answered at once, with no event.
PutFind(u, s) ==
    /\ put[u][s].at = "sent"
    /\ put' = [put EXCEPT ![u][s].at =
                  IF put[u][s].vals = Blank /\ row = Blank THEN "answered" ELSE "found"]
    /\ Stays /\ UNCHANGED <<row, channel>>

\* A delete, or an upsert that takes whichever row is there.
PutWrite(u, s) ==
    /\ put[u][s].at = "found"
    /\ row' = put[u][s].vals
    /\ put' = [put EXCEPT ![u][s].at =
                  IF put[u][s].vals = Blank THEN "read" ELSE "written"]
    /\ Stays /\ UNCHANGED channel

\* findOneOrFail: by now the row may be another's, or gone.
PutReadBack(u, s) ==
    /\ put[u][s].at = "written"
    /\ put' = [put EXCEPT ![u][s].at = IF row = Blank THEN "failed" ELSE "read",
                          ![u][s].saved = row]
    /\ Stays /\ UNCHANGED <<row, channel>>

PutBroadcast(u, s) ==
    /\ put[u][s].at = "read"
    /\ channel' = [w \in Clients |-> Append(channel[w], put[u][s].saved)]
    /\ put' = [put EXCEPT ![u][s].at = "answered"]
    /\ Stays /\ UNCHANGED row

-----------------------------------------------------------------------------
(* What reaches a browser besides the answers to its saves. *)

Deliver(u) ==
    /\ channel[u] # <<>>
    /\ Receive(u, Head(channel[u]), purge[u] \/ Head(channel[u]) = Blank, Skipped(u))
    /\ channel' = [channel EXCEPT ![u] = Tail(@)]
    /\ UNCHANGED <<row, editing, past, saveVars, poll, put, edits>>

\* The stream reconnects after a break and nothing is sent again.
LoseEvent(u) ==
    /\ channel[u] # <<>>
    /\ channel' = [channel EXCEPT ![u] = Tail(@)]
    /\ UNCHANGED <<row, gridVars, saveVars, remoteVars, put, edits>>

\* The next animation frame ends the purge, and the data is merged again.
FrameEnds(u) ==
    /\ purge[u]
    /\ Receive(u, cache[u], FALSE, Skipped(u))
    /\ UNCHANGED <<row, editing, past, saveVars, poll, channel, put, edits>>

\* The sheet is read every two minutes and when the window gets the focus.
PollRead(u) ==
    /\ poll[u] = None
    /\ poll' = [poll EXCEPT ![u] = row]
    /\ UNCHANGED <<row, gridVars, saveVars, cache, purge, channel, put, edits>>

\* Mutated: an answer without data is applied.
PollApplyAny(u) ==
    /\ Receive(u, poll[u], purge[u], Skipped(u))
    /\ poll' = [poll EXCEPT ![u] = None]
    /\ UNCHANGED <<row, editing, past, saveVars, channel, put, edits>>
PollApply(u) ==
    /\ poll[u] # None
    /\ Receive(u, poll[u], purge[u], Skipped(u))
    /\ poll' = [poll EXCEPT ![u] = None]
    /\ UNCHANGED <<row, editing, past, saveVars, channel, put, edits>>

-----------------------------------------------------------------------------
UserNext(u) ==
    \/ \E c \in Cols : StartEdit(u, c)
    \/ \E v \in Contents, dependent \in SUBSET Cols : CommitEdit(u, v, dependent)
    \/ LeaveEdit(u)
    \/ ClearRow(u)
    \/ Undo(u)

SaveNext(u) ==
    \/ DebounceFires(u)
    \/ SuppressEnds(u)
    \/ \E s \in Slots : \/ Drain(u, s)
                        \/ PutSucceeds(u, s)
                        \/ PutErrors(u, s)

ServerNext(u) ==
    \E s \in Slots : \/ PutFind(u, s)
                     \/ PutWrite(u, s)
                     \/ PutReadBack(u, s)
                     \/ PutBroadcast(u, s)

RemoteNext(u) ==
    \/ Deliver(u)
    \/ LoseEvent(u)
    \/ FrameEnds(u)
    \/ PollRead(u)
    \/ PollApply(u)

Next ==
    \E u \in Clients : \/ UserNext(u)
                       \/ SaveNext(u)
                       \/ ServerNext(u)
                       \/ RemoteNext(u)

\* Timers fire, the server goes on, a save ends one way or another, and the
\* sheet is read again and again.  Users owe nothing, and events may be lost.
Fairness ==
    \A u \in Clients :
        /\ WF_vars(DebounceFires(u))
        /\ WF_vars(SuppressEnds(u))
        /\ WF_vars(FrameEnds(u))
        /\ WF_vars(PollRead(u))
        /\ WF_vars(PollApply(u))
        /\ WF_vars(Deliver(u) \/ LoseEvent(u))
        /\ WF_vars(\E s \in Slots : Drain(u, s))
        /\ \A s \in Slots :
              /\ WF_vars(PutFind(u, s) \/ PutWrite(u, s) \/ PutReadBack(u, s)
                            \/ PutBroadcast(u, s))
              /\ WF_vars(PutSucceeds(u, s) \/ PutErrors(u, s))

Spec == Init /\ [][Next]_vars
FairSpec == Spec /\ Fairness

-----------------------------------------------------------------------------
\* A save that has not left the browser carries what the user sees: nothing
\* that arrives while it waits changes the grid under it.
SavesWhatIsShown ==
    \A u \in Clients :
        /\ latest[u] # None => latest[u] = cells[u]
        /\ latest[u] = None /\ queue[u] # None => queue[u] = cells[u]

\* A browser does not shut the others out of a row for good: a row marked as
\* being saved is open to merges again, whatever fails, is undone or is lost.
PendingEnds == \A u \in Clients : pending[u] ~> ~pending[u]

\* If the row exists for good and everyone stops editing, every browser ends up
\* showing the row of the database, lost events and failed saves included.
Settled == (\A u \in Clients : editing[u] = None) /\ row # Blank
Converges == <>[]Settled => <>[](\A u \in Clients : cells[u] = row)
=============================================================================
