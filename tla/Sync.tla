-------------------------------- MODULE Sync --------------------------------
(***************************************************************************)
(* How a device learns of changes: the transactions that write tasks and   *)
(* bump the user's revision (task.service.ts, sync-state.service.ts), and  *)
(* the device that polls the revision and reads deltas of what is stamped  *)
(* after its cursor (findChangedSince).                                    *)
(*                                                                         *)
(* Two rows stand for a user's tasks: a series and an override child of    *)
(* it, which may not exist yet.  Of a row, what the device would show is a *)
(* version number; it counts the columns, and the reminders and exceptions *)
(* that hang on the row.  A request is a transaction at READ COMMITTED, a  *)
(* sequence of statements; another transaction may run between any two.    *)
(* The database locks the rows it writes until it ends.                    *)
(***************************************************************************)
EXTENDS Integers, Sequences, FiniteSets

CONSTANTS
    Clients,     (* devices and chats of the user that may write at a time   *)
    Series, Child, Revision, (* what a transaction may lock: two rows and the
                                user's row of user_sync_state                *)
    Lag,         (* DELTA_OVERLAP_LAG_MS, in ticks                           *)
    Span,        (* the longest transaction, in ticks                        *)
    MaxTime,     (* bound: the last tick                                     *)
    MaxRequests, (* bound: transactions                                      *)
    MaxFaults,   (* bound: throws and lost deltas                            *)
    None

Rows == {Series, Child}
Lockable == Rows \cup {Revision}
Times == 0..MaxTime

\* The clock starts past the lag, so that a delta may miss what is old.
Start == Lag + 1

\* What is stamped on a row: updatedAt, deletedAt (0 while it is live), and whether its
\* updatedAt was written back from an earlier copy.
Stamps == [updatedAt: Times, deletedAt: Times, stale: BOOLEAN]

\* "5s comfortably exceeds any transaction span here" (the comment of DELTA_OVERLAP_LAG_MS).
ASSUME SyncConstants ==
    /\ Lag \in Nat /\ Span \in Nat /\ Span < Lag
    /\ MaxTime \in Nat /\ MaxTime >= Start
    /\ MaxRequests \in Nat /\ MaxFaults \in Nat
    /\ Cardinality(Lockable) = 3 /\ None \notin Clients /\ None \notin Stamps

VARIABLES
    now,    (* the clock; the database's and the service's are one           *)
    row,    (* the committed rows                                            *)
    rev,    (* the committed revision                                        *)
    lock,   (* which transaction holds the lock of a row                     *)
    txn,    (* the transaction of each client                                *)
    app,    (* the device that reads deltas                                  *)
    served, (* transactions so far                                           *)
    faults  (* throws and lost deltas so far                                 *)

vars == <<now, row, rev, lock, txn, app, served, faults>>

\* A row of version 0 does not exist.
Row == [ver: 0..MaxRequests + 1, is: Stamps]

Ops == {"load", "lock", "find", "children", "compare", "bury", "write", "touch", "bump"}

Kinds == {"idle", "edit", "remind", "rekey", "cut", "override", "absorb",
          "removeChild", "removeSeries"}

Txn == [kind: Kinds, left: Seq([op: Ops, on: Lockable]), began: Times, at: Times,
        copy: [Rows -> Stamps \cup {None}], seen: [Rows -> Stamps \cup {None}],
        out: [Rows -> Stamps \cup {None}], bumped: BOOLEAN]

App == [phase: {"idle", "polled", "tasks", "deleted", "apply"}, seen: 0..MaxRequests,
        polled: 0..MaxRequests, cursor: Times, serverTime: Times,
        got: [Rows -> 0..MaxRequests + 1], known: [Rows -> 0..MaxRequests + 1]]

Nothing == [r \in Rows |-> None]

Idle == [kind |-> "idle", left |-> <<>>, began |-> 0, at |-> 0, copy |-> Nothing,
         seen |-> Nothing, out |-> Nothing, bumped |-> FALSE]

Active(t) == txn[t].kind # "idle"

\* The types, and two rules of the database: a lock has one holder and is a running
\* transaction's, and what a transaction has written, it has locked.
TypeOK ==
    /\ now \in Start..MaxTime
    /\ row \in [Rows -> Row]
    /\ rev \in 0..MaxRequests
    /\ lock \in [Lockable -> Clients \cup {None}]
    /\ txn \in [Clients -> Txn]
    /\ app \in App
    /\ served \in 0..MaxRequests /\ faults \in 0..MaxFaults
    /\ \A l \in Lockable : lock[l] # None => Active(lock[l])
    /\ \A t \in Clients :
           /\ \A r \in Rows : txn[t].out[r] # None => lock[r] = t
           /\ txn[t].bumped => lock[Revision] = t

Old == [updatedAt |-> 0, deletedAt |-> 0, stale |-> FALSE]

\* The device is up to date; the child may have been made before.
Init ==
    /\ now = Start
    /\ \E ver \in {0, 1} :
           LET vers == [r \in Rows |-> IF r = Series THEN 1 ELSE ver]
           IN  /\ row = [r \in Rows |-> [ver |-> vers[r], is |-> Old]]
               /\ app = [phase |-> "idle", seen |-> 0, polled |-> 0, cursor |-> Start,
                         serverTime |-> Start, got |-> vers, known |-> vers]
    /\ rev = 0
    /\ lock = [l \in Lockable |-> None]
    /\ txn = [t \in Clients |-> Idle]
    /\ served = 0 /\ faults = 0
-----------------------------------------------------------------------------
(* The statements of each request, in the order of the service method.      *)

Do(op, on) == [op |-> op, on |-> on]

\* repository.save of a loaded copy: a SELECT to compare with, then an UPDATE.
Save(r) == <<Do("compare", r), Do("write", r)>>

\* task.deletedAt = new Date(), and the save of it.
Bury(r) == <<Do("bury", r), Do("write", r)>>

Bump == <<Do("bump", Revision)>>

\* setCompleted, and an update that leaves the rule and the children alone.
Edit(r) == <<Do("load", r)>> \o Save(r) \o Bump

\* An edit of the reminders only; setOccurrenceCompleted and applyOccurrenceOverride, which
\* write an exception.
Remind == <<Do("load", Series), Do("touch", Series)>> \o Bump

\* sweepOverrideChildren, where it detaches or attaches the child.
Sweep == <<Do("children", Child)>> \o Save(Child)

\* An update of what the rule is computed from. The sweep comes after the bump.
Rekey == <<Do("load", Series)>> \o Save(Series) \o Bump \o Sweep

\* endSeriesAt, and the old side of splitSeries.
Cut == <<Do("load", Series)>> \o Save(Series) \o Sweep \o Bump

\* createOrUpdateOverride: the series is locked, the child found or inserted, the series
\* touched; then the nested update of the child, and a second bump.
Override ==
    <<Do("lock", Series), Do("find", Child), Do("touch", Series)>> \o Edit(Child) \o Bump

\* The same with an exception to absorb (absorbExceptionInto).
Absorb ==
    <<Do("lock", Series), Do("find", Child)>> \o Save(Child)
        \o <<Do("touch", Series)>> \o Edit(Child) \o Bump

\* remove of a child: its slot of the series is skipped, or shown again.
RemoveChild == <<Do("load", Child)>> \o Bury(Child) \o <<Do("touch", Series)>> \o Bump

\* Mutant of RemoveSeries: the children go first.
RemoveSeriesChildrenFirst ==
    <<Do("children", Child)>> \o Bury(Child) \o <<Do("load", Series)>> \o Bury(Series) \o Bump

\* remove of a series, then of its live children.
RemoveSeries ==
    <<Do("load", Series)>> \o Bury(Series) \o <<Do("children", Child)>> \o Bury(Child) \o Bump

\* A request and its statements.
Requests ==
    {<<"edit", Edit(r)>> : r \in Rows}
    \cup {<<"remind", Remind>>, <<"rekey", Rekey>>, <<"cut", Cut>>, <<"override", Override>>,
          <<"absorb", Absorb>>, <<"removeChild", RemoveChild>>,
          <<"removeSeries", RemoveSeries>>}
-----------------------------------------------------------------------------
(* A transaction.                                                           *)

\* What transaction t sees of a row: its own write, else what is committed.
Visible(t, r) == IF txn[t].out[r] # None THEN txn[t].out[r] ELSE row[r].is

Exists(t, r) == row[r].ver > 0 \/ txn[t].out[r] # None

Live(t, r) == Exists(t, r) /\ Visible(t, r).deletedAt = 0

Next1(t, op) == Active(t) /\ txn[t].left # <<>> /\ Head(txn[t].left).op = op

Target(t) == Head(txn[t].left).on

\* The rest of the statements; the next one is issued from now on.
Advance(t, n, new) ==
    txn' = [txn EXCEPT ![t] = [new EXCEPT !.left = SubSeq(@, n + 1, Len(@)), !.at = now]]

\* A statement that takes a row lock waits while another transaction holds it.
CanLock(t, l) == lock[l] \in {None, t}

\* The transaction ends, and its locks with it.
Ended(t) ==
    /\ txn' = [txn EXCEPT ![t] = Idle]
    /\ lock' = [l \in Lockable |-> IF lock[l] = t THEN None ELSE lock[l]]

RolledBack(t) ==
    /\ Ended(t)
    /\ UNCHANGED <<now, row, rev, app, served>>

Begin(t) ==
    /\ ~Active(t) /\ served < MaxRequests
    /\ \E q \in Requests :
           txn' = [txn EXCEPT ![t] = [Idle EXCEPT !.kind = q[1], !.left = q[2],
                                                  !.began = now, !.at = now]]
    /\ served' = served + 1
    /\ UNCHANGED <<now, row, rev, lock, app, faults>>

\* findById: the row must be there and live, or the request is answered 404.
LoadRow(t) ==
    /\ Next1(t, "load")
    /\ IF Live(t, Target(t))
       THEN /\ Advance(t, 1, [txn[t] EXCEPT !.copy[Target(t)] = Visible(t, Target(t))])
            /\ UNCHANGED <<now, row, rev, lock, app, served, faults>>
       ELSE RolledBack(t) /\ UNCHANGED faults

\* findOne with pessimistic_write: SELECT ... FOR UPDATE of the series.
LockRow(t) ==
    LET r == Target(t)
    IN  /\ Next1(t, "lock") /\ CanLock(t, r)
        /\ IF Live(t, r)
           THEN /\ Advance(t, 1, [txn[t] EXCEPT !.copy[r] = Visible(t, r)])
                /\ lock' = [lock EXCEPT ![r] = t]
                /\ UNCHANGED <<now, row, rev, app, served, faults>>
           ELSE RolledBack(t) /\ UNCHANGED faults

\* The child of the slot, or the insert of it. A deleted child would be followed by a row
\* of another id, which the two rows have no room for.
FindChild(t) ==
    LET r == Target(t)
        made == [updatedAt |-> txn[t].began, deletedAt |-> 0, stale |-> FALSE]
    IN  /\ Next1(t, "find")
        /\ \/ /\ Live(t, r)
              /\ Advance(t, 1, [txn[t] EXCEPT !.copy[r] = Visible(t, r)])
              /\ UNCHANGED <<now, row, rev, lock, app, served, faults>>
           \/ /\ ~Exists(t, r)
              /\ Advance(t, 1, [txn[t] EXCEPT !.copy[r] = made, !.out[r] = made])
              /\ lock' = [lock EXCEPT ![r] = t]
              /\ UNCHANGED <<now, row, rev, app, served, faults>>
           \/ /\ Exists(t, r) /\ ~Live(t, r)
              /\ RolledBack(t) /\ UNCHANGED faults

\* The loop over the live children: without one, nothing is saved.
LoadChildren(t) ==
    LET r == Target(t)
        mine == Cardinality({i \in 1..Len(txn[t].left) : txn[t].left[i].on = r})
    IN  /\ Next1(t, "children")
        /\ IF Live(t, r)
           THEN Advance(t, 1, [txn[t] EXCEPT !.copy[r] = Visible(t, r)])
           ELSE Advance(t, mine, txn[t])
        /\ UNCHANGED <<now, row, rev, lock, app, served, faults>>

\* save reads the row, deleted or not, and compares the copy with it.
Compare(t) ==
    /\ Next1(t, "compare")
    /\ Advance(t, 1, [txn[t] EXCEPT !.seen[Target(t)] = Visible(t, Target(t))])
    /\ UNCHANGED <<now, row, rev, lock, app, served, faults>>

\* The same of a copy that was marked deleted just before.
CompareDeleted(t) ==
    /\ Next1(t, "bury")
    /\ \E d \in txn[t].at..now :
           Advance(t, 1, [txn[t] EXCEPT !.copy[Target(t)].deletedAt = d,
                                        !.seen[Target(t)] = Visible(t, Target(t))])
    /\ UNCHANGED <<now, row, rev, lock, app, served, faults>>

\* The columns the UPDATE of a save writes: those in which the copy differs from the row
\* compared with. updatedAt is among them when the row was stamped since it was loaded;
\* otherwise it becomes CURRENT_TIMESTAMP, the time the transaction began.
Updated(t, r) ==
    LET copy == txn[t].copy[r]  seen == txn[t].seen[r]
        stale == copy.updatedAt # seen.updatedAt
    IN  [updatedAt |-> IF stale THEN copy.updatedAt ELSE txn[t].began,
         deletedAt |-> IF copy.deletedAt # seen.deletedAt THEN copy.deletedAt
                       ELSE Visible(t, r).deletedAt,
         stale |-> stale]

Write(t) ==
    LET r == Target(t)
    IN  /\ Next1(t, "write") /\ CanLock(t, r)
        /\ Advance(t, 1, [txn[t] EXCEPT !.out[r] = Updated(t, r), !.copy[r] = Updated(t, r)])
        /\ lock' = [lock EXCEPT ![r] = t]
        /\ UNCHANGED <<now, row, rev, app, served, faults>>

\* What a touch leaves of the stamps of a row: s is the service's clock.
Touched(is, s) == [is EXCEPT !.updatedAt = s, !.stale = FALSE]

\* A reminder or an exception beside the row is written, or a child that hides an occurrence
\* of it, and the row is touched (touchUpdatedAt). The service reads its clock when it issues
\* the statement, so before any wait for the lock.
Touch(t) ==
    LET r == Target(t)
    IN  /\ Next1(t, "touch") /\ CanLock(t, r)
        /\ \E s \in txn[t].at..now :
               Advance(t, 1, [txn[t] EXCEPT !.out[r] = Touched(Visible(t, r), s)])
        /\ lock' = [lock EXCEPT ![r] = t]
        /\ UNCHANGED <<now, row, rev, app, served, faults>>

\* bump: the upsert of the user's row. A second one in a transaction changes nothing more,
\* the revision being compared for equality only.
BumpRevision(t) ==
    /\ Next1(t, "bump") /\ CanLock(t, Revision)
    /\ Advance(t, 1, [txn[t] EXCEPT !.bumped = TRUE])
    /\ lock' = [lock EXCEPT ![Revision] = t]
    /\ UNCHANGED <<now, row, rev, app, served, faults>>

\* The revision the commit leaves.
Committed(t) == rev' = IF txn[t].bumped THEN rev + 1 ELSE rev

\* A device shows a change by t of a row, unless the row was and stays deleted.
Shows(t, r) ==
    /\ txn[t].out[r] # None
    /\ ~(row[r].is.deletedAt > 0 /\ txn[t].out[r].deletedAt > 0)

Commit(t) ==
    /\ Active(t) /\ txn[t].left = <<>>
    /\ row' = [r \in Rows |->
                  [ver |-> IF Shows(t, r) THEN row[r].ver + 1 ELSE row[r].ver,
                   is |-> Visible(t, r)]]
    /\ Committed(t)
    /\ Ended(t)
    /\ UNCHANGED <<now, app, served, faults>>

\* The request throws, or its process dies.
Throw(t) ==
    /\ Active(t) /\ faults < MaxFaults
    /\ faults' = faults + 1
    /\ RolledBack(t)

\* The lock the next statement of t needs and another transaction holds.
WaitsFor(t) ==
    IF /\ Active(t) /\ txn[t].left # <<>>
       /\ Head(txn[t].left).op \in {"lock", "write", "touch", "bump"}
       /\ ~CanLock(t, Target(t))
    THEN lock[Target(t)] ELSE None

\* Every transaction of the set waits for one of the set.
Deadlocked(set) == set # {} /\ \A t \in set : WaitsFor(t) \in set

\* PostgreSQL rolls one of them back; its request is answered 500.
BreakDeadlock(t) ==
    /\ \E set \in SUBSET Clients : t \in set /\ Deadlocked(set)
    /\ RolledBack(t) /\ UNCHANGED faults

\* Time passes, but no transaction outlives Span.
Tick ==
    /\ now < MaxTime
    /\ \A t \in Clients : Active(t) => now - txn[t].began < Span
    /\ now' = now + 1
    /\ UNCHANGED <<row, rev, lock, txn, app, served, faults>>
-----------------------------------------------------------------------------
(* The device: one cycle at a time.                                         *)

\* getState; a delta follows when the revision is not the one last vouched for.
GetState ==
    /\ app.phase = "idle" /\ rev # app.seen
    /\ app' = [app EXCEPT !.phase = "polled", !.polled = rev]
    /\ UNCHANGED <<now, row, rev, lock, txn, served, faults>>

\* findChangedSince captures serverTime before its reads.
CaptureTime ==
    /\ app.phase = "polled"
    /\ app' = [app EXCEPT !.phase = "tasks", !.serverTime = now]
    /\ UNCHANGED <<now, row, rev, lock, txn, served, faults>>

\* Mutant of EffectiveSince: the overlap is no more than the longest transaction.
SinceSpanBefore == app.cursor - Span

EffectiveSince == app.cursor - Lag

\* The live rows stamped after effectiveSince.
ReadTasks ==
    /\ app.phase = "tasks"
    /\ app' = [app EXCEPT !.phase = "deleted",
                  !.got = [r \in Rows |->
                      IF /\ row[r].ver > 0 /\ row[r].is.deletedAt = 0
                         /\ row[r].is.updatedAt > EffectiveSince
                      THEN row[r].ver ELSE app.known[r]]]
    /\ UNCHANGED <<now, row, rev, lock, txn, served, faults>>

\* The tombstones after effectiveSince, with a read of their own.
ReadDeleted ==
    /\ app.phase = "deleted"
    /\ app' = [app EXCEPT !.phase = "apply",
                  !.got = [r \in Rows |->
                      IF row[r].is.deletedAt > 0 /\ row[r].is.deletedAt > EffectiveSince
                      THEN row[r].ver ELSE app.got[r]]]
    /\ UNCHANGED <<now, row, rev, lock, txn, served, faults>>

\* The response arrives: applied, then the cursor and the revision polled before it are kept.
Apply ==
    /\ app.phase = "apply"
    /\ app' = [app EXCEPT !.phase = "idle", !.known = app.got, !.seen = app.polled,
                          !.cursor = app.serverTime]
    /\ UNCHANGED <<now, row, rev, lock, txn, served, faults>>

\* A delta that fails or is lost leaves the cursor and the revision as they are.
LoseDelta ==
    /\ app.phase # "idle" /\ faults < MaxFaults
    /\ faults' = faults + 1
    /\ app' = [app EXCEPT !.phase = "idle"]
    /\ UNCHANGED <<now, row, rev, lock, txn, served>>

Read == CaptureTime \/ ReadTasks \/ ReadDeleted \/ Apply

Statement(t) ==
    \/ LoadRow(t) \/ LockRow(t) \/ FindChild(t) \/ LoadChildren(t)
    \/ Compare(t) \/ CompareDeleted(t) \/ Write(t) \/ Touch(t) \/ BumpRevision(t)
    \/ Commit(t)

Next ==
    \/ Tick
    \/ \E t \in Clients : Begin(t) \/ Statement(t) \/ BreakDeadlock(t) \/ Throw(t)
    \/ GetState \/ Read \/ LoseDelta

Spec == Init /\ [][Next]_vars
-----------------------------------------------------------------------------
(* Properties.                                                              *)

Stale(r) == app.known[r] # row[r].ver

Quiet == app.phase = "idle" /\ app.seen = rev

\* A device at rest with the current revision shows what is committed, however the writers'
\* transactions, the two reads of a delta and lost deltas were interleaved. The excuse is
\* a row whose updatedAt was written back from a copy that another commit had outdated: no
\* delta reports it until the row is written again. A deletion has no such excuse.
DeltaComplete ==
    Quiet => \A r \in Rows :
                 Stale(r) => row[r].is.stale /\ row[r].is.deletedAt = 0

\* What the comment of findChangedSince says (lines 435-438): no change is missed. It does
\* not hold, for the rows DeltaComplete excuses.
NoChangeMissed == Quiet => \A r \in Rows : ~Stale(r)

\* What the comment of SyncStateService says (lines 8-9): the bump is the last statement of its
\* transaction. It does not hold: update sweeps the children afterwards, with the user's
\* revision row locked.
BumpIsLast ==
    \A t \in Clients : txn[t].bumped =>
        \A i \in 1..Len(txn[t].left) : txn[t].left[i].op = "bump"

\* Requests lock the series, then its child, then the revision, so that they wait for one
\* another in no circle. Two do otherwise: an update that sweeps after its bump, and the
\* removal of a child. A deadlock has one of them in it.
DeadlockExplained ==
    \A set \in SUBSET Clients :
        Deadlocked(set) => \E t \in set : txn[t].kind \in {"rekey", "removeChild"}
=============================================================================
