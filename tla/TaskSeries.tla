---------------------------- MODULE TaskSeries ----------------------------
(***************************************************************************)
(* Recurring tasks: the rows a series is stored as, the requests that edit *)
(* it or one occurrence of it (task.service.ts), and what a calendar shows *)
(* of it (findOccurrencesInRange, expandOccurrences).                      *)
(*                                                                         *)
(* A series is one row with a rule.  One occurrence, named by the day the  *)
(* rule gives it (its slot), is changed by an exception row or replaced by *)
(* a child row.  A request is a transaction at READ COMMITTED: it loads    *)
(* its row first and commits its writes, computed from that row, later, so *)
(* other requests may commit in between.  A save writes the whole row.     *)
(*                                                                         *)
(* Time is counted in days.  A rule recurs every so many days, and a task  *)
(* lasts for some of them; titles, reminders and what has no end are left  *)
(* out.  A request that sets a time sets the start and the end.            *)
(***************************************************************************)
EXTENDS Integers, FiniteSets

CONSTANTS
    Clients,     (* devices and chats of one user that may call at a time    *)
    MaxTask,     (* bound: rows                                              *)
    Horizon,     (* bound: the last day                                      *)
    Strides,     (* the intervals a rule may have                            *)
    UserRules,   (* the rules a user gives a series or a group               *)
    Targets,     (* the days an occurrence or a series is moved to           *)
    Lengths,     (* how long a task may last: its end less its start         *)
    MaxRequests, (* bound: requests                                          *)
    NoTask, NoRule, NoException, NoDay

Ids == 1..MaxTask
Days == 0..Horizon

\* limit is the COUNT, or the last day of an UNTIL_DATE rule; -1 is the day before day 0.
Rule == [every: Strides, end: {"never", "count", "until"}, limit: Int]

\* parent = 0: an ordinary task; otherwise an override child of slot `slot` of parent.
Row == [deleted: BOOLEAN, start: Days, length: Nat, rule: Rule \cup {NoRule},
        grouped: BOOLEAN, parent: 0..MaxTask, slot: Days, detached: BOOLEAN, done: BOOLEAN]

\* The length counts where `at` is set.
Exception == [skip: BOOLEAN, at: Days \cup {NoDay}, length: Nat, done: BOOLEAN]

\* The requests, by their service method; "skip" and "move" are applyOccurrenceOverride.
Kinds == {"idle", "update", "complete", "completeOccurrence", "skip", "move",
          "override", "remove", "split", "end"}

Fields == {"title", "start", "rule", "group"}

Ask == [kind: Kinds, task: 0..MaxTask, slot: Days, field: Fields, day: Days, length: Nat,
        rule: Rule \cup {NoRule}, flag: BOOLEAN]

ASSUME SeriesConstants ==
    /\ MaxTask \in Nat \ {0} /\ Horizon \in Nat /\ MaxRequests \in Nat
    /\ Strides \subseteq Nat \ {0} /\ UserRules \subseteq Rule
    /\ Targets \subseteq Days /\ Lengths \subseteq Nat
    /\ NoTask \notin Row /\ NoRule \notin Rule
    /\ NoException \notin Exception /\ NoDay \notin Days

VARIABLES
    tasks,      (* the rows                                                  *)
    exceptions, (* the exception row of a task and a slot                    *)
    groupRule,  (* the default rule of the group                             *)
    req,        (* what each client has under way, and what it has read      *)
    served,     (* requests so far                                           *)
    gone,       (* history: the occurrences the user removed                 *)
    asked       (* history: the tasks the user removed as a whole            *)

vars == <<tasks, exceptions, groupRule, req, served, gone, asked>>

Blank == [kind |-> "idle", task |-> 0, slot |-> 0, field |-> "title", day |-> 0,
          length |-> 0, rule |-> NoRule, flag |-> FALSE]

Idle == [ask |-> Blank, row |-> NoTask, child |-> 0]

TypeOK ==
    /\ tasks \in [Ids -> Row \cup {NoTask}]
    /\ exceptions \in [Ids \X Days -> Exception \cup {NoException}]
    /\ groupRule \in Rule \cup {NoRule}
    /\ req \in [Clients -> [ask: Ask, row: Row \cup {NoTask}, child: 0..MaxTask]]
    /\ \A c \in Clients : req[c].ask.kind # "idle" =>
           /\ req[c].ask.task \in Ids /\ tasks[req[c].ask.task] # NoTask
           /\ req[c].row # NoTask
    /\ served \in 0..MaxRequests
    /\ gone \subseteq Ids \X Days
    /\ asked \subseteq Ids

Task(start, length, rule, grouped) ==
    [deleted |-> FALSE, start |-> start, length |-> length, rule |-> rule, grouped |-> grouped,
     parent |-> 0, slot |-> 0, detached |-> FALSE, done |-> FALSE]

\* A series that recurs by its own rule, or by the rule of its group.
Init ==
    /\ \E rule \in UserRules, grouped \in BOOLEAN, length \in Lengths :
           /\ tasks = [i \in Ids |->
                         IF i # 1 THEN NoTask
                         ELSE Task(0, length, IF grouped THEN NoRule ELSE rule, grouped)]
           /\ groupRule = IF grouped THEN rule ELSE NoRule
    /\ exceptions = [k \in Ids \X Days |-> NoException]
    /\ req = [c \in Clients |-> Idle]
    /\ served = 0 /\ gone = {} /\ asked = {}
-----------------------------------------------------------------------------
(* What a rule generates.                                                   *)

\* expandOccurrences without exceptions: the n-th candidate lies n intervals after the
\* anchor, COUNT counts candidates from the anchor, UNTIL includes its day.
Generated(row, rule) ==
    IF rule = NoRule THEN {}
    ELSE {d \in Days :
            /\ d >= row.start
            /\ (d - row.start) % rule.every = 0
            /\ rule.end = "count" => (d - row.start) \div rule.every < rule.limit
            /\ rule.end = "until" => d <= rule.limit}

\* resolveEffectiveConfigForTask: children never recur, the task's own rule wins.
Effective(row) ==
    IF row.parent # 0 THEN NoRule
    ELSE IF row.rule # NoRule THEN row.rule
    ELSE IF row.grouped THEN groupRule ELSE NoRule

\* The UNTIL boundary the day before a slot.
Until(rule, slot) == [rule EXCEPT !.end = "until", !.limit = slot - 1]

\* countOccurrencesBefore.
CountBefore(row, slot) == Cardinality({d \in Generated(row, row.rule) : d < slot})

\* Mutant of SplitRule: the new series counts from its own start again.
SplitRuleWholeCount(row, slot) == row.rule

\* resolveSplitRecurrence, with no recurrence in the changes.
SplitRule(row, slot) ==
    IF row.rule.end # "count" THEN row.rule
    ELSE LET left == row.rule.limit - CountBefore(row, slot)
         IN  [row.rule EXCEPT !.limit = IF left > 0 THEN left ELSE 0]
-----------------------------------------------------------------------------
(* What the calendar shows.                                                 *)

Live(i) == tasks[i] # NoTask /\ ~tasks[i].deleted

Children(i) == {k \in Ids : Live(k) /\ tasks[k].parent = i}

\* The live child of a slot, 0 when it has none.
ChildAt(i, slot) ==
    LET found == {k \in Children(i) : tasks[k].slot = slot}
    IN  IF found = {} THEN 0 ELSE CHOOSE k \in found : TRUE

InheritsGroupRecurrence(i) ==
    tasks[i].parent = 0 /\ tasks[i].grouped /\ groupRule # NoRule

\* readRecurringOccurrences: the anchors with a rule of their own or of their group.
Anchors ==
    {i \in Ids : /\ Live(i) /\ tasks[i].parent = 0
                 /\ tasks[i].rule # NoRule
                        \/ (tasks[i].grouped /\ groupRule # NoRule)}

\* buildOccurrence of slot d of series i.
Occurrence(i, d) ==
    LET e == exceptions[<<i, d>>]
        moved == e # NoException /\ e.at # NoDay
    IN  [task |-> i, of |-> <<i, d>>,
         at |-> IF moved THEN e.at ELSE d,
         length |-> IF moved THEN e.length ELSE tasks[i].length,
         done |-> e # NoException /\ e.done]

\* expandOccurrences with exceptions: a skipped slot is not shown.
Expanded(i) ==
    {Occurrence(i, d) : d \in
        {g \in Generated(tasks[i], Effective(tasks[i])) :
            exceptions[<<i, g>>] # NoException => ~exceptions[<<i, g>>].skip}}

\* readOneOffOccurrences and wrapOneOff; a child stands for the slot it replaces.
OneOffs ==
    {[task |-> i,
      of |-> IF tasks[i].parent = 0 THEN <<i, tasks[i].start>>
             ELSE <<tasks[i].parent, tasks[i].slot>>,
      at |-> tasks[i].start, length |-> tasks[i].length, done |-> tasks[i].done] :
        i \in {k \in Ids : Live(k) /\ tasks[k].rule = NoRule
                                   /\ ~InheritsGroupRecurrence(k)}}

\* Mutant of SuppressedSlots: a detached child suppresses nothing.
SuppressedByAttached ==
    {<<tasks[i].parent, tasks[i].slot>> :
        i \in {k \in Ids : Live(k) /\ tasks[k].parent # 0 /\ ~tasks[k].detached}}

\* The slots with a live child.
SuppressedSlots ==
    {<<tasks[i].parent, tasks[i].slot>> :
        i \in {k \in Ids : Live(k) /\ tasks[k].parent # 0}}

\* What the user has: findOccurrencesInRange over all days. What a child replaces is hidden.
Shown ==
    {e \in OneOffs \cup UNION {Expanded(i) : i \in Anchors} :
        e.of[1] = e.task => e.of \notin SuppressedSlots}
-----------------------------------------------------------------------------
(* What a window of the calendar shows, from day `from` up to day `to`.     *)

\* What lasts `length` days from `start` is in the window for some of them.
Meets(start, length, from, to) == start < to /\ start + length > from

\* readOneOffOccurrences of a window.
OneOffsIn(from, to) == {o \in OneOffs : Meets(o.at, o.length, from, to)}

\* expandOccurrences clipped to a window: by the slot, wherever the occurrence was moved to.
ExpandedIn(i, from, to) ==
    {o \in Expanded(i) : Meets(o.of[2], tasks[i].length, from, to)}

\* buildOverrideSuppressionSet: only the slots that begin in the window.
SuppressedIn(from, to) == {s \in SuppressedSlots : from <= s[2] /\ s[2] < to}

\* findOccurrencesInRange.
ShownIn(from, to) ==
    LET suppressed == SuppressedIn(from, to)
    IN  {e \in OneOffsIn(from, to) \cup UNION {ExpandedIn(i, from, to) : i \in Anchors} :
            e.of[1] = e.task => e.of \notin suppressed}
-----------------------------------------------------------------------------
(* What the writes of a request do to the tables.                           *)

\* UQ_task_override_slot: a write that would give a slot two live children fails.
OneLiveChildPerSlot(table) ==
    \A i, k \in Ids :
        /\ table[i] # NoTask /\ ~table[i].deleted /\ table[i].parent # 0
        /\ table[k] # NoTask /\ ~table[k].deleted
        /\ table[k].parent = table[i].parent /\ table[k].slot = table[i].slot
        => i = k

Saved(i, row) == [tasks EXCEPT ![i] = row]

\* Mutant of Swept: a child is detached, never attached again.
SweptOneWay(table, i) ==
    [k \in Ids |->
        IF table[k] # NoTask /\ ~table[k].deleted /\ table[k].parent = i
           /\ table[k].slot \notin Generated(table[i], Effective(table[i]))
        THEN [table[k] EXCEPT !.detached = TRUE]
        ELSE table[k]]

\* sweepOverrideChildren of the saved row of i.
Swept(table, i) ==
    [k \in Ids |->
        IF table[k] # NoTask /\ ~table[k].deleted /\ table[k].parent = i
        THEN [table[k] EXCEPT !.detached =
                 table[k].slot \notin Generated(table[i], Effective(table[i]))]
        ELSE table[k]]

EmptyException == [skip |-> FALSE, at |-> NoDay, length |-> 0, done |-> FALSE]

\* The row upsertOverride starts from.
ExceptionAt(k) == IF exceptions[k] = NoException THEN EmptyException ELSE exceptions[k]

\* One row is locked by the override request that is between its SELECT ... FOR UPDATE
\* and its commit; any other write of the row waits.
Locked(i, c) ==
    \E o \in Clients \ {c} : req[o].ask.kind = "override" /\ req[o].ask.task = i

Reply(c) == req' = [req EXCEPT ![c] = Idle]

\* The request throws: its transaction is rolled back.
Fail(c) ==
    /\ Reply(c)
    /\ UNCHANGED <<tasks, exceptions, groupRule, served, gone, asked>>

\* The commit of a new task table, unless it breaks the unique index.
Commit(c, table) ==
    /\ Reply(c)
    /\ tasks' = IF OneLiveChildPerSlot(table) THEN table ELSE tasks

\* Mutant of CommitException: the absorbed row is deleted by its task alone.
CommitExceptionOfTask(c, k, e) ==
    /\ ~Locked(k[1], c)
    /\ Reply(c)
    /\ exceptions' = [x \in Ids \X Days |->
                        IF x = k \/ (e = NoException /\ x[1] = k[1]) THEN e ELSE exceptions[x]]

\* The commit of one exception row, which touches the task.
CommitException(c, k, e) ==
    /\ ~Locked(k[1], c)
    /\ Reply(c)
    /\ exceptions' = [exceptions EXCEPT ![k] = e]

FreeId == CHOOSE i \in Ids : tasks[i] = NoTask

HasFreeId == \E i \in Ids : tasks[i] = NoTask
-----------------------------------------------------------------------------
(* Requests arrive.                                                         *)

On(kind, i) == [Blank EXCEPT !.kind = kind, !.task = i]

At(kind, i, d) == [Blank EXCEPT !.kind = kind, !.task = i, !.slot = d]

\* A request with the times a user may give it.
WithTime(ask) == {[ask EXCEPT !.day = t[1], !.length = t[2]] : t \in Targets \X Lengths}

\* Edits of one field of row i.
EditsOf(i) ==
    {On("update", i)}
    \cup {[On("update", i) EXCEPT !.field = "group", !.flag = b] : b \in BOOLEAN}
    \cup WithTime([On("update", i) EXCEPT !.field = "start"])
    \cup {[On("update", i) EXCEPT !.field = "rule", !.rule = r] : r \in UserRules \cup {NoRule}}

\* Requests about row i as a whole; the flag is the completion, or the mode "revert".
RowAsks(i) == {[On(kind, i) EXCEPT !.flag = b] : kind \in {"complete", "remove"}, b \in BOOLEAN}

\* Requests about slot d of row i, with a new time where the flag is set.
SlotAsks(i, d) ==
    {[At("completeOccurrence", i, d) EXCEPT !.flag = b] : b \in BOOLEAN}
    \cup {At(kind, i, d) : kind \in {"skip", "override", "split", "end"}}
    \cup UNION {WithTime([At(kind, i, d) EXCEPT !.flag = TRUE]) :
                  kind \in {"move", "override", "split"}}

Asks == UNION {EditsOf(i) \cup RowAsks(i) \cup UNION {SlotAsks(i, d) : d \in Days} : i \in Ids}

\* The request loads its row, which must exist and be live (404 otherwise). An override
\* locks it; the two other occurrence requests look for the child of the slot here.
Load(c) ==
    /\ req[c] = Idle /\ served < MaxRequests
    /\ \E a \in Asks :
        /\ Live(a.task)
        /\ a.kind = "override" => ~Locked(a.task, c)
        /\ req' = [req EXCEPT ![c] =
               [ask |-> a, row |-> tasks[a.task],
                child |-> IF a.kind \in {"completeOccurrence", "skip", "move"}
                          THEN ChildAt(a.task, a.slot) ELSE 0]]
    /\ served' = served + 1
    /\ UNCHANGED <<tasks, exceptions, groupRule, gone, asked>>

\* create.
Create ==
    /\ HasFreeId /\ served < MaxRequests
    /\ \E start \in Targets, length \in Lengths, rule \in UserRules \cup {NoRule},
          grouped \in BOOLEAN :
           tasks' = Saved(FreeId, Task(start, length, rule, grouped))
    /\ served' = served + 1
    /\ UNCHANGED <<exceptions, groupRule, req, gone, asked>>
-----------------------------------------------------------------------------
(* The tail of each request: its checks and its writes.                     *)

\* The row with the one field of the request changed.
Edited(row, ask) ==
    CASE ask.field = "start" -> [row EXCEPT !.start = ask.day, !.length = ask.length]
      [] ask.field = "rule"  -> [row EXCEPT !.rule = ask.rule]
      [] ask.field = "group" -> [row EXCEPT !.grouped = ask.flag]
      [] OTHER -> row

\* update: saves the loaded row with the change; a change of what the rule is computed
\* from re-evaluates the children. Setting a rule counts as a change even when it is equal.
UpdateRow(c, i, row, ask) ==
    LET next == Edited(row, ask)
        ruleInputsChanged ==
            /\ row.parent = 0
            /\ \/ next.start # row.start \/ next.rule # row.rule \/ next.grouped # row.grouped
               \/ ask.field = "rule" /\ ask.rule # NoRule
        saves == next # row \/ ruleInputsChanged \/ ask.field = "title"
    IN  IF row.parent # 0 /\ ask.field = "rule" /\ ask.rule # NoRule
        THEN Fail(c)
        ELSE /\ saves => ~Locked(i, c)
             /\ Commit(c, IF ruleInputsChanged THEN Swept(Saved(i, next), i)
                          ELSE IF saves THEN Saved(i, next) ELSE tasks)
             /\ UNCHANGED <<exceptions, groupRule, served, gone, asked>>

Update(c) ==
    /\ req[c].ask.kind = "update"
    /\ UpdateRow(c, req[c].ask.task, req[c].row, req[c].ask)

\* setCompleted.
CompleteRow(c, i, row, done) ==
    /\ row.done # done => ~Locked(i, c)
    /\ Commit(c, IF row.done # done THEN Saved(i, [row EXCEPT !.done = done]) ELSE tasks)
    /\ UNCHANGED <<exceptions, groupRule, served, gone, asked>>

\* setCompleted called by another method: it reads the row again by its id.
CompleteTask(c, i, done) == IF Live(i) THEN CompleteRow(c, i, tasks[i], done) ELSE Fail(c)

SetCompleted(c) ==
    /\ req[c].ask.kind = "complete"
    /\ CompleteRow(c, req[c].ask.task, req[c].row, req[c].ask.flag)

\* setOccurrenceCompleted: the task without a rule of its own, else the child of the slot,
\* else the exception of the slot. The slot need not be generated.
SetOccurrenceCompleted(c) ==
    LET ask == req[c].ask  k == <<ask.task, ask.slot>>  child == req[c].child
    IN  /\ ask.kind = "completeOccurrence"
        /\ IF req[c].row.rule = NoRule
           THEN CompleteTask(c, ask.task, ask.flag)
           ELSE IF child # 0
           THEN CompleteTask(c, child, ask.flag)
           ELSE /\ CommitException(c, k, [ExceptionAt(k) EXCEPT !.done = ask.flag])
                /\ UNCHANGED <<tasks, groupRule, served, gone, asked>>

\* remove of an ordinary task: its live children are deleted with it.
RemoveSeries(c, i, row) ==
    /\ ~Locked(i, c)
    /\ Commit(c, [k \in Ids |-> IF k = i THEN [row EXCEPT !.deleted = TRUE]
                               ELSE IF k \in Children(i) THEN [tasks[k] EXCEPT !.deleted = TRUE]
                               ELSE tasks[k]])
    /\ UNCHANGED <<exceptions, groupRule, served, gone>>

\* remove of a child: the slot is skipped, or with "revert" generated again with the
\* child's completion.
RemoveChild(c, i, row, revert) ==
    LET k == <<row.parent, row.slot>>
        e == IF ~revert THEN [ExceptionAt(k) EXCEPT !.skip = TRUE]
             ELSE IF row.done THEN [ExceptionAt(k) EXCEPT !.done = TRUE]
             ELSE exceptions[k]
    IN  /\ CommitException(c, k, e)
        /\ tasks' = Saved(i, [row EXCEPT !.deleted = TRUE])
        /\ gone' = IF revert THEN gone ELSE gone \cup {k}
        /\ UNCHANGED <<groupRule, served, asked>>

RemoveRow(c, i, row, revert) ==
    IF row.parent = 0
    THEN RemoveSeries(c, i, row) /\ asked' = asked \cup {i}
    ELSE RemoveChild(c, i, row, revert)

Remove(c) ==
    /\ req[c].ask.kind = "remove"
    /\ RemoveRow(c, req[c].ask.task, req[c].row, req[c].ask.flag)

\* collapseOverrideToMaster of a skip: a task without a rule of its own is deleted. That
\* is what the user asked for when it does not recur at all.
CollapseSkip(c, i) ==
    IF ~Live(i) THEN Fail(c)
    ELSE IF tasks[i].parent # 0 THEN RemoveChild(c, i, tasks[i], FALSE)
    ELSE /\ RemoveSeries(c, i, tasks[i])
         /\ asked' = IF Effective(tasks[i]) = NoRule THEN asked \cup {i} ELSE asked

\* Mutant of SkipOccurrence: no 409 for a slot that has a child.
SkipOverChild(c) ==
    LET ask == req[c].ask  k == <<ask.task, ask.slot>>
    IN  /\ ask.kind = "skip"
        /\ IF req[c].row.rule = NoRule THEN CollapseSkip(c, ask.task)
           ELSE /\ CommitException(c, k, [ExceptionAt(k) EXCEPT !.skip = TRUE])
                /\ gone' = gone \cup {k}
                /\ UNCHANGED <<tasks, groupRule, served, asked>>

\* applyOccurrenceOverride with isSkipped; a slot with a child is refused (409).
SkipOccurrence(c) ==
    LET ask == req[c].ask  k == <<ask.task, ask.slot>>
    IN  /\ ask.kind = "skip"
        /\ IF req[c].row.rule = NoRule THEN CollapseSkip(c, ask.task)
           ELSE IF req[c].child # 0 THEN Fail(c)
           ELSE /\ CommitException(c, k, [ExceptionAt(k) EXCEPT !.skip = TRUE])
                /\ gone' = gone \cup {k}
                /\ UNCHANGED <<tasks, groupRule, served, asked>>

\* applyOccurrenceOverride with a new time: only for a slot the task's own rule generates.
MoveOccurrence(c) ==
    LET ask == req[c].ask  k == <<ask.task, ask.slot>>  row == req[c].row
    IN  /\ ask.kind = "move"
        /\ IF row.rule = NoRule
           THEN IF Live(ask.task)
                THEN UpdateRow(c, ask.task, tasks[ask.task], [ask EXCEPT !.field = "start"])
                ELSE Fail(c)
           ELSE IF req[c].child # 0 \/ ask.slot \notin Generated(row, row.rule) THEN Fail(c)
           ELSE /\ CommitException(c, k, [ExceptionAt(k) EXCEPT !.at = ask.day,
                                                                  !.length = ask.length])
                /\ UNCHANGED <<tasks, groupRule, served, gone, asked>>

\* absorbExceptionInto: the span and the completion of the exception move to the child,
\* its skip does not.
Absorbed(child, e) ==
    IF e = NoException THEN child
    ELSE [child EXCEPT !.start = IF e.at # NoDay THEN e.at ELSE child.start,
                       !.length = IF e.at # NoDay THEN e.length ELSE child.length,
                       !.done = child.done \/ e.done]

\* The snapshot of the parent for one slot.
NewChild(i, parent, slot) ==
    [Task(slot, parent.length, NoRule, parent.grouped) EXCEPT !.parent = i, !.slot = slot]

\* createOrUpdateOverride, after the lock: the child of the slot, created when the
\* effective rule generates the slot, absorbs the exception and takes the patch.
CreateOrUpdateOverride(c) ==
    LET ask == req[c].ask  k == <<ask.task, ask.slot>>  parent == req[c].row
        existing == ChildAt(ask.task, ask.slot)
        id == IF existing # 0 THEN existing ELSE FreeId
        child == Absorbed(IF existing # 0 THEN tasks[existing]
                          ELSE NewChild(ask.task, parent, ask.slot), exceptions[k])
        patched == IF ask.flag THEN [child EXCEPT !.start = ask.day, !.length = ask.length]
                   ELSE child
    IN  /\ ask.kind = "override"
        /\ IF \/ parent.parent # 0
              \/ existing = 0 /\ ask.slot \notin Generated(parent, Effective(parent))
           THEN Fail(c)
           ELSE /\ existing = 0 => HasFreeId
                /\ IF OneLiveChildPerSlot(Saved(id, patched))
                   THEN /\ CommitException(c, k, NoException)
                        /\ tasks' = Saved(id, patched)
                        /\ gone' = gone \ {k}
                        /\ UNCHANGED <<groupRule, served, asked>>
                   ELSE Fail(c)

\* copyExceptionsFrom: the exceptions from the slot on, for the new series.
Copied(i, new, slot) ==
    [k \in Ids \X Days |-> IF k[1] = new /\ k[2] >= slot THEN exceptions[<<i, k[2]>>]
                           ELSE exceptions[k]]

\* splitSeries: the old series ends the day before the slot, a new one starts at the slot
\* or where the user moved it. At the series' own start it is an edit of the whole series.
SplitSeries(c) ==
    LET ask == req[c].ask  i == ask.task  row == req[c].row
        ended == [row EXCEPT !.rule = Until(row.rule, ask.slot)]
        new == Task(IF ask.flag THEN ask.day ELSE ask.slot,
                    IF ask.flag THEN ask.length ELSE row.length,
                    SplitRule(row, ask.slot), row.grouped)
    IN  /\ ask.kind = "split"
        /\ IF row.rule = NoRule \/ row.start = ask.slot
           THEN IF Live(i)
                THEN UpdateRow(c, i, tasks[i],
                               [ask EXCEPT !.field = IF ask.flag THEN "start" ELSE "title"])
                ELSE Fail(c)
           ELSE /\ HasFreeId /\ ~Locked(i, c)
                /\ Commit(c, Swept([tasks EXCEPT ![i] = ended, ![FreeId] = new], i))
                /\ exceptions' = Copied(i, FreeId, ask.slot)
                /\ gone' = gone \cup {<<FreeId, d>> : d \in
                               {e \in Days : e >= ask.slot /\ <<i, e>> \in gone}}
                /\ UNCHANGED <<groupRule, served, asked>>

\* endSeriesAt: the series ends the day before the slot; at its start, or without a rule of
\* its own, the task is removed. Children past the cut are kept and detached.
EndSeriesAt(c) ==
    LET ask == req[c].ask  i == ask.task  row == req[c].row
        ended == [row EXCEPT !.rule = Until(row.rule, ask.slot)]
    IN  /\ ask.kind = "end"
        /\ IF row.rule = NoRule \/ row.start = ask.slot
           THEN IF ~Live(i) THEN Fail(c)
                ELSE IF tasks[i].parent # 0 THEN RemoveChild(c, i, tasks[i], FALSE)
                ELSE /\ RemoveSeries(c, i, tasks[i])
                     /\ asked' = IF Effective(row) = NoRule \/ row.start = ask.slot
                                 THEN asked \cup {i} ELSE asked
           ELSE /\ ~Locked(i, c)
                /\ Commit(c, Swept(Saved(i, ended), i))
                /\ UNCHANGED <<exceptions, groupRule, served, gone, asked>>
-----------------------------------------------------------------------------
(* The group the series may belong to (task-group.service.ts).              *)

\* update of the group's default rule: no row of a task but its updatedAt changes.
SetGroupRule ==
    /\ served < MaxRequests
    /\ groupRule' \in (UserRules \cup {NoRule}) \ {groupRule}
    /\ served' = served + 1
    /\ UNCHANGED <<tasks, exceptions, req, gone, asked>>

\* remove: the foreign key clears groupId of every member.
RemoveGroup ==
    /\ served < MaxRequests
    /\ \A c \in Clients :
           LET ask == req[c].ask
           IN  ask.kind = "override" => ~tasks[ask.task].grouped
    /\ tasks' = [i \in Ids |-> IF tasks[i] = NoTask THEN NoTask
                               ELSE [tasks[i] EXCEPT !.grouped = FALSE]]
    /\ groupRule' = NoRule
    /\ served' = served + 1
    /\ UNCHANGED <<exceptions, req, gone, asked>>
-----------------------------------------------------------------------------
Next ==
    \/ \E c \in Clients :
          \/ Load(c) \/ Update(c) \/ SetCompleted(c) \/ SetOccurrenceCompleted(c)
          \/ SkipOccurrence(c) \/ MoveOccurrence(c) \/ CreateOrUpdateOverride(c)
          \/ Remove(c) \/ SplitSeries(c) \/ EndSeriesAt(c)
    \/ Create \/ SetGroupRule \/ RemoveGroup

Spec == Init /\ [][Next]_vars
-----------------------------------------------------------------------------
(* Properties.                                                              *)

\* However requests overlap and whatever group a series and its children are in, an
\* occurrence is shown at most once: a child replaces the occurrence it was made from, also
\* when the former series has become a single task, and never recurs itself. A window of the
\* calendar shows nothing beside, but for occurrences that began before it: there it shows a
\* slot although a child has replaced it.
ShownOnce ==
    LET shown == Shown
    IN  /\ \A e, f \in shown : e.of = f.of => e = f
        /\ \A from \in Days : \A to \in (from + 1)..(Horizon + 1) :
               \A e \in ShownIn(from, to) : e \in shown \/ e.of[2] < from

\* However requests overlap, no completion is stored where a child hides it: the override
\* absorbs the completion of its slot under the parent's lock, "no orphaned exception, no
\* lost completion" (docs/specs/recurrence-occurrence-overrides.md, section 6).
NoCompletionUnderAChild ==
    \A k \in Ids : Live(k) /\ tasks[k].parent # 0 =>
        LET e == exceptions[<<tasks[k].parent, tasks[k].slot>>]
        IN  e # NoException => ~e.done

\* While requests come one at a time, a live child and its series agree. Its slot has no
\* exception: the row it absorbed is deleted, and later completions and skips go to the child
\* or are refused (an exception there would be hidden, and come back to life with a revert).
\* And it is flagged as detached exactly when the rule of the series, edited, cut or restored
\* meanwhile, does not generate its slot, for a series with a rule of its own.
ChildrenFit ==
    \A k \in Ids :
        LET i == tasks[k].parent
        IN  Live(k) /\ i # 0 =>
                /\ exceptions[<<i, tasks[k].slot>>] = NoException
                /\ tasks[i].rule # NoRule =>
                       (tasks[k].detached <=>
                            tasks[k].slot \notin Generated(tasks[i], tasks[i].rule))

\* An occurrence the user removed (skipped, or removed as a child) stays away while its
\* series recurs, through edits of the rule and through a split into a new series, until
\* the user overrides it again.
RemovedStaysAway ==
    \A k \in gone :
        Live(k[1]) /\ Effective(tasks[k[1]]) # NoRule => \A e \in Shown : e.of # k

\* A split at an occurrence neither adds nor drops one: the two series together generate
\* what the old one did, the new one everything from the split on, completed where the
\* exception of the old one was. Ending the series there keeps exactly what came before.
CutConserves ==
    [][\A c \in Clients :
          LET ask == req[c].ask  i == ask.task  row == req[c].row
              before == Generated(row, row.rule)
              cut == row.rule # NoRule /\ ask.slot \in before /\ ask.slot # row.start
          IN  /\ SplitSeries(c) /\ cut =>
                     /\ Generated(tasks'[i], tasks'[i].rule) = {d \in before : d < ask.slot}
                     /\ LET new == FreeId
                        IN  /\ ~ask.flag => Generated(tasks'[new], tasks'[new].rule)
                                                = {d \in before : d >= ask.slot}
                            /\ \A d \in before : d >= ask.slot =>
                                   exceptions'[<<new, d>>] = exceptions[<<i, d>>]
              /\ EndSeriesAt(c) /\ cut =>
                     Generated(tasks'[i], tasks'[i].rule) = {d \in before : d < ask.slot}]_vars

DoneSlots == {e.of : e \in {f \in Shown : f.done}}

\* A step that removes a child shows the task itself in its place: a former series, now a
\* single task with a completion of its own.
Uncovered(e) == e.task = e.of[1] /\ e.task \notin Anchors' /\ e.of \in SuppressedSlots

\* A request about one occurrence of a series with a rule of its own changes what is shown
\* of that occurrence and of no other, and no override, revert, move, skip or cut shows a
\* completed occurrence as open, but for what it uncovers of a former series.
OneOccurrenceOnly ==
    [][\A c \in Clients :
          LET ask == req[c].ask  row == req[c].row
              slot == IF ask.kind = "remove" THEN <<row.parent, row.slot>>
                      ELSE <<ask.task, ask.slot>>
              changes == \/ CreateOrUpdateOverride(c) \/ SkipOccurrence(c)
                         \/ MoveOccurrence(c) /\ row.rule # NoRule
          IN  /\ \/ (SetOccurrenceCompleted(c) \/ changes) /\ row.rule # NoRule
                 \/ Remove(c) /\ row.parent # 0
                 => {e \in Shown : e.of # slot} = {e \in Shown' : e.of # slot}
              /\ \/ changes \/ Remove(c)
                 \/ EndSeriesAt(c) /\ row.rule # NoRule
                 => \A e \in Shown' : e.of \in DoneSlots => e.done \/ Uncovered(e)]_vars

\* "Suppress every generated occurrence whose (parentId, originalStart) slot is replaced by
\* a live override child" (task.service.ts:549-551): in every window. The code does not keep
\* this of a slot that began before the window.
OverriddenSuppressed ==
    \A from \in Days : \A to \in (from + 1)..(Horizon + 1) : ShownIn(from, to) \subseteq Shown

\* "PAST occurrences are preserved and the instance + every later one disappear"
\* (task.service.ts:1453-1455): the series that is ended or split recurs no more than before.
CutsShorten ==
    [][\A c \in Clients :
          LET ask == req[c].ask  row == req[c].row
          IN  /\ SplitSeries(c) \/ EndSeriesAt(c)
              /\ row.rule # NoRule /\ row.start # ask.slot
              => Generated(tasks'[ask.task], tasks'[ask.task].rule)
                     \subseteq Generated(row, row.rule)]_vars

\* A series is deleted only when the user asked for that: by its own id, or from its first
\* occurrence on, and never by a request about one occurrence or the following ones.
SeriesRemovedOnRequest ==
    \A i \in Ids : tasks[i] # NoTask /\ tasks[i].parent = 0 /\ tasks[i].deleted => i \in asked
=============================================================================
