---------------------------- MODULE ConflictGate ----------------------------
(***************************************************************************)
(* The schedule tools of one turn (tool-dispatcher.service.ts) and         *)
(* the conflict gate in front of their writes (task.service.ts:            *)
(* findOverlapping and what it calls), over the tables of TaskSeries.      *)
(*                                                                         *)
(* The turn is one more client of the task service, beside the devices     *)
(* that edit the same calendar. A tool call reads, decides, and then       *)
(* issues the request of the service it decided on: the gate is a check    *)
(* before a separate write, and devices may write in between.              *)
(*                                                                         *)
(* Two commitments overlap when one meets the time of the other. Names,    *)
(* zones and titles are left out.                                          *)
(***************************************************************************)
EXTENDS TaskSeries

CONSTANTS
    Assistant, (* the client that is the user's turn                         *)
    PreloadFrom, PreloadTo, (* the window of the agenda of a new turn        *)
    PreviewDays, (* how far a proposed series is checked, from its start     *)
    MaxCalls   (* bound: tool calls                                          *)

ASSUME GateConstants ==
    /\ Assistant \in Clients
    /\ PreloadFrom \in Days /\ PreloadTo \in Nat
    /\ PreviewDays \in Nat /\ MaxCalls \in Nat

VARIABLES
    ctx,    (* the turn: its policy and its handles                          *)
    call,   (* the call that passed its checks and is about to write         *)
    raced,  (* a device has changed the tables since the call was checked    *)
    calls   (* tool calls so far                                             *)

tables == <<tasks, exceptions, groupRule>>
gate == <<ctx, call, raced, calls>>
gateVars == <<vars, gate>>

Policies == {"ask", "allow", "deny"}

\* A handle addresses an occurrence (task and slot) or a row (no slot).
Handles == [task: Ids, slot: Days \cup {NoDay}]

\* "create" uses the day, the length, the rule and the flag (in the group) of its ask. What the gate
\* looks at for the call: nothing, one window, or a series' windows; confirmOverlap.
Calls == [does: {"nothing", "create", "request"}, ask: Ask,
          checked: {"nothing", "window", "series"}, confirm: BOOLEAN]

NoCall == [does |-> "nothing", ask |-> Blank, checked |-> "nothing", confirm |-> FALSE]

GateTypeOK ==
    /\ TypeOK
    /\ ctx \in [policy: Policies, handles: SUBSET Handles]
    /\ call \in Calls /\ raced \in BOOLEAN
    /\ calls \in 0..MaxCalls

-----------------------------------------------------------------------------
(* What the tools and the gate read of a window, from `from` up to `to`.    *)

\* findOccurrencesInRange without the completed ones.
OccurrencesInRange(from, to) == {o \in ShownIn(from, to) : ~o.done}

\* Mutant of FindClashingRecurringAnchors: a slot its child vacated still clashes.
FindClashingUnsuppressed(from, to, except) ==
    {i \in Anchors \ {except} : \E o \in ExpandedIn(i, from, to) : ~o.done}

\* findClashingRecurringAnchors: by the rule of the row, or of its group.
FindClashingRecurringAnchors(from, to, except) ==
    LET suppressed == SuppressedIn(from, to)
    IN  {i \in Anchors \ {except} :
            \E o \in ExpandedIn(i, from, to) : ~o.done /\ o.of \notin suppressed}

\* findOverlapping: the rows without a rule of their own at that time (also those that
\* recur by their group), and the series.
FindOverlapping(from, to, except) ==
    {i \in Ids \ {except} : Live(i) /\ tasks[i].rule = NoRule /\ ~tasks[i].done
                            /\ Meets(tasks[i].start, tasks[i].length, from, to)}
    \cup FindClashingRecurringAnchors(from, to, except)

\* previewSeriesOccurrences: what a proposed series generates, up to the horizon.
Previewed(start, rule) ==
    {d \in Generated([start |-> start], rule) : d < start + PreviewDays}

\* findRecurringSeriesConflicts: every previewed occurrence is looked up.
FindRecurringSeriesConflicts(start, length, rule, except) ==
    UNION {FindOverlapping(d, d + length, except) : d \in Previewed(start, rule)}

\* findRecurringEditConflicts: the rule of the edit or the row's own rule, never the
\* group's; an edit of neither time nor rule, or one that clears the rule, is not checked.
SeriesToCheck(row, field, rule) ==
    IF field = "rule" /\ rule # NoRule THEN rule
    ELSE IF field = "start" THEN row.rule ELSE NoRule

FindRecurringEditConflicts(i, row, field, start, length, rule) ==
    FindRecurringSeriesConflicts(IF field = "start" THEN start ELSE row.start,
                                 IF field = "start" THEN length ELSE row.length,
                                 SeriesToCheck(row, field, rule), i)
-----------------------------------------------------------------------------
(* A turn and its reading tools.                                            *)

Told == UNCHANGED <<vars, call, raced>>

\* A tool may be called: the turn is open and the call before it has returned.
MayCall ==
    /\ calls < MaxCalls
    /\ call = NoCall /\ req[Assistant] = Idle

Called == calls' = calls + 1

\* HandleMap.addOccurrence: every occurrence the model sees is addressed by the start
\* the row or the rule gives it.
HandlesOf(seen) ==
    {[task |-> o.task, slot |-> IF o.of[1] = o.task THEN o.of[2] ELSE o.at] : o \in seen}

\* runToolLoop: a fresh handle map with the preloaded agenda, and the standing policy (a
\* memory fact the user may have set at any time), read once for the whole turn.
GateInit ==
    /\ Init
    /\ \E policy \in Policies :
           ctx = [policy |-> policy,
                  handles |-> HandlesOf(OccurrencesInRange(PreloadFrom, PreloadTo))]
    /\ call = NoCall /\ raced = FALSE /\ calls = 0

\* handleListTasks (bound: over a window that holds every day).
ListTasks ==
    /\ MayCall /\ Called
    /\ ctx' = [ctx EXCEPT !.handles = @ \cup HandlesOf(OccurrencesInRange(0, Horizon + 1))]
    /\ Told

\* handleCheckAvailability of one window: FREE, or BUSY with a handle of each clashing row,
\* which names no occurrence.
CheckAvailability ==
    /\ MayCall /\ Called
    /\ \E day \in Targets, length \in Lengths :
           ctx' = [ctx EXCEPT !.handles =
                      @ \cup {[task |-> i, slot |-> NoDay] :
                                i \in FindOverlapping(day, day + length, 0)}]
    /\ Told

-----------------------------------------------------------------------------
(* The gate.                                                                *)

\* Mutant of IsOverlapAuthorized: a standing DENY is forgotten.
IsOverlapAuthorizedAnyway(confirm) == confirm \/ ctx.policy = "allow"

\* isOverlapAuthorized.
IsOverlapAuthorized(confirm) ==
    ctx.policy # "deny" /\ (confirm \/ ctx.policy = "allow")

\* The call goes on to its write, or is refused with a result the model can recover from.
Proceed(does, ask, checked, confirm) ==
    /\ Called
    /\ call' = [does |-> does, ask |-> ask, checked |-> checked, confirm |-> confirm]
    /\ raced' = FALSE
    /\ UNCHANGED <<vars, ctx>>

Refuse == Called /\ Told /\ UNCHANGED ctx

Gate(confirm, checked, hits, does, ask) ==
    IF ~IsOverlapAuthorized(confirm) /\ hits # {} THEN Refuse
    ELSE Proceed(does, ask, checked, confirm)

\* confirmOverlap as the model may set it (bound: not where a standing ALLOW says the same).
Confirms == IF ctx.policy = "allow" THEN {FALSE} ELSE BOOLEAN

\* attemptCreate up to its write: a task with a rule of its own is checked as a series.
AttemptCreate ==
    /\ MayCall
    /\ \E at \in Targets, length \in Lengths, rule \in UserRules \cup {NoRule},
          grouped \in BOOLEAN, confirm \in Confirms :
        LET ask == [Blank EXCEPT !.day = at, !.length = length, !.rule = rule, !.flag = grouped]
        IN  IF rule = NoRule
            THEN Gate(confirm, "window", FindOverlapping(at, at + length, 0), "create", ask)
            ELSE Gate(confirm, "series", FindRecurringSeriesConflicts(at, length, rule, 0),
                      "create", ask)

\* isRecurringInstance of a handle's target.
IsRecurringInstance(h) == Effective(tasks[h.task]) # NoRule /\ h.slot # NoDay

\* A handle of a task that is gone since: findByIdWithRule throws, the call fails.
Handle(h) == h \in ctx.handles /\ Live(h.task)

StaleTarget ==
    /\ MayCall
    /\ \E h \in ctx.handles : ~Live(h.task)
    /\ Refuse

\* updateOneOff: the gate looks at the time after the edit, whatever is edited.
UpdateOneOff ==
    /\ MayCall
    /\ \E h \in ctx.handles, confirm \in Confirms :
        /\ Handle(h) /\ ~IsRecurringInstance(h)
        /\ \E ask \in EditsOf(h.task) :
               LET row == Edited(tasks[h.task], ask)
               IN  Gate(confirm, "window",
                        FindOverlapping(row.start, row.start + row.length, h.task), "request", ask)

\* A recurring occurrence without a scope: the model is told to ask (ASK_EDIT_SCOPE_RESULT).
AskEditScope ==
    /\ MayCall
    /\ \E h \in ctx.handles : Handle(h) /\ IsRecurringInstance(h)
    /\ Refuse

\* updateRecurring, "this": the window the occurrence is moved to, its series left out.
OccurrenceMove ==
    /\ MayCall
    /\ \E h \in ctx.handles, day \in Targets, length \in Lengths, confirm \in Confirms :
        /\ Handle(h) /\ IsRecurringInstance(h)
        /\ Gate(confirm, "window", FindOverlapping(day, day + length, h.task), "request",
                [At("move", h.task, h.slot) EXCEPT !.day = day, !.length = length, !.flag = TRUE])

\* recurringEditConflict in front of a request about a series.
GateSeries(i, confirm, field, start, length, rule, ask) ==
    Gate(confirm,
         IF SeriesToCheck(tasks[i], field, rule) = NoRule THEN "nothing" ELSE "series",
         FindRecurringEditConflicts(i, tasks[i], field, start, length, rule), "request", ask)

\* updateRecurring, "this_and_following": a split, with a new time or without.
UpdateFollowing ==
    /\ MayCall
    /\ \E h \in ctx.handles, confirm \in Confirms :
        /\ Handle(h) /\ IsRecurringInstance(h)
        /\ LET split == At("split", h.task, h.slot)
           IN  \/ GateSeries(h.task, confirm, "title", 0, 0, NoRule, split)
               \/ \E day \in Targets, length \in Lengths :
                     GateSeries(h.task, confirm, "start", day, length, NoRule,
                                [split EXCEPT !.day = day, !.length = length, !.flag = TRUE])

\* updateRecurring, "all".
UpdateAll ==
    /\ MayCall
    /\ \E h \in ctx.handles, confirm \in Confirms :
        /\ Handle(h) /\ IsRecurringInstance(h)
        /\ \E ask \in EditsOf(h.task) :
               GateSeries(h.task, confirm, ask.field, ask.day, ask.length, ask.rule, ask)

\* handleCompleteTask.
CompleteTaskTool ==
    /\ MayCall
    /\ \E h \in ctx.handles, done \in BOOLEAN :
        /\ Handle(h)
        /\ Proceed("request",
                   [IF IsRecurringInstance(h) THEN At("completeOccurrence", h.task, h.slot)
                    ELSE On("complete", h.task) EXCEPT !.flag = done], "nothing", FALSE)

\* handleDeleteTask with confirmDelete: the child of the occurrence or a skip; the cut; the row.
DeleteTaskTool ==
    /\ MayCall
    /\ \E h \in ctx.handles, scope \in {"this", "following", "all"} :
        LET child == ChildAt(h.task, h.slot)
        IN  /\ Handle(h)
            /\ Proceed("request",
                   IF IsRecurringInstance(h) /\ scope = "this"
                   THEN IF child # 0 THEN On("remove", child) ELSE At("skip", h.task, h.slot)
                   ELSE IF IsRecurringInstance(h) /\ scope = "following"
                   THEN At("end", h.task, h.slot)
                   ELSE On("remove", h.task), "nothing", FALSE)

-----------------------------------------------------------------------------
(* The write a call decided on.                                             *)

\* The tail of a request of the task service.
Serve(c) ==
    \/ Update(c) \/ SetCompleted(c) \/ SetOccurrenceCompleted(c)
    \/ SkipOccurrence(c) \/ MoveOccurrence(c) \/ CreateOrUpdateOverride(c)
    \/ Remove(c) \/ SplitSeries(c) \/ EndSeriesAt(c)

\* handleUpdateGroup of the group's recurrence; nothing is checked.
UpdateGroup ==
    /\ MayCall /\ Called
    /\ SetGroupRule
    /\ UNCHANGED <<ctx, call, raced>>

CommitCreate ==
    /\ call.does = "create"
    /\ Create /\ tasks' = Saved(FreeId, Task(call.ask.day, call.ask.length, call.ask.rule,
                                            call.ask.flag))
    /\ call' = NoCall
    /\ UNCHANGED <<ctx, raced, calls>>

\* The request loads its row again, or fails when it is gone meanwhile.
Request ==
    /\ call.does = "request" /\ req[Assistant] = Idle
    /\ \/ Load(Assistant) /\ req'[Assistant].ask = call.ask /\ UNCHANGED gate
       \/ /\ ~Live(call.ask.task) /\ call' = NoCall
          /\ UNCHANGED <<vars, ctx, raced, calls>>

CommitRequest ==
    /\ Serve(Assistant)
    /\ call' = NoCall
    /\ UNCHANGED <<ctx, raced, calls>>

\* The devices of the user.
DeviceRequest ==
    /\ \/ \E c \in Clients \ {Assistant} : Load(c) \/ Serve(c)
       \/ Create \/ SetGroupRule \/ RemoveGroup
    /\ raced' = (raced \/ (call # NoCall /\ tables' # tables))
    /\ UNCHANGED <<ctx, call, calls>>

GateNext ==
    \/ ListTasks \/ CheckAvailability
    \/ AttemptCreate \/ StaleTarget \/ UpdateOneOff \/ AskEditScope
    \/ OccurrenceMove \/ UpdateFollowing \/ UpdateAll
    \/ CompleteTaskTool \/ DeleteTaskTool \/ UpdateGroup
    \/ CommitCreate \/ Request \/ CommitRequest
    \/ DeviceRequest

GateSpec == GateInit /\ [][GateNext]_gateVars
-----------------------------------------------------------------------------
(* Properties.                                                              *)

Open == {o \in Shown : ~o.done}

Overlap(o, e) == Meets(o.at, o.length, e.at, e.at + e.length)

\* The occurrences of different series that overlap.
Clashes ==
    {<<p[1].of, p[2].of>> : p \in
        {q \in Open \X Open : Overlap(q[1], q[2]) /\ q[1].of[1] # q[2].of[1]}}

\* An exception gives the occurrence a time of its own.
Moved(k) == exceptions[k] # NoException /\ exceptions[k].at # NoDay

\* The gate and the calendar agree on every window: findOverlapping reports what the
\* calendar shows there and nothing else. What it misses are occurrences moved or lengthened
\* by an exception. What it reports beside are slots an exception moved away or shortened,
\* slots that a child replaced but that began before the window, the first day of a task
\* that recurs by its group, and a former series its child stands for.
GateAgrees ==
    LET open == Open
    IN  \A from \in Days : \A to \in (from + 1)..(Horizon + 1) :
        LET shown == {o \in open : Meets(o.at, o.length, from, to)}
            found == FindOverlapping(from, to, 0)
        IN  /\ \A o \in shown : o.task \in found \/ Moved(o.of)
            /\ \A i \in found \ {o.task : o \in shown} :
                   \/ \E d \in Days :
                         /\ Meets(d, tasks[i].length, from, to)
                         /\ Moved(<<i, d>>) \/ (d < from /\ <<i, d>> \in SuppressedSlots)
                   \/ InheritsGroupRecurrence(i)
                      /\ Meets(tasks[i].start, tasks[i].length, from, to)
                   \/ tasks[i].rule = NoRule /\ <<i, tasks[i].start>> \in SuppressedSlots

\* "Suppress those slots so the parent's expansion does not report a phantom conflict at the
\* vacated slot" (task.service.ts:1956-1958). The code does not keep this of a slot that
\* began before the proposal.
VacatedSlotsFree ==
    \A from \in Days : \A to \in (from + 1)..(Horizon + 1) :
        \A i \in FindClashingRecurringAnchors(from, to, 0) :
            \E o \in ExpandedIn(i, from, to) : o.of \notin SuppressedSlots

\* The user allowed neither this booking nor every one.
NotAllowed == ctx.policy # "allow" /\ (call.confirm => ctx.policy = "deny")

\* The call splits a series that ends at a slot behind its last occurrence, as a handle from
\* before the series was cut names it: nothing checks the slot, the old series gets a later
\* end, and shows again what the first cut had ended.
SplitsPastTheEnd ==
    LET row == tasks[call.ask.task]
    IN  /\ call.ask.kind = "split" /\ row.rule # NoRule /\ row.rule.end # "never"
        /\ \A d \in Generated(row, row.rule) : d < call.ask.slot

\* The call wrote the series of k, and its check ended before the slot.
BeyondPreview(k, written) ==
    /\ call.checked = "series" /\ k[1] \in written
    /\ k[2] >= tasks'[k[1]].start + PreviewDays

\* No write of the turn books over a commitment unless the user allowed it (never under a
\* standing DENY), a device changed the calendar after the check, one of the two is an
\* occurrence that an exception gave its time, or of a series the call wrote and beyond the
\* horizon of its check, the two are the halves of a split series (a series is left out of
\* its own check), one is of a series that a split past its end prolongs, or the check looked
\* at one window of what recurs: a task that joins a group with a rule, a row that was
\* addressed without a slot.
OverlapsExplained ==
    [][(CommitCreate \/ CommitRequest) /\ call.checked # "nothing" /\ ~raced /\ NotAllowed =>
          \A p \in Clashes' \ Clashes :
              LET written == {i \in Ids : tasks'[i] # tasks[i] \/ i = call.ask.task}
                  single == call.ask.kind = "move" /\ tasks[call.ask.task].rule # NoRule
              IN  \/ Moved(p[1])' /\ ~(single /\ p[1][1] \in written)
                  \/ Moved(p[2])' /\ ~(single /\ p[2][1] \in written)
                  \/ BeyondPreview(p[1], written) \/ BeyondPreview(p[2], written)
                  \/ {p[1][1], p[2][1]} \subseteq written
                  \/ SplitsPastTheEnd /\ call.ask.task \in {p[1][1], p[2][1]}
                  \/ /\ call.checked = "window" /\ ~single
                     /\ \E i \in written : Effective(tasks[i])' # NoRule]_gateVars

\* "A timed task that overlaps an existing commitment is REFUSED under default-deny
\* (ADR 0011)" (tool-dispatcher.service.ts:674-676): a single task the gate let pass, on
\* a calendar nobody changed meanwhile, overlaps no other commitment.
OverlapRefused ==
    [][CommitCreate /\ call.checked = "window" /\ ~call.ask.flag /\ ~raced /\ NotAllowed =>
          \A p \in Clashes' : FreeId \notin {p[1][1], p[2][1]}]_gateVars
=============================================================================
