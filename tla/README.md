# Formal models of cue-api

`cue-api` is a NestJS service: a calendar backend with tasks, recurring series and sync
for a mobile app, and a Telegram assistant that drives the same calendar through a
language model. This directory holds TLA+ models of its core logic, the TLC
configurations that check them on small instances, and theorems about them that TLAPS
checks for every value of the constants.

Paths below are relative to the repository; `assistant/` stands for
`src/modules/assistant/`.

## 1. The system

### Parts, state, and operations

| Part | State | Operations that change it | What makes it correct |
| --- | --- | --- | --- |
| Per-user lock (`assistant/session/user-lock.store.ts`) | one Redis key per user with a token and a TTL; in each holder a handle and a renewal timer | `acquire` (SET NX PX), the watchdog's `renew`, `release` (compare and delete) | one turn per user at a time; nobody deletes or extends the key of another; a dead holder's key goes away |
| Debounce layer (`session/debounce-coordinator.service.ts`, `session/message-buffer.store.ts`, `debounce.consumer.ts`) | a Redis list per user, the delayed jobs of one BullMQ queue, what a worker holds in memory | `buffer`, `drainAndRun`, `runAnswerExclusive`, `queueAfter`, `armWindow`, `armAfter` | messages run in order, together, under the lock; what does not run goes back; answers are not dropped |
| Webhook consumer (`webhook.consumer.ts`) | a dedupe key per update, jobs of a second queue | `process`, `routeForUser` | an update has one effect |
| `ask_user` suspension (`session/pending-interaction.store.ts`, `pending-question-cleanup.service.ts`, the database service) | `pending_question` rows, a Redis pointer to the open one | suspend, attach the message id, claim by text or by tap, the hourly sweep | a question resumes the model once; a closed question stays closed |
| Turn runner (`session/turn-runner.service.ts`) | the conversation's messages and the turn audit | `handleText`, `resumeAnswer`, `suspendAndAsk`, undo | a turn is recorded and its surface is closed whatever happens |
| Router and controller (`ingress/inbound-router.ts`, `assistant-webhook.controller.ts`) | none | `classifyFlow` | an update goes to the flow the user's state calls for |
| Tool loop (`orchestration/`) | the messages of one run, a write ledger | iterate, dispatch, drive a correction, finish or suspend | it ends; what it tells the user matches what it wrote |
| Tools and the conflict gate (`tools/`) | none of their own | one call per tool | a conflicting write needs a confirmation |
| Background work (`background/`) | summaries and user facts | summarize, extract, recap | an explicit fact is not overwritten by an inferred one |
| Replies (`reply/`, `session/status-session.store.ts`) | the status message or draft of a turn, its queue of edits, a Redis session | open, animate, throttle, settle, send, retire, finalize | nothing overwrites the reply; it is told once; every opened surface is closed |
| Keyboards and menus (`ingress/keyboard-action.service.ts`, `session/active-keyboard`, `last-button`, `last-menu`) | Redis pointers to the docked surface and the menu card | send, set, track, retire, clear | the pointers name what the chat shows; a chat with a menu keeps one |
| Linking (`linking.service.ts`) | a nonce in Redis, links in Postgres | begin, redeem, unlink | a code links once; an unlinked chat stays unlinked |
| Task series (`modules/task`) | master rows, exceptions, override children | create, update, split, end, complete, override | a slot of a series is shown once, as edited |
| Recurrence rules (`modules/recurrence-rule`) | none | expand, split a COUNT | the expansion is what the rule says, whatever the window; the parts of a split add up |
| Sync (`modules/sync`) | a counter per user, `updatedAt` per row | bump, read a delta | a change is seen by some later delta |
| Daily report and brief (`modules/report`) | settings rows, a Redis cache | the cron's sweep, `getBrief`, invalidate | once a day; no day marked for an undelivered report; no brief of an old prompt |
| Auth, provisioning, users | users, their default calendar, refresh tokens | sign in, provision, change settings, delete | one user per identity, with one default calendar; a deleted account leaves nothing |
| Calendars, notification rules, devices, personas | rows | CRUD | database constraints |
| Connectors (Telegram, Anthropic, speech) | none | HTTP calls | errors are reported |

### How they interact

An update comes in over HTTP, is queued (queue 1, one attempt, concurrency 1), and the
webhook consumer routes it. A simple message is pushed to the user's Redis list and a
delayed job of queue 2 (one attempt, concurrency 1, for all users) is armed or re-armed;
when it fires, the debounce worker drains the list and runs one turn over all of it. An
answer to an open question is not buffered: the webhook worker runs its turn at once.
The two workers meet at the user's lock. Whoever finds it held puts its batch back at
the front of the list, or its answer into a job of its own, and arms a "drain after"
job under a fresh id. A turn runs the tool loop, which writes the calendar through the
same services as the app, and may suspend on a question. The app reads deltas and
reports; cron jobs sweep questions and send reports. Commands and taps on the docked
keyboard never reach a turn: the webhook worker handles them at once, outside the lock.

### What is hard

* **Two workers, one user.** The lock is a lease in Redis, not a mutex; renewals race its TTL.
* **Jobs and lists are separate.** The list, the job and the worker's memory are updated
  by separate calls. Each may be rejected, and the process may stop between them.
* **Stable job ids.** BullMQ refuses to remove an active job and ignores an add whose id exists.
* **Whole-row saves.** TypeORM's `save()` writes every column that differs from the
  loaded copy, by primary key: read, then save, is a lost update when a claim comes between.
* **Two stores for one fact.** The row and the pointer of a question are written one after
  the other and expire on different clocks. So are a Telegram message and the key that names it,
  a day's mark and its report, a prompt and the brief written with it.
* **Check, then write.** The conflict gate reads the calendar, asks, and writes later through a
  service that does not look again.
* **Unawaited callbacks.** The status surface is edited by timers, a promise chain and a throttle
  while the turn wants to put its reply there.
* **Time.** Lock 30 s, renewal 10 s; window 2 s; list TTL 10 s; pointer 30 min; row 7 days.

`PROJECT.json` lists the hazards one by one, at the line where each bites.

## 2. Modules

| Module | Models | Kind |
| --- | --- | --- |
| `TurnMutex` | what the per-user lock promises: at most one caller works | abstract |
| `UserLock` | the lock's Redis key, tokens, TTL, watchdog, release, crash | detailed, implements `TurnMutex` |
| `SerialInbox` | what the debounce layer promises about order and overlap | abstract |
| `Debounce` | the debounce layer of one user: both workers, list, jobs, lock | detailed, implements `SerialInbox` |
| `PendingQuestion` | the `ask_user` suspension of one user | detailed |
| `ToolLoop` | one user turn: model calls, tool calls, write ledger, what the user is told | detailed |
| `TaskSeries` | the rows of recurring series, the requests that edit them, what a calendar shows | detailed |
| `ConflictGate` | the schedule tools of a turn and the conflict gate, over `TaskSeries`, whose requests they issue | detailed, composes |
| `Recurrence` | `expandOccurrences`: the loop, its candidates, ends and caps, beside a day-by-day reading of a rule | algorithm and reference |
| `StatusSurface` | what one turn shows in its chat, from the voice note to the reply | detailed |
| `Ingress` | what the controller, the queue and the dedupe key promise about one update | abstract |
| `Chat` | commands, keyboard taps, menu cards and linking, in the workers of `Ingress` | detailed, composes and implements `Ingress` |
| `DailyReport` | an account, its daily report under several instances' crons, its cached brief | detailed |
| `Sync` | transactions on tasks, the user's revision, a device that reads deltas | detailed |
| `MCTaskSeries`, `MCConflictGate`, `MCChat`, `MCDailyReport`, `MCRecurrence`, `MCSync` | rules, calls and symmetry of the small instances | model checking |
| `PendingQuestionProofs` (with those of `UserLock`), `DebounceProofs`, `ToolLoopProofs`, `TaskSeriesProofs` (with those of `ConflictGate`), `ChatProofs` (with those of `Ingress`), `DailyReportProofs`, `SyncProofs`, `StatusSurfaceProofs` | theorems | proofs |

### UserLock

`key`, its remaining TTL, each caller's phase and token, and the countdown of its
watchdog, on a discrete clock (`Tick`). `AcquireWithWatchdog` is SET NX PX with a fresh token and
the start of the timer; `Renew` and `RenewFault` are the timer's callback; `FinishWork`,
`Release` and `ReleaseFault` are the `finally` of `runExclusive`, and `ProcessDies` is a holder
that never comes back. `LockConfig` is what the environment schema enforces: the renewal
interval is below the TTL. `timely`, chosen in `Init` and never changed, states what nothing in
the code can enforce: a renewal reaches Redis before the clock moves on. Where it is true the
lock is a mutex. Where it is false a lease lapses under a working holder; then the token
comparison still protects the next holder. `MutualExclusion`, `LeaseOutlivesRenewal` and the
mapping to `TurnMutex` are about the timely behaviours, the other properties about all.

### Debounce

One user, two workers (`webhook`, `debounce`), each with a program counter whose phases
are the awaits of the handlers: every await is a point where the other worker, a crash,
or a rejection may come. `buffer` is the Redis list, `windowJob` the state of the job
with the stable id, `afterJobs` the jobs with fresh ids (each with the answer it carries
or `NoAnswer`), `batch` what the debounce worker drained and holds only in memory.
`RearmRemove` and `RearmAdd` are the two calls of `armWindow`; `Requeue` is
`requeueFront`; the phases `requeue` (inside the `try`) and `rebuffer` (inside the
`catch`) tell the two callers of `queueAfter` apart, because a rejection in the first
leads to the second. A rejected call has an action of its own, and all of them, thrown
turns and restarts share one budget, `MaxTrouble`. Delays are not measured: a delayed
job may fire at any time. The lock is the mutex that `UserLock` implements; what a dead
holder leaves is `orphan`, until its TTL. `Reap` is the list's TTL: it comes when no job is
left to drain the list, while the process is down, and while the one worker is kept by a turn of
another user (`TakeOther`) or of this one. A turn longer than the TTL is trouble, too.

Messages and answers are named by arrival number. The text, transcripts, the merge of the
batch, malformed buffer entries, a batch whose user was deleted, and the
voice notes' status surfaces are left out.

### PendingQuestion

One user with a set of inputs (messages or taps). An input is routed (`RouteText` reads
the pointer, `RouteTap` names a row whose buttons were sent), waits for the lock,
and runs one turn: `GetDel`, `ClaimHot` or `ClaimById`, `ClearHot` claim a question;
`Resume` re-enters the loop; `CreateRow`, `MirrorHot`, `SendQuestion`, `AttachRead`,
`AttachSave` suspend on a new one. `AttachSave` and `SweepSave` write the status their earlier
read loaded. `RowRefused` is the partial unique index (one AWAITING row per
conversation). `Serialized` says that the lock holds; with `FALSE` two turns may
overlap, as after a lapsed lease, and the theorems name it as their assumption.
`Lapse` excludes a row under the pointer or in a turn: a row lives a week, the pointer
30 minutes.

### ToolLoop

One user turn. `CallTools`, `Reply`, `Nudge` and `GiveUp` are the four things the loop does
with a model result: dispatch its calls, send its text, re-drive it, escalate. The model may
answer anything: a text is abstracted to what the two patterns see in it (`claim`, `vetoed`,
`plain`, or none), with any stop reason, and a round is any sequence of up to `MaxCalls`
calls of five kinds. Each call is a step of its own (`Fetch`, `FetchCapped`, `Write`, `Batch`,
`BatchThrows`, `OtherTool`, `Ask`); `EndRound` pushes the audit row and the wire round.
`committedWrites` and `attempted` are the loop's ledger (of `attemptedWrites` only whether it
is positive matters), `saved` what changed the database, `unchanged` the writes that succeeded with
nothing to save (a completed task completed again, an update that changes no field, `AlreadyAsAsked`),
which the loop counts as committed too, and `forgotten` the part of both no counter holds. `unanswered` are the tool calls on the wire without a result; a request with
one is rejected by the provider, which `Answers` models as the connector's failed result.
`Ask` suspends, `Resume` is the answer: the loop runs again over the stored rounds with fresh
counters. That the answer comes at most once is `PendingQuestion`'s `ResumedOnce`.

The value of `ASSISTANT_MAX_CORRECTIONS` is chosen once, from `Budgets`, so that the
kill-switch 0 and a re-driving loop are in one run. Left out: the order of the rendered
blocks, token streaming, recaps, what a tool does beyond saving or not.

### TaskSeries

`tasks` are the rows (a series, a single task, or an override child of a series), `exceptions`
the exception row of a task and a slot, `groupRule` the rule a group lends to members without
one. A request is two steps, as in a READ COMMITTED transaction: `Load` reads its row (and looks
for the child of a slot, where the method does that first), and a commit step named after the
service method does its checks on what was read and writes. Between the two, other clients'
requests may commit, so a save may write a stale row. `Locked` is the parent row under
`SELECT ... FOR UPDATE`, which only `CreateOrUpdateOverride` takes; every other write of the row
waits for it. `Commit` refuses what breaks the index `UQ_task_override_slot`. A method that
calls another one (`CompleteTask`, `CollapseSkip`) reads the row anew, as its `findById` does.

`Generated` is the expansion of a rule, `Swept` the re-evaluation of the children after an edit,
`SplitRule` and `Until` the two halves of a split, and `Shown` what
`findOccurrencesInRange` answers over all days: single tasks, series with exceptions applied,
children, and the slots the children hide. `ShownIn` is the same read of a window. It has the code's three ways
of cutting: single tasks and series by whether they meet the window (`OneOffsIn`, `ExpandedIn`, the latter by the
slot and the row's length wherever an exception moved the occurrence), the slots that children hide by whether they begin in
it (`SuppressedIn`). `gone` and `asked` are history: what the user removed.

A day stands for an instant, and a task lasts from its start for `length` of them; a rule recurs every `every`
days and ends never, by COUNT or by UNTIL. A request that sets a time sets start and end. Left out: the `by*`
selectors, months, time zones, titles, reminders, timeless todos and tasks without an end, an edit of the start alone or
the end alone, the sync counter, and a split or an update that changes several other fields at once or the rule in a split.

### ConflictGate

Extends `TaskSeries`: the assistant is one more of its clients, and every write of a tool is one of
its requests. `ctx` is what a turn holds: the user's policy (ask, allow, deny) and the handles
of the agenda it was given or has listed. A tool call is a step of its own: `ListTasks` and
`CheckAvailability` hand out handles, `AttemptCreate`, `UpdateOneOff`, `OccurrenceMove`,
`UpdateFollowing`, `UpdateAll`, `CompleteTaskTool`, `DeleteTaskTool` and `UpdateGroup` resolve
one, decide by the row they read, look for conflicts, and put the request into `call`;
`CommitCreate` and `CommitRequest` then issue it. `DeviceRequest` is another client of the
same calendar, before and between: `raced` remembers that the tables changed since the check.
`FindOverlapping`, `FindRecurringSeriesConflicts` and `FindRecurringEditConflicts` are the gate's
own reads of a window, from the start of what is booked to its end. They expand a series by the slot's day and not, as `Shown`
does, by where the occurrence was moved. `Previewed` is what is looked up of a proposed series: its occurrences of the first
`PreviewDays` days, 730 in the code, counted from the series' start, so that an edit of an older series is checked against the past
only. The cap of 1000 occurrences is not reached within 730 days at one slot a day. The model may confirm an overlap whether or not the user was asked.

### Recurrence

A state machine of the loop in `expandOccurrences`: `pending` are the candidates of the period at
the cursor, and the next one ends the series (`EndSeries`), is behind the window
(`LeaveWindow`), is skipped or before it (`PassOver`) or is kept (`Keep`); `NextPeriod` steps
the cursor, or stops at the backstop. The candidates of all four frequencies, positions, workday
anchors, limit filters and the exception of a slot are operators named as in the code. The reference below it knows
no loop: it says of a day whether the rule selects it, and counts. Weeks and months are
constants, so that a calendar of a few days has every case; the clock skips one hour on one day
(a gap inside a day) and reads it, as luxon does, an hour later.

### StatusSurface

One turn, in a private chat (an ephemeral draft, then a fresh message) or a group (one message,
edited until it is the reply). The handle is there whole: `chain` is the promise chain of
`enqueueUpdate`, `closed` and `pending` the throttle, `inFlight` the trailing flush that nothing
awaits, `ticking` the rotation of loading words. `pc` follows the consumer from a voice note
through the turn to `finalize`; `Deliver` is one attempt of `ReplyPresenter` (formatted, plain,
edit, fresh), which falls through to the next. Every call may be refused, or may land with
its answer lost. A text is what it is (a frame, the n-th snapshot, the final text).

### Ingress and Chat

`Ingress` is the pipeline of an update: posted any number of times, enqueued under the hash of its body, taken
by a worker, admitted by the dedupe key, and returned, thrown (the key is given
back) or lost with its worker (the job is restarted once). The key is set with a TTL, and may run out
at any time (`KeyExpires`); an update that is posted after that is admitted anew, and so is the stalled
job of a run that outlived its key. `Chat` puts the handlers into it. What a run creates (a code, a link row, a
menu card) is named by the update and by which of its runs made it (`Id`).
An admitted update has in `run` its locals and the calls it has left, and each
call is a step: resolving the chat's user, reading the surface flag, sending, setting the flag,
retiring the previous menu card, deleting the link, minting a nonce. What a handler calls, in order, is the function
`Calls`; a failed call is swallowed or thrown as its `catch` has it. `link`,
`nonces`, `surface` and `menu` are rows and keys, `docked` and `cards` what Telegram shows, and `flagged`
is history: the chat for which the user's flag was last set or cleared. `app` is a
request of the mobile app (redeem, unlink), which shares the rows. A message that is neither
is handed over (`HandOver`) to the modules above.

### DailyReport

One Apple identity. Its account (`user`, `calendars`, `linked`, `report`, `prompt`), the cron of
each instance (`sweep`) and the requests of the app (`req`), a call per step: read, generate,
save, send, roll back; sign in, provision, seed the calendar; delete. Saves are modelled as
TypeORM does them: the columns of the copy that differ from the row found then are written, a row
that is gone is inserted. The user's timezone makes the local day; a day has as many minutes as it needs to tell
the report time from the others. `parted`, `overlapped`, `travelled`, `reborn`, `bare` and `excused`
are history: the races the properties name as exceptions, each defined by the steps that raced. `bare` names the
accounts without a calendar one by one: its own seeding failed, or a save brought the account back.

### Sync

A mutation is a transaction: the sequence of its statements (`Edit`, `Rekey`, `Override`, ..., one per
service method), taken one at a time, so that another transaction or a read of the device may come
between any two. `row` and `rev` are what is committed, `txn` what a transaction has loaded
and written, `lock` PostgreSQL's row locks; a statement that meets one waits, and `BreakDeadlock` ends
what waits in a circle. Two clocks stamp a row. `save` lets `updatedAt` be
CURRENT_TIMESTAMP, when the transaction began; a touch and `deletedAt` take the service's clock when the statement is
issued. `Compare` and `Write` are the two statements of a `save`: a column is written if the loaded copy
differs from the row found, and so is `updatedAt` when another transaction has stamped the row since it was
loaded (`stale`). That part is TypeORM's, as DailyReport has it.

`app` is the device: it polls the revision, reads a delta (time captured, rows, tombstones, each a
step), applies it and keeps the cursor and the polled revision, or loses the response and asks again. What it
shows of a row is a version number. Exceptions and reminders count as versions of their task, since each
write of one touches the task. Left out: groups, whose changes touch the members they find;
`create`, an insert like that of a first override; the new row of a split; the delta's scope by calendar; the
device's fallback to a full resync.

## 3. Runs

| Run | Bounds | Shows |
| --- | --- | --- |
| `user_lock` | 3 callers, 3 tokens, TTL 4, renewal every 2, timely or not | mutual exclusion and refinement of `TurnMutex` while renewals are timely; late: nobody unlocks another's key, the lock is always freed |
| `debounce` | 3 messages, 1 answer, 2 troubles | one turn per user, refinement of `SerialInbox`, one failure never costs a batch; until something goes wrong, every answer runs and every message whose job was not ignored |
| `question` | 2 rows, 3 inputs, 1 trouble | one claim, no tap clears another's pointer, closed stays closed, a claim resumes |
| `tool_loop` | 3 round trips of up to 2 calls, 1 fetch, budgets 0 and 1, batches of 2, 1 suspension | calls answered up to an `ask_user`, claims backed by a write that succeeded, denials wrong only by forgotten writes, every turn ends |
| `task_series` | 1 client, 3 rows, days 0 to 3, tasks of 2 days, daily, every other day and twice, 3 requests, every window | shown once, in a window too but for what began before it; children fit their series, removals stay, a cut conserves, one occurrence only |
| `gate` | a device and the turn, 2 rows, days 0 to 2, tasks of 2 days, every other day, a preview of 2 days, an empty preloaded agenda, 2 requests of either, 2 calls, every window | the gate agrees with the calendar but for moved occurrences and the named phantoms; a write overlaps only when allowed or in the named ways |
| `recurrence` | weeks of 3 days with 2 workdays, months of 5 and 3 days, days of 3 hours, a skipped hour on day 6, caps 5 and 8, every selector with no end, COUNT 3 or UNTIL 11, 6 anchors, 3 windows, 3 durations, 3 exceptions | the loop returns what the rule names |
| `surface` | 2 snapshots, 1 frame, 4 faults, 2 runs of the turn | drained before the reply, the reply stays, told once, never blank, what leaves a session behind |
| `chat` | 2 updates beside the one whose code made the link, 1 of the 2 keys runs out (3 admitted runs), 1 user, 2 chats, 2 workers, 1 fault or 1 crash, 1 restart of a job | admitted once in the life of a key, a code links once, pointers fit the chat, never zero menus |
| `daily_report` | 2 requests at once and in all, 2 instances, 2-minute days, 3 minutes, 2 zones, 1 fault, 2 accounts | once a day, honest marks, whole accounts, current briefs, each but for the named races |
| `sync` | a series and a child, 2 transactions at once and in all, 7 ticks, lag 3, transactions up to 2, 1 throw or lost delta | a device at rest misses no change but those stamped from a stale copy, and no deletion; deadlocks only in two named ways |
| `debounce_stranded` | 2 messages | the documented "nothing is dropped" fails (below) |

No run lists the type invariants. They are proved (section 5).

**Why the bounds are enough.** Three messages allow one in a turn, one in the list behind
it, and one arriving while the batch goes back; the answer meets any of them. Two troubles include every pair "a turn throws,
then its requeue is rejected" and "a restart after a rejected call". Three inputs are one that
asks and two that race for the question; two rows are one question after another. Two callers of `UserLock` are a
stale holder and a live one, the third waits; the spare token lets a caller come back. A TTL of
4 ticks against a renewal every 2 puts renewals next to the expiry. Three round trips are
a failed write, a narration and the forced round; two calls are an `ask_user` with a call
before or behind it; a fetch cap of 1 is reached within a round and across rounds; one
suspension makes a second run over the first one's wire and writes. Three requests are a change
of one occurrence, an edit, split or end of the series around it, and the return (a revert, the
old rule); three rows are a series, its child and the second half of a split; on four days a
counted rule ends, and one that skips days has slots on both sides of a cut; a task of two days has windows that open
in its middle and meets the next occurrence of a daily series. With one client
`task_series` says what the methods do one after another; what overlapping clients cannot break
is proved (section 5) and what they can is in section 4. In `gate` two rows are a write and the
commitment it meets, two requests the turn's and one of a device before or after its check,
two calls a listing and a write through its handles or two creations; tasks of two days every other day overlap
what begins a day before or after; a preview of two days ends before the last of three. All excuses of `GateAgrees` are needed at these
bounds (TLC finds each property violated without one of them), and those of `OverlapsExplained` but two: `SplitsPastTheEnd`
(section 4), and `Moved`, which is needed with `Lengths = {1}`, where both properties hold as well. In `recurrence` five kept occurrences and eight periods reach both caps
within the calendar, the months differ in length so that a day may be missing, and the anchors lie
before, on and behind the skipped hour. Two snapshots are one coalesced into another, one frame
one competitor; four faults exhaust every way a reply is tried. Three admitted runs make a code and tap twice
in the linked chat, at once or one after another, or make two codes; the link may also be there from the start; a key that runs out lets one
update be both, and an admission meet its own earlier run; two chats let a user's second one displace the first. Two sweeps and two
requests are every pair of racing handlers; two minutes a day tell the report time from another,
three minutes reach the next day, two accounts are a deletion and a return. In `sync` two
transactions are every pair of methods in every interleaving: one commits and is read, the other was
stamped before and commits after it. A third adds no new pair, since a later write only stamps the row anew. A lag one tick
above the longest transaction is the least that works (with an equal one TLC finds a change lost).

**Deadlock.** `CHECK_DEADLOCK FALSE` stands in every configuration where the user may simply
send nothing more: the bounded inputs are used up and the system rests.

**Fairness.** `Debounce!FairSpec`: a handler that has started goes on (Node runs its
continuations), an idle worker takes a due job (BullMQ's poller), a stalled job is
recovered, the process is restarted, a key runs out of TTL. No fairness on arrivals, on
trouble, on `Reap` or on other users. `PendingQuestion!FairSpec`: a turn that started goes
on and a queued one starts when the lock is free; none on the sweep or on expiry.
`UserLock`: time passes and a renewal is answered; `LockFreed` assumes besides that a working
caller finishes (`TurnsSettle`). `ToolLoop!FairSpec`: the service goes
on with a turn it started (the connector and the tools return, the former by its own
timeouts); the user need not answer a question. The other modules state safety only.

## 4. What the code does and its documents deny

One of these is a run with a counterexample and a finding in `PROJECT.json`:

* **A message without a job** (`debounce_stranded`). A message that arrives while the window
  job is active, that is, while the previous batch runs its turn, finds the stable id
  taken: `remove` is refused and `add` is ignored. If no further message comes within the
  list's TTL it is reaped. ADR 0042 says nothing is dropped under any path.

The next ones are stated in their modules, with the text that claims them, as definitions no run
lists; TLC finds each violated when it is added to the configuration named:

* **A tool call without a result** (`ToolLoop!AllPaired`, `ToolLoop.cfg`). The calls behind an `ask_user` in its
  round are stored with the round but never dispatched, and the answer is paired with the ask
  call only. The resumed request is one the provider rejects; the user then reads that the turn
  "took more steps than I can take in one go".
* **An answered question overwritten** (`PendingQuestion!AnsweredIsFinal`, `Question.cfg`). The
  sweep saves rows it loaded earlier; a tap that claims one in between is overwritten with EXPIRED.
* **A forced repetition of saved writes** (`ToolLoop!RedriveRepeatsNothing`, `ToolLoop.cfg`).
  `create_tasks` saves some tasks, one create throws (an `endAt` before its `startAt` is enough),
  and the loop counts no write: it may force the model to act again or tell the user that
  nothing was saved. A suspension has the same effect, since the resumed run starts its counters at zero.
* **A claim with nothing saved** (`ToolLoop!ClaimSaved`, `ToolLoop.cfg`). `turn-runner.service.ts:52-54`
  refuses to confirm "an action that never happened", by the count of committed writes. A write
  that finds the row as asked (`task.service.ts:688-690, 701-703, 1222-1234`) is counted and
  saves nothing, so "I updated it" may follow an update that changed nothing.
* **A completion under a child** (`TaskSeries!NoCompletionUnderAChild`, `TaskSeries.cfg` with two
  clients). `setOccurrenceCompleted` looks for the child of its slot without the lock the override
  holds. When the override commits in between, the completion is stored where the child hides
  it, and comes back when the child is reverted.
* **A series deleted by a skip** (`TaskSeries!SeriesRemovedOnRequest`, `TaskSeries.cfg`). The
  requests about one occurrence look at the task's own rule. For a series that recurs by its
  group's rule, skipping one occurrence or ending the series there deletes the row, although the
  assistant's dispatcher classifies it as recurring to avoid exactly that.
* **A cut that prolongs** (`TaskSeries!CutsShorten`, `TaskSeries.cfg`). Neither `splitSeries` nor
  `endSeriesAt` asks whether the slot is an occurrence (`task.service.ts:1282-1340, 1468-1495`). Behind the last
  occurrence of a series with a COUNT or an UNTIL, as a handle listed before an earlier cut names it, the new
  UNTIL is later than the old end, and the series recurs on days it did not. After a split the conflict gate has not looked
  at those days: `OverlapsExplained` names them (`SplitsPastTheEnd`), an excuse that its proof brought to light. At the run's
  bounds it is not needed; TLC needs it with 3 rows, 5 days and 3 requests (an end on day 2, a task there, a split on day 4).
* **A booking over a moved occurrence** (`ConflictGate!OverlapRefused`, `Gate.cfg` with `Lengths = {1}`). The gate
  expands a series by its original slots, so an occurrence that was moved to another day is not
  found there, and is still found on the day it left.
* **An overridden occurrence shown twice** (`TaskSeries!OverriddenSuppressed`, `TaskSeries.cfg`). `task.service.ts:549-551`
  suppresses every slot that a live child replaces. The children are loaded by `originalStartAt` in the window
  (lines 601-606), a series is expanded by intersection with it (`recurrence-rule.service.ts:560-565`): of an overridden occurrence that
  began before the window and lasts into it, the calendar shows the original, beside the child when that meets the window as well.
* **A phantom at a vacated slot** (`ConflictGate!VacatedSlotsFree`, `Gate.cfg`). The gate suppresses the same way, with the proposed
  time as its window: a booking in the middle of the vacated time is refused over an occurrence that is no longer
  there, which `task.service.ts:1956-1958` denies.
* **A frame after the reply** (`StatusSurface!NoFrameAfterReply`, `Surface.cfg`). In a private chat the
  trailing flush of the throttle is outside the chain that `settle` awaits; one under way lands after the
  reply and leaves a draft beside it.
* **A label without its keyboard** (`Chat!LabelsNeedTheirKeyboard`, `Chat.cfg`). The flag is the user's,
  the keyboard the chat's: a user who linked a second chat types a label of the first one's
  keyboard there, and it is carried out.
* **A flag that knows one chat** (`Chat!FlagKnowsAll`, `Chat.cfg`). `active-keyboard.store.ts` reads a
  missing flag as "no keyboard is the active surface". With the main keyboard docked in one chat, a user who links another
  one, opens the settings there and disconnects has no flag, and the first chat still shows its keyboard.
* **An update run twice** (`Ingress!RunsOnce`, `Chat.cfg`). `docs/tasks/ai-assistant-3-application-wiring.md:29`
  has the pipeline run at most once per update. The dedupe key lives `ASSISTANT_DEDUPE_TTL_SECONDS` (3600 in
  `.env.example`, any positive number) and a completed job is removed: a post after both is handled again.
* **A resend that is not queued** (`Ingress!ResendQueued`, `Chat.cfg`). A failed job is kept under
  the hash of its body, so the update that Telegram posts again is taken for known, although its
  dedupe key was given back for that retry.
* **A second report** (`DailyReport!NoDoubleSend`, `DailyReport.cfg`). Two sweeps, of two instances or one
  late one, check the day before either marks it. The mark is a plain save.
* **A brief of the old prompt** (`DailyReport!BriefTakesEffect`, `DailyReport.cfg`). A brief that was
  being written when the prompt changed is cached after the invalidation, and stays for the day.
* **A deleted account that returns** (`DailyReport!DeletedForGood`, `DailyReport.cfg`). `save` of a
  user row that was deleted meanwhile inserts it again, without its calendar.
* **A drifting time of day** (`Recurrence!WallClockKept`, `Recurrence.cfg`). A DAILY or WEEKLY series
  whose cursor falls into a skipped hour keeps the later hour for ever; the service and the README
  say that wall-clock time is preserved. The fixtures of the repository
  (`docs/fixtures/recurrence-parity.json`, `ny-spring-forward-0230`) record the drift.
* **A change no delta reports** (`Sync!NoChangeMissed`, `Sync.cfg`). The comments of `findChangedSince` and of the lag
  say that a change is at worst reported twice. A request that loaded its row before another one committed
  writes the old `updatedAt` back with its own change; to a device that already read the other one's change the row is as old as before.
* **Writes after the bump** (`Sync!BumpIsLast`, `Sync.cfg`). The comment of `SyncStateService` says that the bump is
  the last statement. `update` sweeps the children after it, holding the user's revision row; against a request
  that holds the child and wants to bump, PostgreSQL ends one of the two.

The others were met while modelling. They are in the models' behaviours but have no run of
their own:

* a re-buffered batch may be reaped before its job runs when the worker is kept by a longer
  turn (`message-buffer.store.ts:73-74` says never);
* a turn that throws after its writes is re-buffered and runs again
  (`debounce-coordinator.service.ts:292-293` and ADR 0026 say it does not);
* a rejected `pexpire` after the `lpush` of `requeueFront` puts a batch into the list twice
  (`SerialInbox!Repeat`);
* a rejected user lookup in the debounce consumer drops the answer its job carries
  (`debounce-coordinator.service.ts:105-109`);
* an overdue question stays claimable until the sweep comes
  (`pending-question-cleanup.service.ts:15-17`);
* a second `ask_user` while a row is AWAITING throws out of the turn
  (`turn-runner.service.ts:265-267`); `RowRefused` is that step;
* a rejected DEL after a won claim throws, and the retried tap is ignored
  (`pending-interaction.store.ts:172-173`);
* when a model call and its fallback fail, the user is told that the turn took too many steps;
  `AI_FAILURE_REPLY` (`turn-runner.service.ts:46`) is sent only when the context cannot be built;
* a typed answer whose pointer lapses while it waits is ignored although its question is open
  (`turn-runner.service.ts:673-676`);
* `docs/specs/recurrence-occurrence-overrides.md` section 8: `endSeriesAt` detaches the children past
  the cut instead of deleting them (row 15), `splitSeries` leaves them with the old series instead of
  moving them (row 14), so an edited occurrence behind a split is shown by its child and by the new
  series, and a change of a group's rule sweeps no children (row 17);
* two concurrent first exceptions of one slot: the second insert fails on the unique index, where the
  comment of `upsertOverride` says that they converge;
* removing the completed child of a former series (its rule was taken away, so its row is now a single task) shows
  that task in its place, open (`Uncovered`, an exception in `OneOccurrenceOnly` that its proof brought to light);
* stale whole-row saves of tasks: an edit that loaded its row before a deletion or before another
  edit committed writes the old values back, the deletion mark included. `ChildrenFit` holds for
  one request at a time only;
* the conflict gate looks only at a series' own rule when all or the following occurrences of a series
  are edited, so one that recurs by its group is not checked; it reports a phantom conflict on such
  a series' first day; it checks one window of a task that joins a group with a rule or becomes a
  series; a group's new rule is not gated at all;
* a series is checked for 730 days from its start and no further (`BeyondPreview`). The code says so of a new series
  (`task.service.ts:1584-1585`, `recurrence-rule.service.ts:41-44`); of a change of a series'
  rule the days count from where the series began, so that of a series older than two years no day to come is checked;
* the check of an edit without a rule drops `bySetPos` and `monthlyAnchor` from the series' own rule
  (`task.service.ts:1700-1722`, whose comment says that it is expanded against its current config);
* `check_availability` reads a bare wall-clock time in the server's zone, `create_tasks` in the
  user's (`tool-dispatcher.service.ts:545-555`); its handles carry no slot, so an update or a
  deletion through one is about the whole series and asks for no scope (lines 1493-1496);
* an occurrence without an end that starts exactly where a window opens is dropped
  (`recurrence-rule.service.ts:565`; the doc at 485-487 says half-open), in the calendar and in the gate;
* a voice turn in a group posts a second status message, because the first one's id never reaches
  the session (`status-session.store.ts:72-79, 111-118` says it does);
* a turn that throws after sending its reply is queued again and replies twice; so does a send whose
  answer is lost; a voice note that was overtaken leaves its surface until the TTL;
* the streaming flag of a handle is never reset, so the rotation stays off after the first token of round 1;
* an update whose worker dies after admission is lost, unless its key has run out by then: the key is held
  when the stalled job is run again;
  a failed dedupe call fails the job for good, being outside the `try`;
* two taps on Open Menu that meet, or one whose send failed unnoticed, leave a menu card that nothing
  tracks; the surface flag is set even when the keyboard was not docked; `handleKeyboardAction`
  does throw (`keyboard-action.service.ts:107-109`);
* a chat may be linked by two users, since `telegramChatId` is not unique;
* a send that throws leaves its day marked (the scheduler says so, citing ADR 0046;
  `report-sender.service.ts:30-31` says the day is not marked); without a link the mark is rolled back to null,
  not to the previous date; and "a later minute can retry" (`daily-report.scheduler.ts:122`) never comes
  that day, because the local time must equal the report time;
* provisioning is not transactional: a fault between its two steps leaves a user without a calendar;
* cached briefs of a deleted account stay for up to a day.

## 5. Proofs

All theorems hold for every value of the constants that satisfies the named assumptions.

* `PendingQuestionProofs`, the lock. Assumption: `LockConfig`. The mutual
  exclusion of the lease is not inductive alone: the invariant adds that every token in a
  handle is used once (`OwnerInvariant`) and relates the key's TTL to the holder's
  countdown to its next renewal (`LeaseHolds`). From these: type correctness, one owner per token,
  mutual exclusion, `OnlyHolderUnlocks`, and `LockRefinement`, the step-by-step refinement of `TurnMutex`.
* `DebounceProofs`. Assumption: `DebounceConstants`. `TurnHoldsLock`: a worker in a turn holds the lock, on every path,
  including the rejected release that leaves the key to its TTL. It gives `OneTurnPerUser`. `LockInvariant` says
  the same of every step between acquiring and releasing, which is what the mapping to
  `SerialInbox` needs: `Refinement` takes each step of the layer to a step of the inbox or a stutter. `CarryInv` says who
  carries a batch that is in no list, and gives `DrainedRunsOrReturns`.
* `PendingQuestionProofs`, the question. Assumption: `Serialized`. One claim per question does not follow
  from the atomic claim: `AttachSave` writes back a status it read. The invariant says that
  a turn asking a question is alone with it (`AskingAlone`: no button before it is sent,
  no expiry, the copy to be saved is current), that the unique index leaves one open
  question, and that an open question with buttons is the one under the pointer
  (`PointerFits`). From it: `ResumedOnce`, `ClearsOwnPointer`, `ClosedStaysClosed`.
* `TaskSeriesProofs`. Assumptions: `SeriesConstants`, `GateConstants`. It has two parts.
  - For any number of clients, with overlapping requests and stale rows: `TypeCorrect`, one lemma per service
    method; `ShownOnce`, from `SlotsUnique`, no slot with two live children (a commit goes through the unique index
    or only deletes or re-flags, `FewerChildren`) and from what the rows show (a row is an anchor or a single task and
    never both, and what a child replaces is suppressed; `ShownUnique` for the whole calendar, `WindowIsShown` for what
    the three ways of cutting leave of it in a window); and `CutConserves`, which is arithmetic about the rows
    that were read (`CutBefore`, `CutAfter`: the two rules of a split generate the two halves, COUNT included).
    `Lineage` (a child has a row of its own, a parent that is another row, and no rule) and `GoneSkipped` (where the user removed an
    occurrence there is an exception or a child) are invariants here too, for they survive stale writes.
  - With `OneClient`, requests one at a time, as the run has it. The hypothesis is needed: with two clients TLC
    finds `ChildrenFit` broken by a stale row (section 4). `Fresh` says that what a request read is still there when it
    commits, but for the group of a removed one. From it `ChildrenFit`; from `GoneSkipped` and `ChildrenFit`,
    `RemovedStaysAway`; and `OneOccurrenceOnly`, where each request about an occurrence touches what is
    shown of one slot (`Touches`). All speak of `Shown`, so `ShownIs` first says of an occurrence, without the
    sets and folds of the expansion, when it is shown.

  `GateRefines` maps every step of a turn and its devices in `ConflictGate` to a step of `TaskSeries` or a
  stutter, so all that holds of the rows for any clients holds with the assistant among them. `GateAgrees` is proved on
  these rows: for every window, `ShownIsFound` and `FoundIsShown` compare the gate's own expansion with the calendar's. `GateTypeCorrect` types
  what a turn holds. `OverlapsExplained` is about one step, but the grounds of its write are found steps earlier. The
  invariant carries them: `Cleared` says that, until a device races the call, the window, or the windows of the series up to the preview's horizon, it was checked for are free, on the
  tables as they are now, of all but the row it is about and of what was moved there (`Free`, which `FoundNone` gets from
  an empty answer of the gate); `CallFits` says that the request under way is the one the call decided on and
  has read the row as it stands. Then each write is taken apart (`RowBooks`, `MoveBooks`, `SplitBooks`): the
  new occurrences are of the rows it wrote, in those windows, moved or beyond the preview, and nothing else is shown anew (`ApartShows`).
* `ToolLoopProofs`. `Ledger` (`saved + unchanged = committedWrites + forgotten`) is kept by every tool step;
  `DecidedOnLedger` says that a denial or a forced choice is decided with nothing counted and a
  claim with something counted, and that the ledger stands still afterwards. Together:
  `DeniesOnlyForgotten` and `ClaimBacked`. `WireInv` follows the unanswered calls through a
  round, a suspension and a resume, and gives `PairedUpToAsk`; `StepsInRound` gives
  `AuditComplete`.
* `ChatProofs`. Assumptions: `IngressConstants`, `ChatConstants`. For any number of users, chats,
  updates, workers, faults and expiries. It proves `Ingress` first: `AdmissionHeld` says why an update is admitted at
  most once in the life of a key although it may be posted, failed, lost and restarted: each admission is covered (`Covers`)
  by a key that ran out, by the key that is held, or by the failed job that keeps the update out of the queue. From it
  `AdmittedOnce`, and that the runs of an update have names (`Ids`).
  For the chat, `ChatInv` is types, the inherited `AdmissionHeld`, that a code which
  is live or in the hands of a request (never both, nor of two) has bound nothing, and that a run
  about to retire a menu card has its own, an earlier one's successor, in the chat. No code and no card comes twice
  because the run that made it is past its calls (`Done`) or an earlier run of its update (`Past`), and no step goes back (`Flow`).
  From it `CodeBindsOnce` and `NeverZeroMenus`;
  `ChatImplementsIngress` maps every handler's step to a step of `Ingress` or a stutter, which
  carries `AdmittedOnce` over. `PointersFit` needs `PointersInv`, which says what the stores and the chat are
  at each call of the only handler under way: that the calls it has left follow each other as the lists do (`Chained`),
  that the flag is behind the keyboard of the chat it names (`flagged`) from the send to the set and ahead of it from the clear
  to the removal (`Flags`), and that a card in a chat is tracked, left, the handler's own new one or the one it took and is to delete
  (`CardsKnown`). `CardsSent` keeps a card in one chat, so that a card not deleted where the tap came from is `left`.
  `PointersFitHolds` assumes one user, as the run has: two users linked to one chat dock over each other's
  keyboard, and the flag of the first then names one that is gone. The half about the cards (`CardsInv`) is proved for any users.
* `DailyReportProofs`. Assumptions: `DailyReportConstants`, `NoneIsNoValue`. For any number of requests,
  instances, accounts and faults. `Typed` bounds the days a sweep may mark and says that every copy a
  handler saves is a row it could have read; `IdsKnown` says that nothing names an account not yet created,
  so what an earlier account left never meets a new one. On these rest the four invariants of the run:
  - `AccountWhole`: `SeedsOnce` (one request at most seeds an account, and it has no calendar until then)
    and `Seeded` (an account without one is about to be seeded or is itself in `bare`);
  - `MarkHonest`: `Backed`, which adds to the property that the sweep at the marked day is at this user's;
  - `BriefCurrent`: `OthersExcused` and `OwnCurrent`, for the invalidation under way must be the user's own;
  - `OncePerDay`: `DayAlone` (one sweep at a user's day, none at a day that was sent) is kept only with
    `OwnDays`: marks and sweeps are at no day to come, what a sweep replaces is the mark of an earlier day, and a day
    that was sent or marked by a sweep is `Over`, so that no later check finds it due. It is the argument the comment of
    the scheduler makes, with what it takes for granted in the history flags.

* `SyncProofs`. Assumption: `SyncConstants`, which has no transaction last longer than the overlap (`Span < Lag`,
  the reason the code gives for the lag). For any number of transactions with any statements. The
  invariant follows a transaction through the statements it has left: what it has written but not committed, the bump that is still to
  come or done (`Counted`, `Inserts`), that its stamps are not older than it (`TxnInv`), and, for each row the device
  does not know in its last version, why its next delta will return it (`DeltaRow`: the row's stamp is not before where that
  delta starts, or the commit is still to be counted). From it
  `DeltaComplete`. `DeadlockExplained` needs `Orderly`, the order of the locks in each list of statements, and
  a rank that grows along every chain of waits but one through an update that sweeps after its bump or the removal of a child.
* `StatusSurfaceProofs`. Assumption: `SurfaceConstants`. For any number of snapshots, frames, faults and
  runs. The invariant has layers. `Shape` and `Rests` say, of each place the turn may be at, what the chain of
  edits may still hold and that it is empty behind the drain. `Newest` follows the latest snapshot while no call failed:
  landed, in the chain, in the pending frame or in a flush under way. These give `DrainedBeforeReply`. `Unreplied`
  says that the message the handle still edits is not the reply, and that a stale message is deleted only behind
  a reply that landed; with it every step keeps the replies (`ReplyKept`), which is `ReplyStays`, and `NeverBlank`.
  `RepliedOnce` needs two counts: the replies in the chat are at most the answers lost and the runs (`Told`),
  and every way that was tried and left cost a fault (`Tried`).

Only model-checked: `Recurrence` (its reference counts along a recursion over the calendar, and induction over data is out of
the prover's reach), and every liveness
property (fairness and ENABLED are out of reach as well).

## 6. Not modelled, and the plan

Not modelled because there is nothing to check: rendering, prompts, wording, HTTP connectors, CRUD
services whose invariants are database constraints, wiring, migrations, deployment.

Not modelled yet, or only in part:

* background work (summaries, user facts, recaps), scheduled notifications and devices;
* of the tools: `find_free_slots`, `list_groups`, `create_group`, `set_reminder`, the memory tools;
  the confirmation of a deletion is taken as given;
* of the chat: what the last-button line says, two redeems by one user at once, the TTL of a nonce,
  the parse service;
* of accounts: the race of two requests that create the default settings row, tokens, Apple's verification;
* of series: tasks without an end, an edit of the start alone or the end alone, two lengths at once in the runs (the proofs have any);
* of recurrence: leap years, an hour that comes twice, a gap at midnight, the summary text; the
  fixtures of the repository test those on real dates.

Planned: `Background`, overlapping summaries of one window and overlapping extractions of one fact.
