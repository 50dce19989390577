----------------------------- MODULE DailyReport -----------------------------
(***************************************************************************)
(* A user's account and the two texts written for them every day. The      *)
(* account: first sign-in and the default calendar (auth.service.ts), the  *)
(* settings and the deletion with its cascade (user.service.ts). The       *)
(* report: a cron sweep per minute and app instance marks the local day    *)
(* and sends over Telegram (daily-report.scheduler.ts). The brief: read    *)
(* from a cache per local day or written on demand, with the custom prompt *)
(* of its settings (daily-brief.service.ts, brief-settings.service.ts).    *)
(*                                                                         *)
(* Every handler reads a row, awaits, and saves the copy it read: TypeORM  *)
(* writes the columns that differ from the row found then, and inserts a   *)
(* row that is gone. A request is one slot, a call one step.               *)
(***************************************************************************)
EXTENDS Integers, FiniteSets

CONSTANTS
    Slots,       (* bound: requests that run at once                          *)
    Instances,   (* app instances, each with its cron                         *)
    DayLength,   (* bound: the minutes of a day that are told apart           *)
    MaxClock,    (* bound: the last minute                                    *)
    Zones,       (* the user's possible timezones, as offsets in minutes      *)
    MaxRequests, (* bound: requests                                           *)
    MaxFaults,   (* bound: calls that fail                                    *)
    MaxUsers,    (* bound: accounts created for the Apple id                  *)
    None         (* SQL's and Redis' null                                     *)

ASSUME DailyReportConstants ==
    /\ DayLength \in Nat \ {0} /\ MaxClock \in Nat /\ Zones \subseteq 0..(DayLength - 1)
    /\ MaxRequests \in Nat /\ MaxFaults \in Nat /\ MaxUsers \in Nat \ {0}

VARIABLES
    clock,     (* the minute it is                                            *)
    user,      (* the row of the Apple user, [id, zone], or None              *)
    ids,       (* how many accounts were created                              *)
    calendars, (* how many calendars the user owns                            *)
    linked,    (* the user has a Telegram link                                *)
    report,    (* the UserReportSettings row, [enabled, time, last], or None  *)
    prompt,    (* the custom prompt of UserBriefSettings                      *)
    cache,     (* Redis: of a user's local day, the prompt of its cached brief *)
    req,       (* of a slot: the request that runs                            *)
    sweep,     (* of an instance: the user the sweep is at                    *)
    swept,     (* of an instance: the minute of its last sweep                *)
    sent,      (* of a user's local day: the reports Telegram delivered       *)
    requests, faults,
    parted,    (* history: a save wrote back a column another had changed     *)
    overlapped,(* history: two sweeps were past the check for one day, or one *)
               (* checked a day that was over                                *)
    travelled, (* history: the user's timezone changed                        *)
    reborn,    (* history: a save inserted a deleted user again               *)
    bare,      (* history: the accounts whose calendar could not be inserted, *)
               (* and those a save inserted again                             *)
    excused    (* history: the days whose brief missed a change of the prompt *)

vars == <<clock, user, ids, calendars, linked, report, prompt, cache, req, sweep,
          swept, sent, requests, faults, parted, overlapped, travelled, reborn,
          bare, excused>>

Minutes == 0..(DayLength - 1)
Days == -1..((MaxClock + DayLength - 1) \div DayLength + 1)
Keys == (1..MaxUsers) \X Days   (* a user's local day                        *)

LocalDate(minute, zone) == (minute + zone) \div DayLength
LocalTime(minute, zone) == (minute + zone) % DayLength

Prompts == 0..1

Users == [id : 1..MaxUsers, zone : Zones]
Reports == [enabled : BOOLEAN, time : Minutes, last : Days \cup {None}]

ASSUME NoneIsNoValue == None \notin Int /\ None \notin Users /\ None \notin Reports

\* A row of settings as it is first made: off, never sent.
DefaultReport == [enabled |-> FALSE, time |-> 0, last |-> None]

Idle == [at |-> "idle"]

\* Nobody signed in yet, or a user did, linked a chat and may have switched the report on.
Init ==
    /\ \/ /\ user = None /\ ids = 0 /\ calendars = 0 /\ linked = FALSE /\ report = None
       \/ /\ user \in [id : {1}, zone : Zones] /\ ids = 1 /\ calendars = 1 /\ linked = TRUE
          /\ report \in {None, [DefaultReport EXCEPT !.enabled = TRUE]}
    /\ clock = 0 /\ prompt = 0
    /\ cache = [k \in Keys |-> None]
    /\ req = [s \in Slots |-> Idle]
    /\ sweep = [i \in Instances |-> Idle]
    /\ swept = [i \in Instances |-> -1]
    /\ sent = [k \in Keys |-> 0]
    /\ requests = 0 /\ faults = 0
    /\ parted = FALSE /\ overlapped = FALSE /\ travelled = FALSE
    /\ reborn = FALSE /\ bare = {} /\ excused = {}

Strikes == faults < MaxFaults /\ faults' = faults + 1

-----------------------------------------------------------------------------
(* Requests                                                                *)

Opens(s, r) ==
    /\ req[s] = Idle /\ requests < MaxRequests
    /\ requests' = requests + 1
    /\ req' = [req EXCEPT ![s] = r]

\* A request behind AccessTokenGuard: the token's user still exists.
Authorized(s, r) == user # None /\ Opens(s, r)

At(s, at) == req[s].at = at /\ UNCHANGED requests
Goes(s, r) == req' = [req EXCEPT ![s] = r]
Ends(s) == Goes(s, Idle)

\* The request fails with a 500.
Fails(s) == Ends(s) /\ Strikes

Account == <<user, ids, calendars, linked, travelled, reborn, bare>>
Report == <<report, sent, sweep, swept, overlapped>>
Brief == <<prompt, cache, excused>>

\* signInWithApple: the user is looked up by the verified Apple id.
SignInWithApple(s) ==
    /\ Opens(s, IF user = None THEN [at |-> "user"] ELSE [at |-> "profile", copy |-> user])
    /\ UNCHANGED <<clock, Account, Report, Brief, faults, parted>>

\* Mutant: who loses the race for the Apple id goes on with the winner's account.
ProvisionAnyway(s) ==
    /\ At(s, "user")
    /\ \/ /\ user = None /\ ids < MaxUsers
          /\ ids' = ids + 1 /\ user' \in [id : {ids + 1}, zone : Zones]
          /\ Goes(s, [at |-> "calendar", id |-> ids + 1])
          /\ UNCHANGED faults
       \/ user # None /\ Goes(s, [at |-> "calendar", id |-> user.id])
          /\ UNCHANGED <<ids, user, faults>>
       \/ Fails(s) /\ UNCHANGED <<ids, user>>
    /\ UNCHANGED <<clock, calendars, linked, travelled, reborn, bare, Report, Brief, parted>>

\* provisionNewUser: the user is inserted, refused when the Apple id is taken by now ...
ProvisionNewUser(s) ==
    /\ At(s, "user")
    /\ \/ /\ user = None /\ ids < MaxUsers
          /\ ids' = ids + 1 /\ user' \in [id : {ids + 1}, zone : Zones]
          /\ Goes(s, [at |-> "calendar", id |-> ids + 1])
          /\ UNCHANGED faults
       \/ user # None /\ Ends(s) /\ UNCHANGED <<ids, user, faults>>
       \/ Fails(s) /\ UNCHANGED <<ids, user>>
    /\ UNCHANGED <<clock, calendars, linked, travelled, reborn, bare, Report, Brief, parted>>

\* ... and then, without a transaction, the default calendar, whose owner must exist.
SeedDefaultCalendar(s) ==
    /\ At(s, "calendar")
    /\ \/ /\ Ends(s) /\ UNCHANGED <<faults, bare>>
          /\ calendars' = IF user # None /\ user.id = req[s].id THEN calendars + 1 ELSE calendars
       \/ Fails(s) /\ bare' = bare \cup {req[s].id} /\ UNCHANGED calendars
    /\ UNCHANGED <<clock, user, ids, linked, travelled, reborn, Report, Brief, parted>>

\* save of a user row read earlier: an update, or the row inserted again when it was
\* deleted, or refused when a new account has the Apple id.
SaveUser(s, copy) ==
    /\ \/ /\ user # None /\ user.id # copy.id
          /\ UNCHANGED <<user, travelled, reborn, bare>>
       \/ /\ user # None => user.id = copy.id
          /\ user' = copy
          /\ travelled' = (travelled \/ user # copy)
          /\ reborn' = (reborn \/ user = None)
          /\ bare' = IF user = None THEN bare \cup {copy.id} ELSE bare
    /\ Ends(s)
    /\ UNCHANGED <<clock, ids, calendars, linked, Report, Brief, faults, parted>>

\* updateReturningUser: what the sign-in supplies is merged into the copy; when nothing
\* differs from it, nothing is saved.
UpdateReturningUser(s) ==
    /\ At(s, "profile")
    /\ \/ \E zone \in Zones \ {req[s].copy.zone} : SaveUser(s, [req[s].copy EXCEPT !.zone = zone])
       \/ Ends(s) /\ UNCHANGED <<clock, Account, Report, Brief, faults, parted>>

\* updateSettings (the columns other than the timezone are no one's business here).
RequestSettings(s) ==
    /\ Authorized(s, [at |-> "settings", copy |-> user])
    /\ UNCHANGED <<clock, Account, Report, Brief, faults, parted>>

UpdateSettings(s) ==
    /\ At(s, "settings")
    /\ \E zone \in Zones \ {req[s].copy.zone} : SaveUser(s, [req[s].copy EXCEPT !.zone = zone])

\* deleteAccount: the user is found, Apple's token is not revoked (none is stored), ...
RequestDeletion(s) ==
    /\ Authorized(s, [at |-> "delete", id |-> user.id])
    /\ UNCHANGED <<clock, Account, Report, Brief, faults, parted>>

\* ... and the row deleted, and by the foreign keys everything that is the user's. The
\* cached briefs are Redis' and stay.
DeleteAccount(s) ==
    /\ At(s, "delete")
    /\ Ends(s)
    /\ IF user # None /\ user.id = req[s].id
       THEN /\ user' = None /\ calendars' = 0 /\ linked' = FALSE
            /\ report' = None /\ prompt' = 0
            /\ excused' = excused \cup {k \in Keys : k[1] = user.id}
       ELSE UNCHANGED <<user, calendars, linked, report, prompt, excused>>
    /\ UNCHANGED <<clock, ids, travelled, reborn, bare, sent, sweep, swept, overlapped, cache,
                   faults, parted>>

\* The user links or unlinks a chat (module Chat).
LinkChat ==
    /\ user # None /\ requests < MaxRequests /\ requests' = requests + 1
    /\ linked' = ~linked
    /\ UNCHANGED <<clock, user, ids, calendars, travelled, reborn, bare, Report, Brief, req,
                   faults, parted>>

-----------------------------------------------------------------------------
(* The report's settings and sweeps                                        *)

\* save of a settings row read earlier, with the columns of `change`: every column that
\* differs from the row found now is written. A row that is gone is inserted again,
\* which its foreign key allows only while the user of `id` exists.
SaveReport(id, read, copy) ==
    /\ report' = IF user # None /\ user.id = id THEN copy ELSE report
    /\ parted' = (parted \/ report # read)

\* update: the row is found, or made, and saved with what the request sets.
RequestReportSettings(s) ==
    /\ \E enabled \in BOOLEAN, time \in Minutes :
         Authorized(s, [at |-> "report", id |-> user.id, enabled |-> enabled, time |-> time,
                        read |-> IF report = None THEN DefaultReport ELSE report])
    /\ report' = IF report = None THEN DefaultReport ELSE report
    /\ UNCHANGED <<clock, Account, sent, sweep, swept, overlapped, Brief, faults, parted>>

UpdateReportSettings(s) ==
    LET r == req[s]
        copy == [r.read EXCEPT !.enabled = r.enabled, !.time = r.time] IN
    /\ At(s, "report")
    /\ IF copy = r.read THEN UNCHANGED <<report, parted>> ELSE SaveReport(r.id, r.read, copy)
    /\ Ends(s)
    /\ UNCHANGED <<clock, Account, sent, sweep, swept, overlapped, Brief, faults>>

\* Mutant: the day that was sent is not looked at.
DueUnmarked(row, zone, minute) == row.enabled /\ LocalTime(minute, zone) = row.time

\* processUser: the settings of now, the user's wall clock at the sweep's minute.
Due(row, zone, minute) ==
    /\ row.enabled
    /\ LocalTime(minute, zone) = row.time
    /\ row.last # LocalDate(minute, zone)

Today == LocalDate(clock, user.zone)

\* Sweeps of one instance do not wait for one another; one that is at the user while the
\* next starts is another instance here.
Sweep(i) ==
    /\ sweep[i] = Idle /\ swept[i] < clock
    /\ swept' = [swept EXCEPT ![i] = clock]
    /\ sweep' = [sweep EXCEPT ![i] = [at |-> "check", minute |-> clock]]
    /\ UNCHANGED <<clock, Account, report, sent, overlapped, Brief, req, requests, faults, parted>>

Sweeping(i, at) ==
    /\ sweep[i].at = at
    /\ UNCHANGED <<clock, Account, Brief, req, requests, swept>>

Steps(i, r) == sweep' = [sweep EXCEPT ![i] = r]

CheckDue(i) ==
    /\ Sweeping(i, "check")
    /\ IF user # None /\ report # None /\ Due(report, user.zone, sweep[i].minute)
       THEN LET date == LocalDate(sweep[i].minute, user.zone) IN
            /\ Steps(i, [at |-> "generate", minute |-> sweep[i].minute, id |-> user.id,
                         read |-> report, date |-> date])
            /\ overlapped' =  \/ overlapped
                              \/ date # Today
                              \/ \E j \in Instances \ {i} :
                                   sweep[j].at \in {"generate", "mark"} /\ sweep[j].date = date
       ELSE Steps(i, Idle) /\ UNCHANGED overlapped
    /\ UNCHANGED <<report, sent, faults, parted>>

\* generateForUser awaits the model for seconds; an empty text leaves the day unmarked.
GenerateReport(i) ==
    /\ Sweeping(i, "generate")
    /\ \/ Steps(i, [sweep[i] EXCEPT !.at = "mark"]) /\ UNCHANGED faults
       \/ Steps(i, Idle) /\ Strikes
    /\ UNCHANGED <<report, sent, overlapped, parted>>

\* The day is marked in the copy read before the generation, and the copy saved.
MarkDay(i) ==
    LET r == sweep[i]
        copy == [r.read EXCEPT !.last = r.date] IN
    /\ Sweeping(i, "mark")
    /\ \/ SaveReport(r.id, r.read, copy) /\ UNCHANGED faults
          /\ Steps(i, IF user # None /\ user.id = r.id THEN [r EXCEPT !.at = "send", !.read = copy]
                      ELSE Idle)
       \/ Steps(i, Idle) /\ Strikes /\ UNCHANGED <<report, parted>>
    /\ UNCHANGED <<sent, overlapped>>

\* send: no link delivers nothing and the mark is rolled back; a send that throws, after
\* or before Telegram delivered, leaves the mark.
SendReport(i) ==
    LET r == sweep[i]
        delivered == sent' = [sent EXCEPT ![<<r.id, r.date>>] = @ + 1] IN
    /\ Sweeping(i, "send")
    /\ IF linked /\ user.id = r.id
       THEN /\ Steps(i, Idle) /\ UNCHANGED <<report, parted>>
            /\ \/ delivered /\ UNCHANGED faults
               \/ Strikes /\ (delivered \/ UNCHANGED sent)
       ELSE Steps(i, [r EXCEPT !.at = "rollback"]) /\ UNCHANGED <<report, parted, sent, faults>>
    /\ UNCHANGED overlapped

\* Mutant: the mark stays.
RollBackNothing(i) ==
    /\ Sweeping(i, "rollback")
    /\ Steps(i, Idle)
    /\ UNCHANGED <<report, parted, faults, sent, overlapped>>

RollBack(i) ==
    LET r == sweep[i] IN
    /\ Sweeping(i, "rollback")
    /\ Steps(i, Idle)
    /\ \/ SaveReport(r.id, r.read, [r.read EXCEPT !.last = None]) /\ UNCHANGED faults
       \/ Strikes /\ UNCHANGED <<report, parted>>
    /\ UNCHANGED <<sent, overlapped>>

-----------------------------------------------------------------------------
(* The brief                                                               *)

\* The cached briefs of `id` that were not written with `text`.
Stale(id, text) == {k \in Keys : k[1] = id /\ cache[k] \notin {None, text}}

\* getBrief: a day next to today, or today; refresh does not read the cache, which may
\* also have expired. What is read there is the answer.
GetBrief(s) ==
    /\ user # None
    /\ \E date \in {d \in Days : d - Today \in -1..1} :
         Opens(s, [at |-> "brief", id |-> user.id, date |-> date])
    /\ UNCHANGED <<clock, Account, Report, Brief, faults, parted>>

\* The generator reads the prompt, then awaits the model.
GenerateBrief(s) ==
    /\ At(s, "brief")
    /\ \/ /\ Goes(s, [at |-> "cache", id |-> req[s].id, date |-> req[s].date, prompt |-> prompt])
          /\ UNCHANGED faults
       \/ Fails(s)
    /\ UNCHANGED <<clock, Account, Report, Brief, parted>>

\* The brief is cached, whatever was invalidated meanwhile.
CacheBrief(s) ==
    LET key == <<req[s].id, req[s].date>> IN
    /\ At(s, "cache")
    /\ cache' = [cache EXCEPT ![key] = req[s].prompt]
    /\ excused' = IF req[s].prompt = prompt THEN excused ELSE excused \cup {key}
    /\ Ends(s)
    /\ UNCHANGED <<clock, Account, Report, prompt, faults, parted>>

\* upsertCustomPromptForUser (update or reset) saves the prompt.
UpsertCustomPrompt(s) ==
    /\ \E new \in Prompts :
         Authorized(s, [at |-> "invalidate", id |-> user.id, zone |-> user.zone]) /\ prompt' = new
    /\ UNCHANGED <<clock, Account, Report, cache, excused, faults, parted>>

\* The call drops the brief of one day, or fails; the stale briefs it leaves are excused.
Invalidates(s, date) ==
    /\ At(s, "invalidate")
    /\ \/ /\ cache' = [cache EXCEPT ![<<req[s].id, date>>] = None]
          /\ excused' = excused \cup (Stale(req[s].id, prompt) \ {<<req[s].id, LocalDate(clock, req[s].zone)>>})
          /\ Ends(s) /\ UNCHANGED faults
       \/ Fails(s) /\ excused' = excused \cup Stale(req[s].id, prompt) /\ UNCHANGED cache
    /\ UNCHANGED <<clock, Account, Report, prompt, parted>>

\* Mutant: the date is UTC's.
InvalidateTodayUTC(s) == Invalidates(s, clock \div DayLength)

\* invalidateToday, a call of its own: the user's date by now, in the timezone the guard
\* read.
InvalidateToday(s) == Invalidates(s, LocalDate(clock, req[s].zone))

-----------------------------------------------------------------------------

\* A sweep is through within a day (bound: the model's calls take as long as they like).
Tick ==
    /\ clock < MaxClock /\ clock' = clock + 1
    /\ \A i \in Instances : sweep[i] # Idle => clock' < sweep[i].minute + DayLength
    /\ UNCHANGED <<Account, Report, Brief, req, requests, faults, parted>>

Request(s) ==
    \/ SignInWithApple(s) \/ ProvisionNewUser(s) \/ SeedDefaultCalendar(s)
    \/ UpdateReturningUser(s) \/ RequestSettings(s) \/ UpdateSettings(s)
    \/ RequestDeletion(s) \/ DeleteAccount(s)
    \/ RequestReportSettings(s) \/ UpdateReportSettings(s)
    \/ GetBrief(s) \/ GenerateBrief(s) \/ CacheBrief(s)
    \/ UpsertCustomPrompt(s) \/ InvalidateToday(s)

Sweeps(i) ==
    Sweep(i) \/ CheckDue(i) \/ GenerateReport(i) \/ MarkDay(i) \/ SendReport(i) \/ RollBack(i)

Next ==
    \/ \E s \in Slots : Request(s)
    \/ \E i \in Instances : Sweeps(i)
    \/ LinkChat \/ Tick

Spec == Init /\ [][Next]_vars

-----------------------------------------------------------------------------
(* Properties                                                              *)

\* The rows, the Redis keys and the requests are what the code makes them.
TypeOK ==
    /\ clock \in 0..MaxClock /\ ids \in 0..MaxUsers
    /\ user \in Users \cup {None} /\ report \in Reports \cup {None}
    /\ calendars \in Nat /\ prompt \in Prompts
    /\ {linked, parted, overlapped, travelled, reborn} \subseteq BOOLEAN
    /\ cache \in [Keys -> Prompts \cup {None}] /\ sent \in [Keys -> Nat] /\ excused \subseteq Keys
    /\ \A s \in Slots : req[s].at \in {"idle", "user", "calendar", "profile", "settings", "delete",
                                       "report", "brief", "cache", "invalidate"}
    /\ \A i \in Instances :
         sweep[i].at \in {"idle", "check"} \/ (sweep[i].date \in Days /\ sweep[i].read \in Reports)
    /\ swept \in [Instances -> -1..MaxClock] /\ bare \subseteq 1..MaxUsers
    /\ requests \in 0..MaxRequests /\ faults \in 0..MaxFaults

\* A user gets one report a local day at most, through sweeps of several instances, a
\* changed report time, failed sends and rollbacks, unless two sweeps checked the day
\* before either marked it, a sweep checked a day that was over, a save wrote a stale row
\* back, the user's timezone changed, or the user came back without the settings
\* (daily-report.scheduler.ts).
OncePerDay ==
    parted \/ overlapped \/ travelled \/ reborn \/ \A k \in Keys : sent[k] <= 1

\* A day is marked sent only when its report was delivered, or is about to be or to be
\* rolled back; a call that failed and a stale row written back are the exceptions.
MarkHonest ==
    \/ parted \/ faults > 0 \/ report = None
    \/ report.last = None
    \/ sent[<<user.id, report.last>>] > 0
    \/ \E i \in Instances : sweep[i].at \in {"send", "rollback"} /\ sweep[i].date = report.last

\* An account has one default calendar, and never two: before it has it, the sign-in that
\* made this account is about to seed it. A deleted one leaves no calendar, no link and no
\* report settings, whatever requests were under way (auth.service.ts, user.service.ts,
\* the foreign keys). Two kinds of account stay without a calendar, and `bare` names them
\* one by one: the insert of its own calendar failed behind the insert of its user, which
\* no transaction joins, or a save brought the account back after its deletion. A fault of
\* any other call, or of another account, is no excuse.
AccountWhole ==
    IF user = None
    THEN calendars = 0 /\ ~linked /\ report = None
    ELSE \/ calendars = 1
         \/ calendars = 0 /\ \E s \in Slots : req[s].at = "calendar" /\ req[s].id = user.id
         \/ calendars = 0 /\ user.id \in bare

\* A cached brief follows the current prompt, once no invalidation is under way, unless
\* it is of another day than the one invalidated, its generation had read the old prompt,
\* the invalidation failed, or the account was deleted meanwhile
\* (brief-settings.service.ts, daily-brief.service.ts).
BriefCurrent ==
    \/ user = None \/ \E s \in Slots : req[s].at = "invalidate"
    \/ Stale(user.id, prompt) \subseteq excused

\* "Permanently deletes the signed-in user's account" (user.service.ts:78): an account
\* that was deleted does not come back.
DeletedForGood == ~reborn

\* "so a re-entrant sweep in the same local minute cannot double-send"
\* (daily-report.scheduler.ts:126): the mark alone keeps the second report away.
NoDoubleSend == travelled \/ reborn \/ \A k \in Keys : sent[k] <= 1

\* "then invalidates today's cached brief so the new prompt takes effect immediately"
\* (brief-settings.service.ts:65): with no request under way and nothing failed, today's
\* cached brief was written with the current prompt.
BriefTakesEffect ==
    user # None /\ faults = 0 /\ ~travelled /\ ~reborn /\ (\A s \in Slots : req[s] = Idle)
    => <<user.id, Today>> \notin Stale(user.id, prompt)
=============================================================================
