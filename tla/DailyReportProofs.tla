-------------------------- MODULE DailyReportProofs --------------------------
(***************************************************************************)
(* Theorems about DailyReport, for any number of requests, app instances,  *)
(* faults and accounts, and for days of any length.                        *)
(***************************************************************************)
EXTENDS DailyReport, TLAPS

USE DailyReportConstants, NoneIsNoValue

-----------------------------------------------------------------------------
(* Minutes and days                                                        *)

LEMMA DivMonotone ==
    ASSUME NEW a \in Nat, NEW b \in Nat, NEW d \in Nat \ {0}, a <= b
    PROVE  a \div d \in Nat /\ a \div d <= b \div d
OBVIOUS

LEMMA LocalDates ==
    ASSUME NEW zone \in Zones, NEW minute \in 0..MaxClock
    PROVE  LocalDate(minute, zone) \in Days /\ LocalDate(minute, zone) \in Nat
<1>1. minute + zone \in Nat /\ MaxClock + DayLength - 1 \in Nat /\ minute + zone <= MaxClock + DayLength - 1
  OBVIOUS
<1>2. /\ (minute + zone) \div DayLength \in Nat
      /\ (minute + zone) \div DayLength <= (MaxClock + DayLength - 1) \div DayLength
  BY <1>1, DivMonotone
<1> QED
  BY <1>1, <1>2 DEF LocalDate, Days

LEMMA LaterDates ==
    ASSUME NEW zone \in Zones, NEW m \in 0..MaxClock, NEW n \in 0..MaxClock, m <= n
    PROVE  LocalDate(m, zone) <= LocalDate(n, zone)
BY DivMonotone DEF LocalDate

-----------------------------------------------------------------------------
(* What the variables hold                                                 *)

ReqStates ==
    {Idle}
    \cup [at : {"user"}]
    \cup [at : {"calendar", "delete"}, id : 1..MaxUsers]
    \cup [at : {"profile", "settings"}, copy : Users]
    \cup [at : {"report"}, id : 1..MaxUsers, enabled : BOOLEAN, time : Minutes, read : Reports]
    \cup [at : {"brief"}, id : 1..MaxUsers, date : Days]
    \cup [at : {"cache"}, id : 1..MaxUsers, date : Days, prompt : Prompts]
    \cup [at : {"invalidate"}, id : 1..MaxUsers, zone : Zones]

AtWork == [at : {"generate", "mark", "send", "rollback"}, minute : 0..MaxClock, id : 1..MaxUsers,
           read : Reports, date : Days]

SweepStates == {Idle} \cup [at : {"check"}, minute : 0..MaxClock] \cup AtWork

TypedAccount ==
    /\ clock \in 0..MaxClock /\ ids \in 0..MaxUsers
    /\ user \in Users \cup {None} /\ calendars \in Nat
    /\ linked \in BOOLEAN /\ travelled \in BOOLEAN /\ reborn \in BOOLEAN
    /\ bare \subseteq 1..MaxUsers
    /\ requests \in 0..MaxRequests /\ faults \in 0..MaxFaults

TypedReport ==
    /\ report \in Reports \cup {None}
    /\ sent \in [Keys -> Nat]
    /\ sweep \in [Instances -> SweepStates]
    /\ swept \in [Instances -> -1..MaxClock]
    /\ parted \in BOOLEAN /\ overlapped \in BOOLEAN

TypedBrief ==
    /\ prompt \in Prompts /\ cache \in [Keys -> Prompts \cup {None}] /\ excused \subseteq Keys

Typed == TypedAccount /\ TypedReport /\ TypedBrief /\ req \in [Slots -> ReqStates]

LEMMA TypedStarts == Init => Typed
<1> SUFFICES ASSUME Init PROVE Typed
  OBVIOUS
<1>1. [DefaultReport EXCEPT !.enabled = TRUE] \in Reports
  <2>1. 0 \in 0..(DayLength - 1)
    OBVIOUS
  <2>2. DefaultReport \in Reports
    BY <2>1 DEF DefaultReport, Reports, Minutes
  <2> QED
    BY <2>2 DEF Reports
<1>2. TypedAccount
  <2>1. user \in Users \cup {None}
    BY DEF Init, Users
  <2>2. linked \in BOOLEAN /\ travelled \in BOOLEAN /\ reborn \in BOOLEAN
    BY Zenon DEF Init
  <2>3. ids \in 0..MaxUsers /\ calendars \in Nat
    BY DEF Init
  <2> QED
    BY <2>1, <2>2, <2>3 DEF Init, TypedAccount
<1>3. TypedReport
  <2>1. report \in Reports \cup {None}
    BY <1>1 DEF Init
  <2>2. sweep \in [Instances -> SweepStates] /\ swept \in [Instances -> -1..MaxClock]
    BY DEF Init, SweepStates
  <2> QED
    BY <2>1, <2>2 DEF Init, TypedReport
<1>4. TypedBrief
  BY DEF Init, TypedBrief, Prompts
<1>5. req \in [Slots -> ReqStates]
  BY DEF Init, ReqStates
<1> QED
  BY <1>2, <1>3, <1>4, <1>5 DEF Typed

USE DEF Account, Report, Brief, At, Goes, Ends, Fails, Opens, Authorized, Strikes

LEMMA SaveUserTyped ==
    ASSUME Typed, NEW s \in Slots, NEW copy \in Users, SaveUser(s, copy), UNCHANGED requests
    PROVE  Typed'
<1>1. travelled' \in BOOLEAN /\ reborn' \in BOOLEAN
  BY Zenon DEF SaveUser, Typed, TypedAccount
<1>2. /\ user' \in Users \cup {None} /\ req' \in [Slots -> ReqStates]
      /\ UNCHANGED <<clock, ids, calendars, linked, Report, Brief, faults, parted>>
  BY DEF SaveUser, Typed, TypedAccount, ReqStates
<1>3. bare' \subseteq 1..MaxUsers
  BY DEF SaveUser, Typed, TypedAccount, Users
<1> QED
  BY <1>1, <1>2, <1>3 DEF Typed, TypedAccount, TypedReport, TypedBrief

LEMMA SaveReportTyped ==
    ASSUME Typed, NEW id, NEW read, NEW copy \in Reports, SaveReport(id, read, copy)
    PROVE  report' \in Reports \cup {None} /\ parted' \in BOOLEAN
<1>1. parted' \in BOOLEAN
  BY Zenon DEF SaveReport
<1>2. report' \in Reports \cup {None}
  BY DEF SaveReport, Typed, TypedReport
<1> QED
  BY <1>1, <1>2

\* A copy of a user row in another timezone.
LEMMA ZoneCopies ==
    ASSUME Typed, NEW s \in Slots, req[s].at \in {"profile", "settings"}
    PROVE  /\ req[s].copy \in Users
           /\ \A zone \in Zones : [req[s].copy EXCEPT !.zone = zone] \in Users
BY DEF Typed, ReqStates, Users, Idle

LEMMA RequestsTyped ==
    ASSUME Typed, NEW s \in Slots, Request(s) PROVE Typed'
<1> USE DEF Typed, TypedAccount
<1>1. CASE SignInWithApple(s)
  BY <1>1 DEF SignInWithApple, ReqStates, TypedReport, TypedBrief
<1>2. CASE ProvisionNewUser(s)
  BY <1>2 DEF ProvisionNewUser, ReqStates, TypedReport, TypedBrief, Users
<1>3. CASE SeedDefaultCalendar(s)
  <2>1. req[s].id \in 1..MaxUsers
    BY <1>3 DEF SeedDefaultCalendar, ReqStates, Idle
  <2>2. bare' \subseteq 1..MaxUsers
    BY <1>3, <2>1 DEF SeedDefaultCalendar
  <2>3. req' \in [Slots -> ReqStates]
    BY <1>3 DEF SeedDefaultCalendar, ReqStates
  <2>4. calendars' \in Nat /\ faults' \in 0..MaxFaults
    BY <1>3 DEF SeedDefaultCalendar
  <2> QED
    BY <1>3, <2>2, <2>3, <2>4 DEF SeedDefaultCalendar, TypedReport, TypedBrief
<1>4. CASE UpdateReturningUser(s)
  <2>1. CASE \E zone \in Zones \ {req[s].copy.zone} : SaveUser(s, [req[s].copy EXCEPT !.zone = zone])
    BY <1>4, <2>1, ZoneCopies, SaveUserTyped DEF UpdateReturningUser
  <2>2. CASE Ends(s) /\ UNCHANGED <<clock, Account, Report, Brief, faults, parted>>
    BY <1>4, <2>2 DEF UpdateReturningUser, ReqStates, TypedReport, TypedBrief
  <2> QED
    BY <1>4, <2>1, <2>2 DEF UpdateReturningUser
<1>5. CASE RequestSettings(s)
  BY <1>5 DEF RequestSettings, ReqStates, TypedReport, TypedBrief
<1>6. CASE UpdateSettings(s)
  BY <1>6, ZoneCopies, SaveUserTyped DEF UpdateSettings
<1>7. CASE RequestDeletion(s)
  BY <1>7 DEF RequestDeletion, ReqStates, TypedReport, TypedBrief, Users
<1>8. CASE DeleteAccount(s)
  <2>1. /\ user' \in Users \cup {None} /\ calendars' \in Nat /\ linked' \in BOOLEAN
        /\ report' \in Reports \cup {None} /\ prompt' \in Prompts /\ excused' \subseteq Keys
    <3>1. CASE user # None /\ user.id = req[s].id
      <4>1. user' = None /\ calendars' = 0 /\ report' = None /\ prompt' = 0 /\ linked' = FALSE
        BY <1>8, <3>1 DEF DeleteAccount
      <4>2. excused' \subseteq Keys
        BY <1>8, <3>1 DEF DeleteAccount, TypedBrief
      <4>3. linked' \in BOOLEAN
        BY <4>1, Zenon
      <4> QED
        BY <4>1, <4>2, <4>3 DEF Prompts
    <3>2. CASE ~(user # None /\ user.id = req[s].id)
      BY <1>8, <3>2 DEF DeleteAccount, TypedReport, TypedBrief
    <3> QED
      BY <3>1, <3>2
  <2> QED
    BY <1>8, <2>1 DEF DeleteAccount, ReqStates, TypedReport, TypedBrief
<1>9. CASE RequestReportSettings(s)
  BY <1>9 DEF RequestReportSettings, ReqStates, TypedReport, TypedBrief, Users, DefaultReport, Reports, Minutes
<1>10. CASE UpdateReportSettings(s)
  <2> DEFINE copy == [req[s].read EXCEPT !.enabled = req[s].enabled, !.time = req[s].time]
  <2>1. copy \in Reports
    <3>1. req[s] \in [at : {"report"}, id : 1..MaxUsers, enabled : BOOLEAN, time : Minutes,
                      read : Reports]
      BY <1>10 DEF UpdateReportSettings, ReqStates, Idle
    <3> QED
      BY <3>1 DEF Reports
  <2> HIDE DEF copy
  <2>2. (UNCHANGED <<report, parted>>) \/ SaveReport(req[s].id, req[s].read, copy)
    BY <1>10 DEF UpdateReportSettings, copy
  <2>3. report' \in Reports \cup {None} /\ parted' \in BOOLEAN
    BY <2>1, <2>2, SaveReportTyped DEF TypedReport
  <2> QED
    BY <1>10, <2>3 DEF UpdateReportSettings, ReqStates, TypedReport, TypedBrief
<1>11. CASE GetBrief(s)
  BY <1>11 DEF GetBrief, ReqStates, TypedReport, TypedBrief, Users
<1>12. CASE GenerateBrief(s)
  BY <1>12 DEF GenerateBrief, ReqStates, TypedReport, TypedBrief, Idle
<1>13. CASE CacheBrief(s)
  BY <1>13 DEF CacheBrief, ReqStates, TypedReport, TypedBrief, Idle, Keys
<1>14. CASE UpsertCustomPrompt(s)
  BY <1>14 DEF UpsertCustomPrompt, ReqStates, TypedReport, TypedBrief, Users
<1>15. CASE InvalidateToday(s)
  BY <1>15 DEF InvalidateToday, Invalidates, Stale, ReqStates, TypedReport, TypedBrief
<1> QED
  BY <1>1, <1>2, <1>3, <1>4, <1>5, <1>6, <1>7, <1>8, <1>9, <1>10, <1>11, <1>12, <1>13, <1>14,
     <1>15 DEF Request

\* What a sweep past the check holds.
LEMMA AtWorkFields ==
    ASSUME Typed, NEW i \in Instances, sweep[i].at \in {"generate", "mark", "send", "rollback"}
    PROVE  /\ sweep[i] \in AtWork
           /\ [sweep[i].read EXCEPT !.last = sweep[i].date] \in Reports
           /\ [sweep[i].read EXCEPT !.last = None] \in Reports
           /\ \A read \in Reports : [sweep[i] EXCEPT !.at = "send", !.read = read] \in AtWork
           /\ \A at \in {"mark", "rollback"} : [sweep[i] EXCEPT !.at = at] \in AtWork
<1>1. sweep[i] \in AtWork
  BY DEF Typed, TypedReport, SweepStates, AtWork, Idle
<1> QED
  BY <1>1 DEF AtWork, Reports

USE DEF Sweeping, Steps

LEMMA SweepsTyped ==
    ASSUME Typed, NEW i \in Instances, Sweeps(i) PROVE Typed'
<1> USE DEF Typed, TypedAccount, TypedReport, TypedBrief
<1>1. CASE Sweep(i)
  BY <1>1 DEF Sweep, SweepStates
<1>2. CASE CheckDue(i)
  <2>1. overlapped' \in BOOLEAN
    BY <1>2, Zenon DEF CheckDue
  <2>2. sweep' \in [Instances -> SweepStates]
    <3>1. CASE user # None /\ report # None /\ Due(report, user.zone, sweep[i].minute)
      <4>1. sweep[i].minute \in 0..MaxClock
        BY <1>2 DEF CheckDue, SweepStates, AtWork, Idle
      <4>2. user.zone \in Zones /\ user.id \in 1..MaxUsers /\ report \in Reports
        BY <3>1 DEF Users
      <4>3. LocalDate(sweep[i].minute, user.zone) \in Days
        BY <4>1, <4>2, LocalDates
      <4> QED
        BY <1>2, <3>1, <4>1, <4>2, <4>3 DEF CheckDue, SweepStates, AtWork
    <3>2. CASE ~(user # None /\ report # None /\ Due(report, user.zone, sweep[i].minute))
      BY <1>2, <3>2 DEF CheckDue, SweepStates
    <3> QED
      BY <3>1, <3>2
  <2> QED
    BY <1>2, <2>1, <2>2 DEF CheckDue
<1>3. CASE GenerateReport(i)
  <2>1. sweep' \in [Instances -> SweepStates]
    BY <1>3, AtWorkFields DEF GenerateReport, SweepStates
  <2> QED
    BY <1>3, <2>1 DEF GenerateReport
<1>4. CASE MarkDay(i)
  <2> DEFINE copy == [sweep[i].read EXCEPT !.last = sweep[i].date]
  <2>1. copy \in Reports /\ [sweep[i] EXCEPT !.at = "send", !.read = copy] \in AtWork
    BY <1>4, AtWorkFields DEF MarkDay
  <2> HIDE DEF copy
  <2>2. sweep' \in [Instances -> SweepStates]
    BY <1>4, <2>1 DEF MarkDay, SweepStates, copy
  <2>3. SaveReport(sweep[i].id, sweep[i].read, copy) \/ UNCHANGED <<report, parted>>
    BY <1>4 DEF MarkDay, copy
  <2>4. report' \in Reports \cup {None} /\ parted' \in BOOLEAN
    BY <2>1, <2>3, SaveReportTyped
  <2> QED
    BY <1>4, <2>2, <2>4 DEF MarkDay
<1>5. CASE SendReport(i)
  <2>1. sweep' \in [Instances -> SweepStates]
    BY <1>5, AtWorkFields DEF SendReport, SweepStates
  <2>2. sent' \in [Keys -> Nat]
    <3>1. <<sweep[i].id, sweep[i].date>> \in Keys
      BY <1>5, AtWorkFields DEF SendReport, AtWork, Keys
    <3> QED
      BY <1>5, <3>1 DEF SendReport
  <2> QED
    BY <1>5, <2>1, <2>2 DEF SendReport
<1>6. CASE RollBack(i)
  <2> DEFINE copy == [sweep[i].read EXCEPT !.last = None]
  <2>1. copy \in Reports
    BY <1>6, AtWorkFields DEF RollBack
  <2> HIDE DEF copy
  <2>2. SaveReport(sweep[i].id, sweep[i].read, copy) \/ UNCHANGED <<report, parted>>
    BY <1>6 DEF RollBack, copy
  <2>3. report' \in Reports \cup {None} /\ parted' \in BOOLEAN
    BY <2>1, <2>2, SaveReportTyped
  <2> QED
    BY <1>6, <2>3 DEF RollBack, SweepStates
<1> QED
  BY <1>1, <1>2, <1>3, <1>4, <1>5, <1>6 DEF Sweeps

LEMMA TypedSteps == Typed /\ [Next]_vars => Typed'
<1> SUFFICES ASSUME Typed, [Next]_vars PROVE Typed'
  OBVIOUS
<1>1. CASE \E s \in Slots : Request(s)
  BY <1>1, RequestsTyped
<1>2. CASE \E i \in Instances : Sweeps(i)
  BY <1>2, SweepsTyped
<1>3. CASE LinkChat
  <2>1. linked' \in BOOLEAN
    BY <1>3, Zenon DEF LinkChat
  <2> QED
    BY <1>3, <2>1 DEF LinkChat, Typed, TypedAccount, TypedReport, TypedBrief
<1>4. CASE Tick
  BY <1>4 DEF Tick, Typed, TypedAccount, TypedReport, TypedBrief
<1>5. CASE UNCHANGED vars
  BY <1>5 DEF vars, Typed, TypedAccount, TypedReport, TypedBrief
<1> QED
  BY <1>1, <1>2, <1>3, <1>4, <1>5 DEF Next

LEMMA TypedForms == Typed => TypeOK
<1> SUFFICES ASSUME Typed PROVE TypeOK
  OBVIOUS
<1>1. {linked, parted, overlapped, travelled, reborn} \subseteq BOOLEAN
  BY Zenon DEF Typed, TypedAccount, TypedReport
<1>2. \A s \in Slots : req[s].at \in {"idle", "user", "calendar", "profile", "settings", "delete",
                                     "report", "brief", "cache", "invalidate"}
  BY DEF Typed, ReqStates, Idle
<1>3. \A i \in Instances :
        sweep[i].at \in {"idle", "check"} \/ (sweep[i].date \in Days /\ sweep[i].read \in Reports)
  BY DEF Typed, TypedReport, SweepStates, AtWork, Idle
<1> QED
  BY <1>1, <1>2, <1>3 DEF TypeOK, Typed, TypedAccount, TypedReport, TypedBrief

\* The rows, the Redis keys and the requests are what the code makes them, for any
\* number of requests, app instances, accounts and failed calls.
THEOREM TypeCorrect == Spec => []TypeOK
<1>1. Spec => []Typed
  BY TypedStarts, TypedSteps, PTL DEF Spec
<1> QED
  BY <1>1, TypedForms, PTL

-----------------------------------------------------------------------------
(* The accounts that exist or existed                                      *)

\* Only accounts that were created are named, by the row, by a request, by a sweep, by
\* a cached brief or by a report that was sent.
IdsKnown ==
    /\ user # None => user.id <= ids
    /\ \A s \in Slots :
         /\ req[s].at \in {"calendar", "brief", "cache"} => req[s].id <= ids
         /\ req[s].at \in {"profile", "settings"} => req[s].copy.id <= ids
    /\ \A i \in Instances :
         sweep[i].at \in {"generate", "mark", "send", "rollback"} => sweep[i].id <= ids
    /\ \A k \in Keys : (cache[k] # None => k[1] <= ids) /\ (sent[k] > 0 => k[1] <= ids)

LEMMA IdsStart == Init => IdsKnown
BY DEF Init, IdsKnown, Idle

LEMMA SaveUserIds ==
    ASSUME Typed, IdsKnown, NEW s \in Slots, NEW copy \in Users, copy.id <= ids, SaveUser(s, copy)
    PROVE  IdsKnown'
BY DEF SaveUser, IdsKnown, Typed, TypedAccount, ReqStates, Idle

LEMMA IdsInRange ==
    ASSUME Typed
    PROVE  /\ \A s \in Slots :
                /\ req[s].at \in {"calendar", "brief", "cache", "delete", "report", "invalidate"} =>
                       req[s].id \in 1..MaxUsers
                /\ req[s].at \in {"profile", "settings"} => req[s].copy \in Users
           /\ \A i \in Instances :
                sweep[i].at \in {"generate", "mark", "send", "rollback"} => sweep[i] \in AtWork
<1>1. \A i \in Instances :
        sweep[i].at \in {"generate", "mark", "send", "rollback"} => sweep[i] \in AtWork
  BY AtWorkFields
<1>2. \A s \in Slots : req[s] \in ReqStates
  BY DEF Typed
<1> QED
  BY <1>1, <1>2 DEF ReqStates, Idle

LEMMA IdsRequests ==
    ASSUME Typed, IdsKnown, NEW s \in Slots, Request(s) PROVE IdsKnown'
<1> USE DEF Typed, TypedAccount, TypedReport, TypedBrief, IdsKnown, Idle
<1>1. CASE SignInWithApple(s)
  BY <1>1 DEF SignInWithApple
<1>2. CASE ProvisionNewUser(s)
  <2>1. UNCHANGED <<sweep, cache, sent>>
    BY <1>2 DEF ProvisionNewUser
  <2>2. CASE user = None /\ ids' = ids + 1 /\ user' \in [id : {ids + 1}, zone : Zones]
             /\ Goes(s, [at |-> "calendar", id |-> ids + 1])
    <3>1. user'.id = ids'
      BY <2>2
    <3>2. /\ \A i \in Instances :
               sweep[i].at \in {"generate", "mark", "send", "rollback"} => sweep[i].id \in Nat
          /\ \A t \in Slots : /\ req[t].at \in {"calendar", "brief", "cache"} => req[t].id \in Nat
                              /\ req[t].at \in {"profile", "settings"} => req[t].copy.id \in Nat
      <4> HIDE DEF Typed
      <4> QED
        BY IdsInRange DEF AtWork, Users
    <3> QED
      BY <2>1, <2>2, <3>1, <3>2 DEF Keys
  <2>3. CASE UNCHANGED <<ids, user>> /\ Ends(s)
    BY <2>1, <2>3
  <2> QED
    BY <1>2, <2>2, <2>3 DEF ProvisionNewUser
<1>3. CASE SeedDefaultCalendar(s)
  BY <1>3 DEF SeedDefaultCalendar
<1>4. CASE UpdateReturningUser(s)
  <2>1. CASE \E zone \in Zones \ {req[s].copy.zone} : SaveUser(s, [req[s].copy EXCEPT !.zone = zone])
    BY <1>4, <2>1, ZoneCopies, SaveUserIds DEF UpdateReturningUser, Users
  <2>2. CASE Ends(s) /\ UNCHANGED <<clock, Account, Report, Brief, faults, parted>>
    BY <2>2
  <2> QED
    BY <1>4, <2>1, <2>2 DEF UpdateReturningUser
<1>5. CASE RequestSettings(s)
  BY <1>5 DEF RequestSettings
<1>6. CASE UpdateSettings(s)
  BY <1>6, ZoneCopies, SaveUserIds DEF UpdateSettings, Users
<1>7. CASE RequestDeletion(s)
  BY <1>7 DEF RequestDeletion
<1>8. CASE DeleteAccount(s)
  BY <1>8 DEF DeleteAccount
<1>9. CASE RequestReportSettings(s)
  BY <1>9 DEF RequestReportSettings
<1>10. CASE UpdateReportSettings(s)
  BY <1>10 DEF UpdateReportSettings
<1>11. CASE GetBrief(s)
  BY <1>11 DEF GetBrief
<1>12. CASE GenerateBrief(s)
  BY <1>12 DEF GenerateBrief
<1>13. CASE CacheBrief(s)
  BY <1>13 DEF CacheBrief, Keys
<1>14. CASE UpsertCustomPrompt(s)
  BY <1>14 DEF UpsertCustomPrompt
<1>15. CASE InvalidateToday(s)
  BY <1>15 DEF InvalidateToday, Invalidates
<1> QED
  BY <1>1, <1>2, <1>3, <1>4, <1>5, <1>6, <1>7, <1>8, <1>9, <1>10, <1>11, <1>12, <1>13, <1>14,
     <1>15 DEF Request

LEMMA IdsSweeps ==
    ASSUME Typed, IdsKnown, NEW i \in Instances, Sweeps(i) PROVE IdsKnown'
<1>1. UNCHANGED <<user, ids, req, cache>>
  BY DEF Sweeps, Sweep, CheckDue, GenerateReport, MarkDay, SendReport, RollBack
<1>2. /\ \A j \in Instances \ {i} : sweep'[j] = sweep[j]
      /\ sweep'[i].at \in {"generate", "mark", "send", "rollback"} => sweep'[i].id <= ids
  <2> USE DEF IdsKnown, Idle, Typed, TypedReport
  <2>1. CASE Sweep(i)
    BY <2>1 DEF Sweep
  <2>2. CASE CheckDue(i)
    <3>1. \/ Steps(i, Idle)
          \/ user # None /\ Steps(i, [at |-> "generate", minute |-> sweep[i].minute, id |-> user.id,
                                     read |-> report,
                                     date |-> LocalDate(sweep[i].minute, user.zone)])
      BY <2>2 DEF CheckDue
    <3> QED
      BY <3>1
  <2>3. CASE GenerateReport(i) \/ MarkDay(i) \/ SendReport(i)
    <3>1. sweep[i] \in AtWork /\ sweep[i].id <= ids
      BY <2>3, AtWorkFields DEF GenerateReport, MarkDay, SendReport
    <3>2. sweep'[i] = Idle \/ sweep'[i].id = sweep[i].id
      <4>1. CASE GenerateReport(i)
        BY <3>1, <4>1 DEF GenerateReport, AtWork
      <4>2. CASE MarkDay(i)
        <5> DEFINE copy == [sweep[i].read EXCEPT !.last = sweep[i].date]
        <5>1. Steps(i, Idle) \/ Steps(i, [sweep[i] EXCEPT !.at = "send", !.read = copy])
          BY <4>2 DEF MarkDay
        <5> HIDE DEF copy
        <5> QED
          BY <3>1, <5>1 DEF AtWork
      <4>3. CASE SendReport(i)
        BY <3>1, <4>3 DEF SendReport, AtWork
      <4> QED
        BY <2>3, <4>1, <4>2, <4>3
    <3>3. \A j \in Instances \ {i} : sweep'[j] = sweep[j]
      BY <2>3 DEF GenerateReport, MarkDay, SendReport
    <3> QED
      BY <3>1, <3>2, <3>3
  <2>4. CASE RollBack(i)
    BY <2>4 DEF RollBack
  <2> QED
    BY <2>1, <2>2, <2>3, <2>4 DEF Sweeps
<1>3. \A k \in Keys : sent'[k] > 0 => k[1] <= ids
  <2>1. CASE SendReport(i)
    <3>1. sweep[i] \in AtWork /\ sweep[i].id <= ids
      BY <2>1, AtWorkFields DEF SendReport, IdsKnown
    <3>2. \/ sent' = [sent EXCEPT ![<<sweep[i].id, sweep[i].date>>] = @ + 1]
          \/ UNCHANGED sent
      BY <2>1 DEF SendReport
    <3> QED
      BY <3>1, <3>2 DEF Keys, IdsKnown, Typed, TypedReport
  <2>2. CASE UNCHANGED sent
    BY <2>2 DEF IdsKnown
  <2> QED
    BY <2>1, <2>2 DEF Sweeps, Sweep, CheckDue, GenerateReport, MarkDay, RollBack
<1> QED
  BY <1>1, <1>2, <1>3 DEF IdsKnown, Typed, TypedReport

LEMMA IdsSteps == Typed /\ IdsKnown /\ [Next]_vars => IdsKnown'
<1> SUFFICES ASSUME Typed, IdsKnown, [Next]_vars PROVE IdsKnown'
  OBVIOUS
<1>1. CASE LinkChat \/ Tick \/ UNCHANGED vars
  BY <1>1 DEF LinkChat, Tick, vars, IdsKnown
<1> QED
  BY <1>1, IdsRequests, IdsSweeps DEF Next

-----------------------------------------------------------------------------
(* Whole accounts                                                          *)

\* One request seeds the calendar of an account, and finds it without one.
SeedsOnce ==
    /\ user = None => calendars = 0 /\ linked = FALSE /\ report = None
    /\ \A s \in Slots :
         req[s].at = "calendar" /\ user # None /\ user.id = req[s].id => calendars = 0
    /\ \A s, t \in Slots :
         req[s].at = "calendar" /\ req[t].at = "calendar" /\ req[s].id = req[t].id => s = t

\* The account the user has is seeded, is being seeded, or is one that was left bare.
Seeded ==
    user # None =>
        \/ calendars = 1
        \/ calendars = 0 /\ \E s \in Slots : req[s].at = "calendar" /\ req[s].id = user.id
        \/ calendars = 0 /\ user.id \in bare

AccountInv == SeedsOnce /\ Seeded

LEMMA AccountStarts == Init => AccountInv
<1> SUFFICES ASSUME Init PROVE AccountInv
  OBVIOUS
<1>1. \A s \in Slots : req[s].at # "calendar"
  BY DEF Init, Idle
<1>2. IF user = None THEN calendars = 0 /\ linked = FALSE /\ report = None ELSE calendars = 1
  BY DEF Init, Users
<1> QED
  BY <1>1, <1>2, Zenon DEF AccountInv, SeedsOnce, Seeded

LEMMA AccountForms == AccountInv => AccountWhole
BY DEF AccountInv, SeedsOnce, Seeded, AccountWhole

LEMMA FaultsGrow == ASSUME Typed, [Next]_vars PROVE faults \in Nat /\ faults' \in Nat /\ faults' >= faults
<1>1. faults \in Nat /\ faults' \in Nat
  BY TypedSteps DEF Typed, TypedAccount
<1>2. faults' = faults \/ faults' = faults + 1
  <2>1. ASSUME NEW s \in Slots, Request(s) PROVE faults' = faults \/ faults' = faults + 1
    BY <2>1 DEF Request, SignInWithApple, ProvisionNewUser, SeedDefaultCalendar, UpdateReturningUser,
       SaveUser, RequestSettings, UpdateSettings, RequestDeletion, DeleteAccount,
       RequestReportSettings, UpdateReportSettings, GetBrief, GenerateBrief, CacheBrief,
       UpsertCustomPrompt, InvalidateToday, Invalidates
  <2>2. ASSUME NEW i \in Instances, Sweeps(i) PROVE faults' = faults \/ faults' = faults + 1
    BY <2>2 DEF Sweeps, Sweep, CheckDue, GenerateReport, MarkDay, SendReport, RollBack
  <2>3. CASE LinkChat \/ Tick \/ UNCHANGED vars
    BY <2>3 DEF LinkChat, Tick, vars
  <2> QED
    BY <2>1, <2>2, <2>3 DEF Next
<1> QED
  BY <1>1, <1>2

\* A step that changes neither the account nor which calendars are to be seeded.
LEMMA AccountStays ==
    ASSUME Typed, AccountInv, UNCHANGED <<user, calendars, linked, bare>>,
           user = None => report' = None,
           \A s \in Slots : req[s].at = "calendar" \/ req'[s].at = "calendar" => req'[s] = req[s]
    PROVE  AccountInv'
<1>1. SeedsOnce'
  BY DEF AccountInv, SeedsOnce
<1>2. \A s \in Slots : req[s].at = "calendar" /\ req[s].id = user.id =>
                        req'[s].at = "calendar" /\ req'[s].id = user'.id
  OBVIOUS
<1>3. Seeded'
  BY <1>2, Zenon DEF AccountInv, Seeded
<1> QED
  BY <1>1, <1>3 DEF AccountInv

LEMMA SaveUserAccount ==
    ASSUME Typed, IdsKnown, AccountInv, NEW s \in Slots, NEW copy \in Users,
           req[s].at \in {"profile", "settings"}, SaveUser(s, copy)
    PROVE  AccountInv'
<1>1. /\ UNCHANGED <<calendars, linked, report, faults>>
      /\ req' = [req EXCEPT ![s] = Idle]
  BY DEF SaveUser
<1>2. CASE user = None
  <2>1. user' = copy /\ bare' = bare \cup {copy.id}
    BY <1>2 DEF SaveUser
  <2>2. user'.id \in bare'
    BY <2>1
  <2> QED
    BY <1>1, <1>2, <2>1, <2>2 DEF AccountInv, SeedsOnce, Seeded, Typed, Idle
<1>3. CASE user # None
  <2>1. user' # None /\ user'.id = user.id
    BY <1>3 DEF SaveUser
  <2>2. bare' = bare
    BY <1>3 DEF SaveUser
  <2>3. SeedsOnce'
    BY <1>1, <1>3, <2>1 DEF AccountInv, SeedsOnce, Typed, Idle
  <2>4. Seeded'
    BY <1>1, <1>3, <2>1, <2>2 DEF AccountInv, Seeded, Typed
  <2> QED
    BY <2>3, <2>4 DEF AccountInv
<1> QED
  BY <1>2, <1>3

LEMMA AccountRequests ==
    ASSUME Typed, IdsKnown, AccountInv, NEW s \in Slots, Request(s) PROVE AccountInv'
<1>0. req \in [Slots -> ReqStates]
  BY DEF Typed
<1>1. CASE ProvisionNewUser(s)
  <2>1. UNCHANGED <<calendars, linked, report, bare>> /\ req[s].at = "user"
    BY <1>1 DEF ProvisionNewUser
  <2>2. CASE user = None /\ ids' = ids + 1 /\ user' \in [id : {ids + 1}, zone : Zones]
             /\ Goes(s, [at |-> "calendar", id |-> ids + 1])
    <3>1. user'.id = ids + 1 /\ user' # None /\ ids \in Nat
      <4>1. user'.id = ids + 1 /\ user'.zone \in Zones
        BY <2>2
      <4> QED
        BY <2>2, TypedSteps, <1>1, <4>1 DEF Typed, TypedAccount, Next, Request, Users
    <3>2. \A t \in Slots \ {s} : req'[t] = req[t] /\ (req[t].at = "calendar" => req[t].id <= ids)
      BY <1>0, <2>2 DEF IdsKnown
    <3>3. req'[s].at = "calendar" /\ req'[s].id = ids + 1
      BY <1>0, <2>2
    <3>4. \A t \in Slots \ {s} : req[t].at = "calendar" => req[t].id # ids + 1
      BY <3>1, <3>2, IdsInRange
    <3> QED
      BY <2>1, <2>2, <3>1, <3>2, <3>3, <3>4 DEF AccountInv, SeedsOnce, Seeded
  <2>3. CASE UNCHANGED user /\ Ends(s)
    BY <1>0, <2>1, <2>3, AccountStays DEF Idle, AccountInv, SeedsOnce
  <2> QED
    BY <1>0, <1>1, <2>2, <2>3 DEF ProvisionNewUser
<1>2. CASE SeedDefaultCalendar(s)
  <2>1. /\ UNCHANGED <<user, linked, report>> /\ req' = [req EXCEPT ![s] = Idle]
        /\ req[s].at = "calendar"
    BY <1>2 DEF SeedDefaultCalendar
  <2>2. \A t \in Slots : req'[t].at = "calendar" => t # s /\ req'[t] = req[t] /\ req[t].id # req[s].id
    BY <1>0, <2>1 DEF AccountInv, SeedsOnce, Idle
  <2>3. CASE /\ user # None /\ user.id = req[s].id /\ UNCHANGED bare
             /\ calendars' = calendars + 1
    BY <2>1, <2>2, <2>3 DEF AccountInv, SeedsOnce, Seeded
  <2>4. CASE ~(user # None /\ user.id = req[s].id) /\ UNCHANGED <<calendars, bare>>
    <3>1. \A t \in Slots : t # s => req'[t] = req[t]
      BY <1>0, <2>1
    <3> QED
      BY <2>1, <2>2, <2>4, <3>1, Zenon DEF AccountInv, SeedsOnce, Seeded
  <2>5. CASE bare' = bare \cup {req[s].id} /\ UNCHANGED calendars
    <3>1. \A t \in Slots : t # s => req'[t] = req[t]
      BY <1>0, <2>1
    <3>2. SeedsOnce'
      BY <2>1, <2>2, <2>5, <3>1, Zenon DEF AccountInv, SeedsOnce
    <3>3. Seeded'
      BY <2>1, <2>2, <2>5, <3>1, Zenon DEF AccountInv, Seeded
    <3> QED
      BY <3>2, <3>3 DEF AccountInv
  <2> QED
    BY <1>2, <2>3, <2>4, <2>5 DEF SeedDefaultCalendar
<1>3. CASE UpdateReturningUser(s)
  <2>1. CASE \E zone \in Zones \ {req[s].copy.zone} : SaveUser(s, [req[s].copy EXCEPT !.zone = zone])
    BY <1>3, <2>1, ZoneCopies, SaveUserAccount DEF UpdateReturningUser
  <2>2. CASE Ends(s) /\ UNCHANGED <<clock, Account, Report, Brief, faults, parted>>
    <3>1. \A t \in Slots : req[t].at = "calendar" \/ req'[t].at = "calendar" => req'[t] = req[t]
      BY <1>0, <1>3, <2>2 DEF UpdateReturningUser, Idle
    <3>2. /\ UNCHANGED <<user, calendars, linked, bare, report>>
          /\ user = None => report' = None
      BY <1>0, <2>2 DEF AccountInv, SeedsOnce
    <3> QED
      BY <1>0, <3>1, <3>2, AccountStays
  <2> QED
    BY <1>3, <2>1, <2>2 DEF UpdateReturningUser
<1>4. CASE UpdateSettings(s)
  BY <1>4, ZoneCopies, SaveUserAccount DEF UpdateSettings
<1>5. CASE DeleteAccount(s)
  <2>1. CASE user # None /\ user.id = req[s].id
    BY <1>0, <1>5, <2>1 DEF DeleteAccount, AccountInv, SeedsOnce, Seeded, Idle
  <2>2. CASE ~(user # None /\ user.id = req[s].id)
    <3>1. \A t \in Slots : req[t].at = "calendar" \/ req'[t].at = "calendar" => req'[t] = req[t]
      BY <1>0, <1>5 DEF DeleteAccount, Idle
    <3>2. /\ UNCHANGED <<user, calendars, linked, bare, report>>
          /\ user = None => report' = None
      BY <1>0, <1>5, <2>2 DEF DeleteAccount, AccountInv, SeedsOnce
    <3> QED
      BY <1>0, <3>1, <3>2, AccountStays
  <2> QED
    BY <2>1, <2>2
<1>6. CASE \/ SignInWithApple(s) \/ RequestSettings(s) \/ RequestDeletion(s)
           \/ RequestReportSettings(s) \/ UpdateReportSettings(s)
           \/ GetBrief(s) \/ GenerateBrief(s) \/ CacheBrief(s)
           \/ UpsertCustomPrompt(s) \/ InvalidateToday(s)
  <2>1. UNCHANGED <<user, calendars, linked, bare>>
    BY <1>0, <1>6 DEF SignInWithApple, RequestSettings, RequestDeletion, RequestReportSettings,
       UpdateReportSettings, GetBrief, GenerateBrief, CacheBrief, UpsertCustomPrompt,
       InvalidateToday, Invalidates
  <2>2. \A t \in Slots : req[t].at = "calendar" \/ req'[t].at = "calendar" => req'[t] = req[t]
    BY <1>0, <1>6 DEF SignInWithApple, RequestSettings, RequestDeletion, RequestReportSettings,
       UpdateReportSettings, GetBrief, GenerateBrief, CacheBrief, UpsertCustomPrompt,
       InvalidateToday, Invalidates, Idle
  <2>3. user = None => report' = None
    BY <1>6 DEF SignInWithApple, RequestSettings, RequestDeletion, RequestReportSettings,
       UpdateReportSettings, SaveReport, GetBrief, GenerateBrief, CacheBrief, UpsertCustomPrompt,
       InvalidateToday, Invalidates, AccountInv, SeedsOnce
  <2> QED
    BY <1>0, <2>1, <2>2, <2>3, AccountStays
<1> QED
  BY <1>1, <1>2, <1>3, <1>4, <1>5, <1>6 DEF Request

LEMMA AccountSteps == Typed /\ IdsKnown /\ AccountInv /\ [Next]_vars => AccountInv'
<1> SUFFICES ASSUME Typed, IdsKnown, AccountInv, [Next]_vars PROVE AccountInv'
  OBVIOUS
<1>1. ASSUME NEW i \in Instances, Sweeps(i) PROVE AccountInv'
  <2>1. UNCHANGED <<user, calendars, linked, bare, req>>
    BY <1>1 DEF Sweeps, Sweep, CheckDue, GenerateReport, MarkDay, SendReport, RollBack
  <2>2. user = None => report' = None
    BY <1>1 DEF Sweeps, Sweep, CheckDue, GenerateReport, MarkDay, SendReport, RollBack, SaveReport,
       AccountInv, SeedsOnce
  <2> QED
    BY <2>1, <2>2, AccountStays
<1>2. CASE LinkChat
  BY <1>2, Zenon DEF LinkChat, AccountInv, SeedsOnce, Seeded
<1>3. CASE Tick \/ UNCHANGED vars
  <2>1. UNCHANGED <<user, calendars, linked, bare, req, report>>
    BY <1>3 DEF Tick, vars
  <2>2. user = None => report' = None
    BY <2>1 DEF AccountInv, SeedsOnce
  <2> QED
    BY <2>1, <2>2, AccountStays
<1> QED
  BY <1>1, <1>2, <1>3, AccountRequests DEF Next

\* An account has one default calendar or is about to be given it, but for the accounts whose
\* own calendar could not be inserted or that a save brought back, and a deleted one leaves
\* no calendar, link or report settings, whatever requests are under way.
THEOREM AccountWholeHolds == Spec => []AccountWhole
<1>1. Init => Typed /\ IdsKnown /\ AccountInv
  BY TypedStarts, IdsStart, AccountStarts
<1>2. Typed /\ IdsKnown /\ AccountInv /\ [Next]_vars => (Typed /\ IdsKnown /\ AccountInv)'
  BY TypedSteps, IdsSteps, AccountSteps
<1>3. Typed /\ IdsKnown /\ AccountInv => AccountWhole
  BY AccountForms
<1> QED
  BY <1>1, <1>2, <1>3, PTL DEF Spec

-----------------------------------------------------------------------------
(* Honest marks                                                            *)

\* The marked day was delivered, or a sweep of this account that marked it is at work.
Backed ==
    \/ report = None \/ report.last = None
    \/ sent[<<user.id, report.last>>] > 0
    \/ \E i \in Instances : /\ sweep[i].at \in {"send", "rollback"}
                            /\ sweep[i].date = report.last /\ sweep[i].id = user.id

MarkInv == ~parted /\ faults = 0 => Backed

LEMMA MarkStarts == Init => MarkInv
BY DEF Init, MarkInv, Backed, DefaultReport

LEMMA MarkForms == MarkInv /\ Typed => MarkHonest
<1>1. Typed => faults = 0 \/ faults > 0
  BY DEF Typed, TypedAccount
<1>2. Backed => MarkHonest
  BY Zenon DEF Backed, MarkHonest
<1> QED
  BY <1>1, <1>2, Zenon DEF MarkHonest, MarkInv

\* What was once a race stays one.
LEMMA RacesStay ==
    ASSUME Typed, [Next]_vars
    PROVE  /\ (parted => parted') /\ (overlapped => overlapped')
           /\ (travelled => travelled') /\ (reborn => reborn')
<1>1. ASSUME NEW s \in Slots, Request(s)
      PROVE  /\ (parted => parted') /\ overlapped' = overlapped
             /\ (travelled => travelled') /\ (reborn => reborn')
  <2>1. overlapped' = overlapped
    BY <1>1 DEF Request, SignInWithApple, ProvisionNewUser, SeedDefaultCalendar, UpdateReturningUser,
       SaveUser, RequestSettings, UpdateSettings, RequestDeletion, DeleteAccount,
       RequestReportSettings, UpdateReportSettings, GetBrief, GenerateBrief, CacheBrief,
       UpsertCustomPrompt, InvalidateToday, Invalidates
  <2>2. parted' = parted \/ parted' = (parted \/ report # req[s].read)
    BY <1>1 DEF Request, SignInWithApple, ProvisionNewUser, SeedDefaultCalendar, UpdateReturningUser,
       SaveUser, RequestSettings, UpdateSettings, RequestDeletion, DeleteAccount, SaveReport,
       RequestReportSettings, UpdateReportSettings, GetBrief, GenerateBrief, CacheBrief,
       UpsertCustomPrompt, InvalidateToday, Invalidates
  <2>3. (UNCHANGED <<travelled, reborn>>) \/ \E copy : SaveUser(s, copy)
    BY <1>1 DEF Request, SignInWithApple, ProvisionNewUser, SeedDefaultCalendar, UpdateReturningUser,
       RequestSettings, UpdateSettings, RequestDeletion, DeleteAccount,
       RequestReportSettings, UpdateReportSettings, GetBrief, GenerateBrief, CacheBrief,
       UpsertCustomPrompt, InvalidateToday, Invalidates
  <2>4. ASSUME NEW copy, SaveUser(s, copy) PROVE (travelled => travelled') /\ (reborn => reborn')
    <3>1. CASE travelled' = travelled /\ reborn' = reborn
      BY <3>1, Zenon
    <3>2. CASE travelled' = (travelled \/ user # copy) /\ reborn' = (reborn \/ user = None)
      BY <3>2, Zenon
    <3> QED
      BY <2>4, <3>1, <3>2 DEF SaveUser
  <2>5. (travelled => travelled') /\ (reborn => reborn')
    <3>1. CASE travelled' = travelled /\ reborn' = reborn
      BY <3>1, Zenon
    <3> QED
      BY <2>3, <2>4, <3>1
  <2>6. parted => parted'
    <3>1. CASE parted' = parted
      BY <3>1, Zenon
    <3>2. CASE parted' = (parted \/ report # req[s].read)
      BY <3>2, Zenon
    <3> QED
      BY <2>2, <3>1, <3>2
  <2> QED
    BY <2>1, <2>5, <2>6
<1>2. ASSUME NEW i \in Instances, Sweeps(i)
      PROVE  /\ (parted => parted') /\ (overlapped => overlapped')
             /\ travelled' = travelled /\ reborn' = reborn
  <2>1. travelled' = travelled /\ reborn' = reborn
    BY <1>2 DEF Sweeps, Sweep, CheckDue, GenerateReport, MarkDay, SendReport, RollBack
  <2>2. overlapped => overlapped'
    BY <1>2, Zenon DEF Sweeps, Sweep, CheckDue, GenerateReport, MarkDay, SendReport, RollBack
  <2>3. parted => parted'
    BY <1>2, Zenon DEF Sweeps, Sweep, CheckDue, GenerateReport, MarkDay, SendReport, RollBack,
       SaveReport
  <2> QED
    BY <2>1, <2>2, <2>3, Zenon
<1>3. CASE LinkChat \/ Tick \/ UNCHANGED vars
  BY <1>3 DEF LinkChat, Tick, vars
<1> QED
  BY <1>1, <1>2, <1>3, Zenon DEF Next

\* A save that no other came between writes the row it read.
LEMMA CleanSave ==
    ASSUME NEW id, NEW read, NEW copy, SaveReport(id, read, copy), ~parted'
    PROVE  report = read
BY Zenon DEF SaveReport

\* What the steps of a sweep past the check do to it.
LEMMA SweepAdvances ==
    ASSUME Typed, NEW i \in Instances, Sweeps(i)
    PROVE  /\ \A j \in Instances \ {i} : sweep'[j] = sweep[j]
           /\ \A at \in {"mark", "rollback"} :
                Steps(i, [sweep[i] EXCEPT !.at = at]) /\ sweep[i] \in AtWork =>
                   /\ sweep'[i].at = at /\ sweep'[i].id = sweep[i].id
                   /\ sweep'[i].date = sweep[i].date /\ sweep'[i].read = sweep[i].read
           /\ \A read \in Reports :
                Steps(i, [sweep[i] EXCEPT !.at = "send", !.read = read]) /\ sweep[i] \in AtWork =>
                   /\ sweep'[i].at = "send" /\ sweep'[i].id = sweep[i].id
                   /\ sweep'[i].date = sweep[i].date /\ sweep'[i].read = read
           /\ Steps(i, Idle) => sweep'[i] = Idle
<1>1. sweep \in [Instances -> SweepStates]
  BY DEF Typed, TypedReport
<1>2. \A j \in Instances \ {i} : sweep'[j] = sweep[j]
  BY <1>1 DEF Sweeps, Sweep, CheckDue, GenerateReport, MarkDay, SendReport, RollBack
<1>3. ASSUME NEW at, Steps(i, [sweep[i] EXCEPT !.at = at]), sweep[i] \in AtWork
      PROVE  /\ sweep'[i].at = at /\ sweep'[i].id = sweep[i].id
             /\ sweep'[i].date = sweep[i].date /\ sweep'[i].read = sweep[i].read
  BY <1>1, <1>3 DEF AtWork
<1>4. ASSUME NEW read, Steps(i, [sweep[i] EXCEPT !.at = "send", !.read = read]), sweep[i] \in AtWork
      PROVE  /\ sweep'[i].at = "send" /\ sweep'[i].id = sweep[i].id
             /\ sweep'[i].date = sweep[i].date /\ sweep'[i].read = read
  BY <1>1, <1>4 DEF AtWork
<1>5. Steps(i, Idle) => sweep'[i] = Idle
  BY <1>1
<1> QED
  BY <1>2, <1>3, <1>4, <1>5

\* Who changes the row of the report settings without a sweep, on a calm database, keeps
\* the mark, or has none.
LEMMA RequestsKeepMark ==
    ASSUME Typed, AccountInv, NEW s \in Slots, Request(s), ~parted'
    PROVE  /\ UNCHANGED <<sent, sweep>>
           /\ report' # None /\ report'.last # None =>
                /\ report # None /\ report'.last = report.last
                /\ user # None /\ user' # None /\ user'.id = user.id
<1>1. UNCHANGED <<sent, sweep>>
  BY DEF Request, SignInWithApple, ProvisionNewUser, SeedDefaultCalendar, UpdateReturningUser,
     SaveUser, RequestSettings, UpdateSettings, RequestDeletion, DeleteAccount,
     RequestReportSettings, UpdateReportSettings, GetBrief, GenerateBrief, CacheBrief,
     UpsertCustomPrompt, InvalidateToday, Invalidates
<1>2. user = None => report = None
  BY DEF AccountInv, SeedsOnce
<1>3. CASE ProvisionNewUser(s)
  <2>1. UNCHANGED report /\ (UNCHANGED user \/ user = None)
    BY <1>3 DEF ProvisionNewUser
  <2> QED
    BY <1>1, <1>2, <2>1
<1>4. ASSUME NEW copy \in Users, SaveUser(s, copy)
      PROVE  /\ UNCHANGED report
             /\ user # None => user' # None /\ user'.id = user.id
  BY <1>4 DEF SaveUser
<1>5. CASE UpdateReturningUser(s) \/ UpdateSettings(s)
  <2>1. UNCHANGED <<user, report>> \/ \E copy \in Users : SaveUser(s, copy)
    BY <1>5, ZoneCopies DEF UpdateReturningUser, UpdateSettings
  <2> QED
    BY <1>1, <1>2, <1>4, <2>1
<1>6. CASE DeleteAccount(s)
  BY <1>1, <1>2, <1>6 DEF DeleteAccount
<1>7. CASE RequestReportSettings(s)
  BY <1>1, <1>2, <1>7 DEF RequestReportSettings, DefaultReport
<1>8. CASE UpdateReportSettings(s)
  <2> DEFINE copy == [req[s].read EXCEPT !.enabled = req[s].enabled, !.time = req[s].time]
  <2>1. copy.last = req[s].read.last /\ copy # None /\ req[s].read # None
    <3>1. req[s] \in [at : {"report"}, id : 1..MaxUsers, enabled : BOOLEAN, time : Minutes,
                      read : Reports]
      BY <1>8 DEF UpdateReportSettings, Typed, ReqStates, Idle
    <3> QED
      BY <3>1 DEF Reports
  <2> HIDE DEF copy
  <2>2. UNCHANGED report \/ SaveReport(req[s].id, req[s].read, copy)
    BY <1>8 DEF UpdateReportSettings, copy
  <2>3. UNCHANGED user
    BY <1>8 DEF UpdateReportSettings
  <2>4. UNCHANGED report \/ (report = req[s].read /\ report' = copy)
    BY <2>2, CleanSave DEF SaveReport
  <2> QED
    BY <1>1, <1>2, <2>1, <2>3, <2>4
<1>9. CASE \/ SignInWithApple(s) \/ SeedDefaultCalendar(s) \/ RequestSettings(s)
           \/ RequestDeletion(s) \/ GetBrief(s) \/ GenerateBrief(s) \/ CacheBrief(s)
           \/ UpsertCustomPrompt(s) \/ InvalidateToday(s)
  <2>1. UNCHANGED <<user, report>>
    BY <1>9 DEF SignInWithApple, SeedDefaultCalendar, RequestSettings, RequestDeletion,
       GetBrief, GenerateBrief, CacheBrief, UpsertCustomPrompt, InvalidateToday, Invalidates
  <2> QED
    BY <1>1, <1>2, <2>1
<1> QED
  BY <1>3, <1>5, <1>6, <1>7, <1>8, <1>9 DEF Request

LEMMA MarkSweeps ==
    ASSUME Typed, AccountInv, Backed, NEW i \in Instances, Sweeps(i), ~parted', faults = 0, faults' = 0
    PROVE  Backed'
<1>1. /\ UNCHANGED user /\ \A j \in Instances \ {i} : sweep'[j] = sweep[j]
      /\ Steps(i, Idle) => sweep'[i] = Idle
  BY SweepAdvances DEF Sweeps, Sweep, CheckDue, GenerateReport, MarkDay, SendReport, RollBack
<1>2. user = None => report = None /\ linked = FALSE
  BY DEF AccountInv, SeedsOnce
<1>3. CASE Sweep(i) \/ CheckDue(i) \/ GenerateReport(i)
  <2>1. UNCHANGED <<report, sent>>
    BY <1>3 DEF Sweep, CheckDue, GenerateReport
  <2>2. sweep[i].at \notin {"send", "rollback"}
    <3>1. sweep[i] = Idle \/ sweep[i].at = "check" \/ sweep[i].at = "generate"
      BY <1>3 DEF Sweep, CheckDue, GenerateReport
    <3> QED
      BY <3>1 DEF Idle
  <2> QED
    BY <1>1, <2>1, <2>2 DEF Backed
<1>4. CASE MarkDay(i)
  <2> DEFINE copy == [sweep[i].read EXCEPT !.last = sweep[i].date]
  <2>1. /\ sweep[i] \in AtWork /\ sweep[i].at = "mark" /\ copy \in Reports
        /\ copy.last = sweep[i].date
    BY <1>4, AtWorkFields DEF MarkDay, AtWork, Reports
  <2>2. UNCHANGED sent /\ SaveReport(sweep[i].id, sweep[i].read, copy)
    BY <1>4 DEF MarkDay
  <2>3. Steps(i, IF user # None /\ user.id = sweep[i].id
                 THEN [sweep[i] EXCEPT !.at = "send", !.read = copy] ELSE Idle)
    BY <1>4 DEF MarkDay
  <2> HIDE DEF copy
  <2>4. CASE user # None /\ user.id = sweep[i].id
    <3>1. sweep'[i].at = "send" /\ sweep'[i].id = sweep[i].id /\ sweep'[i].date = sweep[i].date
      BY <2>1, <2>3, <2>4, SweepAdvances
    <3>2. report' = copy
      BY <2>2, <2>4 DEF SaveReport
    <3> QED
      BY <1>1, <2>1, <2>4, <3>1, <3>2 DEF Backed
  <2>5. CASE ~(user # None /\ user.id = sweep[i].id)
    <3>1. UNCHANGED report
      BY <2>2, <2>5 DEF SaveReport
    <3> QED
      BY <1>1, <2>1, <2>2, <3>1 DEF Backed
  <2> QED
    BY <2>4, <2>5
<1>5. CASE SendReport(i)
  <2>1. sweep[i] \in AtWork /\ sweep[i].at = "send"
    BY <1>5, AtWorkFields DEF SendReport
  <2>2. UNCHANGED report
    BY <1>5 DEF SendReport
  <2>3. CASE linked /\ user.id = sweep[i].id
    <3>1. sent' = [sent EXCEPT ![<<sweep[i].id, sweep[i].date>>] = @ + 1]
      BY <1>5, <2>3 DEF SendReport
    <3>2. /\ <<sweep[i].id, sweep[i].date>> \in Keys
          /\ sent \in [Keys -> Nat]
      BY <2>1 DEF AtWork, Keys, Typed, TypedReport
    <3>3. /\ sent'[<<sweep[i].id, sweep[i].date>>] > 0
          /\ \A k \in Keys : sent[k] > 0 => sent'[k] > 0
      BY <3>1, <3>2
    <3>4. report # None /\ report.last # None => <<user.id, report.last>> \in Keys
      BY <1>2 DEF Typed, TypedAccount, TypedReport, Users, Reports, Keys
    <3> QED
      BY <1>1, <2>2, <2>3, <3>3, <3>4 DEF Backed
  <2>4. CASE ~(linked /\ user.id = sweep[i].id)
    <3>1. Steps(i, [sweep[i] EXCEPT !.at = "rollback"]) /\ UNCHANGED sent
      BY <1>5, <2>4 DEF SendReport
    <3>2. sweep'[i].at = "rollback" /\ sweep'[i].id = sweep[i].id /\ sweep'[i].date = sweep[i].date
      BY <2>1, <3>1, SweepAdvances
    <3> QED
      BY <1>1, <2>2, <3>1, <3>2 DEF Backed
  <2> QED
    BY <2>3, <2>4
<1>6. CASE RollBack(i)
  <2> DEFINE copy == [sweep[i].read EXCEPT !.last = None]
  <2>1. sweep[i] \in AtWork /\ copy.last = None
    BY <1>6, AtWorkFields DEF RollBack, AtWork, Reports
  <2>2. UNCHANGED sent /\ SaveReport(sweep[i].id, sweep[i].read, copy)
    BY <1>6 DEF RollBack
  <2> HIDE DEF copy
  <2>3. CASE user # None /\ user.id = sweep[i].id
    BY <2>1, <2>2, <2>3 DEF SaveReport, Backed
  <2>4. CASE ~(user # None /\ user.id = sweep[i].id)
    <3>1. UNCHANGED report
      BY <2>2, <2>4 DEF SaveReport
    <3> QED
      BY <1>1, <1>2, <2>2, <2>4, <3>1 DEF Backed
  <2> QED
    BY <2>3, <2>4
<1> QED
  BY <1>3, <1>4, <1>5, <1>6 DEF Sweeps

LEMMA MarkSteps == Typed /\ AccountInv /\ MarkInv /\ [Next]_vars => MarkInv'
<1> SUFFICES ASSUME Typed, AccountInv, MarkInv, [Next]_vars, ~parted', faults' = 0
             PROVE  Backed'
  BY Zenon DEF MarkInv
<1>1. ~parted
  BY RacesStay, Zenon
<1>2. faults = 0
  BY FaultsGrow
<1>3. Backed
  BY <1>1, <1>2, Zenon DEF MarkInv
<1>4. ASSUME NEW s \in Slots, Request(s) PROVE Backed'
  <2>1. /\ UNCHANGED <<sent, sweep>>
        /\ report' # None /\ report'.last # None =>
             /\ report # None /\ report'.last = report.last
             /\ user # None /\ user' # None /\ user'.id = user.id
    BY <1>4, RequestsKeepMark
  <2> QED
    BY <1>3, <2>1 DEF Backed
<1>5. ASSUME NEW i \in Instances, Sweeps(i) PROVE Backed'
  BY <1>2, <1>3, <1>5, MarkSweeps
<1>6. CASE LinkChat \/ Tick \/ UNCHANGED vars
  BY <1>3, <1>6 DEF LinkChat, Tick, vars, Backed
<1> QED
  BY <1>4, <1>5, <1>6 DEF Next

\* A day is marked only for a report that was delivered or is under way, while no call
\* fails and no save writes a stale row back.
THEOREM MarkHonestHolds == Spec => []MarkHonest
<1>1. Init => Typed /\ IdsKnown /\ AccountInv /\ MarkInv
  BY TypedStarts, IdsStart, AccountStarts, MarkStarts
<1>2. Typed /\ IdsKnown /\ AccountInv /\ MarkInv /\ [Next]_vars
      => (Typed /\ IdsKnown /\ AccountInv /\ MarkInv)'
  BY TypedSteps, IdsSteps, AccountSteps, MarkSteps
<1>3. Typed /\ IdsKnown /\ AccountInv /\ MarkInv => MarkHonest
  BY MarkForms
<1> QED
  BY <1>1, <1>2, <1>3, PTL DEF Spec

-----------------------------------------------------------------------------
(* Current briefs                                                          *)

\* What is cached for an account that was deleted is excused, and what is cached for the
\* user's own is of the current prompt, excused, or about to be dropped.
OthersExcused ==
    \A k \in Keys : k[1] <= ids /\ (user # None => k[1] # user.id) => k \in excused

OwnCurrent ==
    user # None =>
        \/ \E s \in Slots : req[s].at = "invalidate" /\ req[s].id = user.id
        \/ Stale(user.id, prompt) \subseteq excused

BriefInv == OthersExcused /\ OwnCurrent

LEMMA BriefStarts == Init => BriefInv
<1> SUFFICES ASSUME Init PROVE BriefInv
  OBVIOUS
<1>1. IF user = None THEN ids = 0 ELSE user.id = 1 /\ ids = 1
  BY DEF Init, Users
<1>2. \A k \in Keys : k[1] \in Nat \ {0} /\ cache[k] = None
  BY DEF Init, Keys
<1> QED
  BY <1>1, <1>2 DEF BriefInv, OthersExcused, OwnCurrent, Stale

LEMMA BriefForms == BriefInv => BriefCurrent
BY DEF BriefInv, OwnCurrent, BriefCurrent

\* A step that changes no prompt, no brief and no account.
LEMMA BriefStays ==
    ASSUME BriefInv, UNCHANGED <<ids, prompt, cache, excused>>,
           user' = user \/ (user # None /\ user' # None /\ user'.id = user.id),
           \A s \in Slots : req[s].at = "invalidate" => req'[s] = req[s]
    PROVE  BriefInv'
BY DEF BriefInv, OthersExcused, OwnCurrent, Stale

LEMMA SaveUserBrief ==
    ASSUME Typed, IdsKnown, BriefInv, NEW s \in Slots, NEW copy \in Users, copy.id <= ids,
           req[s].at \in {"profile", "settings"}, SaveUser(s, copy)
    PROVE  BriefInv'
<1>1. /\ UNCHANGED <<ids, prompt, cache, excused>>
      /\ \A t \in Slots : req[t].at = "invalidate" => req'[t] = req[t]
  BY DEF SaveUser, Typed
<1>2. CASE user = None
  <2>1. user' = copy
    BY <1>2 DEF SaveUser
  <2>2. \A k \in Keys : k[1] <= ids => k \in excused
    BY <1>2 DEF BriefInv, OthersExcused
  <2>3. OthersExcused'
    BY <1>1, <2>2 DEF OthersExcused
  <2>4. Stale(copy.id, prompt) \subseteq excused
    BY <2>2 DEF Stale
  <2> QED
    BY <1>1, <2>1, <2>3, <2>4 DEF BriefInv, OwnCurrent, Stale
<1>3. CASE user # None
  BY <1>1, <1>3, BriefStays DEF SaveUser
<1> QED
  BY <1>2, <1>3

LEMMA BriefRequests ==
    ASSUME Typed, IdsKnown, BriefInv, NEW s \in Slots, Request(s) PROVE BriefInv'
<1>0. req \in [Slots -> ReqStates] /\ ids \in Nat /\ cache \in [Keys -> Prompts \cup {None}]
  BY DEF Typed, TypedAccount, TypedBrief
<1>1. CASE ProvisionNewUser(s)
  <2>1. UNCHANGED <<prompt, cache, excused>> /\ req[s].at = "user"
    BY <1>1 DEF ProvisionNewUser
  <2>2. CASE user = None /\ ids' = ids + 1 /\ user' \in [id : {ids + 1}, zone : Zones]
    <3>1. user'.id = ids + 1
      BY <2>2
    <3>2. user' # None
      <4>1. [Next]_vars
        BY <1>1 DEF Next, Request
      <4>2. ids' \in 0..MaxUsers
        BY <4>1, TypedSteps DEF Typed, TypedAccount
      <4> QED
        BY <1>0, <2>2, <4>2 DEF Users
    <3>3. \A k \in Keys : k[1] \in Nat /\ (k[1] <= ids => k \in excused)
      BY <2>2 DEF BriefInv, OthersExcused, Keys
    <3>4. OthersExcused'
      BY <1>0, <2>1, <2>2, <3>1, <3>2, <3>3 DEF OthersExcused
    <3>5. Stale(user'.id, prompt) = {}
      BY <1>0, <3>1, <3>3 DEF Stale, IdsKnown
    <3> QED
      BY <2>1, <3>4, <3>5 DEF BriefInv, OwnCurrent, Stale
  <2>3. CASE UNCHANGED <<ids, user>> /\ Ends(s)
    BY <1>0, <2>1, <2>3, BriefStays
  <2> QED
    BY <1>1, <2>2, <2>3 DEF ProvisionNewUser
<1>2. CASE UpdateReturningUser(s)
  <2>1. CASE \E zone \in Zones \ {req[s].copy.zone} : SaveUser(s, [req[s].copy EXCEPT !.zone = zone])
    <3>1. req[s].copy.id <= ids /\ \A zone : [req[s].copy EXCEPT !.zone = zone].id = req[s].copy.id
      BY <1>2, ZoneCopies DEF UpdateReturningUser, IdsKnown, Users
    <3> QED
      BY <1>2, <2>1, <3>1, ZoneCopies, SaveUserBrief DEF UpdateReturningUser
  <2>2. CASE Ends(s) /\ UNCHANGED <<clock, Account, Report, Brief, faults, parted>>
    <3>1. \A t \in Slots : req[t].at = "invalidate" => req'[t] = req[t]
      BY <1>0, <1>2, <2>2 DEF UpdateReturningUser
    <3> QED
      BY <2>2, <3>1, BriefStays
  <2> QED
    BY <1>2, <2>1, <2>2 DEF UpdateReturningUser
<1>3. CASE UpdateSettings(s)
  <2>1. req[s].copy.id <= ids /\ \A zone : [req[s].copy EXCEPT !.zone = zone].id = req[s].copy.id
    BY <1>3, ZoneCopies DEF UpdateSettings, IdsKnown, Users
  <2> QED
    BY <1>3, <2>1, ZoneCopies, SaveUserBrief DEF UpdateSettings
<1>4. CASE DeleteAccount(s)
  <2>1. UNCHANGED <<ids, cache>> /\ \A t \in Slots : req[t].at = "invalidate" => req'[t] = req[t]
    BY <1>0, <1>4 DEF DeleteAccount
  <2>2. CASE user # None /\ user.id = req[s].id
    <3>1. user' = None /\ excused' = excused \cup {k \in Keys : k[1] = user.id}
      BY <1>4, <2>2 DEF DeleteAccount
    <3> QED
      BY <2>1, <3>1 DEF BriefInv, OthersExcused, OwnCurrent
  <2>3. CASE ~(user # None /\ user.id = req[s].id)
    BY <1>4, <2>1, <2>3, BriefStays DEF DeleteAccount
  <2> QED
    BY <2>2, <2>3
<1>5. CASE CacheBrief(s)
  <2> DEFINE key == <<req[s].id, req[s].date>>
  <2>1. /\ UNCHANGED <<user, ids, prompt>>
        /\ cache' = [cache EXCEPT ![key] = req[s].prompt]
        /\ excused' = IF req[s].prompt = prompt THEN excused ELSE excused \cup {key}
    BY <1>5 DEF CacheBrief
  <2>2. \A t \in Slots : req[t].at = "invalidate" => req'[t] = req[t]
    BY <1>0, <1>5 DEF CacheBrief
  <2>3. OthersExcused'
    BY <2>1 DEF BriefInv, OthersExcused
  <2> HIDE DEF key
  <2>4. excused \subseteq excused'
    BY <2>1
  <2>5. \A id : Stale(id, prompt)' \subseteq Stale(id, prompt) \cup excused'
    BY <1>0, <2>1 DEF Stale
  <2> QED
    BY <2>1, <2>2, <2>3, <2>4, <2>5 DEF BriefInv, OwnCurrent
<1>6. CASE UpsertCustomPrompt(s)
  <2>1. /\ UNCHANGED <<user, ids, excused>> /\ user # None
        /\ req' = [req EXCEPT ![s] = [at |-> "invalidate", id |-> user.id, zone |-> user.zone]]
    BY <1>6 DEF UpsertCustomPrompt
  <2>2. req'[s].at = "invalidate" /\ req'[s].id = user.id
    BY <1>0, <2>1
  <2> QED
    BY <2>1, <2>2 DEF BriefInv, OthersExcused, OwnCurrent
<1>7. CASE InvalidateToday(s)
  <2> DEFINE key == <<req[s].id, LocalDate(clock, req[s].zone)>>
  <2>1. UNCHANGED <<user, ids, prompt>> /\ req' = [req EXCEPT ![s] = Idle]
    BY <1>7 DEF InvalidateToday, Invalidates
  <2>0. PICK v, gone : v = req[s].id /\ gone = key
    OBVIOUS
  <2> HIDE DEF key
  <2>2. /\ \A k \in Keys : cache'[k] = cache[k] \/ cache'[k] = None
        /\ Stale(v, prompt)' \subseteq excused' /\ excused \subseteq excused'
    <3>1. CASE /\ cache' = [cache EXCEPT ![gone] = None]
               /\ excused' = excused \cup (Stale(v, prompt) \ {gone})
      BY <1>0, <2>1, <3>1 DEF Stale
    <3>2. CASE UNCHANGED cache /\ excused' = excused \cup Stale(v, prompt)
      BY <2>1, <3>2 DEF Stale
    <3> QED
      BY <1>7, <2>0, <3>1, <3>2 DEF InvalidateToday, Invalidates, key
  <2>3. \A id : Stale(id, prompt)' \subseteq Stale(id, prompt)
    BY <2>1, <2>2 DEF Stale
  <2>4. OthersExcused'
    BY <2>1, <2>2 DEF BriefInv, OthersExcused
  <2>5. \A t \in Slots \ {s} : req'[t] = req[t]
    BY <1>0, <2>1
  <2>6. OwnCurrent'
    <3>1. CASE user # None /\ user.id = v
      BY <2>1, <2>2, <3>1 DEF OwnCurrent
    <3>2. CASE ~(user # None /\ user.id = v)
      BY <2>0, <2>1, <2>2, <2>3, <2>5, <3>2 DEF BriefInv, OwnCurrent
    <3> QED
      BY <3>1, <3>2
  <2> QED
    BY <2>4, <2>6 DEF BriefInv
<1>8. CASE \/ SignInWithApple(s) \/ SeedDefaultCalendar(s) \/ RequestSettings(s)
           \/ RequestDeletion(s) \/ RequestReportSettings(s) \/ UpdateReportSettings(s)
           \/ GetBrief(s) \/ GenerateBrief(s)
  <2>1. UNCHANGED <<user, ids, prompt, cache, excused>>
    BY <1>8 DEF SignInWithApple, SeedDefaultCalendar, RequestSettings, RequestDeletion,
       RequestReportSettings, UpdateReportSettings, GetBrief, GenerateBrief
  <2>2. \A t \in Slots : req[t].at = "invalidate" => req'[t] = req[t]
    BY <1>0, <1>8 DEF SignInWithApple, SeedDefaultCalendar, RequestSettings, RequestDeletion,
       RequestReportSettings, UpdateReportSettings, GetBrief, GenerateBrief, Idle
  <2> QED
    BY <2>1, <2>2, BriefStays
<1> QED
  BY <1>1, <1>2, <1>3, <1>4, <1>5, <1>6, <1>7, <1>8 DEF Request

LEMMA BriefSteps == Typed /\ IdsKnown /\ BriefInv /\ [Next]_vars => BriefInv'
<1> SUFFICES ASSUME Typed, IdsKnown, BriefInv, [Next]_vars PROVE BriefInv'
  OBVIOUS
<1>1. ASSUME NEW i \in Instances, Sweeps(i) PROVE BriefInv'
  <2>1. UNCHANGED <<user, ids, prompt, cache, excused, req>>
    BY <1>1 DEF Sweeps, Sweep, CheckDue, GenerateReport, MarkDay, SendReport, RollBack
  <2> QED
    BY <2>1, BriefStays
<1>2. CASE LinkChat \/ Tick \/ UNCHANGED vars
  BY <1>2, BriefStays DEF LinkChat, Tick, vars
<1> QED
  BY <1>1, <1>2, BriefRequests DEF Next

\* A cached brief follows the current prompt once no invalidation is under way, but for
\* the briefs that missed the change.
THEOREM BriefCurrentHolds == Spec => []BriefCurrent
<1>1. Init => Typed /\ IdsKnown /\ BriefInv
  BY TypedStarts, IdsStart, BriefStarts
<1>2. Typed /\ IdsKnown /\ BriefInv /\ [Next]_vars => (Typed /\ IdsKnown /\ BriefInv)'
  BY TypedSteps, IdsSteps, BriefSteps
<1>3. Typed /\ IdsKnown /\ BriefInv => BriefCurrent
  BY BriefForms
<1> QED
  BY <1>1, <1>2, <1>3, PTL DEF Spec

-----------------------------------------------------------------------------
(* One report a day                                                        *)

Fresh(i) == sweep[i].at \in {"generate", "mark"}
Closing(i) == sweep[i].at \in {"send", "rollback"}
Working(i) == Fresh(i) \/ Closing(i)

\* No sweep finds the day due: it is marked, or gone by.
Over(d) == (report # None /\ report.last = d) \/ d < Today

\* One sweep at most is at a user's day, none at a day whose report was sent.
DayAlone ==
    /\ \A i, j \in Instances :
         Working(i) /\ Working(j) /\ sweep[i].id = sweep[j].id /\ sweep[i].date = sweep[j].date => i = j
    /\ \A i \in Instances : Working(i) => sent[<<sweep[i].id, sweep[i].date>>] = 0
    /\ \A k \in Keys : sent[k] <= 1

\* The user's days: the mark and the sweeps are at none to come, the mark that a sweep
\* is to replace is of a day before, and the days that a sweep marked or that were sent
\* are over.
OwnDays ==
    user # None =>
        /\ report # None /\ report.last # None => report.last <= Today
        /\ \A i \in Instances : Working(i) /\ sweep[i].id = user.id =>
             /\ sweep[i].date <= Today
             /\ Fresh(i) /\ sweep[i].read.last # None => sweep[i].read.last < sweep[i].date
             /\ Closing(i) => sweep[i].read.last = sweep[i].date /\ Over(sweep[i].date)
        /\ \A k \in Keys : k[1] = user.id /\ sent[k] > 0 => Over(k[2])

DayInv == DayAlone /\ OwnDays

Clean == ~parted /\ ~overlapped /\ ~travelled /\ ~reborn

LEMMA DayStarts == Init => DayInv
BY DEF Init, DayInv, DayAlone, OwnDays, Working, Fresh, Closing, Idle, DefaultReport

LEMMA DayTypes ==
    ASSUME Typed
    PROVE  /\ Days \subseteq Int /\ sent \in [Keys -> Nat]
           /\ user # None => user.zone \in Zones /\ user.id \in 1..MaxUsers /\ Today \in Days
           /\ report # None => report \in Reports /\ report.last \in Days \cup {None}
           /\ \A i \in Instances : Working(i) =>
                /\ sweep[i] \in AtWork /\ sweep[i].date \in Days
                /\ sweep[i].read \in Reports /\ sweep[i].read.last \in Days \cup {None}
                /\ <<sweep[i].id, sweep[i].date>> \in Keys
<1>1. user # None => user.zone \in Zones /\ user.id \in 1..MaxUsers
  BY DEF Typed, TypedAccount, Users
<1>2. user # None => Today \in Days
  BY <1>1, LocalDates DEF Typed, TypedAccount, Today
<1>3. report # None => report \in Reports /\ report.last \in Days \cup {None}
  BY DEF Typed, TypedReport, Reports
<1>4. ASSUME NEW i \in Instances, Working(i)
      PROVE  /\ sweep[i] \in AtWork /\ sweep[i].date \in Days
             /\ sweep[i].read \in Reports /\ sweep[i].read.last \in Days \cup {None}
             /\ <<sweep[i].id, sweep[i].date>> \in Keys
  <2>1. sweep[i] \in AtWork
    BY <1>4, AtWorkFields DEF Working, Fresh, Closing
  <2> QED
    BY <2>1 DEF AtWork, Reports, Keys
<1> QED
  BY <1>1, <1>2, <1>3, <1>4 DEF Days, Typed, TypedReport

\* A step that leaves the rows alone, and every sweep as it is, as far, or ended.
LEMMA DayStays ==
    ASSUME DayInv, UNCHANGED <<clock, user, report, sent>>,
           \A i \in Instances : Working(i)' =>
               /\ sweep'[i].id = sweep[i].id /\ sweep'[i].date = sweep[i].date
               /\ sweep'[i].read = sweep[i].read
               /\ Fresh(i)' = Fresh(i) /\ Closing(i)' = Closing(i)
    PROVE  DayInv'
<1>1. \A i \in Instances : Working(i)' => Working(i)
  BY DEF Working
<1>2. Today' = Today /\ \A d : Over(d)' = Over(d)
  BY DEF Today, Over
<1>3. DayAlone'
  BY <1>1 DEF DayInv, DayAlone
<1>4. OwnDays'
  BY <1>1, <1>2 DEF DayInv, OwnDays
<1> QED
  BY <1>3, <1>4 DEF DayInv

\* A request moves the user's row, while no copy of it is saved over a newer one, by the
\* deletion and the first sign-in only, and keeps the mark of a row that stays.
LEMMA RequestsKeepUser ==
    ASSUME Typed, AccountInv, NEW s \in Slots, Request(s), ~parted', ~travelled', ~reborn'
    PROVE  /\ UNCHANGED clock
           /\ user' = user \/ user' = None \/ (user = None /\ user'.id = ids + 1)
           /\ user' = user /\ user # None /\ report # None =>
                report' # None /\ report'.last = report.last
<1>1. ASSUME NEW copy \in Users, SaveUser(s, copy)
      PROVE  UNCHANGED <<clock, user, report>>
  <2>1. user' = user
    BY <1>1, Zenon DEF SaveUser
  <2> QED
    BY <1>1, <2>1 DEF SaveUser
<1>2. CASE ProvisionNewUser(s)
  BY <1>2 DEF ProvisionNewUser
<1>3. CASE UpdateReturningUser(s) \/ UpdateSettings(s)
  <2>1. UNCHANGED <<clock, user, report>> \/ \E copy \in Users : SaveUser(s, copy)
    BY <1>3, ZoneCopies DEF UpdateReturningUser, UpdateSettings
  <2> QED
    BY <1>1, <2>1
<1>4. CASE DeleteAccount(s)
  BY <1>4 DEF DeleteAccount
<1>5. CASE RequestReportSettings(s)
  BY <1>5 DEF RequestReportSettings
<1>6. CASE UpdateReportSettings(s)
  <2> DEFINE copy == [req[s].read EXCEPT !.enabled = req[s].enabled, !.time = req[s].time]
  <2>1. copy.last = req[s].read.last /\ copy # None
    <3>1. req[s] \in [at : {"report"}, id : 1..MaxUsers, enabled : BOOLEAN, time : Minutes,
                      read : Reports]
      BY <1>6 DEF UpdateReportSettings, Typed, ReqStates, Idle
    <3> QED
      BY <3>1 DEF Reports
  <2> HIDE DEF copy
  <2>2. UNCHANGED report \/ SaveReport(req[s].id, req[s].read, copy)
    BY <1>6 DEF UpdateReportSettings, copy
  <2>3. UNCHANGED report \/ (report = req[s].read /\ report' = copy)
    BY <2>2, CleanSave DEF SaveReport
  <2> QED
    BY <1>6, <2>1, <2>3 DEF UpdateReportSettings
<1>7. CASE \/ SignInWithApple(s) \/ SeedDefaultCalendar(s) \/ RequestSettings(s)
           \/ RequestDeletion(s) \/ GetBrief(s) \/ GenerateBrief(s) \/ CacheBrief(s)
           \/ UpsertCustomPrompt(s) \/ InvalidateToday(s)
  BY <1>7 DEF SignInWithApple, SeedDefaultCalendar, RequestSettings, RequestDeletion,
     GetBrief, GenerateBrief, CacheBrief, UpsertCustomPrompt, InvalidateToday, Invalidates
<1> QED
  BY <1>2, <1>3, <1>4, <1>5, <1>6, <1>7 DEF Request

LEMMA DayRequests ==
    ASSUME Typed, IdsKnown, AccountInv, DayInv, NEW s \in Slots, Request(s), Clean'
    PROVE  DayInv'
<1>1. /\ UNCHANGED <<sent, sweep>>
      /\ report' # None /\ report'.last # None =>
           /\ report # None /\ report'.last = report.last
           /\ user # None /\ user' # None /\ user'.id = user.id
  BY RequestsKeepMark DEF Clean
<1>2. /\ UNCHANGED clock
      /\ user' = user \/ user' = None \/ (user = None /\ user'.id = ids + 1)
      /\ user' = user /\ user # None /\ report # None => report' # None /\ report'.last = report.last
  BY RequestsKeepUser DEF Clean
<1>3. DayAlone'
  BY <1>1 DEF DayInv, DayAlone, Working, Fresh, Closing
<1>4. OwnDays'
  <2>1. CASE user' = None
    BY <2>1 DEF OwnDays
  <2>2. CASE user = None /\ user'.id = ids + 1
    <3>1. \A i \in Instances : Working(i) => sweep[i].id # ids + 1
      <4>1. ids \in Nat
        BY DEF Typed, TypedAccount
      <4>2. \A i \in Instances : Working(i) => sweep[i].id \in 1..MaxUsers /\ sweep[i].id <= ids
        BY DayTypes DEF IdsKnown, Working, Fresh, Closing, AtWork
      <4> QED
        BY <4>1, <4>2
    <3>2. \A k \in Keys : sent[k] > 0 => k[1] # ids + 1
      BY DEF IdsKnown, Keys, Typed, TypedAccount
    <3> QED
      BY <1>1, <2>2, <3>1, <3>2 DEF OwnDays, Working, Fresh, Closing
  <2>3. CASE user' = user /\ user # None
    <3>1. Today' = Today
      BY <1>2, <2>3 DEF Today
    <3>2. \A d : Over(d) => Over(d)'
      BY <1>2, <2>3, <3>1 DEF Over
    <3> QED
      BY <1>1, <2>3, <3>1, <3>2 DEF DayInv, OwnDays, Working, Fresh, Closing
  <2> QED
    BY <1>2, <2>1, <2>2, <2>3
<1> QED
  BY <1>3, <1>4 DEF DayInv

LEMMA DaySweeps ==
    ASSUME Typed, AccountInv, DayInv, NEW i \in Instances, Sweeps(i), Clean'
    PROVE  DayInv'
<1>1. /\ UNCHANGED <<clock, user>>
      /\ \A j \in Instances \ {i} : sweep'[j] = sweep[j]
      /\ Steps(i, Idle) => sweep'[i] = Idle
  BY SweepAdvances DEF Sweeps, Sweep, CheckDue, GenerateReport, MarkDay, SendReport, RollBack
<1>2. /\ Today' = Today
      /\ \A j \in Instances \ {i} : /\ Fresh(j)' = Fresh(j) /\ Closing(j)' = Closing(j)
                                    /\ Working(j)' = Working(j)
  BY <1>1 DEF Today, Working, Fresh, Closing
<1>3. user = None => linked = FALSE
  BY DEF AccountInv, SeedsOnce
<1>4. ASSUME UNCHANGED <<report, sent>>, Steps(i, Idle) PROVE DayInv'
  <2>1. ~Working(i)'
    BY <1>1, <1>4 DEF Working, Fresh, Closing, Idle
  <2> QED
    BY <1>1, <1>2, <1>4, <2>1, DayStays
<1>5. CASE Sweep(i)
  <2>1. sweep'[i].at = "check"
    BY <1>5 DEF Sweep, Typed, TypedReport
  <2>2. ~Working(i)'
    BY <2>1 DEF Working, Fresh, Closing
  <2> QED
    BY <1>1, <1>2, <1>5, <2>2, DayStays DEF Sweep
<1>6. CASE CheckDue(i)
  <2>1. CASE user # None /\ report # None /\ Due(report, user.zone, sweep[i].minute)
    <3> DEFINE date == LocalDate(sweep[i].minute, user.zone)
    <3>1. /\ sweep' = [sweep EXCEPT ![i] = [at |-> "generate", minute |-> sweep[i].minute, id |-> user.id,
                                            read |-> report, date |-> date]]
          /\ UNCHANGED <<report, sent>> /\ report.last # date
      BY <1>6, <2>1 DEF CheckDue, Due
    <3>2. /\ date = Today
          /\ \A j \in Instances \ {i} : Fresh(j) => sweep[j].date # date
      BY <1>6, <2>1, Zenon DEF CheckDue, Clean, Fresh
    <3> HIDE DEF date
    <3>3. /\ Fresh(i)' /\ ~Closing(i)' /\ Working(i)'
          /\ sweep'[i].id = user.id /\ sweep'[i].date = Today /\ sweep'[i].read = report
      BY <3>1, <3>2 DEF Fresh, Closing, Working, Typed, TypedReport
    <3>4. ~Over(Today) /\ <<user.id, Today>> \in Keys /\ Today \in Int
      BY <2>1, <3>1, <3>2, DayTypes DEF Over, Keys
    <3>5. \A j \in Instances \ {i} : Working(j) => sweep[j].id # user.id \/ sweep[j].date # Today
      BY <2>1, <3>2, <3>4 DEF DayInv, OwnDays, Working
    <3>6. sent[<<user.id, Today>>] = 0
      BY <2>1, <3>4, DayTypes DEF DayInv, OwnDays
    <3>7. DayAlone'
      BY <1>1, <1>2, <3>1, <3>3, <3>5, <3>6 DEF DayInv, DayAlone
    <3>8. report.last # None => report.last < Today
      BY <2>1, <3>1, <3>2, <3>4, DayTypes DEF DayInv, OwnDays
    <3>9. \A d : Over(d)' = Over(d)
      BY <1>2, <3>1 DEF Over
    <3>10. OwnDays'
      BY <1>1, <1>2, <2>1, <3>1, <3>3, <3>4, <3>8, <3>9 DEF DayInv, OwnDays
    <3> QED
      BY <3>7, <3>10 DEF DayInv
  <2>2. CASE ~(user # None /\ report # None /\ Due(report, user.zone, sweep[i].minute))
    BY <1>4, <1>6, <2>2 DEF CheckDue
  <2> QED
    BY <2>1, <2>2
<1>7. CASE GenerateReport(i)
  <2>1. CASE Steps(i, [sweep[i] EXCEPT !.at = "mark"])
    <3>1. sweep[i].at = "generate" /\ sweep[i] \in AtWork
      BY <1>7, AtWorkFields DEF GenerateReport
    <3>2. /\ sweep'[i].at = "mark" /\ sweep'[i].id = sweep[i].id
          /\ sweep'[i].date = sweep[i].date /\ sweep'[i].read = sweep[i].read
      BY <2>1, <3>1, SweepAdvances
    <3>3. Fresh(i)' = Fresh(i) /\ Closing(i)' = Closing(i)
      BY <3>1, <3>2 DEF Fresh, Closing
    <3> QED
      BY <1>1, <1>2, <1>7, <3>2, <3>3, DayStays DEF GenerateReport
  <2> QED
    BY <1>4, <1>7, <2>1 DEF GenerateReport
<1>8. CASE MarkDay(i)
  <2> DEFINE copy == [sweep[i].read EXCEPT !.last = sweep[i].date]
  <2>1. CASE Steps(i, Idle) /\ UNCHANGED report
    BY <1>4, <1>8, <2>1 DEF MarkDay
  <2>2. CASE /\ SaveReport(sweep[i].id, sweep[i].read, copy)
             /\ Steps(i, IF user # None /\ user.id = sweep[i].id
                         THEN [sweep[i] EXCEPT !.at = "send", !.read = copy] ELSE Idle)
    <3>1. CASE ~(user # None /\ user.id = sweep[i].id)
      BY <1>4, <1>8, <2>2, <3>1 DEF MarkDay, SaveReport
    <3>2. CASE user # None /\ user.id = sweep[i].id
      <4>1. /\ Fresh(i) /\ Working(i) /\ sweep[i] \in AtWork
            /\ copy \in Reports /\ copy.last = sweep[i].date
        BY <1>8, AtWorkFields DEF MarkDay, AtWork, Reports, Fresh, Working
      <4>2. report = sweep[i].read /\ report' = copy /\ UNCHANGED sent
        BY <1>8, <2>2, <3>2, CleanSave DEF SaveReport, MarkDay, Clean
      <4> HIDE DEF copy
      <4>3. /\ sweep'[i].at = "send" /\ sweep'[i].id = sweep[i].id
            /\ sweep'[i].date = sweep[i].date /\ sweep'[i].read = copy
        BY <2>2, <3>2, <4>1, SweepAdvances
      <4>4. ~Fresh(i)' /\ Closing(i)' /\ Working(i)'
        BY <4>3 DEF Fresh, Closing, Working
      <4>5. DayAlone'
        BY <1>1, <1>2, <4>1, <4>2, <4>3, <4>4 DEF DayInv, DayAlone
      <4>6. /\ sweep[i].date <= Today /\ sweep[i].date \in Int /\ Today \in Int
            /\ report # None /\ (report.last # None => report.last < sweep[i].date /\ report.last \in Int)
        BY <3>2, <4>1, <4>2, DayTypes DEF DayInv, OwnDays
      <4>7. \A d \in Days : d = sweep[i].date \/ Over(d) => Over(d)'
        <5>1. report' # None /\ report'.last = sweep[i].date
          BY <4>1, <4>2
        <5>2. \A d \in Int : Over(d) /\ d # sweep[i].date => d < Today
          BY <4>6 DEF Over
        <5> QED
          BY <1>2, <5>1, <5>2, DayTypes DEF Over
      <4>8. OwnDays'
        <5>1. report' # None /\ report'.last <= Today'
          BY <1>2, <4>1, <4>2, <4>6
        <5>2. sweep'[i].date \in Days
          BY <4>1, <4>3, DayTypes
        <5>3. \A j \in Instances : Working(j)' /\ sweep'[j].id = user.id =>
                /\ sweep'[j].date <= Today'
                /\ Fresh(j)' /\ sweep'[j].read.last # None => sweep'[j].read.last < sweep'[j].date
                /\ Closing(j)' => sweep'[j].read.last = sweep'[j].date
          BY <1>1, <1>2, <3>2, <4>1, <4>3, <4>4, <4>6 DEF DayInv, OwnDays
        <5>4. \A j \in Instances : Working(j)' /\ sweep'[j].id = user.id /\ Closing(j)' =>
                /\ sweep'[j].date \in Days
                /\ sweep'[j].date = sweep[i].date \/ Over(sweep'[j].date)
          BY <1>1, <1>2, <3>2, <4>3, <5>2, DayTypes DEF DayInv, OwnDays
        <5>5. \A k \in Keys : k[1] = user.id /\ sent'[k] > 0 => Over(k[2])'
          BY <3>2, <4>2, <4>7 DEF DayInv, OwnDays, Keys
        <5> QED
          BY <1>1, <4>7, <5>1, <5>3, <5>4, <5>5 DEF OwnDays
      <4> QED
        BY <4>5, <4>8 DEF DayInv
    <3> QED
      BY <3>1, <3>2
  <2> QED
    BY <1>8, <2>1, <2>2 DEF MarkDay
<1>9. CASE SendReport(i)
  <2>1. Closing(i) /\ Working(i) /\ sweep[i] \in AtWork /\ UNCHANGED report
    BY <1>9, AtWorkFields DEF SendReport, Closing, Working
  <2>2. CASE linked /\ user.id = sweep[i].id
    <3>1. user # None /\ Steps(i, Idle) /\ ~Working(i)'
      BY <1>1, <1>3, <1>9, <2>2 DEF SendReport, Working, Fresh, Closing, Idle
    <3>2. CASE UNCHANGED sent
      BY <1>4, <2>1, <3>1, <3>2
    <3>3. CASE sent' = [sent EXCEPT ![<<sweep[i].id, sweep[i].date>>] = @ + 1]
      <4>1. PICK key : key = <<sweep[i].id, sweep[i].date>>
        OBVIOUS
      <4>2. key \in Keys /\ sent \in [Keys -> Nat] /\ sent[key] = 0
        BY <2>1, <4>1, DayTypes DEF DayInv, DayAlone
      <4>3. sent'[key] = 1 /\ \A k \in Keys : k # key => sent'[k] = sent[k]
        BY <3>3, <4>1, <4>2
      <4>4. \A j \in Instances : Working(j)' =>
              /\ j # i /\ sweep'[j] = sweep[j] /\ Working(j)
              /\ <<sweep[j].id, sweep[j].date>> \in Keys /\ <<sweep[j].id, sweep[j].date>> # key
        BY <1>1, <1>2, <2>1, <3>1, <4>1, DayTypes DEF DayInv, DayAlone
      <4>5. DayAlone'
        <5>1. ASSUME NEW j \in Instances, Working(j)'
              PROVE  sent'[<<sweep'[j].id, sweep'[j].date>>] = 0
          <6>1. PICK k : k = <<sweep[j].id, sweep[j].date>>
            OBVIOUS
          <6>2. k \in Keys /\ k # key /\ sent[k] = 0
            BY <4>4, <5>1, <6>1 DEF DayInv, DayAlone
          <6>3. sent'[k] = 0
            BY <4>3, <6>2
          <6> QED
            BY <4>4, <5>1, <6>1, <6>3
        <5>2. \A k \in Keys : sent'[k] <= 1
          BY <4>3 DEF DayInv, DayAlone
        <5>3. \A j, m \in Instances : Working(j)' /\ Working(m)' /\ sweep'[j].id = sweep'[m].id
                                      /\ sweep'[j].date = sweep'[m].date => j = m
          BY <4>4 DEF DayInv, DayAlone
        <5> QED
          BY <5>1, <5>2, <5>3 DEF DayAlone
      <4>6. \A d : Over(d)' = Over(d)
        BY <1>2, <2>1 DEF Over
      <4>7. key[1] = user.id => Over(key[2])
        BY <2>1, <3>1, <4>1 DEF DayInv, OwnDays
      <4>8. OwnDays'
        BY <1>1, <1>2, <2>1, <4>3, <4>4, <4>6, <4>7 DEF DayInv, OwnDays
      <4> QED
        BY <4>5, <4>8 DEF DayInv
    <3> QED
      BY <1>9, <2>2, <3>2, <3>3 DEF SendReport
  <2>3. CASE ~(linked /\ user.id = sweep[i].id)
    <3>1. Steps(i, [sweep[i] EXCEPT !.at = "rollback"]) /\ UNCHANGED sent
      BY <1>9, <2>3 DEF SendReport
    <3>2. /\ sweep[i].at = "send"
          /\ sweep'[i].at = "rollback" /\ sweep'[i].id = sweep[i].id
          /\ sweep'[i].date = sweep[i].date /\ sweep'[i].read = sweep[i].read
      BY <1>9, <2>1, <3>1, SweepAdvances DEF SendReport
    <3>3. Fresh(i)' = Fresh(i) /\ Closing(i)' = Closing(i)
      BY <3>2 DEF Fresh, Closing
    <3> QED
      BY <1>1, <1>2, <2>1, <3>1, <3>2, <3>3, DayStays
  <2> QED
    BY <2>2, <2>3
<1>10. CASE RollBack(i)
  <2> DEFINE copy == [sweep[i].read EXCEPT !.last = None]
  <2>1. CASE Steps(i, Idle) /\ UNCHANGED report
    BY <1>4, <1>10, <2>1 DEF RollBack
  <2>2. CASE SaveReport(sweep[i].id, sweep[i].read, copy) /\ Steps(i, Idle)
    <3>1. CASE ~(user # None /\ user.id = sweep[i].id)
      BY <1>4, <1>10, <2>2, <3>1 DEF RollBack, SaveReport
    <3>2. CASE user # None /\ user.id = sweep[i].id
      <4>1. Closing(i) /\ Working(i) /\ sweep[i] \in AtWork /\ copy \in Reports /\ copy.last = None
        BY <1>10, AtWorkFields DEF RollBack, AtWork, Reports, Closing, Working
      <4>2. report = sweep[i].read /\ report' = copy /\ UNCHANGED sent
        BY <1>10, <2>2, <3>2, CleanSave DEF SaveReport, RollBack, Clean
      <4> HIDE DEF copy
      <4>3. ~Working(i)'
        BY <1>1, <2>2 DEF Working, Fresh, Closing, Idle
      <4>4. DayAlone'
        BY <1>1, <1>2, <4>2, <4>3 DEF DayInv, DayAlone
      <4>5. report.last = sweep[i].date
        BY <3>2, <4>1, <4>2 DEF DayInv, OwnDays
      <4>6. \A d : d # sweep[i].date /\ Over(d) => Over(d)'
        BY <1>2, <4>5 DEF Over
      <4>7. \A j \in Instances : Working(j)' =>
              /\ sweep'[j] = sweep[j] /\ Working(j) /\ Fresh(j)' = Fresh(j) /\ Closing(j)' = Closing(j)
              /\ sweep[j].id # user.id \/ sweep[j].date # sweep[i].date
        BY <1>1, <1>2, <3>2, <4>1, <4>3 DEF DayInv, DayAlone
      <4>8. \A k \in Keys : k[1] = user.id /\ sent[k] > 0 => k[2] # sweep[i].date
        BY <3>2, <4>1 DEF DayInv, DayAlone, Keys
      <4>9. OwnDays'
        BY <1>1, <1>2, <4>1, <4>2, <4>6, <4>7, <4>8 DEF DayInv, OwnDays
      <4> QED
        BY <4>4, <4>9 DEF DayInv
    <3> QED
      BY <3>1, <3>2
  <2> QED
    BY <1>10, <2>1, <2>2 DEF RollBack
<1> QED
  BY <1>5, <1>6, <1>7, <1>8, <1>9, <1>10 DEF Sweeps

LEMMA DaySteps ==
    Typed /\ IdsKnown /\ AccountInv /\ (Clean => DayInv) /\ [Next]_vars => (Clean => DayInv)'
<1> SUFFICES ASSUME Typed, IdsKnown, AccountInv, Clean => DayInv, [Next]_vars, Clean'
             PROVE  DayInv'
  OBVIOUS
<1>1. DayInv
  BY RacesStay, Zenon DEF Clean
<1>2. CASE \E s \in Slots : Request(s)
  BY <1>1, <1>2, DayRequests
<1>3. CASE \E i \in Instances : Sweeps(i)
  BY <1>1, <1>3, DaySweeps
<1>4. CASE LinkChat \/ UNCHANGED vars
  BY <1>1, <1>4, DayStays DEF LinkChat, vars, Working, Fresh, Closing
<1>5. CASE Tick
  <2>1. UNCHANGED <<user, report, sent, sweep>> /\ clock' = clock + 1 /\ clock < MaxClock
    BY <1>5 DEF Tick
  <2>2. DayAlone'
    BY <1>1, <2>1 DEF DayInv, DayAlone, Working, Fresh, Closing
  <2>3. user # None => Today <= Today' /\ Today \in Int /\ Today' \in Int
    <3>1. clock \in 0..MaxClock /\ clock' \in 0..MaxClock /\ clock <= clock'
      BY <2>1 DEF Typed, TypedAccount
    <3> QED
      BY <2>1, <3>1, DayTypes, LaterDates, LocalDates DEF Today, Days
  <2>4. \A d \in Days : user # None /\ Over(d) => Over(d)'
    BY <2>1, <2>3, DayTypes DEF Over
  <2>5. OwnDays'
    <3>1. user # None /\ report # None /\ report.last # None => report.last <= Today'
      BY <1>1, <2>3, DayTypes DEF DayInv, OwnDays
    <3>2. ASSUME NEW i \in Instances, user # None, Working(i), sweep[i].id = user.id
          PROVE  /\ sweep[i].date <= Today'
                 /\ Fresh(i) /\ sweep[i].read.last # None => sweep[i].read.last < sweep[i].date
                 /\ Closing(i) => sweep[i].read.last = sweep[i].date
                 /\ \A d : d = sweep[i].date /\ Closing(i) => Over(d)'
      <4>1. sweep[i].date \in Days /\ sweep[i].date \in Int /\ sweep[i].date <= Today
        BY <1>1, <3>2, DayTypes DEF DayInv, OwnDays
      <4>2. sweep[i].date <= Today'
        BY <2>3, <3>2, <4>1
      <4>3. Closing(i) => Over(sweep[i].date)
        BY <1>1, <3>2 DEF DayInv, OwnDays
      <4>4. \A d : d = sweep[i].date /\ Closing(i) => Over(d)'
        BY <2>4, <3>2, <4>1, <4>3
      <4> QED
        BY <1>1, <3>2, <4>2, <4>4 DEF DayInv, OwnDays
    <3>3. \A k \in Keys : user # None /\ k[1] = user.id /\ sent[k] > 0 => Over(k[2])'
      BY <1>1, <2>4 DEF DayInv, OwnDays, Keys
    <3> QED
      BY <2>1, <3>1, <3>2, <3>3 DEF OwnDays, Working, Fresh, Closing
  <2> QED
    BY <2>2, <2>5 DEF DayInv
<1> QED
  BY <1>2, <1>3, <1>4, <1>5 DEF Next

\* A user gets one report a local day at most, but for the races the property names.
THEOREM OncePerDayHolds == Spec => []OncePerDay
<1>1. Init => Typed /\ IdsKnown /\ AccountInv /\ (Clean => DayInv)
  BY TypedStarts, IdsStart, AccountStarts, DayStarts
<1>2. Typed /\ IdsKnown /\ AccountInv /\ (Clean => DayInv) /\ [Next]_vars
      => (Typed /\ IdsKnown /\ AccountInv /\ (Clean => DayInv))'
  BY TypedSteps, IdsSteps, AccountSteps, DaySteps
<1>3. (Clean => DayInv) => OncePerDay
  BY Zenon DEF Clean, DayInv, DayAlone, OncePerDay
<1> QED
  BY <1>1, <1>2, <1>3, PTL DEF Spec

=============================================================================
