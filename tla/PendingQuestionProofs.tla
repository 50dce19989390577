----------------------- MODULE PendingQuestionProofs -----------------------
(***************************************************************************)
(* Theorems about the user's lock and about the question it protects, for  *)
(* any callers, tokens and intervals, every set of rows and inputs and     *)
(* every number of rejected calls and restarts.                            *)
(*                                                                         *)
(* The claim alone gives neither one resume per question nor a question    *)
(* that stays closed: attachQuestionMessageId saves the whole row, so its  *)
(* read and its write must not straddle a claim, and only the user's lock  *)
(* keeps them apart.                                                       *)
(***************************************************************************)
EXTENDS PendingQuestion, UserLock, TLAPS

-----------------------------------------------------------------------------
(* The lock.                                                               *)

\* A caller has a token exactly while it is inside runExclusive, only tokens
\* that were issued are in use, and only work in progress is watched.
HandlesMatch ==
    /\ key \in issued \cup {NoToken}
    /\ \A c \in Callers :
        /\ held[c] \in issued \cup {NoToken}
        /\ at[c] = "idle" <=> held[c] = NoToken
        /\ c \in watching => at[c] = "working"

\* The inductive invariant of every run, timely or not.
OwnerInv == LockTypeOK /\ HandlesMatch /\ OneOwner

\* Handles and issued tokens stay consistent, and no two callers ever have the
\* same token, whatever expires, crashes or is refused.
THEOREM OwnerInvariant == LockSpec => []OwnerInv
<1>1. LockInit => OwnerInv
  BY LockConfig DEF LockInit, OwnerInv, LockTypeOK, HandlesMatch, OneOwner
<1>2. OwnerInv /\ [LockNext]_lockVars => OwnerInv'
  <2> SUFFICES ASSUME OwnerInv, [LockNext]_lockVars PROVE OwnerInv'
    OBVIOUS
  <2> USE LockConfig DEF OwnerInv, LockTypeOK, HandlesMatch, OneOwner
  <2>1. CASE Tick
    BY <2>1 DEF Tick
  <2>2. ASSUME NEW c \in Callers, AcquireWithWatchdog(c) PROVE OwnerInv'
    <3>1. PICK t \in Tokens \ issued :
            /\ key' = t /\ expiry' = Ttl
            /\ issued' = issued \cup {t} /\ held' = [held EXCEPT ![c] = t]
      BY <2>2 DEF AcquireWithWatchdog
    <3>2. LockTypeOK'
      BY <2>2, <3>1 DEF AcquireWithWatchdog
    <3>3. HandlesMatch'
      BY <2>2, <3>1 DEF AcquireWithWatchdog
    <3>4. OneOwner'
      BY <3>1
    <3>5. QED
      BY <3>2, <3>3, <3>4
  <2>3. ASSUME NEW c \in Callers, Renew(c) PROVE OwnerInv'
    BY <2>3 DEF Renew
  <2>4. ASSUME NEW c \in Callers, RenewFault(c) PROVE OwnerInv'
    BY <2>4 DEF RenewFault
  <2>5. ASSUME NEW c \in Callers, FinishWork(c) PROVE OwnerInv'
    BY <2>5 DEF FinishWork
  <2>6. ASSUME NEW c \in Callers, Release(c) PROVE OwnerInv'
    BY <2>6 DEF Release
  <2>7. ASSUME NEW c \in Callers, ReleaseFault(c) PROVE OwnerInv'
    BY <2>7 DEF ReleaseFault
  <2>8. ASSUME NEW c \in Callers, ProcessDies(c) PROVE OwnerInv'
    BY <2>8 DEF ProcessDies
  <2>9. CASE UNCHANGED lockVars
    BY <2>9 DEF lockVars
  <2>10. QED
    BY <2>1, <2>2, <2>3, <2>4, <2>5, <2>6, <2>7, <2>8, <2>9 DEF LockNext
<1>3. QED
  BY <1>1, <1>2, PTL DEF LockSpec

\* The tokens, the TTL and the counters always have the types LockTypeOK says, and
\* the key exists exactly while it has time left.
THEOREM LockTypeCorrect == LockSpec => []LockTypeOK
<1>1. OwnerInv => LockTypeOK
  BY DEF OwnerInv
<1>2. QED
  BY <1>1, OwnerInvariant, PTL

\* However late the renewals, at most one caller owns the key.
THEOREM OneOwnerHolds == LockSpec => []OneOwner
<1>1. OwnerInv => OneOwner
  BY DEF OwnerInv
<1>2. QED
  BY <1>1, OwnerInvariant, PTL

-----------------------------------------------------------------------------
\* With timely renewals a working caller always owns the key, and its next
\* renewal comes before the key expires, whenever RenewEvery < Ttl.
THEOREM LeaseHolds == LockSpec => []LeaseOutlivesRenewal
<1>1. LockInit => LeaseOutlivesRenewal
  BY DEF LockInit, LeaseOutlivesRenewal
<1>2. OwnerInv /\ LeaseOutlivesRenewal /\ [LockNext]_lockVars => LeaseOutlivesRenewal'
  <2> SUFFICES ASSUME OwnerInv, LeaseOutlivesRenewal, [LockNext]_lockVars,
                      timely', NEW d \in Callers, at'[d] = "working"
               PROVE key' = held'[d] /\ d \in watching' /\ timer'[d] < expiry'
    BY DEF LeaseOutlivesRenewal
  <2>0. timely
    BY DEF LockNext, lockVars, Tick, AcquireWithWatchdog, Renew, RenewFault, FinishWork, Release,
           ReleaseFault, ProcessDies
  <2> USE LockConfig, <2>0 DEF OwnerInv, LockTypeOK, HandlesMatch, OneOwner, LeaseOutlivesRenewal
  <2>1. CASE Tick
    BY <2>1 DEF Tick
  <2>2. ASSUME NEW c \in Callers, AcquireWithWatchdog(c)
        PROVE key' = held'[d] /\ d \in watching' /\ timer'[d] < expiry'
    BY <2>2 DEF AcquireWithWatchdog
  <2>3. ASSUME NEW c \in Callers, Renew(c)
        PROVE key' = held'[d] /\ d \in watching' /\ timer'[d] < expiry'
    BY <2>3 DEF Renew
  <2>4. ASSUME NEW c \in Callers, RenewFault(c)
        PROVE key' = held'[d] /\ d \in watching' /\ timer'[d] < expiry'
    BY <2>4 DEF RenewFault
  <2>5. ASSUME NEW c \in Callers, FinishWork(c)
        PROVE key' = held'[d] /\ d \in watching' /\ timer'[d] < expiry'
    BY <2>5 DEF FinishWork
  <2>6. ASSUME NEW c \in Callers, Release(c)
        PROVE key' = held'[d] /\ d \in watching' /\ timer'[d] < expiry'
    BY <2>6 DEF Release
  <2>7. ASSUME NEW c \in Callers, ReleaseFault(c)
        PROVE key' = held'[d] /\ d \in watching' /\ timer'[d] < expiry'
    BY <2>7 DEF ReleaseFault
  <2>8. ASSUME NEW c \in Callers, ProcessDies(c)
        PROVE key' = held'[d] /\ d \in watching' /\ timer'[d] < expiry'
    BY <2>8 DEF ProcessDies
  <2>9. CASE UNCHANGED lockVars
    BY <2>9 DEF lockVars
  <2>10. QED
    BY <2>1, <2>2, <2>3, <2>4, <2>5, <2>6, <2>7, <2>8, <2>9 DEF LockNext
<1>3. QED
  BY <1>1, <1>2, OwnerInvariant, PTL DEF LockSpec

\* Two working callers both own the key, hence have the same token, hence are
\* the same caller.
LEMMA LeaseExcludes == OwnerInv /\ LeaseOutlivesRenewal => MutualExclusion
BY LockConfig DEF OwnerInv, LockTypeOK, HandlesMatch, OneOwner, LeaseOutlivesRenewal, MutualExclusion

\* With timely renewals two turns of one user never run at the same time.
THEOREM MutualExclusionHolds == LockSpec => []MutualExclusion
BY LeaseExcludes, LeaseHolds, OwnerInvariant, PTL

\* A live key disappears only with the handle of the caller that owns it.
THEOREM OnlyHolderUnlocksHolds == LockSpec => OnlyHolderUnlocks
<1> DEFINE Step == key # NoToken /\ key' # key /\ expiry > 1
                     => \E c \in Callers : held[c] = key /\ held'[c] = NoToken
<1>1. LockTypeOK /\ [LockNext]_lockVars => [Step]_lockVars
  <2> SUFFICES ASSUME LockTypeOK, LockNext, key # NoToken, key' # key, expiry > 1
               PROVE \E c \in Callers : held[c] = key /\ held'[c] = NoToken
    OBVIOUS
  <2>1. PICK c \in Callers : Release(c)
    BY LockConfig DEF LockTypeOK, LockNext, Tick, AcquireWithWatchdog, Renew, RenewFault,
                      FinishWork, ReleaseFault, ProcessDies
  <2>2. held[c] = key /\ held'[c] = NoToken
    BY <2>1 DEF Release, LockTypeOK
  <2>3. QED
    BY <2>2
<1>2. QED
  BY <1>1, LockTypeCorrect, PTL DEF LockSpec, OnlyHolderUnlocks

-----------------------------------------------------------------------------
\* With timely renewals the lock implements the mutex its callers rely on.
THEOREM LockRefinement == LockSpec => ImplementsTurnMutex
<1> DEFINE Working == {c \in Callers : timely /\ at[c] = "working"}
<1>1. LockInit => Mutex!Init
  BY DEF LockInit, Mutex!Init
<1>2. OwnerInv /\ LeaseOutlivesRenewal /\ [LockNext]_lockVars => [Mutex!Next]_Working
  <2> SUFFICES ASSUME OwnerInv, LeaseOutlivesRenewal, [LockNext]_lockVars
               PROVE (\E c \in Callers : Mutex!Enter(c) \/ Mutex!Leave(c))
                     \/ Working' = Working
    BY DEF Mutex!Next
  <2>1. MutualExclusion
    BY LeaseExcludes
  <2>0. timely' = timely
    BY DEF LockNext, lockVars, Tick, AcquireWithWatchdog, Renew, RenewFault, FinishWork, Release,
           ReleaseFault, ProcessDies
  <2>8. CASE ~timely
    BY <2>0, <2>8
  <2> USE DEF OwnerInv, LockTypeOK, HandlesMatch
  <2>2. ASSUME NEW c \in Callers, timely, AcquireWithWatchdog(c) PROVE Mutex!Enter(c)
    <3>1. Working = {}
      BY <2>2, LockConfig DEF AcquireWithWatchdog, LeaseOutlivesRenewal
    <3>2. Working' = {c}
      BY <2>0, <2>2, <3>1 DEF AcquireWithWatchdog
    <3>3. QED
      BY <3>1, <3>2 DEF Mutex!Enter
  <2>3. ASSUME NEW c \in Callers, timely, at[c] = "working",
               at' = [at EXCEPT ![c] = "releasing"]
        PROVE Mutex!Leave(c)
    BY <2>0, <2>1, <2>3 DEF Mutex!Leave, MutualExclusion
  <2>4. ASSUME NEW c \in Callers, timely, at[c] = "working", at' = [at EXCEPT ![c] = "idle"]
        PROVE Mutex!Leave(c)
    BY <2>0, <2>1, <2>4 DEF Mutex!Leave, MutualExclusion
  <2>5. ASSUME NEW c \in Callers, at[c] = "releasing", at' = [at EXCEPT ![c] = "idle"]
        PROVE Working' = Working
    BY <2>0, <2>5
  <2>6. CASE UNCHANGED at
    BY <2>0, <2>6
  <2>7. QED
    BY <2>2, <2>3, <2>4, <2>5, <2>6, <2>8
       DEF LockNext, lockVars, Tick, Renew, RenewFault, FinishWork, Release, ReleaseFault, ProcessDies
<1>3. QED
  BY <1>1, <1>2, OwnerInvariant, LeaseHolds, PTL DEF LockSpec, ImplementsTurnMutex, Mutex!Spec

-----------------------------------------------------------------------------
(* The question.                                                           *)

\* A turn that claims or resumes a question, or asks one, knows which.
KnowsQuestion ==
    \A i \in Inputs :
        /\ pc[i] \in {"claim", "clear", "resume"} \/ kind[i] = "tap" => on[i] \in Questions
        /\ pc[i] \in {"mirror", "send", "read", "save"} => asks[i] \in Questions

Typed == TypeOK /\ KnowsQuestion

\* Under the lock one turn runs at a time.
OneTurn ==
    \A i, j \in Inputs : pc[i] \in Locked /\ pc[j] \in Locked => i = j

\* The partial unique index: the conversation has one open question.
OneOpen == \A p, q \in Open : p = q

\* A row that was claimed is closed.
ClaimCloses ==
    \A q \in Questions :
        /\ claims[q] <= 1
        /\ claims[q] = 1 => status[q] \in {"ANSWERED", "EXPIRED"}

\* A row that does not exist has no button, no pointer and no expiry, and the
\* sweep loads only rows past their expiry.
NotYetCreated ==
    /\ loaded \subseteq overdue
    /\ \A q \in Questions : status[q] = "none" => q \notin sent \cup overdue /\ hot # q

\* The question a turn is asking is untouched by the others until the turn ends:
\* no button before it is sent, no expiry, and the copy attachQuestionMessageId
\* saves is current.
AskingAlone ==
    \A i \in Inputs :
        /\ pc[i] \in {"mirror", "send", "read", "save"} =>
              asks[i] \notin overdue /\ status[asks[i]] # "none"
        /\ pc[i] = "mirror" => asks[i] \notin sent /\ status[asks[i]] = "AWAITING"
        /\ pc[i] = "send" => hot \in {None, asks[i]}
        /\ pc[i] = "save" => seen[i] = status[asks[i]]

\* A question with buttons that is still open is the one under the pointer, if any
\* is; a tap in the middle of its claim is alone with the pointer.
PointerFits ==
    /\ \A i \in Inputs : kind[i] = "tap" => on[i] \in sent
    /\ \A q \in Open \cap sent : hot \in {None, q}
    /\ ClearsOwnPointer

\* The inductive invariant behind the three safety theorems, relative to Typed.
IInv ==
    OneTurn /\ OneOpen /\ ClaimCloses /\ NotYetCreated /\ AskingAlone /\ PointerFits
-----------------------------------------------------------------------------
USE DEF rows, sweep, Trouble

\* Every variable keeps its type, and a turn in a phase about a question has one,
\* whatever the lock does.
LEMMA TypedInvariant == Spec => []Typed
<1>1. Init => Typed
  BY QuestionConstants DEF Init, Typed, TypeOK, KnowsQuestion, Status, Locked
<1>2. Typed /\ [Next]_vars => Typed'
  <2> SUFFICES ASSUME Typed, [Next]_vars PROVE Typed'
    OBVIOUS
  <2> USE QuestionConstants DEF Typed, TypeOK, KnowsQuestion, Status, Locked, Goto
  <2>1. ASSUME NEW i \in Inputs, RouteText(i) PROVE Typed'
    BY <2>1 DEF RouteText
  <2>2. ASSUME NEW i \in Inputs, NEW q \in Questions, RouteTap(i, q)
        PROVE Typed'
    BY <2>2 DEF RouteTap
  <2>3. ASSUME NEW i \in Inputs, GetDel(i) PROVE Typed'
    BY <2>3 DEF GetDel, MayStart
  <2>4. ASSUME NEW i \in Inputs, ClaimHot(i) PROVE Typed'
    BY <2>4 DEF ClaimHot, ClaimAwaiting
  <2>5. ASSUME NEW i \in Inputs, ClaimById(i) PROVE Typed'
    BY <2>5 DEF ClaimById, ClaimAwaiting, MayStart
  <2>6. ASSUME NEW i \in Inputs, ClearHot(i) PROVE Typed'
    BY <2>6 DEF ClearHot
  <2>7. ASSUME NEW i \in Inputs, ClaimFault(i) PROVE Typed'
    BY <2>7 DEF ClaimFault, Throw
  <2>8. ASSUME NEW i \in Inputs, Resume(i) PROVE Typed'
    BY <2>8 DEF Resume
  <2>9. ASSUME NEW i \in Inputs, RunSimple(i) PROVE Typed'
    BY <2>9 DEF RunSimple, MayStart
  <2>10. ASSUME NEW i \in Inputs, CreateRow(i) PROVE Typed'
    BY <2>10 DEF CreateRow
  <2>11. ASSUME NEW i \in Inputs, RowRefused(i) PROVE Typed'
    BY <2>11 DEF RowRefused
  <2>12. ASSUME NEW i \in Inputs, MirrorHot(i) PROVE Typed'
    BY <2>12 DEF MirrorHot
  <2>13. ASSUME NEW i \in Inputs, MirrorFault(i) PROVE Typed'
    BY <2>13 DEF MirrorFault, Throw
  <2>14. ASSUME NEW i \in Inputs, SendQuestion(i) PROVE Typed'
    BY <2>14 DEF SendQuestion
  <2>15. ASSUME NEW i \in Inputs, AttachRead(i) PROVE Typed'
    BY <2>15 DEF AttachRead
  <2>16. ASSUME NEW i \in Inputs, AttachSave(i) PROVE Typed'
    BY <2>16 DEF AttachSave, Open
  <2>17. ASSUME NEW i \in Inputs, AttachFault(i) PROVE Typed'
    BY <2>17 DEF AttachFault
  <2>18. ASSUME NEW i \in Inputs, Requeue(i) PROVE Typed'
    BY <2>18 DEF Requeue
  <2>19. ASSUME NEW i \in Inputs, Crash(i) PROVE Typed'
    BY <2>19 DEF Crash
  <2>20. CASE HotExpires
    BY <2>20 DEF HotExpires
  <2>21. CASE SweepRead
    BY <2>21 DEF SweepRead, Open
  <2>22. CASE SweepFault
    BY <2>22 DEF SweepFault
  <2>23. ASSUME NEW q \in Questions, Lapse(q) PROVE Typed'
    BY <2>23 DEF Lapse
  <2>24. ASSUME NEW q \in Questions, SweepSave(q) PROVE Typed'
    BY <2>24 DEF SweepSave
  <2>25. CASE UNCHANGED vars
    BY <2>25 DEF vars
  <2> QED
    BY <2>1, <2>2, <2>3, <2>4, <2>5, <2>6, <2>7, <2>8, <2>9, <2>10, <2>11, <2>12,
       <2>13, <2>14, <2>15, <2>16, <2>17, <2>18, <2>19, <2>20, <2>21, <2>22, <2>23,
       <2>24, <2>25 DEF Next, InputStep
<1> QED
  BY <1>1, <1>2, PTL DEF Spec

\* Every variable keeps its type.
THEOREM TypeCorrect == Spec => []TypeOK
BY TypedInvariant, PTL DEF Typed

\* While the user's lock excludes a second turn, nothing changes the question a turn
\* is asking before it has attached the message id, and no tap meets a pointer to
\* another question.
LEMMA ClaimInvariant == ASSUME Serialized PROVE Spec => []IInv
<1>1. Init => IInv
  BY QuestionConstants DEF Init, IInv, OneTurn, OneOpen, Open, ClaimCloses, NotYetCreated, AskingAlone,
     PointerFits, ClearsOwnPointer, Locked
<1>2. Typed /\ IInv /\ [Next]_vars => IInv'
  <2> SUFFICES ASSUME Typed, IInv, [Next]_vars PROVE IInv'
    OBVIOUS
  <2> USE Serialized, QuestionConstants
      DEF Typed, TypeOK, KnowsQuestion, IInv, OneTurn, OneOpen, Open, ClaimCloses,
          NotYetCreated, AskingAlone, PointerFits, ClearsOwnPointer, Status, Locked, Goto
  <2>1. ASSUME NEW i \in Inputs, RouteText(i) PROVE IInv'
    BY <2>1 DEF RouteText
  <2>2. ASSUME NEW i \in Inputs, GetDel(i) PROVE IInv'
    BY <2>2 DEF GetDel, MayStart
  <2>3. ASSUME NEW i \in Inputs, ClearHot(i) PROVE IInv'
    BY <2>3 DEF ClearHot
  <2>4. ASSUME NEW i \in Inputs, ClaimFault(i) PROVE IInv'
    BY <2>4 DEF ClaimFault, Throw
  <2>5. ASSUME NEW i \in Inputs, Resume(i) PROVE IInv'
    BY <2>5 DEF Resume
  <2>6. ASSUME NEW i \in Inputs, RunSimple(i) PROVE IInv'
    BY <2>6 DEF RunSimple, MayStart
  <2>7. ASSUME NEW i \in Inputs, CreateRow(i) PROVE IInv'
    BY <2>7 DEF CreateRow
  <2>8. ASSUME NEW i \in Inputs, RowRefused(i) PROVE IInv'
    BY <2>8 DEF RowRefused
  <2>9. ASSUME NEW i \in Inputs, MirrorHot(i) PROVE IInv'
    BY <2>9 DEF MirrorHot
  <2>10. ASSUME NEW i \in Inputs, MirrorFault(i) PROVE IInv'
    BY <2>10 DEF MirrorFault, Throw
  <2>11. ASSUME NEW i \in Inputs, SendQuestion(i) PROVE IInv'
    BY <2>11 DEF SendQuestion
  <2>12. ASSUME NEW i \in Inputs, AttachRead(i) PROVE IInv'
    BY <2>12 DEF AttachRead
  <2>13. ASSUME NEW i \in Inputs, AttachSave(i) PROVE IInv'
    BY <2>13 DEF AttachSave
  <2>14. ASSUME NEW i \in Inputs, AttachFault(i) PROVE IInv'
    BY <2>14 DEF AttachFault
  <2>15. ASSUME NEW i \in Inputs, Requeue(i) PROVE IInv'
    BY <2>15 DEF Requeue
  <2>16. ASSUME NEW i \in Inputs, Crash(i) PROVE IInv'
    BY <2>16 DEF Crash
  <2>17. ASSUME NEW i \in Inputs, ClaimHot(i) PROVE IInv'
    BY <2>17 DEF ClaimHot, ClaimAwaiting
  <2>18. ASSUME NEW i \in Inputs, ClaimById(i) PROVE IInv'
    BY <2>18 DEF ClaimById, ClaimAwaiting, MayStart
  <2>19. ASSUME NEW i \in Inputs, NEW q \in Questions, RouteTap(i, q) PROVE IInv'
    BY <2>19 DEF RouteTap
  <2>20. CASE HotExpires
    BY <2>20 DEF HotExpires
  <2>21. CASE SweepRead
    BY <2>21 DEF SweepRead
  <2>22. CASE SweepFault
    BY <2>22 DEF SweepFault
  <2>23. ASSUME NEW q \in Questions, Lapse(q) PROVE IInv'
    BY <2>23 DEF Lapse
  <2>24. ASSUME NEW q \in Questions, SweepSave(q) PROVE IInv'
    BY <2>24 DEF SweepSave
  <2>25. CASE UNCHANGED vars
    BY <2>25 DEF vars
  <2> QED
    BY <2>1, <2>2, <2>3, <2>4, <2>5, <2>6, <2>7, <2>8, <2>9,
       <2>10, <2>11, <2>12, <2>13, <2>14, <2>15, <2>16, <2>17, <2>18,
       <2>19, <2>20, <2>21, <2>22, <2>23, <2>24, <2>25
       DEF Next, InputStep
<1> QED
  BY <1>1, <1>2, TypedInvariant, PTL DEF Spec

\* Every question resumes the model at most once, for any number of answers, with
\* the sweep, rejected calls and restarts, as long as the user's lock holds.
THEOREM ResumedOnceHolds == ASSUME Serialized PROVE Spec => []ResumedOnce
<1>1. IInv => ResumedOnce
  BY DEF IInv, ClaimCloses, ResumedOnce
<1> QED
  BY <1>1, ClaimInvariant, PTL

\* The DEL of claimById, which compares nothing, never deletes the pointer of a
\* question other than the claimed one.
THEOREM ClearsOwnPointerHolds == ASSUME Serialized PROVE Spec => []ClearsOwnPointer
<1>1. IInv => ClearsOwnPointer
  BY DEF IInv, PointerFits
<1> QED
  BY <1>1, ClaimInvariant, PTL

\* An answered or expired question never opens again: of the writers of a status the
\* claim and the sweep only close, the insert starts from no row, and the save of
\* attachQuestionMessageId writes the status that is there.
THEOREM ClosedStaysClosedHolds == ASSUME Serialized PROVE Spec => ClosedStaysClosed
<1> DEFINE Kept == \A q \in Questions :
                     status[q] \in {"ANSWERED", "EXPIRED"} => status'[q] # "AWAITING"
<1>1. ASSUME Typed, IInv, Next PROVE Kept
  <2> USE <1>1 DEF Typed, TypeOK, KnowsQuestion, Goto
  <2>1. ASSUME NEW i \in Inputs, ClaimHot(i) \/ ClaimById(i) PROVE Kept
    BY <2>1 DEF ClaimHot, ClaimById, ClaimAwaiting, MayStart
  <2>2. ASSUME NEW i \in Inputs, CreateRow(i) PROVE Kept
    BY <2>2 DEF CreateRow
  <2>3. ASSUME NEW i \in Inputs, AttachSave(i) PROVE Kept
    BY <2>3 DEF AttachSave, IInv, AskingAlone
  <2>4. ASSUME NEW q \in Questions, SweepSave(q) PROVE Kept
    BY <2>4 DEF SweepSave
  <2>5. ASSUME UNCHANGED status PROVE Kept
    BY <2>5
  <2> QED
    BY <2>1, <2>2, <2>3, <2>4, <2>5
       DEF Next, InputStep, RouteText, RouteTap, GetDel, ClearHot, ClaimFault, Resume,
           RunSimple, RowRefused, MirrorHot, MirrorFault, SendQuestion, AttachRead,
           AttachFault, Requeue, Crash, HotExpires, SweepRead, SweepFault, Lapse
<1>2. Typed /\ IInv /\ [Next]_vars => [Kept]_vars
  BY <1>1
<1> QED
  BY <1>2, TypedInvariant, ClaimInvariant, PTL DEF Spec, ClosedStaysClosed
=============================================================================
