-------------------------- MODULE PendingQuestion --------------------------
(***************************************************************************)
(* The ask_user suspension of one user: the pending_question rows of his   *)
(* conversation in Postgres, the hot pointer assistant:ask:{userId} in     *)
(* Redis, the turns that suspend on a question or claim one, and the       *)
(* hourly sweep (pending-interaction.store.ts, pending-question-database   *)
(* and -cleanup services, the suspend and resume halves of turn-runner).   *)
(*                                                                         *)
(* An input is one message or button tap; it is routed, waits for the      *)
(* user's lock, and runs one turn.  The payload of a row is abstracted:    *)
(* saving a row writes back the status it was loaded with.                 *)
(***************************************************************************)
EXTENDS Naturals, FiniteSets

CONSTANTS
    Questions,   (* the row ids Postgres may hand out                          *)
    None,        (* no question: the pointer is absent                         *)
    Inputs,      (* the messages and taps of the user                          *)
    Serialized,  (* TRUE: the user's lock excludes a second turn; FALSE: it    *)
                 (* lapsed under a stalled holder                              *)
    MaxTrouble   (* rejected calls (to Redis or Postgres) and restarts         *)

ASSUME QuestionConstants ==
    /\ None \notin Questions
    /\ Serialized \in BOOLEAN
    /\ MaxTrouble \in Nat

VARIABLES
    status,   (* each row's status; "none": no such row yet                *)
    overdue,  (* the rows whose expiresAt has passed                       *)
    sent,     (* the questions whose buttons the user sees                 *)
    hot,      (* the row id under the pointer, or None                     *)
    kind,     (* how each input was routed                                 *)
    pc,       (* where each input stands                                   *)
    on,       (* the question each input answers                           *)
    asks,     (* the question the turn of each input suspends on           *)
    seen,     (* the status attachQuestionMessageId loaded                 *)
    claims,   (* the claims of each row that won                           *)
    resumed,  (* the questions whose tool loop was re-entered              *)
    loaded,   (* the rows the running sweep loaded and has not saved       *)
    trouble   (* rejected calls and restarts so far                        *)

vars == <<status, overdue, sent, hot, kind, pc, on, asks, seen, claims, resumed,
          loaded, trouble>>

Status == {"none", "AWAITING", "ANSWERED", "EXPIRED"}

\* The phases of a turn, all under the user's lock.
Locked == {"claim", "clear", "resume", "asking", "mirror", "send", "read", "save"}

TypeOK ==
    /\ status \in [Questions -> Status]
    /\ overdue \subseteq Questions /\ sent \subseteq Questions
    /\ hot \in Questions \cup {None}
    /\ kind \in [Inputs -> {"none", "simple", "text", "tap"}]
    /\ pc \in [Inputs -> Locked \cup {"idle", "queued", "thrown", "ignored", "done"}]
    /\ on \in [Inputs -> Questions \cup {None}] /\ asks \in [Inputs -> Questions \cup {None}]
    /\ seen \in [Inputs -> Status]
    /\ claims \in [Questions -> Nat]
    /\ resumed \subseteq Questions /\ loaded \subseteq Questions
    /\ trouble \in 0..MaxTrouble

Init ==
    /\ status = [q \in Questions |-> "none"]
    /\ overdue = {} /\ sent = {} /\ hot = None
    /\ kind = [i \in Inputs |-> "none"]
    /\ pc = [i \in Inputs |-> "idle"]
    /\ on = [i \in Inputs |-> None] /\ asks = [i \in Inputs |-> None]
    /\ seen = [i \in Inputs |-> "none"]
    /\ claims = [q \in Questions |-> 0]
    /\ resumed = {} /\ loaded = {}
    /\ trouble = 0

rows == <<status, overdue, claims, resumed>>
sweep == loaded

Open == {q \in Questions : status[q] = "AWAITING"}

Goto(i, p) == pc' = [pc EXCEPT ![i] = p]

\* Something goes wrong: a call is rejected or the process dies.
Trouble == trouble < MaxTrouble /\ trouble' = trouble + 1

\* A call is rejected; the exception leaves the turn, which gives the lock back.
Throw(i) ==
    /\ Trouble
    /\ Goto(i, "thrown")

\* Mutant of MayStart: the resume does not take the user's lock.
MayStartUnlocked(i) == pc[i] = "queued"

\* The user's lock is free for the turn of input i.
MayStart(i) ==
    /\ pc[i] = "queued"
    /\ Serialized => \A j \in Inputs : pc[j] \notin Locked
-----------------------------------------------------------------------------
(* Routing: classifyFlow.                                                   *)

\* A typed message is an answer while the pointer exists, a simple message else.
RouteText(i) ==
    /\ pc[i] = "idle"
    /\ kind' = [kind EXCEPT ![i] = IF hot = None THEN "simple" ELSE "text"]
    /\ on' = [on EXCEPT ![i] = hot]
    /\ Goto(i, "queued")
    /\ UNCHANGED <<rows, sent, hot, asks, seen, sweep, trouble>>

\* A tap names its row.
RouteTap(i, q) ==
    /\ pc[i] = "idle" /\ q \in sent
    /\ kind' = [kind EXCEPT ![i] = "tap"]
    /\ on' = [on EXCEPT ![i] = q]
    /\ Goto(i, "queued")
    /\ UNCHANGED <<rows, sent, hot, asks, seen, sweep, trouble>>
-----------------------------------------------------------------------------
(* Claiming: claimHotByUser, claimById, claimAwaiting.                      *)

\* Mutant of ClaimAwaiting: the update does not test the status.
ClaimAnyStatus(i, q, next) ==
    /\ status' = [status EXCEPT ![q] = "ANSWERED"]
    /\ claims' = [claims EXCEPT ![q] = @ + 1]
    /\ Goto(i, next)
    /\ UNCHANGED <<overdue, resumed>>

\* UPDATE ... SET status = ANSWERED WHERE id AND status = AWAITING RETURNING: a
\* winning claim goes on to next, a null claim is ignored.
ClaimAwaiting(i, q, next) ==
    /\ \/ /\ status[q] = "AWAITING"
          /\ status' = [status EXCEPT ![q] = "ANSWERED"]
          /\ claims' = [claims EXCEPT ![q] = @ + 1]
          /\ Goto(i, next)
       \/ /\ status[q] # "AWAITING"
          /\ Goto(i, "ignored")
          /\ UNCHANGED <<status, claims>>
    /\ UNCHANGED <<overdue, resumed>>

\* GETDEL of the pointer: without one the answer is ignored.
GetDel(i) ==
    /\ MayStart(i) /\ kind[i] = "text"
    /\ Goto(i, IF hot = None THEN "ignored" ELSE "claim")
    /\ on' = [on EXCEPT ![i] = IF hot = None THEN @ ELSE hot]
    /\ hot' = None
    /\ UNCHANGED <<rows, sent, kind, asks, seen, sweep, trouble>>

ClaimHot(i) ==
    /\ pc[i] = "claim"
    /\ ClaimAwaiting(i, on[i], "resume")
    /\ UNCHANGED <<sent, hot, kind, on, asks, seen, sweep, trouble>>

ClaimById(i) ==
    /\ MayStart(i) /\ kind[i] = "tap"
    /\ ClaimAwaiting(i, on[i], "clear")
    /\ UNCHANGED <<sent, hot, kind, on, asks, seen, sweep, trouble>>

\* Mutant of ClearHot: a tap after the pointer's TTL counts as not claimable.
ClearOnlyHot(i) ==
    /\ pc[i] = "clear"
    /\ hot' = None
    /\ Goto(i, IF hot = on[i] THEN "resume" ELSE "ignored")
    /\ UNCHANGED <<rows, sent, kind, on, asks, seen, sweep, trouble>>

\* The DEL of claimById names the user's pointer, whatever row is under it.
ClearHot(i) ==
    /\ pc[i] = "clear"
    /\ hot' = None
    /\ Goto(i, "resume")
    /\ UNCHANGED <<rows, sent, kind, on, asks, seen, sweep, trouble>>

ClaimFault(i) ==
    /\ pc[i] \in {"claim", "clear"}
    /\ Throw(i)
    /\ UNCHANGED <<rows, sent, hot, kind, on, asks, seen, sweep>>

\* resumeAnswer re-enters the tool loop, which may suspend on another question.
Resume(i) ==
    /\ pc[i] = "resume"
    /\ resumed' = resumed \cup {on[i]}
    /\ \E p \in {"asking", "done"} : Goto(i, p)
    /\ UNCHANGED <<status, overdue, claims, sent, hot, kind, on, asks, seen, sweep, trouble>>

\* The turn of a simple message, which may suspend too.
RunSimple(i) ==
    /\ MayStart(i) /\ kind[i] = "simple"
    /\ \E p \in {"asking", "done"} : Goto(i, p)
    /\ UNCHANGED <<rows, sent, hot, kind, on, asks, seen, sweep, trouble>>
-----------------------------------------------------------------------------
(* Suspending: suspendAndAsk, createPendingQuestion, attachQuestionMessageId. *)

\* Mutant of CreateRow: without the partial unique index.
CreateSecondRow(i) ==
    /\ pc[i] = "asking"
    /\ \E q \in Questions :
        /\ status[q] = "none"
        /\ status' = [status EXCEPT ![q] = "AWAITING"]
        /\ asks' = [asks EXCEPT ![i] = q]
    /\ Goto(i, "mirror")
    /\ UNCHANGED <<overdue, claims, resumed, sent, hot, kind, on, seen, sweep, trouble>>

\* The insert succeeds when the conversation has no AWAITING row.
CreateRow(i) ==
    /\ pc[i] = "asking" /\ Open = {}
    /\ \E q \in Questions :
        /\ status[q] = "none"
        /\ status' = [status EXCEPT ![q] = "AWAITING"]
        /\ asks' = [asks EXCEPT ![i] = q]
    /\ Goto(i, "mirror")
    /\ UNCHANGED <<overdue, claims, resumed, sent, hot, kind, on, seen, sweep, trouble>>

\* Otherwise it breaks the partial unique index and the turn throws.
RowRefused(i) ==
    /\ pc[i] = "asking" /\ Open # {}
    /\ Goto(i, "thrown")
    /\ UNCHANGED <<rows, sent, hot, kind, on, asks, seen, sweep, trouble>>

MirrorHot(i) ==
    /\ pc[i] = "mirror"
    /\ hot' = asks[i]
    /\ Goto(i, "send")
    /\ UNCHANGED <<rows, sent, kind, on, asks, seen, sweep, trouble>>

\* The row is saved or not, the pointer is not set, the question is not sent.
MirrorFault(i) ==
    /\ pc[i] \in {"asking", "mirror"}
    /\ Throw(i)
    /\ UNCHANGED <<rows, sent, hot, kind, on, asks, seen, sweep>>

\* A question with buttons is sent, and its message id must be attached; a plain
\* question, or one whose sending failed, ends the turn.
SendQuestion(i) ==
    /\ pc[i] = "send"
    /\ \/ sent' = sent \cup {asks[i]} /\ Goto(i, "read")
       \/ UNCHANGED sent /\ Goto(i, "done")
    /\ UNCHANGED <<rows, hot, kind, on, asks, seen, sweep, trouble>>

AttachRead(i) ==
    /\ pc[i] = "read"
    /\ seen' = [seen EXCEPT ![i] = status[asks[i]]]
    /\ Goto(i, "save")
    /\ UNCHANGED <<rows, sent, hot, kind, on, asks, sweep, trouble>>

\* The save writes every column that differs from the loaded row, the status
\* included; a save the unique index refuses is swallowed.
AttachSave(i) ==
    /\ pc[i] = "save"
    /\ status' = IF seen[i] = "AWAITING" /\ Open \ {asks[i]} # {}
                 THEN status ELSE [status EXCEPT ![asks[i]] = seen[i]]
    /\ Goto(i, "done")
    /\ UNCHANGED <<overdue, claims, resumed, sent, hot, kind, on, asks, seen, sweep, trouble>>

\* A rejected load or save is swallowed.
AttachFault(i) ==
    /\ pc[i] \in {"read", "save"}
    /\ Trouble
    /\ Goto(i, "done")
    /\ UNCHANGED <<rows, sent, hot, kind, on, asks, seen, sweep>>
-----------------------------------------------------------------------------
(* Time, the sweep, and the process.                                        *)

\* The debounce coordinator puts a thrown answer, or batch, back.
Requeue(i) ==
    /\ pc[i] = "thrown"
    /\ Goto(i, "queued")
    /\ UNCHANGED <<rows, sent, hot, kind, on, asks, seen, sweep, trouble>>

\* The process dies in a turn: BullMQ runs a job of the debounce queue again,
\* what the webhook worker had in hand is gone.
Crash(i) ==
    /\ pc[i] \in Locked
    /\ Trouble
    /\ \E p \in {"queued", "done"} : Goto(i, p)
    /\ UNCHANGED <<rows, sent, hot, kind, on, asks, seen, sweep>>

\* The pointer's TTL lapses.
HotExpires ==
    /\ hot # None
    /\ hot' = None
    /\ UNCHANGED <<rows, sent, kind, pc, on, asks, seen, sweep, trouble>>

\* A row reaches expiresAt: a week by default, long after its pointer and its turn.
Lapse(q) ==
    /\ status[q] = "AWAITING" /\ q \notin overdue /\ hot # q
    /\ \A i \in Inputs : pc[i] \in Locked => q \notin {on[i], asks[i]}
    /\ overdue' = overdue \cup {q}
    /\ UNCHANGED <<status, claims, resumed, sent, hot, kind, pc, on, asks, seen, sweep, trouble>>

\* sweepExpired loads the overdue AWAITING rows ...
SweepRead ==
    /\ loaded = {}
    /\ Open \cap overdue # {}
    /\ loaded' = Open \cap overdue
    /\ UNCHANGED <<rows, sent, hot, kind, pc, on, asks, seen, trouble>>

\* ... and saves them one by one; its status test reads the loaded copy.
SweepSave(q) ==
    /\ q \in loaded
    /\ status' = [status EXCEPT ![q] = "EXPIRED"]
    /\ loaded' = loaded \ {q}
    /\ UNCHANGED <<overdue, claims, resumed, sent, hot, kind, pc, on, asks, seen, trouble>>

\* A rejected save ends the sweep.
SweepFault ==
    /\ loaded # {}
    /\ Trouble
    /\ loaded' = {}
    /\ UNCHANGED <<rows, sent, hot, kind, pc, on, asks, seen>>
-----------------------------------------------------------------------------
InputStep(i) ==
    \/ GetDel(i) \/ ClaimHot(i) \/ ClaimById(i) \/ ClearHot(i) \/ ClaimFault(i)
    \/ Resume(i) \/ RunSimple(i)
    \/ CreateRow(i) \/ RowRefused(i) \/ MirrorHot(i) \/ MirrorFault(i)
    \/ SendQuestion(i) \/ AttachRead(i) \/ AttachSave(i) \/ AttachFault(i)
    \/ Requeue(i)

Next ==
    \/ \E i \in Inputs :
        RouteText(i) \/ (\E q \in Questions : RouteTap(i, q)) \/ InputStep(i) \/ Crash(i)
    \/ HotExpires \/ SweepRead \/ SweepFault
    \/ \E q \in Questions : Lapse(q) \/ SweepSave(q)

Spec == Init /\ [][Next]_vars

\* A turn that started goes on, and a queued one starts when the lock is free.
FairSpec == Spec /\ \A i \in Inputs : WF_vars(InputStep(i))
-----------------------------------------------------------------------------
\* A question resumes the model at most once, however many taps and texts answer
\* it, whatever crashes or is rejected, with the sweep running
\* (pending-interaction.store.ts:150-157; docs/adr/0010:17).
ResumedOnce == \A q \in Questions : claims[q] <= 1

\* claimById deletes the user's pointer without looking at it: it never points at
\* a question other than the claimed one (pending-interaction.store.ts:189).
ClearsOwnPointer == \A i \in Inputs : pc[i] = "clear" => hot \in {None, on[i]}

\* Until a call is rejected or the process dies.
Calm == trouble = 0

\* No step turns an answered or expired question back into an open one.
ClosedStaysClosed ==
    [][ \A q \in Questions :
          status[q] \in {"ANSWERED", "EXPIRED"} => status'[q] # "AWAITING" ]_vars

\* In calm, every claimed question re-enters the tool loop
\* (turn-runner.service.ts:651-682).
ClaimedResumes ==
    \A q \in Questions : (claims[q] > 0) ~> (q \in resumed \/ ~Calm)
-----------------------------------------------------------------------------
\* "a concurrent claim that already moved it to ANSWERED is never clobbered"
\* (pending-question-cleanup.service.ts:52-53).  The code does not keep this claim.
AnsweredIsFinal ==
    [][ \A q \in Questions : status[q] = "ANSWERED" => status'[q] = "ANSWERED" ]_vars
=============================================================================
