------------------------------ MODULE Debounce ------------------------------
(***************************************************************************)
(* The debounce layer of the assistant, for one user: the webhook worker   *)
(* that accepts his messages and answers, the Redis list that buffers the  *)
(* messages, the delayed jobs of the assistant-debounce queue, the worker  *)
(* that drains the list, and the per-user lock both workers take before a  *)
(* turn (debounce-coordinator.service.ts, message-buffer.store.ts,         *)
(* debounce.consumer.ts, webhook.consumer.ts).                             *)
(*                                                                         *)
(* Messages and answers are named by their arrival number.  Delays are     *)
(* not measured: a delayed job may fire at any time.  The lock is the      *)
(* mutex that UserLock implements; what a dead holder leaves is "orphan".  *)
(***************************************************************************)
EXTENDS Naturals, Sequences, SequencesExt

CONSTANTS
    MaxMessages,  (* simple messages the user sends                            *)
    MaxAnswers,   (* answers the user sends to ask_user questions              *)
    NoAnswer,     (* a job or a worker that carries no answer                  *)
    MaxTrouble    (* thrown turns, rejected calls (to Redis, BullMQ, Postgres), *)
                  (* restarts of the process, and turns that keep the one       *)
                  (* debounce worker longer than the buffer TTL, together       *)

ASSUME DebounceConstants ==
    /\ MaxMessages \in Nat /\ MaxAnswers \in Nat
    /\ NoAnswer \notin Nat
    /\ MaxTrouble \in Nat

Workers == {"webhook", "debounce"}
InTurn == {"running", "committed"}

VARIABLES
    arrived,    (* messages accepted so far                                     *)
    asked,      (* answers accepted so far                                      *)
    buffer,     (* the list assistant:debounce:buf:{userId}                     *)
    windowJob,  (* the job with the stable id debounce-{userId}                 *)
    afterJobs,  (* the answers (or NoAnswer) of the pending drain-after jobs    *)
    lock,       (* the holder of the user's lock                                *)
    pc,         (* where each worker stands                                     *)
    batch,      (* the messages drained and not yet disposed of                 *)
    answer,     (* the answer each worker carries                               *)
    ran,        (* the messages whose turn committed, in order                  *)
    answered,   (* the answers whose turn committed, in order                   *)
    ignored,    (* the messages whose window job BullMQ refused to add          *)
    trouble     (* thrown turns, rejected calls, restarts and long turns so far *)

vars == <<arrived, asked, buffer, windowJob, afterJobs, lock, pc, batch, answer,
          ran, answered, ignored, trouble>>

queues  == <<buffer, windowJob, afterJobs>>
history == <<arrived, asked, ran, answered, ignored>>

TypeOK ==
    /\ arrived \in 0..MaxMessages /\ asked \in 0..MaxAnswers
    /\ buffer \in Seq(1..MaxMessages) /\ batch \in Seq(1..MaxMessages)
    /\ windowJob \in {"none", "delayed", "active", "stalled", "failed"}
    /\ afterJobs \in Seq(1..MaxAnswers \cup {NoAnswer})
    /\ lock \in Workers \cup {"free", "orphan"}
    /\ pc \in [Workers -> {"idle", "other", "down", "pushed", "removed", "claimed",
                           "acquire", "requeue", "rebuffer", "arm"} \cup InTurn]
    /\ answer \in [Workers -> 1..MaxAnswers \cup {NoAnswer}]
    /\ ran \in Seq(1..MaxMessages) /\ answered \in Seq(1..MaxAnswers)
    /\ ignored \subseteq 1..MaxMessages
    /\ trouble \in 0..MaxTrouble

Init ==
    /\ arrived = 0 /\ asked = 0
    /\ buffer = <<>> /\ windowJob = "none" /\ afterJobs = <<>>
    /\ lock = "free"
    /\ pc = [w \in Workers |-> "idle"]
    /\ batch = <<>> /\ answer = [w \in Workers |-> NoAnswer]
    /\ ran = <<>> /\ answered = <<>> /\ ignored = {}
    /\ trouble = 0

\* The worker w goes on to phase p.
Goto(w, p) == pc' = [pc EXCEPT ![w] = p]

\* Something goes wrong: a turn throws, a call is rejected, the process dies, a turn takes
\* longer than the buffer TTL.
Fault == trouble < MaxTrouble /\ trouble' = trouble + 1
-----------------------------------------------------------------------------
(* The webhook worker: buffer(), append and armWindow.                      *)

\* append pushes the message.
ReceiveMessage ==
    /\ pc["webhook"] = "idle" /\ arrived < MaxMessages
    /\ arrived' = arrived + 1
    /\ buffer' = Append(buffer, arrived + 1)
    /\ Goto("webhook", "pushed")
    /\ UNCHANGED <<asked, windowJob, afterJobs, lock, batch, answer, ran, answered,
                   ignored, trouble>>

\* pexpire is rejected after the push: buffer() throws and arms nothing.
AppendFault ==
    /\ pc["webhook"] = "pushed"
    /\ Fault
    /\ Goto("webhook", "idle")
    /\ UNCHANGED <<queues, lock, batch, answer, history>>

\* Queue.remove deletes the window job unless a worker holds it (or held it until
\* the crash: the hold lapses on its own).
RearmRemove ==
    /\ pc["webhook"] = "pushed"
    /\ \/ /\ windowJob \in {"active", "stalled"}
          /\ UNCHANGED windowJob
       \/ /\ windowJob # "active"
          /\ windowJob' = "none"
    /\ Goto("webhook", "removed")
    /\ UNCHANGED <<buffer, afterJobs, lock, batch, answer, history, trouble>>

\* The rejected remove is logged and armWindow goes on.
RearmRemoveFault ==
    /\ pc["webhook"] = "pushed"
    /\ Fault
    /\ Goto("webhook", "removed")
    /\ UNCHANGED <<queues, lock, batch, answer, history>>

\* Queue.add creates the delayed job, or is ignored when the id exists.
RearmAdd ==
    /\ pc["webhook"] = "removed"
    /\ \/ /\ windowJob = "none"
          /\ windowJob' = "delayed"
          /\ UNCHANGED ignored
       \/ /\ windowJob # "none"
          /\ ignored' = IF windowJob \in {"active", "failed"}
                        THEN ignored \cup {arrived} ELSE ignored
          /\ UNCHANGED windowJob
    /\ Goto("webhook", "idle")
    /\ UNCHANGED <<arrived, asked, buffer, afterJobs, lock, batch, answer, ran,
                   answered, trouble>>

\* The rejected add fails the webhook job; the message stays in the list.
RearmAddFault ==
    /\ pc["webhook"] = "removed"
    /\ Fault
    /\ Goto("webhook", "idle")
    /\ UNCHANGED <<queues, lock, batch, answer, history>>

\* runAnswerExclusive, called for an answer that is not buffered.
ReceiveAnswer ==
    /\ pc["webhook"] = "idle" /\ asked < MaxAnswers
    /\ asked' = asked + 1
    /\ answer' = [answer EXCEPT !["webhook"] = asked + 1]
    /\ Goto("webhook", "acquire")
    /\ UNCHANGED <<arrived, queues, lock, batch, ran, answered, ignored, trouble>>
-----------------------------------------------------------------------------
(* The debounce worker: the consumer's process and drainAndRun.             *)

\* The window job fires.
TakeWindow ==
    /\ pc["debounce"] = "idle" /\ windowJob = "delayed"
    /\ windowJob' = "active"
    /\ Goto("debounce", "claimed")
    /\ UNCHANGED <<buffer, afterJobs, lock, batch, answer, history, trouble>>

\* A drain-after job fires.
TakeAfter ==
    /\ pc["debounce"] = "idle" /\ afterJobs # <<>>
    /\ afterJobs' = Tail(afterJobs)
    /\ answer' = [answer EXCEPT !["debounce"] = Head(afterJobs)]
    /\ Goto("debounce", "claimed")
    /\ UNCHANGED <<buffer, windowJob, lock, batch, history, trouble>>

\* What the end of the debounce worker's job does to the window job: completed
\* jobs are removed, failed ones are kept.
EndJob(w, outcome) ==
    windowJob' = IF w = "debounce" /\ windowJob = "active" THEN outcome ELSE windowJob

\* The user lookup, or the drain, is rejected: the job fails for good (attempts: 1).
LookupFault ==
    /\ pc["debounce"] = "claimed"
    /\ Fault
    /\ EndJob("debounce", "failed")
    /\ answer' = [answer EXCEPT !["debounce"] = NoAnswer]
    /\ Goto("debounce", "idle")
    /\ UNCHANGED <<buffer, afterJobs, lock, batch, history>>

\* A job that carries an answer never touches the buffer.
StartAnswer ==
    /\ pc["debounce"] = "claimed" /\ answer["debounce"] # NoAnswer
    /\ Goto("debounce", "acquire")
    /\ UNCHANGED <<queues, lock, batch, answer, history, trouble>>

\* DRAIN_BUFFER reads and clears the list; an empty list ends the job.
DrainBuffer ==
    /\ pc["debounce"] = "claimed" /\ answer["debounce"] = NoAnswer
    /\ batch' = buffer
    /\ buffer' = <<>>
    /\ \/ /\ buffer # <<>>
          /\ Goto("debounce", "acquire")
          /\ UNCHANGED windowJob
       \/ /\ buffer = <<>>
          /\ EndJob("debounce", "none")
          /\ Goto("debounce", "idle")
    /\ UNCHANGED <<afterJobs, lock, answer, history, trouble>>

\* The worker is taken by another user's job, for longer than the buffer TTL.
TakeOther ==
    /\ pc["debounce"] = "idle"
    /\ Fault
    /\ Goto("debounce", "other")
    /\ UNCHANGED <<queues, lock, batch, answer, history>>

LeaveOther ==
    /\ pc["debounce"] = "other"
    /\ Goto("debounce", "idle")
    /\ UNCHANGED <<queues, lock, batch, answer, history, trouble>>
-----------------------------------------------------------------------------
(* A turn under the lock, by either worker.                                 *)

Carries(w) == IF answer[w] = NoAnswer THEN batch ELSE <<>>

\* Mutant of Acquire: the turn does not wait for the lock.
AcquireAnyway(w) ==
    /\ pc[w] = "acquire"
    /\ lock' = w
    /\ Goto(w, "running")
    /\ UNCHANGED <<queues, batch, answer, history, trouble>>

Acquire(w) ==
    /\ pc[w] = "acquire" /\ lock = "free"
    /\ lock' = w
    /\ Goto(w, "running")
    /\ UNCHANGED <<queues, batch, answer, history, trouble>>

\* The lock is held: messages go back to the buffer, an answer to a job of its own.
Busy(w) ==
    /\ pc[w] = "acquire" /\ lock # "free"
    /\ Goto(w, IF answer[w] = NoAnswer THEN "requeue" ELSE "arm")
    /\ UNCHANGED <<queues, lock, batch, answer, history, trouble>>

\* Where an exception leads: the catch blocks give back what the worker carries.
GiveBack(w) == Goto(w, IF answer[w] = NoAnswer THEN "rebuffer" ELSE "arm")

\* Asking for the lock is rejected.
AcquireFault(w) ==
    /\ pc[w] = "acquire"
    /\ Fault
    /\ GiveBack(w)
    /\ UNCHANGED <<queues, lock, batch, answer, history>>

\* The turn commits its writes.
Commit(w) ==
    /\ pc[w] = "running"
    /\ ran' = ran \o Carries(w)
    /\ answered' = IF answer[w] = NoAnswer THEN answered ELSE Append(answered, answer[w])
    /\ Goto(w, "committed")
    /\ UNCHANGED <<arrived, asked, queues, lock, batch, answer, ignored, trouble>>

\* The turn returned, its lock is released and its job ends.
Release(w) ==
    /\ pc[w] = "committed"
    /\ lock' = "free"
    /\ EndJob(w, "none")
    /\ batch' = IF w = "debounce" THEN <<>> ELSE batch
    /\ answer' = [answer EXCEPT ![w] = NoAnswer]
    /\ Goto(w, "idle")
    /\ UNCHANGED <<buffer, afterJobs, history, trouble>>

\* The turn throws, before or after its writes; the lock is released.
TurnThrows(w) ==
    /\ pc[w] \in InTurn
    /\ Fault
    /\ lock' = "free"
    /\ GiveBack(w)
    /\ UNCHANGED <<queues, batch, answer, history>>

\* The release is rejected: runExclusive throws and the key waits for its TTL.
ReleaseFault(w) ==
    /\ pc[w] = "committed"
    /\ Fault
    /\ lock' = "orphan"
    /\ GiveBack(w)
    /\ UNCHANGED <<queues, batch, answer, history>>

\* Mutant of Requeue: rpush instead of lpush.
RequeueBack ==
    /\ pc["debounce"] \in {"requeue", "rebuffer"}
    /\ buffer' = buffer \o batch
    /\ batch' = <<>>
    /\ Goto("debounce", "arm")
    /\ UNCHANGED <<windowJob, afterJobs, lock, answer, history, trouble>>

\* requeueFront pushes the batch back in front of what arrived meanwhile; queueAfter
\* calls it inside the try block ("requeue") or in the catch block ("rebuffer").
Requeue ==
    /\ pc["debounce"] \in {"requeue", "rebuffer"}
    /\ buffer' = batch \o buffer
    /\ batch' = <<>>
    /\ Goto("debounce", "arm")
    /\ UNCHANGED <<windowJob, afterJobs, lock, answer, history, trouble>>

\* Mutant of RequeueFault: the busy path is outside the try block.
RequeueFaultUncaught ==
    /\ pc["debounce"] \in {"requeue", "rebuffer"}
    /\ Fault
    /\ buffer' \in {buffer, batch \o buffer}
    /\ batch' = <<>>
    /\ EndJob("debounce", "failed")
    /\ Goto("debounce", "idle")
    /\ UNCHANGED <<afterJobs, lock, answer, history>>

\* Its lpush, or the pexpire after it, is rejected.  Inside the try block the catch
\* block pushes the batch (again); in the catch block the job fails.
RequeueFault ==
    /\ pc["debounce"] \in {"requeue", "rebuffer"}
    /\ Fault
    /\ buffer' \in {buffer, batch \o buffer}
    /\ \/ /\ pc["debounce"] = "requeue"
          /\ Goto("debounce", "rebuffer")
          /\ UNCHANGED <<windowJob, batch>>
       \/ /\ pc["debounce"] = "rebuffer"
          /\ batch' = <<>>
          /\ EndJob("debounce", "failed")
          /\ Goto("debounce", "idle")
    /\ UNCHANGED <<afterJobs, lock, answer, history>>

\* Mutant of ArmAfter: the job does not carry the answer.
ArmAfterWithoutAnswer(w) ==
    /\ pc[w] = "arm"
    /\ afterJobs' = Append(afterJobs, NoAnswer)
    /\ EndJob(w, "none")
    /\ answer' = [answer EXCEPT ![w] = NoAnswer]
    /\ Goto(w, "idle")
    /\ UNCHANGED <<buffer, lock, batch, history, trouble>>

\* Mutant of ArmAfter: a batch is re-armed under the stable id, which BullMQ ignores
\* while the window job is the active one.
ArmAfterStableId(w) ==
    /\ pc[w] = "arm"
    /\ \/ /\ answer[w] = NoAnswer
          /\ windowJob' = IF windowJob = "active" THEN "none" ELSE "delayed"
          /\ UNCHANGED afterJobs
       \/ /\ answer[w] # NoAnswer
          /\ afterJobs' = Append(afterJobs, answer[w])
          /\ EndJob(w, "none")
    /\ answer' = [answer EXCEPT ![w] = NoAnswer]
    /\ Goto(w, "idle")
    /\ UNCHANGED <<buffer, lock, batch, history, trouble>>

\* armAfter adds a job under a fresh id, and the worker's own job ends.
ArmAfter(w) ==
    /\ pc[w] = "arm"
    /\ afterJobs' = Append(afterJobs, answer[w])
    /\ EndJob(w, "none")
    /\ answer' = [answer EXCEPT ![w] = NoAnswer]
    /\ Goto(w, "idle")
    /\ UNCHANGED <<buffer, lock, batch, history, trouble>>

\* The rejected add is logged, and the job ends.
ArmAfterFault(w) ==
    /\ pc[w] = "arm"
    /\ Fault
    /\ EndJob(w, "none")
    /\ answer' = [answer EXCEPT ![w] = NoAnswer]
    /\ Goto(w, "idle")
    /\ UNCHANGED <<buffer, afterJobs, lock, batch, history>>
-----------------------------------------------------------------------------
(* Redis and the process.                                                   *)

\* The lock of a dead holder runs out of TTL.
LockExpires ==
    /\ lock = "orphan"
    /\ lock' = "free"
    /\ UNCHANGED <<queues, pc, batch, answer, history, trouble>>

\* Nothing drains the list before its TTL: no job will, the worker that should is
\* kept by another user, or the process is down.
Abandoned ==
    \/ /\ pc["debounce"] = "idle" /\ windowJob # "delayed"
       /\ ~Contains(afterJobs, NoAnswer)
    \/ pc["debounce"] \in {"other", "down"}

\* The list's TTL lapses; append and requeueFront have just renewed it while the
\* window job is being armed. The user's own turn may last that long, too.
Reap ==
    /\ buffer # <<>>
    /\ \/ Abandoned /\ UNCHANGED trouble
       \/ pc["debounce"] \in InTurn /\ Fault
    /\ pc["webhook"] \notin {"pushed", "removed"}
    /\ buffer' = <<>>
    /\ UNCHANGED <<windowJob, afterJobs, lock, pc, batch, answer, history>>

\* The process dies: what its workers carried in memory is gone.
Crash ==
    /\ pc["debounce"] # "down"
    /\ Fault
    /\ pc' = [w \in Workers |-> "down"]
    /\ lock' = IF lock = "free" THEN "free" ELSE "orphan"
    /\ batch' = <<>>
    \* BullMQ runs a stalled job again, with the answer it carries.
    /\ windowJob' = IF windowJob = "active" THEN "stalled" ELSE windowJob
    /\ afterJobs' = IF pc["debounce"] \in {"idle", "other"} \/ windowJob = "active"
                    THEN afterJobs ELSE Append(afterJobs, answer["debounce"])
    /\ answer' = [w \in Workers |-> NoAnswer]
    /\ UNCHANGED <<buffer, history>>

RecoverStalled ==
    /\ windowJob = "stalled" /\ pc["debounce"] # "down"
    /\ windowJob' = "delayed"
    /\ UNCHANGED <<buffer, afterJobs, lock, pc, batch, answer, history, trouble>>

Restart ==
    /\ pc["debounce"] = "down"
    /\ pc' = [w \in Workers |-> "idle"]
    /\ UNCHANGED <<queues, lock, batch, answer, history, trouble>>
-----------------------------------------------------------------------------
WebhookStep ==
    AppendFault \/ RearmRemove \/ RearmRemoveFault \/ RearmAdd \/ RearmAddFault

DebounceStep ==
    \/ LookupFault \/ StartAnswer \/ DrainBuffer
    \/ Requeue \/ RequeueFault \/ LeaveOther

TurnStep(w) ==
    \/ Acquire(w) \/ AcquireFault(w) \/ Busy(w) \/ Commit(w) \/ Release(w)
    \/ TurnThrows(w) \/ ReleaseFault(w) \/ ArmAfter(w) \/ ArmAfterFault(w)

Next ==
    \/ ReceiveMessage \/ ReceiveAnswer \/ TakeWindow \/ TakeAfter \/ TakeOther
    \/ WebhookStep \/ DebounceStep \/ (\E w \in Workers : TurnStep(w))
    \/ LockExpires \/ Reap \/ Crash \/ Restart \/ RecoverStalled

Spec == Init /\ [][Next]_vars

\* A handler that has started goes on, a due job is taken by an idle worker, the
\* process is restarted, a key runs out of TTL.  The user owes nothing.
Progress ==
    /\ WF_vars(WebhookStep) /\ WF_vars(DebounceStep)
    /\ \A w \in Workers : WF_vars(TurnStep(w))
    /\ WF_vars(TakeWindow) /\ WF_vars(TakeAfter)
    /\ WF_vars(LockExpires) /\ WF_vars(Restart) /\ WF_vars(RecoverStalled)

FairSpec == Spec /\ Progress
-----------------------------------------------------------------------------
\* At most one turn of the user runs, whichever worker runs it
\* (debounce-coordinator.service.ts:100-108).
OneTurnPerUser == ~(pc["webhook"] \in InTurn /\ pc["debounce"] \in InTurn)

\* One failure alone never costs a drained batch: it leaves a living worker only by
\* running or by going back to the front of the buffer
\* (debounce-coordinator.service.ts:137-139).
DrainedRunsOrReturns ==
    [][ batch # <<>> /\ batch' # batch /\ trouble' <= 1 /\ pc'["debounce"] # "down"
        => pc["debounce"] = "committed" \/ IsPrefix(batch, buffer') ]_vars

\* Until something goes wrong, every accepted message runs, or BullMQ refused its job: no
\* batch that went back and no message behind a turn is left without a job
\* (debounce-coordinator.service.ts:317-326).
MessagesRunUnlessIgnored ==
    \A m \in 1..MaxMessages :
        (arrived >= m) ~> (Contains(ran, m) \/ m \in ignored \/ trouble > 0)

\* Until something goes wrong, every accepted answer runs, however often its worker finds
\* the lock held (debounce-coordinator.service.ts:104-109).
AnswersRun ==
    \A a \in 1..MaxAnswers : (asked >= a) ~> (Contains(answered, a) \/ trouble > 0)

\* The layer implements the serial inbox.
Starting == pc["debounce"] \in InTurn /\ answer["debounce"] = NoAnswer

Inbox == INSTANCE SerialInbox
           WITH inbox    <- IF Starting THEN buffer ELSE batch \o buffer,
                turn     <- IF Starting THEN batch ELSE <<>>,
                accepted <- arrived,
                executed <- ran

ImplementsInbox == Inbox!Spec
-----------------------------------------------------------------------------
\* "Nothing is dropped under any path" (docs/adr/0042: every message runs).  The
\* code does not keep this claim.
EveryMessageRuns == \A m \in 1..MaxMessages : (arrived >= m) ~> Contains(ran, m)
=============================================================================
