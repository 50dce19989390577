------------------------------- MODULE Ingress -------------------------------
(***************************************************************************)
(* How a Telegram update reaches the consumer: the webhook controller      *)
(* enqueues it under the hash of its body, a worker takes the job, the     *)
(* dedupe key in Redis admits one run of it as long as the key lives, and  *)
(* a throw gives the key back. Telegram posts an update again until it has *)
(* heard a 200, a worker may die with a job, BullMQ gives a stalled job to *)
(* a worker once more.                                                     *)
(*                                                                         *)
(* What the admitted run does with the update is the handler's: this       *)
(* module knows when it is admitted, when it returns and when it throws.   *)
(***************************************************************************)
EXTENDS Naturals, FiniteSets

CONSTANTS
    Updates,    (* bound: the updates of Telegram, model values or records   *)
    Workers,    (* webhook workers, one job at a time each (ADR 0026)        *)
    MaxFaults,  (* bound: Redis, database and Telegram calls that fail       *)
    MaxCrashes, (* bound: workers that die with a job                        *)
    MaxStalled, (* how often BullMQ restarts a stalled job (its default, 1)  *)
    MaxExpiries (* bound: how often the dedupe key of an update runs out     *)

ASSUME IngressConstants ==
    /\ Workers \in Nat /\ MaxFaults \in Nat /\ MaxCrashes \in Nat /\ MaxStalled \in Nat
    /\ MaxExpiries \in Nat

VARIABLES
    job,      (* the webhook queue's job of an update                        *)
    stalled,  (* how often the job was found stalled                         *)
    keys,     (* the updates whose dedupe key is in Redis                    *)
    admitted, (* how often a run of the update passed the dedupe guard       *)
    expired,  (* how often the dedupe key of the update ran out              *)
    faults, crashes

ingressVars == <<job, stalled, keys, admitted, expired, faults, crashes>>

\* "none" is a job the queue does not know: never added, or completed and removed
\* (removeOnComplete); a failed one is kept (removeOnFail: false).
JobStates == {"none", "waiting", "handling", "failed"}

Active == {u \in Updates : job[u] = "handling"}

\* The updates of `done` were handled before, and their keys have not run out yet.
IngressStart(done) ==
    /\ keys = done
    /\ job = [u \in Updates |-> "none"]
    /\ stalled = [u \in Updates |-> 0]
    /\ admitted = [u \in Updates |-> IF u \in done THEN 1 ELSE 0]
    /\ expired = [u \in Updates |-> 0]
    /\ faults = 0 /\ crashes = 0

IngressInit == \E done \in SUBSET Updates : IngressStart(done)

Strikes == faults < MaxFaults /\ faults' = faults + 1

\* Mutant: a job id of its own for every delivery.
EnqueuedAnew(u) == [job EXCEPT ![u] = IF @ \in {"none", "failed"} THEN "waiting" ELSE @]

\* webhookQueue.add under a jobId the queue already holds adds nothing.
Enqueued(u) == [job EXCEPT ![u] = IF @ = "none" THEN "waiting" ELSE @]

\* handleTelegramWebhook: the job is added. Telegram posts the update until it hears the
\* 200, and the network may repeat a post: it may come any number of times.
HandleTelegramWebhook(u) ==
    /\ job' = Enqueued(u)
    /\ UNCHANGED <<stalled, keys, admitted, expired, faults, crashes>>

\* A free worker takes the job, parses it and wins or loses the SET NX of the guard,
\* which runs before the try: when it fails the job fails, and whether the key was
\* written is unknown.
AcquireDedupe(u) ==
    /\ job[u] = "waiting" /\ Cardinality(Active) < Workers
    /\ \/ /\ u \notin keys
          /\ keys' = keys \cup {u}
          /\ job' = [job EXCEPT ![u] = "handling"]
          /\ admitted' = [admitted EXCEPT ![u] = @ + 1]
          /\ UNCHANGED faults
       \/ /\ u \in keys
          /\ job' = [job EXCEPT ![u] = "none"]
          /\ UNCHANGED <<keys, admitted, faults>>
       \/ /\ Strikes
          /\ job' = [job EXCEPT ![u] = "failed"]
          /\ keys' \in {keys, keys \cup {u}}
          /\ UNCHANGED admitted
    /\ UNCHANGED <<stalled, expired, crashes>>

\* The handler returned, maybe after a last call whose failure it swallowed.
Return(u) ==
    /\ job[u] = "handling"
    /\ job' = [job EXCEPT ![u] = "none"]
    /\ UNCHANGED <<stalled, keys, admitted, expired, crashes>>

\* The handler threw after a call failed: the catch deletes the key (a call that may
\* fail as well) and rethrows, and the only attempt of the job is spent.
Throw(u) ==
    /\ job[u] = "handling"
    /\ job' = [job EXCEPT ![u] = "failed"]
    /\ \/ Strikes /\ keys' = keys \ {u}
       \/ faults + 1 < MaxFaults /\ faults' = faults + 2 /\ UNCHANGED keys
    /\ UNCHANGED <<stalled, admitted, expired, crashes>>

\* The worker dies: its catch does not run. BullMQ finds the job stalled, makes it wait
\* again once, and fails it the next time.
Crash(u) ==
    /\ u \in Active /\ crashes < MaxCrashes
    /\ crashes' = crashes + 1
    /\ stalled' = [stalled EXCEPT ![u] = @ + 1]
    /\ job' = [job EXCEPT ![u] = IF stalled[u] < MaxStalled THEN "waiting" ELSE "failed"]
    /\ UNCHANGED <<keys, admitted, expired, faults>>

\* The key was set with EX: ASSISTANT_DEDUPE_TTL_SECONDS (any positive number) after it
\* was taken Redis drops it, be the update handled by then, still being handled or lost.
KeyExpires(u) ==
    /\ u \in keys /\ expired[u] < MaxExpiries
    /\ keys' = keys \ {u}
    /\ expired' = [expired EXCEPT ![u] = @ + 1]
    /\ UNCHANGED <<job, stalled, admitted, faults, crashes>>

\* The actions of the pipeline itself; Return and Throw belong to the handler.
Pipeline(u) == HandleTelegramWebhook(u) \/ AcquireDedupe(u) \/ Crash(u) \/ KeyExpires(u)

\* A call of a handler, or of the app's requests, fails and the handler goes on.
Fault == Strikes /\ UNCHANGED <<job, stalled, keys, admitted, expired, crashes>>

\* The admission alone, whatever the handlers do.
IngressNext ==
    \/ \E u \in Updates : Pipeline(u) \/ Throw(u) \/ (Return(u) /\ (Strikes \/ UNCHANGED faults))
    \/ Fault

IngressSpec == IngressInit /\ [][IngressNext]_ingressVars

-----------------------------------------------------------------------------

IngressTypeOK ==
    /\ keys \subseteq Updates
    /\ job \in [Updates -> JobStates]
    /\ stalled \in [Updates -> Nat] /\ admitted \in [Updates -> Nat]
    /\ expired \in [Updates -> 0..MaxExpiries]
    /\ faults \in 0..MaxFaults /\ crashes \in 0..MaxCrashes

(***************************************************************************)
(* However often Telegram posts an update, a worker dies or a handler      *)
(* throws, at most one run of it is admitted in the life of a dedupe key:  *)
(* a second one is preceded by a key that ran out. The key alone does not  *)
(* do it (a throw deletes the key and Telegram may post again): the failed *)
(* job, kept under the hash of the body, is the other half                 *)
(* (webhook.consumer.ts acquireDedupe and process, the jobId of            *)
(* assistant-webhook.controller.ts, ADR 0026: a replay double-books).      *)
(***************************************************************************)
AdmittedOnce == \A u \in Updates : admitted[u] <= 1 + expired[u]

\* What makes it inductive: each admission is covered by a key that ran out, by the key
\* that is held, or by the job that is kept as failed so that the update cannot be queued.
Covers(u) == expired[u] + (IF u \in keys \/ job[u] = "failed" THEN 1 ELSE 0)
AdmissionHeld ==
    \A u \in Updates :
        /\ admitted[u] <= Covers(u)
        /\ job[u] = "handling" => admitted[u] >= 1

(***************************************************************************)
(* "The pipeline runs at most once per update", the acceptance criterion   *)
(* of docs/tasks/ai-assistant-3-application-wiring.md:29, without a word   *)
(* of the time: it does not hold. A job that completed is removed from the *)
(* queue, and once the key has run out as well an update that is posted    *)
(* again runs again; so does the stalled job of a run that outlived its    *)
(* key.                                                                    *)
(***************************************************************************)
RunsOnce == \A u \in Updates : admitted[u] <= 1

(***************************************************************************)
(* "The throw only frees the dedupe key (so a genuine fresh resend of the  *)
(* same update can be processed)", webhook.consumer.ts:350: an update      *)
(* whose key is free is enqueued when it is posted. It is not: the failed  *)
(* job is kept under the hash of the body, and the resend, whose body is   *)
(* the same, adds nothing.                                                 *)
(***************************************************************************)
ResendQueued == \A u \in Updates : u \notin keys => Enqueued(u)[u] = "waiting"

=============================================================================
