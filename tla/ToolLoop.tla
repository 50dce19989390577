----------------------------- MODULE ToolLoop -----------------------------
(***************************************************************************)
(* One user turn of the assistant: the bounded loop that calls the model,  *)
(* dispatches its tool calls and counts the writes (tool-loop.service.ts), *)
(* the classifier and the write ledger that decide what may be told        *)
(* (terminal-classifier.ts, write-ledger.ts), the reply (finishTurn of     *)
(* turn-runner.service.ts), and the ask_user suspension that ends one run  *)
(* of the loop and whose answer starts the next run of the same turn.      *)
(*                                                                         *)
(* A text is abstracted to what the two patterns see in it, a tool call to *)
(* its kind, a write to whether it was refused, saved, or had nothing to   *)
(* save.                                                                   *)
(***************************************************************************)
EXTENDS Naturals, Sequences

CONSTANTS
    MaxToolRoundtrips,  (* ASSISTANT_MAX_TOOL_ROUNDTRIPS                      *)
    MaxScheduleFetches, (* ASSISTANT_MAX_SCHEDULE_FETCHES                     *)
    Budgets,            (* the values ASSISTANT_MAX_CORRECTIONS may have      *)
    MaxCalls,           (* bound: tool calls of one round                     *)
    BatchSize,          (* bound: tasks of one create_tasks call              *)
    MaxResumes          (* bound: answered questions of one turn              *)

ASSUME ToolLoopConstants ==
    /\ MaxToolRoundtrips \in Nat \ {0} /\ MaxScheduleFetches \in Nat
    /\ Budgets \subseteq Nat
    /\ MaxCalls \in Nat /\ BatchSize \in Nat /\ MaxResumes \in Nat

VARIABLES
    pc,               (* where the turn stands                               *)
    run,              (* how often the loop was re-entered after an answer   *)
    maxCorrections,   (* the configured budget                               *)
    roundtrip, scheduleFetches, corrections,
    committedWrites,  (* writes the current run counted as committed         *)
    attempted,        (* the current run counted a write attempt             *)
    forcedToolChoice, (* the next model call must choose a tool              *)
    calls,            (* the tool calls of the current round                 *)
    next,             (* the position of the call to dispatch next           *)
    unanswered,       (* the tool calls on the wire that no result answers   *)
    asked,            (* the calls that suspended the turn                   *)
    unaudited,        (* steps of the round not yet in the audit trail       *)
    saved,            (* writes of the turn that changed the database        *)
    unchanged,        (* writes that found the row as asked and saved nothing *)
    forgotten,        (* of both, the ones no counter of this run holds      *)
    told              (* what the user was told                              *)

vars == <<pc, run, maxCorrections, roundtrip, scheduleFetches, corrections,
          committedWrites, attempted, forcedToolChoice, calls, next, unanswered,
          asked, unaudited, saved, unchanged, forgotten, told>>

\* The tools, by what the loop does about a call: a schedule fetch, a single write,
\* create_tasks, ask_user, and every other tool or unknown name.
Kinds == {"fetch", "write", "batch", "ask", "other"}

\* Why the model stopped; "other" is also what a failed call comes back as.
Stops == {"end_turn", "max_tokens", "refusal", "other"}

\* A text that matches CLAIM_VETO_PATTERN is "vetoed", else "claim" when it matches
\* MUTATION_CLAIM_PATTERN, else "plain"; "none" is a missing text.
Texts == {"claim", "vetoed", "plain", "none"}

Replies == Texts \cup {"truncated", "refusal", "ceiling", "masked"}

\* A call's id: its run, its round trip and its position in the round.
Ids == (0..MaxResumes) \X Nat \X Nat

TypeOK ==
    /\ pc \in {"start", "model", "tools", "asked", "done"}
    /\ run \in 0..MaxResumes /\ maxCorrections \in Budgets
    /\ roundtrip \in 0..MaxToolRoundtrips
    /\ scheduleFetches \in 0..MaxScheduleFetches
    /\ corrections \in 0..maxCorrections
    /\ committedWrites \in Nat /\ attempted \in BOOLEAN
    /\ forcedToolChoice \in BOOLEAN
    /\ calls \in Seq(Kinds) /\ next \in Nat \ {0}
    /\ unanswered \subseteq Ids /\ asked \subseteq Ids
    /\ unaudited \in Nat /\ saved \in Nat /\ unchanged \in Nat /\ forgotten \in Nat
    /\ told \in Replies \cup {"question", "failure", "unresolved"}

Init ==
    /\ pc = "start" /\ run = 0 /\ maxCorrections \in Budgets
    /\ roundtrip = 0 /\ scheduleFetches = 0 /\ corrections = 0
    /\ committedWrites = 0 /\ attempted = FALSE /\ forcedToolChoice = FALSE
    /\ calls = <<>> /\ next = 1 /\ unanswered = {} /\ asked = {}
    /\ unaudited = 0 /\ saved = 0 /\ unchanged = 0 /\ forgotten = 0 /\ told = "none"

counters == <<scheduleFetches, committedWrites, attempted>>
truth == <<saved, unchanged, forgotten>>
round == <<calls, next>>
turn == <<run, maxCorrections>>
-----------------------------------------------------------------------------
(* What a text may become.                                                  *)

\* terminalReplyText.
TerminalReply(stop, text) ==
    IF stop = "max_tokens" THEN "truncated"
    ELSE IF stop = "refusal" THEN "refusal"
    ELSE IF text = "none" THEN "ceiling"
    ELSE text

\* The replies CLAIM_VETO_PATTERN matches: REFUSAL_REPLY has a negation,
\* ROUNDTRIP_CEILING_REPLY ends with a question mark, TRUNCATED_REPLY has neither.
Vetoed == {"vetoed", "refusal", "ceiling"}

\* isFalseSuccessReply.
IsFalseSuccessReply(reply) ==
    /\ committedWrites = 0
    /\ reply \notin Vetoed
    /\ attempted \/ reply = "claim"

\* classifyTerminalTurn: the turn narrates a change it did not make.
NarratesWithoutWrite(stop, text) ==
    /\ committedWrites = 0
    /\ stop = "end_turn"
    /\ text \notin Vetoed
    /\ attempted \/ text = "claim"

\* Mutant of Masked: only a reply after a failed attempt is masked.
MaskedAfterAttempt(reply) ==
    IF IsFalseSuccessReply(reply) /\ attempted THEN "masked" ELSE reply

\* The guard of finishTurn: CLAIM_WITHOUT_WRITE_REPLY replaces a false success.
Masked(reply) == IF IsFalseSuccessReply(reply) THEN "masked" ELSE reply

\* The turn ends; the user is told message.
Tell(message) ==
    /\ pc' = "done"
    /\ told' = message

\* The for loop goes on to the next round trip, or ends at its ceiling.
NextRoundtrip ==
    /\ roundtrip' = roundtrip + 1
    /\ \/ /\ roundtrip + 1 < MaxToolRoundtrips
          /\ pc' = "model"
          /\ UNCHANGED told
       \/ /\ roundtrip + 1 = MaxToolRoundtrips
          /\ Tell(Masked("ceiling"))
-----------------------------------------------------------------------------
(* The model.                                                               *)

\* The context is built, or a read fails and the run ends in the catch.
BuildContext ==
    /\ pc = "start"
    /\ \/ pc' = "model" /\ UNCHANGED told
       \/ Tell("failure")
    /\ UNCHANGED <<turn, roundtrip, counters, corrections, forcedToolChoice, round,
                   unanswered, asked, unaudited, truth>>

\* The model may answer without a tool call.  A request whose tool_use blocks are
\* not all answered is rejected (400), and the connector returns its failed result.
Answers(stop, text) ==
    /\ pc = "model"
    /\ unanswered = {} \/ <<stop, text>> = <<"other", "none">>

\* A genuine terminal, or a narration while re-driving is switched off.
Reply(stop, text) ==
    /\ Answers(stop, text)
    /\ NarratesWithoutWrite(stop, text) => maxCorrections = 0
    /\ Tell(Masked(TerminalReply(stop, text)))
    /\ forcedToolChoice' = FALSE
    /\ UNCHANGED <<turn, roundtrip, counters, corrections, round, unanswered, asked,
                   unaudited, truth>>

\* Within the budget a narration is answered with the corrective message, and the
\* next call must choose a tool.
Nudge(stop, text) ==
    /\ Answers(stop, text)
    /\ NarratesWithoutWrite(stop, text) /\ corrections < maxCorrections
    /\ corrections' = corrections + 1
    /\ forcedToolChoice' = TRUE
    /\ NextRoundtrip
    /\ UNCHANGED <<turn, counters, round, unanswered, asked, unaudited, truth>>

\* The budget is spent: outcome 'unresolved', CORRECTION_EXHAUSTED_REPLY.
GiveUp(stop, text) ==
    /\ Answers(stop, text)
    /\ NarratesWithoutWrite(stop, text)
    /\ corrections >= maxCorrections /\ maxCorrections # 0
    /\ Tell("unresolved")
    /\ forcedToolChoice' = FALSE
    /\ UNCHANGED <<turn, roundtrip, counters, corrections, round, unanswered, asked,
                   unaudited, truth>>

\* Mutant of CallTools: forcedToolChoice is not cleared.
CallToolsStillForced(cs) ==
    /\ pc = "model" /\ unanswered = {}
    /\ calls' = cs /\ next' = 1
    /\ unanswered' = {<<run, roundtrip, i>> : i \in 1..Len(cs)}
    /\ pc' = "tools"
    /\ UNCHANGED <<forcedToolChoice, turn, roundtrip, counters, corrections, asked,
                   unaudited, truth, told>>

\* The model calls tools, whatever its stop reason.
CallTools(cs) ==
    /\ pc = "model" /\ unanswered = {}
    /\ calls' = cs /\ next' = 1
    /\ unanswered' = {<<run, roundtrip, i>> : i \in 1..Len(cs)}
    /\ pc' = "tools"
    /\ forcedToolChoice' = FALSE
    /\ UNCHANGED <<turn, roundtrip, counters, corrections, asked, unaudited, truth, told>>
-----------------------------------------------------------------------------
(* The tools, one call of the round after the other.                        *)

Call == <<run, roundtrip, next>>

Dispatching(kind) == pc = "tools" /\ next <= Len(calls) /\ calls[next] = kind

\* The call's result and its step are recorded, and the round goes on.
Result ==
    /\ unanswered' = unanswered \ {Call}
    /\ unaudited' = unaudited + 1
    /\ next' = next + 1
    /\ UNCHANGED <<pc, turn, roundtrip, corrections, forcedToolChoice, calls, asked, told>>

\* Mutant of FetchCapped: the capped call gets a step but no result.
FetchDropped ==
    /\ Dispatching("fetch") /\ scheduleFetches >= MaxScheduleFetches
    /\ unaudited' = unaudited + 1
    /\ next' = next + 1
    /\ UNCHANGED <<pc, turn, roundtrip, corrections, forcedToolChoice, calls, asked, told,
                   unanswered, counters, truth>>

\* At the read cap a schedule fetch is answered without being dispatched.
FetchCapped ==
    /\ Dispatching("fetch") /\ scheduleFetches >= MaxScheduleFetches
    /\ Result
    /\ UNCHANGED <<counters, truth>>

Fetch ==
    /\ Dispatching("fetch") /\ scheduleFetches < MaxScheduleFetches
    /\ scheduleFetches' = scheduleFetches + 1
    /\ Result
    /\ UNCHANGED <<committedWrites, attempted, truth>>

\* A tool that neither fetches nor writes, or an ask_user whose input is invalid.
OtherTool ==
    /\ Dispatching("other") \/ Dispatching("ask")
    /\ Result
    /\ UNCHANGED <<counters, truth>>

\* writeLedgerDelta: k of the attempted writes were counted as committed.
Count(k) ==
    /\ committedWrites' = committedWrites + k
    /\ attempted' = TRUE
    /\ UNCHANGED scheduleFetches

\* The write succeeds but has nothing to save: setCompleted finds the task already as
\* asked, update finds no field to change.
AlreadyAsAsked ==
    /\ unchanged' = unchanged + 1
    /\ UNCHANGED saved

\* A single write comes back as an error (refused, invalid, a conflict), or succeeds
\* and counts, saved or with nothing to save.
Write ==
    /\ Dispatching("write")
    /\ \/ Count(0) /\ UNCHANGED <<saved, unchanged>>
       \/ Count(1) /\ saved' = saved + 1 /\ UNCHANGED unchanged
       \/ Count(1) /\ AlreadyAsAsked
    /\ Result
    /\ UNCHANGED forgotten

\* create_tasks commits k of its tasks and refuses the others.
Batch(k) ==
    /\ Dispatching("batch")
    /\ saved' = saved + k
    /\ Count(k)
    /\ Result
    /\ UNCHANGED <<unchanged, forgotten>>

\* One create throws after k tasks were saved: dispatch turns the exception into an
\* error without counts, so the call counts as one attempt and no commit.
BatchThrows(k) ==
    /\ Dispatching("batch")
    /\ saved' = saved + k
    /\ forgotten' = forgotten + k
    /\ Count(0)
    /\ Result
    /\ UNCHANGED unchanged

\* Mutant of EndRound: a round with tool calls does not count as a round trip.
EndRoundUncounted ==
    /\ pc = "tools" /\ next > Len(calls)
    /\ unaudited' = 0
    /\ calls' = <<>> /\ next' = 1
    /\ pc' = "model"
    /\ UNCHANGED <<roundtrip, told, turn, counters, corrections, forcedToolChoice,
                   unanswered, asked, truth>>

\* All calls of the round are dispatched: its audit row and its wire round are pushed.
EndRound ==
    /\ pc = "tools" /\ next > Len(calls)
    /\ unaudited' = 0
    /\ calls' = <<>> /\ next' = 1
    /\ NextRoundtrip
    /\ UNCHANGED <<turn, counters, corrections, forcedToolChoice, unanswered, asked, truth>>
-----------------------------------------------------------------------------
(* ask_user.                                                                *)

\* A valid ask_user ends the run at once: its call stays unanswered and the calls
\* after it in the round are never dispatched.  suspendAndAsk sends the question.
Ask ==
    /\ Dispatching("ask")
    /\ asked' = asked \cup {Call}
    /\ unaudited' = 0
    /\ calls' = <<>> /\ next' = 1
    /\ pc' = "asked" /\ told' = "question"
    /\ UNCHANGED <<turn, roundtrip, counters, corrections, forcedToolChoice, unanswered, truth>>

\* The answer becomes the result of the ask call, and the loop runs again over the
\* stored rounds with all its counters at zero.
Resume ==
    /\ pc = "asked" /\ run < MaxResumes
    /\ run' = run + 1
    /\ unanswered' = {c \in unanswered : ~(c \in asked /\ c[1] = run)}
    /\ roundtrip' = 0 /\ scheduleFetches' = 0 /\ corrections' = 0
    /\ committedWrites' = 0 /\ attempted' = FALSE /\ forcedToolChoice' = FALSE
    /\ forgotten' = forgotten + committedWrites
    /\ pc' = "start" /\ told' = "none"
    /\ UNCHANGED <<maxCorrections, round, asked, unaudited, saved, unchanged>>

Rounds == UNION {[1..n -> Kinds] : n \in 1..MaxCalls}

\* The steps of the service, once a message has started the turn.
Step ==
    \/ BuildContext
    \/ \E stop \in Stops, text \in Texts :
           Reply(stop, text) \/ Nudge(stop, text) \/ GiveUp(stop, text)
    \/ \E cs \in Rounds : CallTools(cs)
    \/ FetchCapped \/ Fetch \/ OtherTool \/ Write
    \/ \E k \in 0..BatchSize : Batch(k) \/ BatchThrows(k)
    \/ EndRound \/ Ask

Next == Step \/ Resume

Spec == Init /\ [][Next]_vars

\* The service keeps working on a turn it has started; the user need not answer.
FairSpec == Spec /\ WF_vars(Step)
-----------------------------------------------------------------------------
(* Properties.                                                              *)

\* The calls that follow, in its round, the ask_user that suspended the turn.
AfterAsk == {c \in unanswered : \E a \in asked : a[1] = c[1] /\ a[2] = c[2] /\ a[3] < c[3]}

\* Whenever the model is called, every tool_use on the wire has its tool_result,
\* the answered question included; only the calls skipped behind an ask_user have
\* none (tool-loop.service.ts:366-418, appendSyntheticAnswer).
PairedUpToAsk == pc = "model" => unanswered = AfterAsk

\* Every tool_use on the wire has its tool_result: "never an interleaved/unpaired
\* block" (docs/adr/0010, tool-loop.service.ts:395-398).
AllPaired == pc = "model" => unanswered = {}

\* The user is told that nothing was saved, or the model is forced to act, only
\* when every successful write of the turn is one the run's counters have lost: made
\* before an ask_user suspension, or by a create_tasks call that threw.
DeniesOnlyForgotten ==
    forcedToolChoice \/ told \in {"unresolved", "masked"} =>
        saved + unchanged = forgotten

\* "re-drive fires only when committedWrites === 0, so there is nothing to
\* double-create within the turn" (docs/specs/assistant-tool-loop-redrive.md:123).
RedriveRepeatsNothing == forcedToolChoice => saved = 0

\* A reply that claims a change (and is no question or denial) reaches the user
\* only if a write of the turn succeeded: it was saved, or it found the calendar
\* already as asked (isFalseSuccessReply, classifyTerminalTurn).
ClaimBacked == told = "claim" => saved + unchanged > 0

\* A reply that claims a change follows a saved one: "We refuse to confirm an action
\* that never happened" (turn-runner.service.ts:52-54).
ClaimSaved == told = "claim" => saved > 0

\* When the model is called, and when the run ends, every step dispatched so far is
\* in the audit trail, whichever way the round ended.
AuditComplete == pc \in {"model", "asked", "done"} => unaudited = 0

\* A turn the service works on ends in a reply or in a question to the user: the
\* loop neither narrates nor calls tools for ever.
TurnEnds == pc \in {"start", "model", "tools"} ~> pc \in {"asked", "done"}
=============================================================================
