--------------------------- MODULE StatusSurface ---------------------------
(***************************************************************************)
(* What one turn shows in its chat: the StatusAnimation handle (the word   *)
(* rotation, the serialized chain of edits, the draft throttle), the Redis *)
(* StatusSession, and the reply the ReplyPresenter lands over it           *)
(* (status-animator, draft-throttle, status-session.store,                 *)
(* reply-presenter, and the surface half of turn-runner and                *)
(* webhook.consumer).                                                      *)
(*                                                                         *)
(* A private chat shows an ephemeral draft and then a fresh reply; a group *)
(* shows one real message that is edited and finally becomes the reply.    *)
(* The texts are abstracted to what they are: a status frame, the n-th     *)
(* snapshot of the streamed answer, or the final text (reply or question). *)
(***************************************************************************)
EXTENDS Naturals, Sequences, FiniteSets

CONSTANTS
    MaxSnapshots,  (* answer snapshots the model streams                       *)
    MaxFrames,     (* ticks of the loading-word rotation and per-round recaps  *)
    MaxFaults,     (* calls that fail, or whose answer is lost                 *)
    MaxTries       (* times a turn that throws is queued and run again         *)

ASSUME SurfaceConstants ==
    {MaxSnapshots, MaxFrames, MaxFaults, MaxTries} \subseteq Nat

VARIABLES
    private,   (* the chat kind                                               *)
    way,       (* what became of the message (see Ways)                       *)
    pc,        (* where the consumer or the turn stands                       *)
    says,      (* how the turn ends: "reply" or "ask" (with buttons)          *)
    session,   (* the StatusSession is in Redis                               *)
    chat,      (* the bot's messages of this turn, oldest first               *)
    draft,     (* the last frame of the ephemeral draft                       *)
    ref,       (* the handle's message: an index of chat, 0 when it has none  *)
    chain,     (* pendingEdit: the queued updates, the first one running      *)
    sending,   (* the first update's call is under way                        *)
    closed,    (* the throttle's window is closed                             *)
    pending,   (* the coalesced frame whose trailing flush is armed           *)
    inFlight,  (* trailing flushes under way, which nothing awaits            *)
    ticking,   (* the loading-word rotation is armed                          *)
    streaming, (* an answer token has arrived                                 *)
    recap,     (* a recap is the working frame                                *)
    latest,    (* the number of the latest snapshot                           *)
    landed,    (* the newest snapshot that reached the surface                *)
    finalized, (* the handle is finalized                                     *)
    threw,     (* the turn left through an exception                          *)
    tries,     (* runs of this turn                                           *)
    spent,     (* ticks and recaps so far                                     *)
    faults,    (* failed calls so far                                         *)
    losses     (* replies that landed though their call failed                *)

handle == <<ref, chain, sending, closed, pending, ticking, streaming, recap,
            latest, landed, finalized>>
screen == <<chat, draft, inFlight>>
course == <<private, way, says, threw, tries>>
vars == <<course, pc, session, screen, handle, spent, faults, losses>>

None == <<"none", 0>>
Word == <<"word", 0>>
Listening == <<"listening", 0>>
Recap == <<"recap", 0>>
Final == <<"final", 0>>   \* the reply or the question
Gone == <<"gone", 0>>     \* a deleted message
Snapshot(n) == <<"answer", n>>

Frames == {Word, Listening, Recap, Final} \cup {Snapshot(n) : n \in 1..MaxSnapshots}
Updates == [via: {"throttle", "direct", "edit"}, frame: Frames]

\* A message that never left its voice note, then the turns that own a surface:
\* the first note of a window ("seed"), typed text ("simple"), a claimed answer.
Ways == {"voice", "deaf", "joined", "overtaken", "unclaimed", "lost",
         "seed", "simple", "answer"}

Replying == {"edit1", "edit2", "send1", "send2", "ask1", "ask2", "retire", "persist"}
Ended == {"over", "requeued", "crashed"}

TypeOK ==
    /\ private \in BOOLEAN /\ session \in BOOLEAN
    /\ way \in Ways /\ says \in {"reply", "ask"}
    /\ pc \in Ended \cup Replying \cup {"listen", "notice", "heard", "open", "load",
              "prepare", "loop", "settle", "settling", "audit", "suspend", "ghost", "ghosting", "finalize"}
    /\ chat \in Seq(Frames \cup {Gone})
    /\ draft \in Frames \cup {None}
    /\ ref \in 0..Len(chat)
    /\ chain \in Seq(Updates) /\ pending \in Frames \cup {None}
    /\ sending \in BOOLEAN /\ closed \in BOOLEAN
    /\ inFlight \subseteq Frames
    /\ ticking \in BOOLEAN /\ streaming \in BOOLEAN /\ recap \in BOOLEAN
    /\ latest \in 0..MaxSnapshots /\ landed \in 0..MaxSnapshots
    /\ finalized \in BOOLEAN /\ threw \in BOOLEAN
    /\ tries \in Nat /\ spent \in Nat /\ faults \in 0..MaxFaults /\ losses \in 0..MaxFaults

Init ==
    /\ private \in BOOLEAN
    /\ \/ way = "voice" /\ pc = "listen"
       \/ way \in {"simple", "answer"} /\ pc = "open"
    /\ says \in {"reply", "ask"}
    /\ session = FALSE /\ chat = <<>> /\ draft = None /\ inFlight = {}
    /\ ref = 0 /\ chain = <<>> /\ sending = FALSE /\ closed = FALSE /\ pending = None
    /\ ticking = FALSE /\ streaming = FALSE /\ recap = FALSE
    /\ latest = 0 /\ landed = 0 /\ finalized = FALSE
    /\ threw = FALSE /\ tries = 1 /\ spent = 0 /\ faults = 0 /\ losses = 0

-----------------------------------------------------------------------------
\* callApi: the call succeeds, is refused, or takes effect while its answer is lost.
Outcomes == {"ok"} \cup IF faults < MaxFaults THEN {"refused", "lost"} ELSE {}
Takes(o) == o # "refused"
Charge(o) == faults' = IF o = "ok" THEN faults ELSE faults + 1

\* sendMessage and editMessageText on the chat, sendMessageDraft on the draft.
Post(o, f) == chat' = IF Takes(o) THEN Append(chat, f) ELSE chat
Edit(o, f) == chat' = IF Takes(o) THEN [chat EXCEPT ![ref] = f] ELSE chat
Delete(o) == chat' = IF Takes(o) THEN [chat EXCEPT ![ref] = Gone] ELSE chat
Draft(o, f) == draft' = IF Takes(o) THEN f ELSE draft

Later(a, b) == IF a < b THEN b ELSE a
Lands(o, f) == landed' = IF Takes(o) /\ f[1] = "answer" THEN Later(landed, f[2]) ELSE landed

\* StatusSessionStore: SET NX, or the handle that is there; the phase is advanced on a
\* session that is still there; DEL.
OpensSession == session' = TRUE
AdvancesPhase == UNCHANGED session
Clears == session' = FALSE

Captures(o) == ref' = IF o = "ok" THEN Len(chat) + 1 ELSE 0

\* begin and open: the session is set unless it is there; a fault leaves the
\* handle without one.  A private chat gets its first draft; a group gets a
\* message, whose id stays in the handle: it is not written to the session, so
\* the turn that opens the session of its voice note posts a message again.
Open(from, to) ==
    /\ pc = from /\ pc' = to
    /\ \/ \E o \in Outcomes :
            /\ OpensSession /\ Charge(o)
            /\ IF private
                 THEN Draft(o, Word) /\ UNCHANGED <<chat, ref>>
                 ELSE Post(o, Word) /\ Captures(o) /\ UNCHANGED draft
       \/ /\ faults < MaxFaults /\ faults' = faults + 1
          /\ UNCHANGED <<session, chat, draft, ref>>
    /\ UNCHANGED <<course, inFlight, chain, sending, closed, pending, ticking, streaming,
                   recap, latest, landed, finalized, spent, losses>>

BeginVoiceStatus == Open("listen", "notice")
BeginStatus == Open("open", "load")

\* showVoiceListening: awaited, and the first update of its handle, so it runs at once.
ShowListening ==
    /\ pc = "notice" /\ pc' = "heard"
    /\ \E o \in Outcomes :
         /\ Charge(o)
         /\ IF private THEN Draft(o, Listening) /\ UNCHANGED chat
              ELSE (IF ref = 0 THEN UNCHANGED chat ELSE Edit(o, Listening)) /\ UNCHANGED draft
    /\ UNCHANGED <<course, session, inFlight, handle, spent, losses>>

\* transcribeVoice and routeForUser decide what becomes of the note: no transcript
\* ("deaf"), a message that joins the window or seeds it, one that seeds it and is then
\* overtaken by a batch that returns to the front, an answer that claims its question or
\* comes too late, a throw ("lost").  The consumer finalizes the surface no turn will own.
AfterNoteUnfixed(w) ==
    CASE w \in {"seed", "answer"} -> "open" [] w = "deaf" -> "finalize" [] OTHER -> "over"
AfterNote(w) ==
    CASE w \in {"seed", "answer"} -> "open" [] w \in {"deaf", "joined"} -> "finalize"
      [] OTHER -> "over"

Heard ==
    /\ pc = "heard"
    /\ way' \in Ways \ {"voice", "simple"}
    /\ way' = "lost" => faults < MaxFaults
    /\ faults' = IF way' = "lost" THEN faults + 1 ELSE faults
    /\ pc' = AfterNote(way')
    /\ ref' = IF pc' = "open" THEN 0 ELSE ref      \* the turn begins a handle of its own
    /\ UNCHANGED <<private, says, threw, tries, session, screen, chain, sending, closed,
                   pending, ticking, streaming, recap, latest, landed, finalized, spent,
                   losses>>

\* startLoading: the phase of a session that is still there is rewritten, and a
\* private chat arms the rotation.
StartLoading ==
    /\ pc = "load" /\ pc' = "prepare"
    /\ AdvancesPhase /\ ticking' = private
    /\ UNCHANGED <<course, screen, ref, chain, sending, closed, pending, streaming,
                   recap, latest, landed, finalized, spent, faults, losses>>

\* A call of the turn that may throw; the finally block finalizes the handle.
Step(from, to) ==
    /\ pc = from
    /\ \/ pc' = to /\ UNCHANGED <<threw, faults>>
       \/ faults < MaxFaults /\ faults' = faults + 1 /\ pc' = "finalize" /\ threw' = TRUE
    /\ UNCHANGED <<private, way, says, tries, session, screen, handle, spent, losses>>

\* handleText, resumeAnswer: the conversation and the user's message are saved first.
Prepare == Step("prepare", "loop")

-----------------------------------------------------------------------------
(* The live surface while the tool loop runs.                              *)

Through == IF private THEN "throttle" ELSE "edit"
Queue(via, f) == chain' = Append(chain, [via |-> via, frame |-> f])
StopsRotation == ticking' = FALSE

\* tickWord
Tick ==
    /\ ticking /\ spent < MaxFrames /\ spent' = spent + 1
    /\ Queue("throttle", IF recap THEN Recap ELSE Word)
    /\ UNCHANGED <<course, pc, session, screen, ref, sending, closed, pending, ticking,
                   streaming, recap, latest, landed, finalized, faults, losses>>

\* showRecap, between two rounds
ShowRecap ==
    /\ pc = "loop" /\ spent < MaxFrames /\ spent' = spent + 1
    /\ recap' = private
    /\ Queue(Through, Recap)
    /\ UNCHANGED <<course, pc, session, screen, ref, sending, closed, pending, ticking,
                   streaming, latest, landed, finalized, faults, losses>>

\* streamAnswer: the first token ends the rotation and the recap for good
StreamAnswer ==
    /\ pc = "loop" /\ latest < MaxSnapshots
    /\ latest' = latest + 1 /\ Queue(Through, Snapshot(latest + 1))
    /\ streaming' = TRUE
    /\ IF streaming THEN UNCHANGED <<ticking, recap>> ELSE StopsRotation /\ recap' = FALSE
    /\ UNCHANGED <<course, pc, session, screen, ref, sending, closed, pending, landed,
                   finalized, spent, faults, losses>>

\* sendDraft and runStatusEdit look at the handle when they run, not when queued.
MaySend == ~finalized

\* The first update of the chain starts.  The throttle sends on an open window
\* (leading edge) and otherwise keeps the frame for the trailing flush.
LeadingEdge == ~closed /\ pending = None
RunUpdate ==
    /\ chain # <<>> /\ ~sending
    /\ LET u == Head(chain)
           sends == MaySend /\ (u.via = "edit" => ref # 0)
       IN IF u.via = "throttle" /\ ~LeadingEdge
            THEN /\ pending' = u.frame /\ chain' = Tail(chain)
                 /\ UNCHANGED <<sending, closed>>
            ELSE /\ closed' = (closed \/ u.via = "throttle")
                 /\ sending' = sends
                 /\ chain' = IF sends THEN chain ELSE Tail(chain)
                 /\ UNCHANGED pending
    /\ UNCHANGED <<course, pc, session, screen, ref, ticking, streaming, recap, latest,
                   landed, finalized, spent, faults, losses>>

UpdateLands ==
    /\ sending /\ sending' = FALSE /\ chain' = Tail(chain)
    /\ \E o \in Outcomes :
         LET u == Head(chain) IN
         /\ Charge(o) /\ Lands(o, u.frame)
         /\ IF u.via = "edit" THEN Edit(o, u.frame) /\ UNCHANGED draft
                              ELSE Draft(o, u.frame) /\ UNCHANGED chat
    /\ UNCHANGED <<course, pc, session, inFlight, ref, closed, pending, ticking, streaming,
                   recap, latest, finalized, spent, losses>>

\* The window's time has passed with no flush armed.
WindowReopens ==
    /\ closed /\ pending = None /\ closed' = FALSE
    /\ UNCHANGED <<course, pc, session, screen, ref, chain, sending, pending, ticking,
                   streaming, recap, latest, landed, finalized, spent, faults, losses>>

\* The trailing flush: void runNow(next), outside the chain.
TimerFires ==
    /\ pending # None /\ pending' = None
    /\ inFlight' = IF MaySend THEN inFlight \cup {pending} ELSE inFlight
    /\ UNCHANGED <<course, pc, session, chat, draft, ref, chain, sending, closed, ticking,
                   streaming, recap, latest, landed, finalized, spent, faults, losses>>

FlushLands(f) ==
    /\ f \in inFlight /\ inFlight' = inFlight \ {f}
    /\ \E o \in Outcomes : Charge(o) /\ Draft(o, f) /\ Lands(o, f)
    /\ UNCHANGED <<course, pc, session, chat, ref, chain, sending, closed, pending, ticking,
                   streaming, recap, latest, finalized, spent, losses>>

-----------------------------------------------------------------------------
(* The end of the turn.                                                    *)

NotAwaited == TRUE
Drained == chain = <<>>
CancelsFlush == pending' = None
FlushesNothing == UNCHANGED chain
FlushesLatest ==
    IF latest = 0 THEN UNCHANGED chain
    ELSE Queue(IF private THEN "direct" ELSE "edit", Snapshot(latest))

\* settle: rotation off, trailing flush dropped, the latest snapshot queued, and
\* then the chain is awaited.
LoopEnds ==
    /\ pc = "loop" /\ pc' = "settle"
    /\ UNCHANGED <<course, session, screen, handle, spent, faults, losses>>

Settle ==
    /\ pc = "settle" /\ pc' = "settling"
    /\ StopsRotation /\ CancelsFlush /\ FlushesLatest
    /\ UNCHANGED <<course, session, screen, ref, sending, closed, streaming, recap, latest,
                   landed, finalized, spent, faults, losses>>

Settled ==
    /\ pc = "settling" /\ Drained /\ pc' = "audit"
    /\ UNCHANGED <<course, session, screen, handle, spent, faults, losses>>

FirstReply == IF ref # 0 THEN "edit1" ELSE "send1"
FirstAsk == IF ref # 0 THEN "ask1" ELSE "ask2"

\* finishTurn: the rounds are persisted, then the turn replies or suspends.
Audit == Step("audit", IF says = "ask" THEN "suspend" ELSE FirstReply)

\* suspendAndAsk: the row is created; settleDraftTo puts the question in the draft of
\* a private chat and awaits it; then the buttons are sent.
Suspend == Step("suspend", IF private THEN "ghost" ELSE FirstAsk)

SettleDraftTo ==
    /\ pc = "ghost" /\ pc' = "ghosting"
    /\ StopsRotation /\ CancelsFlush /\ Queue("direct", Final)
    /\ UNCHANGED <<course, session, screen, ref, sending, closed, streaming, recap, latest,
                   landed, finalized, spent, faults, losses>>

DraftSettled ==
    /\ pc = "ghosting" /\ Drained /\ pc' = FirstAsk
    /\ UNCHANGED <<course, session, screen, handle, spent, faults, losses>>

\* A call that delivers the final text: at "from", and on to "else" when it throws.
\* A lost answer counts as a throw although the text is there.
Deliver(from, applies(_), done, else) ==
    /\ pc = from
    /\ \E o \in Outcomes :
         /\ Charge(o) /\ applies(o)
         /\ losses' = IF o = "lost" THEN losses + 1 ELSE losses
         /\ pc' = IF o = "ok" THEN done ELSE else
    /\ UNCHANGED <<course, session, draft, inFlight, handle, spent>>

AfterFresh == IF ref # 0 THEN "retire" ELSE "persist"
Morph(o) == Edit(o, Final)
Send(o) == Post(o, Final)

\* morphInto: the edit as HTML, then as plain text, then a fresh reply.
EditHtml == Deliver("edit1", Morph, "persist", "edit2")
EditPlain == Deliver("edit2", Morph, "persist", "send1")

\* sendText: as HTML, then as plain text, then null.
SendHtmlOnly == Deliver("send1", Send, AfterFresh, "persist")
SendHtml == Deliver("send1", Send, AfterFresh, "send2")
SendPlain == Deliver("send2", Send, AfterFresh, "persist")

\* sendQuestion with buttons: morph, or a fresh keyboard, or null.
AskMorph == Deliver("ask1", Morph, "persist", "ask2")
AskFreshRetires == Deliver("ask2", Send, AfterFresh, AfterFresh)
AskFresh == Deliver("ask2", Send, AfterFresh, "persist")

\* deleteQuietly, reached only once a fresh message has landed
Retire ==
    /\ pc = "retire" /\ pc' = "persist"
    /\ \E o \in Outcomes : Charge(o) /\ Delete(o)
    /\ UNCHANGED <<course, session, draft, inFlight, handle, spent, losses>>

Persist == Step("persist", "finalize")

\* finalize, in the finally block or by the consumer; the clearing may fail.  A batch
\* whose turn threw is queued again, under the correlation id of its first message;
\* an answer that is queued again finds its question claimed.
Finalize ==
    /\ pc = "finalize"
    /\ StopsRotation /\ CancelsFlush /\ finalized' = TRUE
    /\ \/ Clears /\ UNCHANGED faults
       \/ faults < MaxFaults /\ faults' = faults + 1 /\ UNCHANGED session
    /\ pc' = IF threw /\ way # "answer" THEN "requeued" ELSE "over"
    /\ UNCHANGED <<course, screen, ref, chain, sending, closed, streaming, recap, latest,
                   landed, spent, losses>>

\* The queued batch runs: a new handle, whose word rotation starts afresh.
RunAgain ==
    /\ pc = "requeued" /\ tries < MaxTries /\ tries' = tries + 1 /\ pc' = "open"
    /\ inFlight' = IF sending /\ private THEN inFlight \cup {Head(chain).frame} ELSE inFlight
    /\ ref' = 0 /\ chain' = <<>> /\ sending' = FALSE /\ closed' = FALSE /\ pending' = None
    /\ ticking' = FALSE /\ streaming' = FALSE /\ recap' = FALSE
    /\ latest' = 0 /\ landed' = 0 /\ finalized' = FALSE /\ threw' = FALSE
    /\ UNCHANGED <<private, way, says, session, chat, draft, spent, faults, losses>>

\* The process dies: the handle and its timers are gone, a sent call may still land.
Crash ==
    /\ pc \notin Ended /\ faults < MaxFaults /\ faults' = faults + 1 /\ pc' = "crashed"
    /\ inFlight' = IF sending /\ private THEN inFlight \cup {Head(chain).frame} ELSE inFlight
    /\ chain' = <<>> /\ sending' = FALSE /\ pending' = None /\ ticking' = FALSE
    /\ UNCHANGED <<course, session, chat, draft, ref, closed, streaming, recap, latest,
                   landed, finalized, spent, losses>>

Expire ==
    /\ session /\ session' = FALSE
    /\ UNCHANGED <<course, pc, screen, handle, spent, faults, losses>>

Next ==
    \/ BeginVoiceStatus \/ ShowListening \/ Heard
    \/ BeginStatus \/ StartLoading \/ Prepare
    \/ Tick \/ ShowRecap \/ StreamAnswer \/ LoopEnds
    \/ RunUpdate \/ UpdateLands \/ WindowReopens \/ TimerFires
    \/ \E f \in Frames : FlushLands(f)
    \/ Settle \/ Settled \/ Audit \/ Suspend \/ SettleDraftTo \/ DraftSettled
    \/ EditHtml \/ EditPlain \/ SendHtml \/ SendPlain \/ AskMorph \/ AskFresh \/ Retire
    \/ Persist \/ Finalize \/ RunAgain \/ Crash \/ Expire

Spec == Init /\ [][Next]_vars

-----------------------------------------------------------------------------
(* Properties                                                              *)

\* While the reply or the question is being sent, nothing of the live surface is left that
\* could queue or run an update after it: the chain has been drained and the rotation is off
\* (settle, settleDraftTo). And the newest snapshot of the streamed answer has reached the
\* user by then, although the throttle drops frames and cancels its flush.
DrainedBeforeReply ==
    /\ pc \in Replying => chain = <<>> /\ ~sending /\ ~ticking
    /\ pc \in {"audit"} \cup Replying /\ faults = 0 => landed = latest

\* A message that became the reply stays the reply: no update that was queued or sent
\* earlier reverts it, and it is deleted only when another message carries the reply.
Shows(c) == {i \in DOMAIN c : c[i] = Final}
ReplyStays ==
    [][\A i \in Shows(chat) :
          chat'[i] = Final \/ (chat'[i] = Gone /\ Shows(chat') # {})]_chat

\* Once the chat holds a message of the turn it is never left with nothing: the stale
\* status message is retired only after the fresh one landed (morphInto, sendQuestion).
Blank(c) == \A i \in DOMAIN c : c[i] = Gone
NeverBlank == [][~Blank(chat) => ~Blank(chat')]_chat

\* A session nobody will clear is left behind only by a failed call, by a voice note
\* that seeded the window and was overtaken, or by an answer that came too late.
LeaksExplained ==
    pc = "over" /\ session => faults > 0 \/ way \in {"overtaken", "unclaimed"}

\* A finished turn has told the user its reply, unless it threw or every way the code
\* tries failed; it has told it twice only after a lost answer or a second run.
WaysTried == (IF says = "ask" THEN 1 ELSE 2) * (IF ref # 0 THEN 2 ELSE 1)
RepliedOnce ==
    pc = "over" /\ way \in {"seed", "simple", "answer"} =>
        /\ Shows(chat) = {} => threw \/ faults >= WaysTried
        /\ Cardinality(Shows(chat)) <= losses + tries

\* The doc of settle: no late update lands after the final reply and reverts it.
NoFrameAfterReply == [][Shows(chat) # {} => draft' = draft]_draft

=============================================================================
