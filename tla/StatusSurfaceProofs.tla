----------------------- MODULE StatusSurfaceProofs -----------------------
(***************************************************************************)
(* Theorems about StatusSurface, for any numbers of snapshots, frames,     *)
(* failed calls and runs of a turn.                                        *)
(*                                                                         *)
(* The invariant has three layers: what the chain of edits may hold and    *)
(* when it is empty (Shape, Rests), which snapshots are still on their way *)
(* (Newest), and what the user has been told so far (Told, Tried).         *)
(***************************************************************************)
EXTENDS StatusSurface, FiniteSetTheorems, TLAPS

\* Where a turn, or the listening notice before it, has queued nothing yet; where the
\* tool loop runs and its surface drains; where the loop has ended and the surface rests.
Before == {"listen", "notice", "heard", "open", "load"}
Looping == {"loop", "settle", "settling"}
After == {"audit", "suspend", "ghost"} \cup Replying

\* The updates fit the chat: a draft is never edited, a message is never drafted, and only a
\* draft ever gets the final text through the chain.  A message is edited only in the loop.
Queued == {chain[k] : k \in DOMAIN chain}
Fits(u) == IF private THEN u.via # "edit" ELSE u.via = "edit" /\ u.frame # Final
Shape ==
    /\ \A u \in Queued : Fits(u)
    /\ private => ref = 0
    /\ ~private => /\ pending = None /\ inFlight = {} /\ ~ticking
                   /\ chain # <<>> => pc \in Looping
    /\ sending /\ ~private => ref # 0
    /\ pc \in {"ghost", "ghosting"} => private
    /\ pc \in {"listen", "open"} => ref = 0
    /\ pc \in {"edit1", "edit2", "ask1", "retire"} => ref # 0

\* Nothing is queued before the turn loads or after the surface has drained.
Rests ==
    /\ pc \in Before => chain = <<>> /\ ~sending /\ ~ticking /\ pending = None
    /\ pc \in {"settling", "ghosting"} => ~ticking
    /\ pc \in After => chain = <<>> /\ ~sending /\ ~ticking
    /\ pc \notin Ended => ~finalized

\* The update with which settle flushes the newest snapshot.
Flush == [via |-> IF private THEN "direct" ELSE "edit", frame |-> Snapshot(latest)]

\* While no call failed: every snapshot on its way is of this run and no newer than the
\* newest; once settle has flushed, that one has landed or is the last of the chain.
UpTo(f, n) == \A k \in 1..MaxSnapshots : f = Snapshot(k) => k <= n
OneRun == ~threw /\ pc # "requeued"
OnTheirWay ==
    /\ \A u \in Queued : UpTo(u.frame, latest)
    /\ UpTo(pending, latest) /\ \A f \in inFlight : UpTo(f, latest)
Flushed ==
    /\ landed <= latest
    /\ ~private /\ pc \in {"load", "prepare"} \cup Looping => ref # 0
    /\ pc = "settling" /\ landed # latest => chain # <<>> /\ chain[Len(chain)] = Flush
    /\ pc \in After \cup {"ghosting"} => landed = latest
Newest == faults = 0 => OneRun /\ OnTheirWay /\ Flushed

\* The message the chain edits is no reply yet, and the stale message is retired only
\* behind the reply that was sent after it.
Unreplied ==
    /\ ~private /\ ref # 0 /\ pc \in Before \cup {"prepare"} \cup Looping => chat[ref] # Final
    /\ pc = "retire" => ref < Len(chat) /\ chat[Len(chat)] = Final

\* Until the reply has landed, each way of telling it that was tried has cost a fault.
Shown == Shows(chat) # {}
OwnsSurface == way \in {"seed", "simple", "answer"}
Tried ==
    /\ pc \in {"edit1", "edit2", "send1", "send2"} => says = "reply"
    /\ pc \in {"suspend", "ghost", "ghosting", "ask1", "ask2"} => says = "ask"
    /\ pc = "edit2" => Shown \/ faults >= 1
    /\ pc = "send1" /\ ref # 0 => Shown \/ faults >= 2
    /\ pc = "send2" => Shown \/ faults >= (IF ref # 0 THEN 3 ELSE 1)
    /\ pc = "ask2" /\ ref # 0 => Shown \/ faults >= 1
    /\ pc = "persist" => Shown \/ faults >= WaysTried
    /\ pc \in {"finalize", "over"} /\ OwnsSurface /\ ~threw => Shown \/ faults >= WaysTried

\* The user has been told at most once per run and per lost answer; one less until this run
\* has told it.
Telling == {"retire", "persist", "finalize"} \cup Ended
Told == Cardinality(Shows(chat)) <= losses + tries - (IF pc \in Telling THEN 0 ELSE 1)

\* Besides the types: an update that runs is in the chain, a lost reply has cost a fault.
Running == sending => chain # <<>>
Typed == TypeOK /\ losses <= faults /\ Running

-----------------------------------------------------------------------------
\* What tells the frames apart.
LEMMA FrameFacts ==
    /\ {Word, Listening, Recap, Final} \subseteq Frames
    /\ \A n \in 1..MaxSnapshots : Snapshot(n) \in Frames
    /\ Gone \notin Frames /\ None \notin Frames
    /\ Final # Gone /\ Word # Final /\ Listening # Final /\ Recap # Final
    /\ \A n : Snapshot(n) # Final /\ Snapshot(n) # Word /\ Snapshot(n) # Recap
              /\ Snapshot(n) # Listening /\ Snapshot(n) # None
    /\ \A m, n : Snapshot(m) = Snapshot(n) => m = n
    /\ \A n : Snapshot(n)[1] = "answer" /\ Snapshot(n)[2] = n
    /\ \A f \in Frames : f[1] = "answer" => \E n \in 1..MaxSnapshots : f = Snapshot(n)
BY SurfaceConstants DEF Frames, Word, Listening, Recap, Final, Gone, None, Snapshot

\* Landing keeps the newest snapshot that landed in its range, and moves it on only to a
\* snapshot's number.
LEMMA LandsFacts ==
    ASSUME Typed, NEW o, NEW f \in Frames, Lands(o, f)
    PROVE  /\ landed' \in 0..MaxSnapshots
           /\ \A n \in 0..MaxSnapshots : UpTo(f, n) /\ landed <= n => landed' <= n
           /\ landed' >= landed
           /\ \A n \in 1..MaxSnapshots : Takes(o) /\ f = Snapshot(n) => landed' >= n
<1>1. CASE f[1] = "answer"
  <2>1. PICK n \in 1..MaxSnapshots : f = Snapshot(n)
    BY <1>1, FrameFacts
  <2>2. f[2] = n
    BY <2>1, FrameFacts
  <2>3. \A m : f = Snapshot(m) => m = n
    BY <2>1, FrameFacts
  <2>4. landed' = IF Takes(o) /\ landed < n THEN n ELSE landed
    BY <1>1, <2>2 DEF Lands, Later
  <2>5. landed \in 0..MaxSnapshots /\ MaxSnapshots \in Nat
    BY SurfaceConstants DEF Typed, TypeOK
  <2>6. \A m : UpTo(f, m) => n <= m
    BY <2>1 DEF UpTo
  <2>7. \A m \in 1..MaxSnapshots : f = Snapshot(m) => m = n
    BY <2>3
  <2> HIDE DEF UpTo, Snapshot
  <2>8. QED
    BY <2>1, <2>4, <2>5, <2>6, <2>7
<1>2. CASE f[1] # "answer"
  <2>1. \A m : f # Snapshot(m)
    BY <1>2, FrameFacts
  <2>2. landed' = landed
    BY <1>2 DEF Lands
  <2>3. QED
    BY <2>1, <2>2, SurfaceConstants DEF Typed, TypeOK
<1>3. QED
  BY <1>1, <1>2

\* The chain is a queue of updates.
LEMMA ChainFacts ==
    ASSUME chain \in Seq(Updates)
    PROVE  /\ Queued \subseteq Updates /\ Len(chain) \in Nat
           /\ chain = <<>> => Queued = {}
           /\ chain # <<>> => /\ Head(chain) = chain[1] /\ Head(chain) \in Queued
                              /\ Tail(chain) \in Seq(Updates)
                              /\ Len(Tail(chain)) = Len(chain) - 1
                              /\ Len(chain) \in 1..1 \/ Len(chain) > 1
           /\ chain' = <<>> => Queued' = {}
           /\ chain # <<>> /\ chain' = Tail(chain) => Queued' \subseteq Queued
<1>1. /\ Len(chain) \in Nat /\ DOMAIN chain = 1..Len(chain)
      /\ \A k \in 1..Len(chain) : chain[k] \in Updates
  OBVIOUS
<1>2. Queued \subseteq Updates /\ (chain = <<>> => Queued = {})
  BY <1>1 DEF Queued
<1>3. ASSUME chain # <<>>
      PROVE  /\ Head(chain) = chain[1] /\ 1 \in 1..Len(chain) /\ Tail(chain) \in Seq(Updates)
             /\ Len(Tail(chain)) = Len(chain) - 1
             /\ DOMAIN Tail(chain) = 1..(Len(chain) - 1)
             /\ \A k \in 1..(Len(chain) - 1) : Tail(chain)[k] = chain[k + 1]
  BY <1>1, <1>3
<1>4. ASSUME chain # <<>> PROVE Head(chain) \in Queued
  BY <1>1, <1>3, <1>4 DEF Queued
<1>5. ASSUME chain # <<>>, chain' = Tail(chain) PROVE Queued' \subseteq Queued
  BY <1>1, <1>3, <1>5 DEF Queued
<1>6. ASSUME chain' = <<>> PROVE Queued' = {}
  BY <1>6 DEF Queued
<1>7. QED
  BY <1>1, <1>2, <1>3, <1>4, <1>5, <1>6

LEMMA TailFacts ==
    ASSUME chain \in Seq(Updates), Len(chain) > 1
    PROVE  Tail(chain) # <<>> /\ Tail(chain)[Len(Tail(chain))] = chain[Len(chain)]
<1>1. /\ Len(chain) \in Nat /\ Len(Tail(chain)) = Len(chain) - 1
      /\ Tail(chain)[Len(chain) - 1] = chain[Len(chain)]
  OBVIOUS
<1>2. Len(Tail(chain)) # Len(<<>>)
  BY <1>1
<1>3. QED
  BY <1>1, <1>2

LEMMA QueueFacts ==
    ASSUME chain \in Seq(Updates), NEW via \in {"throttle", "direct", "edit"}, NEW f \in Frames,
           Queue(via, f)
    PROVE  LET u == [via |-> via, frame |-> f] IN
           /\ chain' \in Seq(Updates) /\ chain' # <<>> /\ chain'[Len(chain')] = u
           /\ Queued' = Queued \cup {u}
<1> DEFINE u == [via |-> via, frame |-> f]
<1>1. u \in Updates /\ chain' = Append(chain, u)
  BY DEF Queue, Updates
<1> HIDE DEF u
<1>2. /\ chain' \in Seq(Updates) /\ chain' # <<>> /\ Len(chain') = Len(chain) + 1
      /\ chain'[Len(chain) + 1] = u /\ \A k \in 1..Len(chain) : chain'[k] = chain[k]
      /\ DOMAIN chain = 1..Len(chain) /\ DOMAIN chain' = 1..(Len(chain) + 1) /\ Len(chain) \in Nat
  BY <1>1
<1>3. Queued' = Queued \cup {u}
  BY <1>2 DEF Queued
<1>4. QED
  BY <1>2, <1>3 DEF u

\* A failed call costs one fault, and at most MaxFaults of them happen.
LEMMA ChargeFacts ==
    ASSUME Typed, NEW o \in Outcomes, Charge(o)
    PROVE  /\ faults' \in 0..MaxFaults /\ faults' >= faults
           /\ o = "ok" => faults' = faults
           /\ o # "ok" => faults' = faults + 1
           /\ losses <= faults'
           /\ losses + 1 \in 0..MaxFaults \/ o = "ok"
           /\ o # "ok" => losses + 1 <= faults'
           /\ o \in {"ok", "refused", "lost"}
<1>1. faults \in 0..MaxFaults /\ losses \in 0..MaxFaults /\ MaxFaults \in Nat /\ losses <= faults
  BY SurfaceConstants DEF Typed, TypeOK
<1>2. o = "ok" \/ (faults < MaxFaults /\ o \in {"refused", "lost"})
  BY DEF Outcomes
<1>3. QED
  BY <1>1, <1>2 DEF Charge

\* What the calls of the bot do to the chat.
LEMMA ScreenFacts ==
    ASSUME Typed, NEW o, NEW f \in Frames \cup {Gone}
    PROVE  /\ DOMAIN chat = 1..Len(chat) /\ Len(chat) \in Nat /\ ref \in 0..Len(chat)
           /\ Post(o, f) => chat' \in Seq(Frames \cup {Gone}) /\ Len(chat') >= Len(chat)
           /\ Post(o, f) /\ Takes(o) => /\ Len(chat') = Len(chat) + 1 /\ chat'[Len(chat) + 1] = f
                                        /\ \A i \in 1..Len(chat) : chat'[i] = chat[i]
           /\ Edit(o, f) => chat' \in Seq(Frames \cup {Gone}) /\ Len(chat') = Len(chat)
           /\ Edit(o, f) /\ Takes(o) /\ ref # 0 => chat'[ref] = f
           /\ Edit(o, f) => \A i \in 1..Len(chat) : i # ref => chat'[i] = chat[i]
           /\ Delete(o) => Edit(o, Gone)
<1>1. chat \in Seq(Frames \cup {Gone}) /\ ref \in 0..Len(chat)
  BY DEF Typed, TypeOK
<1>2. QED
  BY <1>1 DEF Post, Edit, Delete

\* An update runs only as the first of the chain.
LEMMA RunningStep == TypeOK /\ Running /\ [Next]_vars => Running'
<1> SUFFICES ASSUME TypeOK, Running, [Next]_vars PROVE Running'
  OBVIOUS
<1>0. chain \in Seq(Updates)
  BY DEF TypeOK
<1>1. ASSUME NEW via, NEW f, Queue(via, f) PROVE chain' # <<>>
  BY <1>0, <1>1 DEF Queue
<1>2. CASE Tick \/ ShowRecap \/ StreamAnswer \/ SettleDraftTo
  BY <1>1, <1>2 DEF Tick, ShowRecap, StreamAnswer, SettleDraftTo, Running
<1>3. CASE Settle
  BY <1>1, <1>3 DEF Settle, FlushesLatest, Running
<1>4. CASE RunUpdate
  BY <1>4 DEF RunUpdate, Running
<1>5. CASE UpdateLands \/ RunAgain \/ Crash
  BY <1>5 DEF UpdateLands, RunAgain, Crash, Running
<1>6. CASE UNCHANGED <<sending, chain>>
  BY <1>6 DEF Running
<1>7. QED
  BY <1>2, <1>3, <1>4, <1>5, <1>6
     DEF Next, vars, handle, BeginVoiceStatus, BeginStatus, Open, ShowListening, Heard,
         StartLoading, Prepare, Step, LoopEnds, WindowReopens, TimerFires, FlushLands, Settled,
         Audit, Suspend, DraftSettled, EditHtml, EditPlain, SendHtml, SendPlain, AskMorph,
         AskFresh, Deliver, Retire, Persist, Finalize, Expire

\* The modes, ways and numbers have their types.
LEMMA TypedInvariant == Spec => []Typed
<1>1. Init => Typed
  <2> SUFFICES ASSUME Init PROVE Typed
    OBVIOUS
  <2>1. /\ {private, session, sending, closed, ticking, streaming, recap, finalized, threw} \subseteq BOOLEAN
        /\ ~sending
    BY DEF Init
  <2>2. /\ way \in Ways /\ says \in {"reply", "ask"} /\ pc \in {"listen", "open"}
        /\ chat = <<>> /\ draft = None /\ inFlight = {} /\ ref = 0 /\ chain = <<>> /\ pending = None
        /\ latest = 0 /\ landed = 0 /\ tries = 1 /\ spent = 0 /\ faults = 0 /\ losses = 0
    BY DEF Init, Ways
  <2>3. QED
    BY <2>1, <2>2, SurfaceConstants DEF Typed, Running, TypeOK
<1>2. Typed /\ [Next]_vars => Typed'
  <2> SUFFICES ASSUME Typed, [Next]_vars PROVE Typed'
    OBVIOUS
  <2> Running'
    BY RunningStep DEF Typed
  <2>0. MaxSnapshots \in Nat /\ MaxFaults \in Nat /\ MaxFrames \in Nat /\ MaxTries \in Nat
    BY SurfaceConstants
  <2>1. ASSUME NEW from, NEW to \in {"notice", "load"}, Open(from, to) PROVE Typed'
    <3>1. CASE \E o \in Outcomes :
                 /\ OpensSession /\ Charge(o)
                 /\ IF private
                      THEN Draft(o, Word) /\ UNCHANGED <<chat, ref>>
                      ELSE Post(o, Word) /\ Captures(o) /\ UNCHANGED draft
      <4>1. PICK o \in Outcomes : /\ OpensSession /\ Charge(o)
                                  /\ IF private
                                       THEN Draft(o, Word) /\ UNCHANGED <<chat, ref>>
                                       ELSE Post(o, Word) /\ Captures(o) /\ UNCHANGED draft
        BY <3>1
      <4>2. chat' \in Seq(Frames \cup {Gone}) /\ ref' \in 0..Len(chat')
        BY <4>1, ScreenFacts, FrameFacts DEF Typed, TypeOK, Captures, Takes
      <4>3. draft' \in Frames \cup {None}
        BY <4>1, FrameFacts DEF Typed, TypeOK, Draft
      <4>4. faults' \in 0..MaxFaults /\ losses <= faults'
        BY <4>1, ChargeFacts
      <4>5. QED
        BY <2>1, <4>1, <4>2, <4>3, <4>4 DEF Open, Typed, TypeOK, course, OpensSession
    <3>2. QED
      BY <2>0, <2>1, <3>1 DEF Open, Typed, TypeOK, course
  <2>2. CASE ShowListening
    <3>1. PICK o \in Outcomes :
            /\ Charge(o)
            /\ IF private THEN Draft(o, Listening) /\ UNCHANGED chat
                 ELSE (IF ref = 0 THEN UNCHANGED chat ELSE Edit(o, Listening)) /\ UNCHANGED draft
      BY <2>2 DEF ShowListening
    <3>2. chat' \in Seq(Frames \cup {Gone}) /\ Len(chat') = Len(chat)
      BY <3>1, ScreenFacts, FrameFacts DEF Typed, TypeOK
    <3>3. draft' \in Frames \cup {None}
      BY <3>1, FrameFacts DEF Typed, TypeOK, Draft
    <3>4. faults' \in 0..MaxFaults /\ losses <= faults'
      BY <3>1, ChargeFacts
    <3>5. QED
      BY <2>2, <3>2, <3>3, <3>4 DEF ShowListening, Typed, TypeOK, course, handle
  <2>3. CASE Heard
    BY <2>0, <2>3, ScreenFacts DEF Heard, AfterNote, Typed, TypeOK, screen, Ended
  <2>4. CASE StartLoading \/ LoopEnds \/ Settled \/ DraftSettled
    BY <2>4
       DEF StartLoading, LoopEnds, Settled, DraftSettled, FirstAsk, AdvancesPhase, Typed, TypeOK,
           course, screen, handle, Replying
  <2>5. ASSUME NEW from, NEW to, Step(from, to),
               to \in Replying \cup {"loop", "suspend", "ghost", "finalize"}
        PROVE Typed'
    <3>1. /\ pc' = to \/ pc' = "finalize"
          /\ UNCHANGED <<private, way, says, tries, session, screen, handle, spent, losses>>
      BY <2>5 DEF Step
    <3>2. threw' = threw \/ threw' = TRUE
      BY <2>5 DEF Step
    <3>3. threw' \in BOOLEAN
      BY <3>2, Zenon DEF Typed, TypeOK
    <3>4. faults \in 0..MaxFaults /\ losses <= faults /\ losses \in Nat
      BY DEF Typed, TypeOK
    <3>5. faults' \in 0..MaxFaults /\ losses <= faults'
      BY <2>0, <2>5, <3>4 DEF Step
    <3>6. QED
      BY <2>5, <3>1, <3>3, <3>5 DEF Typed, TypeOK, screen, handle, Replying
  <2>6. ASSUME NEW via \in {"throttle", "direct", "edit"}, NEW f \in Frames, Queue(via, f)
        PROVE chain' \in Seq(Updates)
    BY <2>6, QueueFacts DEF Typed, TypeOK
  <2>7. CASE Tick
    <3>1. chain' \in Seq(Updates)
      BY <2>6, <2>7, FrameFacts DEF Tick
    <3>2. QED
      BY <2>7, <3>1 DEF Tick, Typed, TypeOK, course, screen
  <2>8. CASE ShowRecap
    <3>1. chain' \in Seq(Updates)
      BY <2>6, <2>8, FrameFacts DEF ShowRecap, Through
    <3>2. QED
      BY <2>8, <3>1 DEF ShowRecap, Typed, TypeOK, course, screen
  <2>9. CASE StreamAnswer
    <3>0. latest + 1 \in 1..MaxSnapshots
      BY <2>0, <2>9 DEF StreamAnswer, Typed, TypeOK
    <3>1. chain' \in Seq(Updates)
      BY <2>6, <2>9, <3>0, FrameFacts DEF StreamAnswer, Through
    <3>2. QED
      <4>1. /\ {streaming', ticking', recap'} \subseteq BOOLEAN /\ latest' = latest + 1
            /\ UNCHANGED <<course, pc, session, screen, ref, sending, closed, pending, landed,
                           finalized, spent, faults, losses>>
        BY <2>9 DEF StreamAnswer, StopsRotation, Typed, TypeOK
      <4>2. QED
        BY <3>0, <3>1, <4>1 DEF Typed, TypeOK, course, screen
  <2>10. CASE RunUpdate
    <3>1. Head(chain) \in Updates /\ chain' \in Seq(Updates)
      BY <2>10, ChainFacts DEF RunUpdate, Typed, TypeOK
    <3>2. {sending', closed'} \subseteq BOOLEAN /\ pending' \in Frames \cup {None}
      BY <2>10, <3>1 DEF RunUpdate, MaySend, LeadingEdge, Typed, TypeOK, Updates
    <3>3. UNCHANGED <<course, pc, session, screen, ref, ticking, streaming, recap, latest,
                      landed, finalized, spent, faults, losses>>
      BY <2>10 DEF RunUpdate
    <3>4. QED
      BY <3>1, <3>2, <3>3 DEF Typed, TypeOK, course, screen
  <2>11. CASE UpdateLands
    <3>1. PICK o \in Outcomes :
            /\ Charge(o) /\ Lands(o, Head(chain).frame)
            /\ IF Head(chain).via = "edit" THEN Edit(o, Head(chain).frame) /\ UNCHANGED draft
                                          ELSE Draft(o, Head(chain).frame) /\ UNCHANGED chat
      BY <2>11 DEF UpdateLands
    <3>2. Head(chain).frame \in Frames /\ chain' \in Seq(Updates)
      BY <2>11, ChainFacts DEF Running, UpdateLands, Typed, TypeOK, Updates
    <3>3. faults' \in 0..MaxFaults /\ losses <= faults' /\ landed' \in 0..MaxSnapshots
      BY <3>1, <3>2, ChargeFacts, LandsFacts
    <3>4. chat' \in Seq(Frames \cup {Gone}) /\ Len(chat') = Len(chat)
      BY <3>1, <3>2, ScreenFacts DEF Typed, TypeOK
    <3>5. draft' \in Frames \cup {None}
      BY <3>1, <3>2 DEF Typed, TypeOK, Draft
    <3>6. QED
      <4>1. /\ sending' \in BOOLEAN
            /\ UNCHANGED <<course, pc, session, inFlight, ref, closed, pending, ticking, streaming,
                           recap, latest, finalized, spent, losses>>
        BY <2>11 DEF UpdateLands
      <4>2. QED
        BY <3>2, <3>3, <3>4, <3>5, <4>1 DEF Typed, TypeOK, course
  <2>12. CASE WindowReopens \/ TimerFires
    <3>1. /\ closed' \in BOOLEAN /\ pending' \in Frames \cup {None} /\ inFlight' \subseteq Frames
          /\ UNCHANGED <<course, pc, session, chat, draft, ref, chain, sending, ticking, streaming,
                         recap, latest, landed, finalized, spent, faults, losses>>
      BY <2>12 DEF WindowReopens, TimerFires, Typed, TypeOK, screen
    <3>2. QED
      BY <3>1 DEF Typed, TypeOK, course
  <2>13. ASSUME NEW f \in Frames, FlushLands(f) PROVE Typed'
    <3>1. PICK o \in Outcomes : Charge(o) /\ Draft(o, f) /\ Lands(o, f)
      BY <2>13 DEF FlushLands
    <3>2. faults' \in 0..MaxFaults /\ losses <= faults' /\ landed' \in 0..MaxSnapshots
      BY <3>1, ChargeFacts, LandsFacts
    <3>3. draft' \in Frames \cup {None} /\ inFlight' \subseteq Frames
      BY <2>13, <3>1 DEF FlushLands, Typed, TypeOK, Draft
    <3>4. QED
      BY <2>13, <3>2, <3>3 DEF FlushLands, Typed, TypeOK, course
  <2>14. CASE Settle
    <3>1. chain' \in Seq(Updates)
      BY <2>0, <2>6, <2>14, FrameFacts DEF Settle, FlushesLatest, Typed, TypeOK
    <3>2. QED
      BY <2>14, <3>1 DEF Settle, StopsRotation, CancelsFlush, Typed, TypeOK, course, screen
  <2>15. CASE SettleDraftTo
    <3>1. chain' \in Seq(Updates)
      BY <2>6, <2>15, FrameFacts DEF SettleDraftTo
    <3>2. QED
      BY <2>15, <3>1 DEF SettleDraftTo, StopsRotation, CancelsFlush, Typed, TypeOK, course, screen
  <2>16. ASSUME NEW from, NEW done \in {"retire", "persist"}, NEW o \in Outcomes,
                NEW else \in Replying, pc' = IF o = "ok" THEN done ELSE else,
                Charge(o), Morph(o) \/ Send(o),
                losses' = IF o = "lost" THEN losses + 1 ELSE losses,
                UNCHANGED <<course, session, draft, inFlight, handle, spent>>
         PROVE Typed'
    <3>1. chat' \in Seq(Frames \cup {Gone}) /\ Len(chat') >= Len(chat) /\ Len(chat) \in Nat
      BY <2>16, ScreenFacts, FrameFacts DEF Morph, Send
    <3>2. faults' \in 0..MaxFaults /\ losses' <= faults' /\ losses' \in 0..MaxFaults
      BY <2>16, ChargeFacts DEF Typed, TypeOK
    <3>3. pc' \in Replying
      BY <2>16 DEF Replying
    <3>4. QED
      BY <2>16, <3>1, <3>2, <3>3 DEF Typed, TypeOK, course, handle
  <2>17. CASE EditHtml \/ EditPlain \/ SendHtml \/ SendPlain \/ AskMorph \/ AskFresh
    BY <2>16, <2>17 DEF EditHtml, EditPlain, SendHtml, SendPlain, AskMorph, AskFresh, Deliver,
                        AfterFresh, Replying
  <2>18. CASE Retire
    <3>1. PICK o \in Outcomes : Charge(o) /\ Delete(o)
      BY <2>18 DEF Retire
    <3>2. chat' \in Seq(Frames \cup {Gone}) /\ Len(chat') = Len(chat)
      BY <3>1, ScreenFacts
    <3>3. faults' \in 0..MaxFaults /\ losses <= faults'
      BY <3>1, ChargeFacts
    <3>4. QED
      BY <2>18, <3>2, <3>3 DEF Retire, Typed, TypeOK, course, handle, Replying
  <2>19. CASE Finalize
    <3>1. /\ {ticking', finalized'} \subseteq BOOLEAN /\ pending' = None /\ pc' \in Ended
          /\ UNCHANGED <<course, screen, ref, chain, sending, closed, streaming, recap, latest,
                         landed, spent, losses>>
      BY <2>19 DEF Finalize, StopsRotation, CancelsFlush, Ended
    <3>2. session' = FALSE \/ session' = session
      BY <2>19 DEF Finalize, Clears
    <3>3. session' \in BOOLEAN
      BY <3>2, Zenon DEF Typed, TypeOK
    <3>4. faults \in 0..MaxFaults /\ losses <= faults /\ losses \in Nat
      BY DEF Typed, TypeOK
    <3>5. faults' \in 0..MaxFaults /\ losses <= faults'
      BY <2>0, <2>19, <3>4 DEF Finalize
    <3>6. QED
      BY <3>1, <3>3, <3>5 DEF Typed, TypeOK, course, screen
  <2>20. CASE RunAgain
    <3>2. inFlight' \subseteq Frames
      BY <2>20, ChainFacts DEF Running, RunAgain, Typed, TypeOK, Updates
    <3>3. QED
      <4>1. /\ {sending', closed', ticking', streaming', recap', finalized', threw'} \subseteq BOOLEAN
            /\ tries' = tries + 1 /\ pc' = "open" /\ ref' = 0 /\ chain' = <<>> /\ pending' = None
            /\ latest' = 0 /\ landed' = 0
            /\ UNCHANGED <<private, way, says, session, chat, draft, spent, faults, losses>>
        BY <2>20 DEF RunAgain
      <4>2. QED
        BY <2>0, <3>2, <4>1 DEF Typed, TypeOK
  <2>21. CASE Crash
    <3>2. inFlight' \subseteq Frames
      BY <2>21, ChainFacts DEF Running, Crash, Typed, TypeOK, Updates
    <3>3. QED
      <4>1. /\ {sending', ticking'} \subseteq BOOLEAN /\ pc' \in Ended /\ chain' = <<>>
            /\ pending' = None
            /\ faults < MaxFaults /\ faults' = faults + 1
            /\ UNCHANGED <<course, session, chat, draft, ref, closed, streaming, recap, latest, landed,
                           finalized, spent, losses>>
        BY <2>21 DEF Crash, Ended
      <4>2. QED
        BY <2>0, <3>2, <4>1 DEF Typed, TypeOK, course
  <2>22. CASE Expire \/ UNCHANGED vars
    <3>1. session' \in BOOLEAN /\ UNCHANGED <<course, pc, screen, handle, spent, faults, losses>>
      BY <2>22 DEF Expire, vars, Typed, TypeOK
    <3>2. QED
      BY <3>1 DEF Typed, TypeOK, course, screen, handle
  <2> HIDE DEF Typed
  <2>23. QED
    BY <2>1, <2>2, <2>3, <2>4, <2>5, <2>7, <2>8, <2>9, <2>10, <2>11, <2>12, <2>13, <2>14, <2>15,
       <2>17, <2>18, <2>19, <2>20, <2>21, <2>22
       DEF Next, BeginVoiceStatus, BeginStatus, Prepare, Audit, Suspend, Persist, FirstReply, FirstAsk, Replying
<1>3. QED
  BY <1>1, <1>2, PTL DEF Spec

-----------------------------------------------------------------------------
\* The chain rests before the turn loads and after the loop has drained it, and a group's
\* message is edited in the loop only.
LEMMA SurfaceInvariant == Spec => [](Shape /\ Rests)
<1>1. Init => Shape /\ Rests
  BY DEF Init, Shape, Rests, Queued, Before, After, Looping, Replying, Ended
<1>2. Typed /\ Shape /\ Rests /\ [Next]_vars => (Shape /\ Rests)'
  <2> SUFFICES ASSUME Typed, Shape, Rests, [Next]_vars PROVE (Shape /\ Rests)'
    OBVIOUS
  <2>0. chain \in Seq(Updates)
    BY DEF Typed, TypeOK
  <2> USE DEF Before, After, Looping, Replying, Ended
  <2>1. ASSUME NEW via \in {"throttle", "direct", "edit"}, NEW f \in Frames, Queue(via, f),
               private' = private, IF private THEN via # "edit" ELSE via = "edit" /\ f # Final
        PROVE \A u \in Queued' : Fits(u)'
    <3> DEFINE v == [via |-> via, frame |-> f]
    <3>1. Queued' = Queued \cup {v}
      BY <2>0, <2>1, QueueFacts
    <3>2. v.via = via /\ v.frame = f
      OBVIOUS
    <3> HIDE DEF v
    <3>3. \A u \in Queued : Fits(u)
      BY DEF Shape
    <3>4. QED
      BY <2>1, <3>1, <3>2, <3>3 DEF Fits
  <2>2. ASSUME NEW from \in {"listen", "open"}, NEW to, to = (IF from = "listen" THEN "notice" ELSE "load"),
               Open(from, to)
        PROVE (Shape /\ Rests)'
    BY <2>2 DEF Open, Shape, Rests, Queued, course
  <2>3. CASE ShowListening
    BY <2>3 DEF ShowListening, handle, Shape, Rests, Queued, course
  <2>4. CASE Heard
    BY <2>4 DEF Heard, AfterNote, screen, Shape, Rests, Queued
  <2>5. CASE StartLoading
    BY <2>5 DEF StartLoading, screen, Shape, Rests, Queued, course
  <2>6. CASE Prepare \/ LoopEnds
    BY <2>6 DEF Prepare, Step, LoopEnds, screen, handle, Shape, Rests, Queued, course, Fits
  <2>7. CASE Tick
    BY <2>1, <2>7, FrameFacts DEF Tick, screen, Shape, Rests, course
  <2>8. CASE ShowRecap
    BY <2>1, <2>8, FrameFacts DEF ShowRecap, Through, screen, Shape, Rests, course
  <2>9. CASE StreamAnswer
    <3>1. latest + 1 \in 1..MaxSnapshots
      BY <2>9, SurfaceConstants DEF StreamAnswer, Typed, TypeOK
    <3>2. \A u \in Queued' : Fits(u)'
      BY <2>1, <2>9, <3>1, FrameFacts DEF StreamAnswer, Through, course
    <3>3. QED
      BY <2>9, <3>2 DEF StreamAnswer, StopsRotation, screen, Shape, Rests, course
  <2>10. CASE RunUpdate
    <3>1. \A u \in Queued' : Fits(u)'
      BY <2>0, <2>10, ChainFacts DEF RunUpdate, course, Shape, Fits, Queued
    <3>2. Fits(Head(chain))
      BY <2>0, <2>10, ChainFacts DEF RunUpdate, Shape
    <3>3. QED
      BY <2>10, <3>1, <3>2 DEF RunUpdate, screen, Shape, Rests, course, Fits
  <2>11. CASE UpdateLands
    <3>1. \A u \in Queued' : Fits(u)'
      BY <2>0, <2>11, ChainFacts DEF UpdateLands, course, Shape, Fits, Queued, Typed, Running
    <3>2. QED
      BY <2>11, <3>1 DEF UpdateLands, Shape, Rests, course, Typed, Running
  <2>12. CASE WindowReopens \/ TimerFires \/ \E f \in Frames : FlushLands(f)
    BY <2>12 DEF WindowReopens, TimerFires, FlushLands, screen, Shape, Rests, course, Queued, Fits
  <2>13. CASE Settle
    <3>1. latest # 0 => latest \in 1..MaxSnapshots
      BY SurfaceConstants DEF Typed, TypeOK
    <3>2. \A u \in Queued' : Fits(u)'
      BY <2>1, <2>13, <3>1, FrameFacts DEF Settle, FlushesLatest, course, Shape, Fits, Queued
    <3>3. QED
      BY <2>13, <3>2 DEF Settle, StopsRotation, CancelsFlush, screen, Shape, Rests, course
  <2>14. CASE SettleDraftTo
    BY <2>1, <2>14, FrameFacts
       DEF SettleDraftTo, StopsRotation, CancelsFlush, screen, Shape, Rests, course
  <2>15. CASE Settled \/ DraftSettled
    BY <2>0, <2>15, ChainFacts
       DEF Settled, DraftSettled, Drained, FirstAsk, screen, handle, Shape, Rests, course, Typed,
           Running
  <2>16. CASE Audit \/ Suspend \/ Persist
    BY <2>0, <2>16, ChainFacts
       DEF Audit, Suspend, Persist, Step, FirstReply, FirstAsk, screen, handle, Shape, Rests
  <2>17. CASE EditHtml \/ EditPlain \/ SendHtml \/ SendPlain \/ AskMorph \/ AskFresh \/ Retire
    BY <2>0, <2>17, ChainFacts
       DEF EditHtml, EditPlain, SendHtml, SendPlain, AskMorph, AskFresh, Deliver, Retire,
           AfterFresh, handle, course, Shape, Rests
  <2>18. CASE Finalize
    BY <2>18 DEF Finalize, StopsRotation, CancelsFlush, screen, course, Shape, Rests, Queued, Fits
  <2>19. CASE RunAgain \/ Crash
    BY <2>19 DEF RunAgain, Crash, course, Shape, Rests, Queued
  <2>20. CASE Expire \/ UNCHANGED vars
    BY <2>20 DEF Expire, vars, course, screen, handle, Shape, Rests, Queued, Fits
  <2> HIDE DEF Before, After, Looping, Replying, Ended
  <2>21. QED
    BY <2>2, <2>3, <2>4, <2>5, <2>6, <2>7, <2>8, <2>9, <2>10, <2>11, <2>12, <2>13, <2>14, <2>15,
       <2>16, <2>17, <2>18, <2>19, <2>20
       DEF Next, BeginVoiceStatus, BeginStatus
<1>3. QED
  BY <1>1, <1>2, TypedInvariant, PTL DEF Spec

-----------------------------------------------------------------------------
\* Faults are never forgotten.
LEMMA FaultsGrow == Typed /\ [Next]_vars => faults' >= faults /\ faults \in Nat /\ faults' \in Nat
<1> SUFFICES ASSUME Typed, [Next]_vars PROVE faults' >= faults /\ faults \in Nat /\ faults' \in Nat
  OBVIOUS
<1>1. faults \in Nat
  BY SurfaceConstants DEF Typed, TypeOK
<1>2. ASSUME NEW o, Charge(o) PROVE faults' >= faults /\ faults' \in Nat
  BY <1>1, <1>2 DEF Charge
<1>3. QED
  BY <1>1, <1>2
     DEF Next, vars, BeginVoiceStatus, BeginStatus, Open, ShowListening, Heard, StartLoading,
         Prepare, Step, Tick, ShowRecap, StreamAnswer, RunUpdate, UpdateLands, LoopEnds,
         WindowReopens, TimerFires, FlushLands, Settle, SettleDraftTo, Settled, Audit, Suspend,
         DraftSettled, EditHtml, EditPlain, SendHtml, SendPlain, AskMorph, AskFresh, Deliver,
         Retire, Persist, Finalize, RunAgain, Crash, Expire

\* Only snapshots have numbers, and a bound stays one when it grows.
LEMMA UpToFacts ==
    /\ \A n : UpTo(Word, n) /\ UpTo(Recap, n) /\ UpTo(Final, n) /\ UpTo(None, n)
    /\ \A n \in Nat : UpTo(Snapshot(n), n)
    /\ \A f : \A m, n \in Nat : m <= n /\ UpTo(f, m) => UpTo(f, n)
<1>1. \A n : UpTo(Word, n) /\ UpTo(Recap, n) /\ UpTo(Final, n) /\ UpTo(None, n)
  BY FrameFacts DEF UpTo
<1>2. \A n \in Nat : UpTo(Snapshot(n), n)
  BY FrameFacts DEF UpTo
<1>3. \A f : \A m, n \in Nat : m <= n /\ UpTo(f, m) => UpTo(f, n)
  BY SurfaceConstants DEF UpTo
<1>4. QED
  BY <1>1, <1>2, <1>3

\* While no call failed the turn runs once, and every snapshot on its way is of its stream.
LEMMA NewestInvariant == Spec => []Newest
<1>1. Init => Newest
  BY UpToFacts DEF Init, Newest, OneRun, OnTheirWay, Flushed, Queued, Looping, After, Replying
<1>2. Typed /\ Shape /\ Rests /\ Newest /\ [Next]_vars => Newest'
  <2> SUFFICES ASSUME Typed, Shape, Rests, Newest, [Next]_vars, faults' = 0
               PROVE OneRun' /\ OnTheirWay' /\ Flushed'
    BY DEF Newest
  <2>0. /\ chain \in Seq(Updates) /\ latest \in Nat /\ landed \in Nat /\ latest \in 0..MaxSnapshots
        /\ MaxSnapshots \in Nat /\ faults = 0 /\ OneRun /\ OnTheirWay /\ Flushed
    BY FaultsGrow, SurfaceConstants DEF Typed, TypeOK, Newest
  <2>1. \A o : Charge(o) => o = "ok" /\ Takes(o)
    BY <2>0 DEF Charge, Takes
  <2> USE DEF Before, After, Looping, Replying, Ended, OneRun, Flush
  <2>2. ASSUME NEW from, NEW to \in {"notice", "load"}, Open(from, to)
        PROVE OneRun' /\ OnTheirWay' /\ Flushed'
    <3>1. OneRun' /\ OnTheirWay'
      BY <2>0, <2>2 DEF Open, course, OnTheirWay, Queued
    <3>2. private \/ ref' # 0
      BY <2>0, <2>1, <2>2, ScreenFacts DEF Open, Captures
    <3>3. QED
      BY <2>0, <2>2, <3>1, <3>2 DEF Open, course, Flushed
  <2>3. CASE ShowListening \/ Heard \/ StartLoading
    BY <2>0, <2>3
       DEF ShowListening, Heard, AfterNote, StartLoading, handle, screen, course, OnTheirWay,
           Flushed, Queued
  <2>4. CASE Prepare \/ Audit \/ Suspend \/ Persist
    BY <2>0, <2>4
       DEF Prepare, Audit, Suspend, Persist, Step, FirstReply, FirstAsk, handle, screen,
           OnTheirWay, Flushed, Queued
  <2>5. ASSUME NEW via \in {"throttle", "direct", "edit"}, NEW f \in Frames, Queue(via, f),
               latest' \in Nat, latest <= latest', UpTo(f, latest')
        PROVE \A u \in Queued' : UpTo(u.frame, latest')
    <3> DEFINE v == [via |-> via, frame |-> f]
    <3>1. Queued' = Queued \cup {v}
      BY <2>0, <2>5, QueueFacts
    <3>2. v.frame = f
      OBVIOUS
    <3> HIDE DEF v
    <3>3. \A u \in Queued : UpTo(u.frame, latest')
      BY <2>0, <2>5, UpToFacts DEF OnTheirWay
    <3>4. QED
      BY <2>5, <3>1, <3>2, <3>3
  <2>6. CASE Tick \/ ShowRecap
    <3>1. \A u \in Queued' : UpTo(u.frame, latest')
      BY <2>0, <2>5, <2>6, FrameFacts, UpToFacts DEF Tick, ShowRecap, Through
    <3>2. QED
      BY <2>0, <2>6, <3>1 DEF Tick, ShowRecap, course, screen, OnTheirWay, Flushed, Rests
  <2>7. CASE StreamAnswer
    <3>1. latest' = latest + 1 /\ latest' \in 1..MaxSnapshots
      BY <2>0, <2>7 DEF StreamAnswer
    <3>2. \A u \in Queued' : UpTo(u.frame, latest')
      BY <2>0, <2>5, <2>7, <3>1, FrameFacts, UpToFacts DEF StreamAnswer, Through
    <3>3. UpTo(pending, latest') /\ \A f \in inFlight : UpTo(f, latest')
      BY <2>0, <3>1, UpToFacts DEF OnTheirWay
    <3>4. QED
      BY <2>0, <2>7, <3>1, <3>2, <3>3 DEF StreamAnswer, course, screen, OnTheirWay, Flushed
  <2>8. CASE LoopEnds \/ Settled \/ DraftSettled
    BY <2>0, <2>8
       DEF LoopEnds, Settled, DraftSettled, Drained, FirstAsk, course, screen, handle, OnTheirWay,
           Flushed, Queued
  <2>9. CASE RunUpdate
    <3>1. OnTheirWay'
      <4>1. Queued' \subseteq Queued /\ Head(chain) \in Queued
        BY <2>0, <2>9, ChainFacts DEF RunUpdate, Queued
      <4>2. QED
        BY <2>0, <2>9, <4>1 DEF RunUpdate, screen, OnTheirWay
    <3>2. ASSUME pc' = "settling", landed' # latest'
          PROVE chain' # <<>> /\ chain'[Len(chain')] = Flush'
      <4>1. /\ pc = "settling" /\ chain # <<>> /\ chain[Len(chain)] = Flush /\ Flush' = Flush
            /\ MaySend /\ (~private => ref # 0)
        BY <2>0, <2>9, <3>2 DEF RunUpdate, course, Flushed, Rests, MaySend
      <4>2. Flush.via # "throttle" /\ (Flush.via = "edit" => ref # 0)
        BY <4>1
      <4>3. CASE chain' = chain
        BY <4>1, <4>3
      <4>4. CASE chain' = Tail(chain)
        <5>1. Len(chain) > 1
          <6>1. Len(Tail(chain)) = Len(chain) - 1 /\ Len(chain) \in Nat /\ Head(chain) = chain[1]
                /\ (Len(chain) = 1 \/ Len(chain) > 1)
            BY <2>0, <4>1, ChainFacts
          <6>2. Tail(chain) # chain
            BY <6>1
          <6>3. Head(chain) # Flush
            BY <2>9, <4>1, <4>2, <4>4, <6>2 DEF RunUpdate
          <6>4. QED
            BY <4>1, <6>1, <6>3
        <5>2. QED
          BY <2>0, <4>1, <4>4, <5>1, TailFacts
      <4>5. QED
        BY <2>9, <4>3, <4>4 DEF RunUpdate
    <3>3. QED
      BY <2>0, <2>9, <3>1, <3>2 DEF RunUpdate, course, screen, Flushed
  <2>10. CASE UpdateLands
    <3>0. /\ chain # <<>> /\ sending /\ Head(chain) \in Queued /\ Queued' \subseteq Queued
          /\ Head(chain).frame \in Frames
      BY <2>0, <2>10, ChainFacts DEF UpdateLands, Typed, Running, Updates
    <3>1. OnTheirWay'
      BY <2>0, <2>10, <3>0 DEF UpdateLands, course, OnTheirWay
    <3>2. PICK o : o = "ok" /\ Takes(o) /\ Lands(o, Head(chain).frame)
      BY <2>1, <2>10 DEF UpdateLands
    <3>3. landed' \in Nat /\ landed <= landed' /\ landed' <= latest
      BY <2>0, <3>0, <3>2, LandsFacts DEF OnTheirWay, Flushed
    <3>4. ASSUME pc' = "settling", landed' # latest'
          PROVE chain' # <<>> /\ chain'[Len(chain')] = Flush'
      <4>1. chain[Len(chain)] = Flush /\ Flush' = Flush /\ latest' = latest
        BY <2>0, <2>10, <3>3, <3>4 DEF UpdateLands, course, Flushed
      <4>2. Len(chain) > 1
        <5>1. SUFFICES ASSUME Head(chain) = Flush PROVE FALSE
          BY <2>0, <3>0, <4>1, ChainFacts
        <5>2. latest # 0
          BY <2>0, <3>3, <3>4, <4>1
        <5>3. landed' >= latest
          BY <2>0, <3>0, <3>2, <5>1, <5>2, LandsFacts
        <5>4. QED
          BY <2>0, <3>3, <3>4, <4>1, <5>3
      <4>3. QED
        BY <2>0, <2>10, <3>0, <4>1, <4>2, TailFacts DEF UpdateLands
    <3>5. QED
      BY <2>0, <2>10, <3>0, <3>1, <3>3, <3>4 DEF UpdateLands, course, Flushed, Rests
  <2>11. CASE WindowReopens \/ TimerFires
    BY <2>0, <2>11, UpToFacts
       DEF WindowReopens, TimerFires, screen, course, OnTheirWay, Flushed, Queued
  <2>12. ASSUME NEW f \in Frames, FlushLands(f) PROVE OneRun' /\ OnTheirWay' /\ Flushed'
    <3>1. landed' \in Nat /\ landed <= landed' /\ landed' <= latest
      BY <2>0, <2>12, LandsFacts DEF FlushLands, OnTheirWay, Flushed
    <3>2. QED
      BY <2>0, <2>12, <3>1 DEF FlushLands, course, OnTheirWay, Flushed, Queued
  <2>13. CASE Settle
    <3>1. latest # 0 => latest \in 1..MaxSnapshots
      BY <2>0
    <3>2. OnTheirWay'
      BY <2>0, <2>5, <2>13, <3>1, FrameFacts, UpToFacts
         DEF Settle, FlushesLatest, CancelsFlush, course, screen, OnTheirWay, Queued
    <3>3. latest # 0 => chain' # <<>> /\ chain'[Len(chain')] = Flush
      BY <2>0, <2>13, <3>1, FrameFacts, QueueFacts DEF Settle, FlushesLatest
    <3>4. QED
      BY <2>0, <2>13, <3>2, <3>3 DEF Settle, course, Flushed
  <2>14. CASE SettleDraftTo
    <3>1. OnTheirWay'
      BY <2>0, <2>5, <2>14, FrameFacts, UpToFacts
         DEF SettleDraftTo, CancelsFlush, course, screen, OnTheirWay
    <3>2. QED
      BY <2>0, <2>14, <3>1 DEF SettleDraftTo, course, Flushed
  <2>15. CASE EditHtml \/ EditPlain \/ SendHtml \/ SendPlain \/ AskMorph \/ AskFresh \/ Retire
    BY <2>0, <2>15
       DEF EditHtml, EditPlain, SendHtml, SendPlain, AskMorph, AskFresh, Deliver, Retire,
           AfterFresh, handle, course, OnTheirWay, Flushed, Queued
  <2>16. CASE Finalize
    BY <2>0, <2>16, UpToFacts
       DEF Finalize, CancelsFlush, screen, course, OnTheirWay, Flushed, Queued
  <2>17. CASE RunAgain \/ Crash
    BY <2>0, <2>17 DEF RunAgain, Crash
  <2>18. CASE Expire \/ UNCHANGED vars
    BY <2>0, <2>18 DEF Expire, vars, course, screen, handle, OnTheirWay, Flushed, Queued
  <2> HIDE DEF Before, After, Looping, Replying, Ended, OneRun, Flush
  <2>19. QED
    BY <2>2, <2>3, <2>4, <2>6, <2>7, <2>8, <2>9, <2>10, <2>11, <2>12, <2>13, <2>14, <2>15,
       <2>16, <2>17, <2>18
       DEF Next, BeginVoiceStatus, BeginStatus
<1>3. QED
  BY <1>1, <1>2, TypedInvariant, SurfaceInvariant, PTL DEF Spec

-----------------------------------------------------------------------------
\* What a call of the bot does to the messages that show the reply.
LEMMA PostShows ==
    ASSUME Typed, NEW o, NEW f \in Frames, Post(o, f)
    PROVE  /\ Shows(chat) \subseteq Shows(chat')
           /\ f = Final /\ Takes(o) => Shows(chat') \subseteq Shows(chat) \cup {Len(chat) + 1}
                                       /\ Shows(chat') # {}
           /\ f # Final \/ ~Takes(o) => Shows(chat') \subseteq Shows(chat)
<1>1. /\ chat \in Seq(Frames \cup {Gone}) /\ Len(chat) \in Nat /\ DOMAIN chat = 1..Len(chat)
  BY DEF Typed, TypeOK
<1>2. CASE ~Takes(o)
  BY <1>2 DEF Post
<1>3. CASE Takes(o)
  <2>1. /\ DOMAIN chat' = 1..(Len(chat) + 1) /\ chat'[Len(chat) + 1] = f
        /\ \A i \in 1..Len(chat) : chat'[i] = chat[i]
    BY <1>1, <1>3 DEF Post
  <2>2. QED
    BY <1>1, <1>3, <2>1 DEF Shows
<1>4. QED
  BY <1>2, <1>3

LEMMA EditShows ==
    ASSUME Typed, NEW o, NEW f \in Frames \cup {Gone}, Edit(o, f)
    PROVE  /\ DOMAIN chat' = DOMAIN chat
           /\ \A i \in DOMAIN chat : i # ref => chat'[i] = chat[i]
           /\ Takes(o) /\ ref # 0 => ref \in DOMAIN chat /\ chat'[ref] = f
           /\ f = Final \/ ref = 0 \/ chat[ref] # Final => Shows(chat) \subseteq Shows(chat')
           /\ f = Final => Shows(chat') \subseteq Shows(chat) \cup {ref}
           /\ f = Final /\ Takes(o) /\ ref # 0 => Shows(chat') # {}
           /\ f # Final \/ ~Takes(o) => Shows(chat') \subseteq Shows(chat)
<1>1. /\ chat \in Seq(Frames \cup {Gone}) /\ Len(chat) \in Nat /\ DOMAIN chat = 1..Len(chat)
      /\ ref \in 0..Len(chat)
  BY DEF Typed, TypeOK
<1>2. CASE ~Takes(o)
  BY <1>1, <1>2 DEF Edit
<1>3. CASE Takes(o)
  <2>1. /\ DOMAIN chat' = 1..Len(chat)
        /\ \A i \in 1..Len(chat) : chat'[i] = IF i = ref THEN f ELSE chat[i]
    BY <1>1, <1>3 DEF Edit
  <2>2. QED
    BY <1>1, <1>3, <2>1 DEF Shows
<1>4. QED
  BY <1>2, <1>3

\* Before the reply has been sent no update can have shown it, and the stale message is
\* retired behind the reply.
LEMMA UnrepliedInvariant == Spec => []Unreplied
<1>1. Init => Unreplied
  BY DEF Init, Unreplied
<1>2. Typed /\ Shape /\ Rests /\ Unreplied /\ [Next]_vars => Unreplied'
  <2> SUFFICES ASSUME Typed, Shape, Rests, Unreplied, [Next]_vars PROVE Unreplied'
    OBVIOUS
  <2>0. /\ chat \in Seq(Frames \cup {Gone}) /\ Len(chat) \in Nat /\ ref \in 0..Len(chat)
        /\ DOMAIN chat = 1..Len(chat)
    BY DEF Typed, TypeOK
  <2> USE DEF Before, After, Looping, Replying, Ended
  <2>1. ASSUME NEW from \in {"listen", "open"}, NEW to \in {"notice", "load"}, Open(from, to)
        PROVE Unreplied'
    <3>1. private' = private /\ pc' = to
      BY <2>1 DEF Open, course
    <3>2. CASE private
      BY <2>1, <3>1, <3>2 DEF Unreplied
    <3>3. CASE UNCHANGED <<chat, ref>>
      BY <2>1, <3>1, <3>3 DEF Open, Unreplied, Shape
    <3>4. CASE \E o \in Outcomes : Post(o, Word) /\ Captures(o)
      <4>1. PICK o \in Outcomes : Post(o, Word) /\ Captures(o)
        BY <3>4
      <4>2. ref' # 0 => o = "ok" /\ ref' = Len(chat) + 1 /\ Takes(o)
        BY <4>1 DEF Captures, Takes
      <4>3. ref' # 0 => chat'[ref'] = Word
        BY <2>0, <4>1, <4>2 DEF Post
      <4>4. QED
        BY <2>1, <3>1, <4>3, FrameFacts DEF Unreplied
    <3>5. QED
      BY <2>1, <3>2, <3>3, <3>4 DEF Open
  <2>2. CASE ShowListening
    <3>1. PICK o : ~private => (IF ref = 0 THEN UNCHANGED chat ELSE Edit(o, Listening))
      BY <2>2 DEF ShowListening
    <3>2. ~private /\ ref # 0 => chat'[ref] # Final
      BY <2>0, <2>2, <3>1, EditShows, FrameFacts DEF ShowListening, Unreplied, Edit
    <3>3. QED
      BY <2>2, <3>2 DEF ShowListening, Unreplied, course, handle
  <2>3. CASE Heard
    BY <2>3 DEF Heard, AfterNote, Unreplied, screen
  <2>4. CASE UpdateLands
    <3>1. chain # <<>> /\ Head(chain) \in Queued /\ Head(chain).frame \in Frames
      BY <2>4, ChainFacts DEF UpdateLands, Typed, TypeOK, Running, Updates
    <3>2. CASE private
      BY <2>4, <3>2, <3>1 DEF UpdateLands, Unreplied, course, Shape
    <3>3. CASE ~private
      <4>1. Head(chain).via = "edit" /\ Head(chain).frame # Final /\ pc \in Looping
        BY <3>1, <3>3 DEF Shape, Fits
      <4>2. PICK o : Edit(o, Head(chain).frame)
        BY <2>4, <4>1 DEF UpdateLands
      <4>3. ref # 0 => chat'[ref] # Final
        BY <2>0, <3>3, <4>1, <4>2, <3>1 DEF Edit, Unreplied
      <4>4. QED
        BY <2>4, <3>3, <4>1, <4>3 DEF UpdateLands, Unreplied, course
    <3>4. QED
      BY <3>2, <3>3
  <2>5. ASSUME NEW from, NEW else \in Replying \ {"retire"}, Deliver(from, Morph, "persist", else)
        PROVE Unreplied'
    BY <2>5 DEF Deliver, Unreplied
  <2>6. ASSUME NEW from, NEW else \in Replying \ {"retire"}, Deliver(from, Send, AfterFresh, else)
        PROVE Unreplied'
    <3>1. CASE pc' = "retire"
      <4>1. ref # 0 /\ ref' = ref /\ \E o : o = "ok" /\ Send(o)
        BY <2>6, <3>1 DEF Deliver, AfterFresh, handle
      <4>2. chat' = Append(chat, Final)
        BY <4>1 DEF Send, Post, Takes
      <4>3. QED
        BY <2>0, <3>1, <4>1, <4>2 DEF Unreplied
    <3>2. CASE pc' # "retire"
      BY <2>6, <3>2 DEF Deliver, Unreplied, AfterFresh
    <3>3. QED
      BY <3>1, <3>2
  <2>7. CASE EditHtml \/ EditPlain \/ AskMorph
    BY <2>5, <2>7 DEF EditHtml, EditPlain, AskMorph
  <2>8. CASE SendHtml \/ SendPlain \/ AskFresh
    BY <2>6, <2>8 DEF SendHtml, SendPlain, AskFresh
  <2>9. CASE Retire \/ Finalize \/ RunAgain \/ Crash
    BY <2>9 DEF Retire, Finalize, RunAgain, Crash, Unreplied
  <2>10. ASSUME UNCHANGED <<private, chat, ref>>,
                \/ pc' = pc
                \/ pc \in {"load", "prepare", "loop", "settle"} /\ pc' \notin {"retire"}
                \/ pc' \in {"audit", "suspend", "ghost", "ghosting", "finalize", "ask1", "ask2", "edit1", "send1"}
         PROVE Unreplied'
    BY <2>10 DEF Unreplied
  <2>11. CASE StartLoading \/ Prepare \/ LoopEnds \/ Settle \/ Settled \/ Audit \/ Suspend
             \/ SettleDraftTo \/ DraftSettled \/ Persist
    BY <2>10, <2>11
       DEF StartLoading, Prepare, LoopEnds, Settle, Settled, Audit, Suspend, SettleDraftTo,
           DraftSettled, Persist, Step, FirstReply, FirstAsk, course, screen, handle
  <2>12. CASE Tick \/ ShowRecap \/ StreamAnswer \/ RunUpdate \/ WindowReopens \/ TimerFires
             \/ (\E f \in Frames : FlushLands(f))
              \/ Expire \/ UNCHANGED vars
    BY <2>10, <2>12
       DEF Tick, ShowRecap, StreamAnswer, RunUpdate, WindowReopens, TimerFires, FlushLands,
           Expire, vars, course, screen, handle
  <2> HIDE DEF Before, After, Looping, Replying, Ended
  <2>13. QED
    BY <2>1, <2>2, <2>3, <2>4, <2>7, <2>8, <2>9, <2>11, <2>12
       DEF Next, BeginVoiceStatus, BeginStatus
<1>3. QED
  BY <1>1, <1>2, TypedInvariant, SurfaceInvariant, PTL DEF Spec

\* A call that edits the handle's message runs only while that message is no reply, and the
\* deletion leaves the reply that was sent after it.
LEMMA ReplyKept ==
    Typed /\ Shape /\ Rests /\ Unreplied /\ [Next]_vars =>
        /\ \A i \in Shows(chat) : chat'[i] = Final \/ (chat'[i] = Gone /\ Shows(chat') # {})
        /\ Shown => Shown'
        /\ ~Blank(chat) => ~Blank(chat')
<1> DEFINE Kept == \A i \in Shows(chat) : chat'[i] = Final \/ (chat'[i] = Gone /\ Shows(chat') # {})
           Filled == ~Blank(chat) => ~Blank(chat')
<1> SUFFICES ASSUME Typed, Shape, Rests, Unreplied, [Next]_vars
      PROVE Kept /\ Filled /\ (Shown => Shown')
  OBVIOUS
<1>0. /\ chat \in Seq(Frames \cup {Gone}) /\ Len(chat) \in Nat /\ ref \in 0..Len(chat)
      /\ DOMAIN chat = 1..Len(chat)
  BY DEF Typed, TypeOK
<1>1. ASSUME Shows(chat) \subseteq Shows(chat') PROVE Kept /\ (Shown => Shown')
  BY <1>1 DEF Shows, Shown
<1>2. ASSUME NEW i \in DOMAIN chat', chat'[i] # Gone PROVE Filled
  BY <1>2 DEF Blank
<1>3. ASSUME UNCHANGED chat PROVE Kept /\ Filled /\ (Shown => Shown')
  BY <1>3 DEF Shows, Blank, Shown
<1>4. ASSUME NEW o, NEW f \in Frames, Post(o, f) PROVE Kept /\ Filled /\ (Shown => Shown')
  <2>1. Shows(chat) \subseteq Shows(chat')
    BY <1>4, PostShows
  <2>2. CASE ~Takes(o)
    BY <1>3, <1>4, <2>2 DEF Post
  <2>3. CASE Takes(o)
    <3>1. Len(chat) + 1 \in DOMAIN chat' /\ chat'[Len(chat) + 1] = f /\ f # Gone
      BY <1>0, <1>4, <2>3, FrameFacts DEF Post
    <3>2. QED
      BY <1>1, <1>2, <2>1, <3>1
  <2>4. QED
    BY <2>2, <2>3
<1>5. ASSUME NEW o, NEW f \in Frames, Edit(o, f), f = Final \/ ref = 0 \/ chat[ref] # Final
      PROVE Kept /\ Filled /\ (Shown => Shown')
  <2>1. Shows(chat) \subseteq Shows(chat')
    BY <1>5, EditShows
  <2>2. CASE ~Takes(o)
    BY <1>3, <1>5, <2>2 DEF Edit
  <2>3. CASE ref = 0
    BY <1>0, <1>1, <1>5, <2>1, <2>3, EditShows DEF Blank
  <2>4. CASE Takes(o) /\ ref # 0
    <3>1. ref \in DOMAIN chat' /\ chat'[ref] = f /\ f # Gone
      BY <1>5, <2>4, EditShows, FrameFacts
    <3>2. QED
      BY <1>1, <1>2, <2>1, <3>1
  <2>5. QED
    BY <2>2, <2>3, <2>4
<1> USE DEF Before, Looping
<1>6. CASE BeginVoiceStatus \/ BeginStatus
  BY <1>3, <1>4, <1>6, FrameFacts DEF BeginVoiceStatus, BeginStatus, Open
<1>7. CASE ShowListening
  BY <1>3, <1>5, <1>7, FrameFacts DEF ShowListening, Unreplied
<1>8. CASE UpdateLands
  <2>1. chain # <<>> /\ Head(chain) \in Queued /\ Head(chain).frame \in Frames
    BY <1>8, ChainFacts DEF UpdateLands, Typed, TypeOK, Running, Updates
  <2>2. CASE Head(chain).via # "edit"
    BY <1>3, <1>8, <2>2 DEF UpdateLands
  <2>3. CASE Head(chain).via = "edit"
    <3>1. ~private /\ pc \in Looping
      BY <2>1, <2>3 DEF Shape, Fits
    <3>2. ref = 0 \/ chat[ref] # Final
      BY <3>1 DEF Unreplied
    <3>3. QED
      BY <1>5, <1>8, <2>1, <2>3, <3>2 DEF UpdateLands
  <2>4. QED
    BY <2>2, <2>3
<1>9. ASSUME NEW from, NEW done, NEW else, Deliver(from, Morph, done, else)
      PROVE Kept /\ Filled /\ (Shown => Shown')
  BY <1>5, <1>9, FrameFacts DEF Deliver, Morph
<1>10. ASSUME NEW from, NEW done, NEW else, Deliver(from, Send, done, else)
      PROVE Kept /\ Filled /\ (Shown => Shown')
  BY <1>4, <1>10, FrameFacts DEF Deliver, Send
<1>11. CASE EditHtml \/ EditPlain \/ AskMorph \/ SendHtml \/ SendPlain \/ AskFresh
  BY <1>9, <1>10, <1>11 DEF EditHtml, EditPlain, AskMorph, SendHtml, SendPlain, AskFresh
<1>12. CASE Retire
  <2>1. ref # 0 /\ ref < Len(chat) /\ chat[Len(chat)] = Final
    BY <1>12 DEF Retire, Unreplied, Shape
  <2>2. PICK o : Edit(o, Gone)
    BY <1>12 DEF Retire, Delete, Edit
  <2>3. Len(chat) \in DOMAIN chat' /\ chat'[Len(chat)] = Final
    BY <1>0, <2>1, <2>2, EditShows
  <2>4. Shows(chat') # {}
    BY <2>3 DEF Shows
  <2>5. \A i \in DOMAIN chat : chat'[i] = chat[i] \/ chat'[i] = Gone
    BY <1>0, <2>1, <2>2 DEF Edit
  <2>6. QED
    BY <1>2, <2>3, <2>4, <2>5, FrameFacts DEF Shows, Shown
<1>13. QED
  BY <1>3, <1>6, <1>7, <1>8, <1>11, <1>12
     DEF Next, vars, Heard, StartLoading, Prepare, Step, Tick, ShowRecap, StreamAnswer, RunUpdate,
         LoopEnds, WindowReopens, TimerFires, FlushLands, Settle, SettleDraftTo, Settled, Audit,
         Suspend, DraftSettled, Persist, Finalize, RunAgain, Crash, Expire, screen

-----------------------------------------------------------------------------
\* Modes, ways and numbers have their types, and what is queued is a queue of updates.
THEOREM TypeCorrect == Spec => []TypeOK
<1>1. Typed => TypeOK
  BY DEF Typed
<1>2. QED
  BY <1>1, TypedInvariant, PTL

\* However many frames are throttled, coalesced and flushed: while the reply is sent nothing of
\* the live surface is left to overtake it, and the newest snapshot has been seen.
THEOREM DrainedBeforeReplyHolds == Spec => []DrainedBeforeReply
<1>1. Rests /\ Newest => DrainedBeforeReply
  BY DEF Rests, Newest, Flushed, After, DrainedBeforeReply
<1>2. QED
  BY <1>1, SurfaceInvariant, NewestInvariant, PTL

\* No step of any behaviour reverts a message that became the reply, and none deletes it but
\* where another message carries the reply.
THEOREM ReplyStaysHolds == Spec => ReplyStays
<1> DEFINE Kept == \A i \in Shows(chat) : chat'[i] = Final \/ (chat'[i] = Gone /\ Shows(chat') # {})
<1>1. Typed /\ Shape /\ Rests /\ Unreplied /\ [Next]_vars => [Kept]_chat
  BY ReplyKept
<1>2. QED
  BY <1>1, TypedInvariant, SurfaceInvariant, UnrepliedInvariant, PTL DEF Spec, ReplyStays

\* A chat with a message of the turn is never left without one.
THEOREM NeverBlankHolds == Spec => NeverBlank
<1>1. Typed /\ Shape /\ Rests /\ Unreplied /\ [Next]_vars => [~Blank(chat) => ~Blank(chat')]_chat
  BY ReplyKept
<1>2. QED
  BY <1>1, TypedInvariant, SurfaceInvariant, UnrepliedInvariant, PTL DEF Spec, NeverBlank

\* Only a failed call, an overtaken voice note or an answer that came too late leaves a session
\* that nobody will clear.
THEOREM LeaksExplainedHolds == Spec => []LeaksExplained
<1>1. Init => LeaksExplained
  BY DEF Init, LeaksExplained
<1>2. Typed /\ LeaksExplained /\ [Next]_vars => LeaksExplained'
  <2> SUFFICES ASSUME Typed, LeaksExplained, [Next]_vars, pc' = "over", session', faults' = 0
               PROVE way' \in {"overtaken", "unclaimed"}
    BY SurfaceConstants, FaultsGrow DEF LeaksExplained, Typed, TypeOK
  <2>0. faults = 0
    BY FaultsGrow
  <2>1. CASE pc # "over"
    <3>1. Heard \/ Finalize
      BY <2>1
         DEF Next, vars, BeginVoiceStatus, BeginStatus, Open, ShowListening, StartLoading,
             Prepare, Step, Tick, ShowRecap, StreamAnswer, RunUpdate, UpdateLands, LoopEnds,
             WindowReopens, TimerFires, FlushLands, Settle, SettleDraftTo, Settled, Audit,
             Suspend, DraftSettled, FirstReply, FirstAsk, EditHtml, EditPlain, SendHtml,
             SendPlain, AskMorph, AskFresh, AfterFresh, Deliver, Retire, Persist, RunAgain, Crash,
             Expire
    <3>2. QED
      BY <2>0, <3>1 DEF Heard, AfterNote, Ways, Finalize, Clears
  <2>2. CASE pc = "over"
    <3>1. UNCHANGED <<way, session>> \/ session' = FALSE
      BY <2>2
         DEF Next, vars, BeginVoiceStatus, BeginStatus, Open, ShowListening, Heard, StartLoading,
             Prepare, Step, Tick, ShowRecap, StreamAnswer, RunUpdate, UpdateLands, LoopEnds,
             WindowReopens, TimerFires, FlushLands, Settle, SettleDraftTo, Settled, Audit,
             Suspend, DraftSettled, EditHtml, EditPlain, SendHtml, SendPlain, AskMorph, AskFresh,
             Deliver, Retire, Persist, Finalize, RunAgain, Crash, Expire, course
    <3>2. QED
      <4>1. session /\ way' = way
        BY <3>1, Zenon
      <4>2. QED
        BY <2>0, <2>2, <4>1 DEF LeaksExplained
  <2>3. QED
    BY <2>1, <2>2
<1>3. QED
  BY <1>1, <1>2, TypedInvariant, PTL DEF Spec

-----------------------------------------------------------------------------
\* Only the deliveries add a message that shows the reply, and each adds at most one.
LEMMA ToldCount ==
    ASSUME Typed
    PROVE  /\ Cardinality(Shows(chat)) \in Nat
           /\ Shows(chat') \subseteq Shows(chat) => Cardinality(Shows(chat')) <= Cardinality(Shows(chat))
           /\ \A x : Shows(chat') \subseteq Shows(chat) \cup {x} =>
                       Cardinality(Shows(chat')) <= Cardinality(Shows(chat)) + 1
           /\ Cardinality(Shows(chat')) \in Nat \/ ~(\E x : Shows(chat') \subseteq Shows(chat) \cup {x})
<1>1. chat \in Seq(Frames \cup {Gone}) /\ Len(chat) \in Nat
  BY DEF Typed, TypeOK
<1>2. IsFiniteSet(Shows(chat))
  <2>1. IsFiniteSet(1..Len(chat))
    BY <1>1, FS_Interval
  <2>2. Shows(chat) \subseteq 1..Len(chat)
    BY <1>1 DEF Shows
  <2>3. QED
    BY <2>1, <2>2, FS_Subset
<1>3. Cardinality(Shows(chat)) \in Nat
  BY <1>2, FS_CardinalityType
<1>4. ASSUME Shows(chat') \subseteq Shows(chat)
      PROVE Cardinality(Shows(chat')) <= Cardinality(Shows(chat))
  BY <1>2, <1>4, FS_Subset
<1>5. ASSUME NEW x, Shows(chat') \subseteq Shows(chat) \cup {x}
      PROVE Cardinality(Shows(chat')) <= Cardinality(Shows(chat)) + 1 /\ Cardinality(Shows(chat')) \in Nat
  <2>1. /\ IsFiniteSet(Shows(chat) \cup {x})
        /\ \/ Cardinality(Shows(chat) \cup {x}) = Cardinality(Shows(chat))
           \/ Cardinality(Shows(chat) \cup {x}) = Cardinality(Shows(chat)) + 1
    BY <1>2, FS_AddElement, Zenon
  <2>2. /\ IsFiniteSet(Shows(chat'))
        /\ Cardinality(Shows(chat')) <= Cardinality(Shows(chat) \cup {x})
        /\ Cardinality(Shows(chat) \cup {x}) \in Nat /\ Cardinality(Shows(chat')) \in Nat
    BY <1>5, <2>1, FS_Subset, FS_CardinalityType
  <2>3. QED
    BY <1>3, <2>1, <2>2
<1>6. QED
  BY <1>3, <1>4, <1>5

\* The user is told once per run of the turn and once more per lost answer.
LEMMA ToldInvariant == Spec => []Told
<1>1. Init => Told
  <2> SUFFICES ASSUME Init PROVE Told
    OBVIOUS
  <2>1. Shows(chat) = {} /\ losses = 0 /\ tries = 1
    BY DEF Init, Shows
  <2>2. QED
    BY <2>1, FS_EmptySet DEF Told
<1>2. Typed /\ Shape /\ Rests /\ Unreplied /\ Told /\ [Next]_vars => Told'
  <2> SUFFICES ASSUME Typed, Shape, Rests, Unreplied, Told, [Next]_vars PROVE Told'
    OBVIOUS
  <2> DEFINE n == Cardinality(Shows(chat))
             m == Cardinality(Shows(chat'))
  <2>0. /\ losses \in Nat /\ tries \in Nat /\ n \in Nat
        /\ n <= losses + tries - (IF pc \in Telling THEN 0 ELSE 1)
    BY ToldCount, SurfaceConstants DEF Typed, TypeOK, Told
  <2>1. ASSUME Shows(chat') \subseteq Shows(chat), losses' = losses,
               \/ tries' = tries /\ (pc \in Telling => pc' \in Telling)
               \/ tries' = tries + 1
        PROVE Told'
    <3>1. m <= n /\ m \in Nat
      BY <2>1, ToldCount
    <3> HIDE DEF n, m, Telling
    <3>2. m <= losses' + tries' - (IF pc' \in Telling THEN 0 ELSE 1)
      BY <2>0, <2>1, <3>1
    <3>3. QED
      BY <3>2 DEF Told, m
  <2>2. ASSUME NEW from, from \notin Telling, NEW done \in Telling, NEW else, NEW o \in {"ok", "refused", "lost"},
               Morph(o) \/ Send(o), losses' = (IF o = "lost" THEN losses + 1 ELSE losses),
               pc = from, pc' = (IF o = "ok" THEN done ELSE else), tries' = tries
        PROVE Told'
    <3>1. CASE o = "refused"
      <4>1. Shows(chat') \subseteq Shows(chat)
        BY <2>2, <3>1, EditShows, PostShows, FrameFacts DEF Morph, Send, Takes
      <4>2. QED
        BY <2>1, <2>2, <3>1, <4>1
    <3>2. CASE o # "refused"
      <4>1. \E x : Shows(chat') \subseteq Shows(chat) \cup {x}
        BY <2>2, <3>2, EditShows, PostShows, FrameFacts DEF Morph, Send, Takes
      <4>2. m <= n + 1 /\ m \in Nat
        BY <4>1, ToldCount
      <4> HIDE DEF n, m, Telling
      <4>3. m <= losses' + tries' - (IF pc' \in Telling THEN 0 ELSE 1)
        BY <2>0, <2>2, <3>2, <4>2
      <4>4. QED
        BY <4>3 DEF Told, m
    <3>3. QED
      BY <3>1, <3>2
  <2> USE DEF Telling, Ended
  <2> HIDE DEF n, m
  <2>3. CASE BeginVoiceStatus \/ BeginStatus
    <3>1. Shows(chat') \subseteq Shows(chat)
      BY <2>3, PostShows, FrameFacts DEF BeginVoiceStatus, BeginStatus, Open
    <3>2. QED
      BY <2>1, <2>3, <3>1 DEF BeginVoiceStatus, BeginStatus, Open, course
  <2>4. CASE ShowListening
    <3>1. Shows(chat') \subseteq Shows(chat)
      BY <2>4, EditShows, FrameFacts DEF ShowListening
    <3>2. QED
      BY <2>1, <2>4, <3>1 DEF ShowListening, course
  <2>5. CASE UpdateLands
    <3>1. chain # <<>> /\ Head(chain) \in Queued /\ Head(chain).frame \in Frames
      BY <2>5, ChainFacts DEF UpdateLands, Typed, TypeOK, Running, Updates
    <3>2. Head(chain).via = "edit" => Head(chain).frame # Final
      BY <3>1 DEF Shape, Fits
    <3>3. Shows(chat') \subseteq Shows(chat)
      BY <2>5, <3>1, <3>2, EditShows DEF UpdateLands
    <3>4. QED
      BY <2>1, <2>5, <3>3 DEF UpdateLands, course
  <2>6. CASE EditHtml \/ EditPlain \/ SendHtml \/ SendPlain \/ AskMorph \/ AskFresh
    <3>1. \A o \in Outcomes : o \in {"ok", "refused", "lost"}
      BY DEF Outcomes
    <3>2. QED
      BY <2>2, <2>6, <3>1
         DEF EditHtml, EditPlain, SendHtml, SendPlain, AskMorph, AskFresh, Deliver, AfterFresh,
             course
  <2>7. CASE Retire
    <3>1. Shows(chat') \subseteq Shows(chat)
      BY <2>7, EditShows, FrameFacts DEF Retire, Delete, Edit
    <3>2. QED
      BY <2>1, <2>7, <3>1 DEF Retire, course
  <2>8. CASE RunAgain
    BY <2>1, <2>8 DEF RunAgain
  <2>9. CASE Heard
    BY <2>1, <2>9 DEF Heard, screen
  <2>10. ASSUME UNCHANGED <<chat, losses, tries>>, pc' = pc \/ pc' \in Telling \/ pc \notin Telling
        PROVE Told'
    BY <2>1, <2>10
  <2>11. CASE StartLoading \/ Prepare \/ LoopEnds \/ Settle \/ Settled \/ Audit \/ Suspend
             \/ SettleDraftTo \/ DraftSettled
              \/ Persist \/ Finalize \/ Crash
    BY <2>10, <2>11
       DEF StartLoading, Prepare, LoopEnds, Settle, Settled, Audit, Suspend, SettleDraftTo,
           DraftSettled, Persist, Finalize, Crash, Step, course, screen, handle
  <2>12. CASE Tick \/ ShowRecap \/ StreamAnswer \/ RunUpdate \/ WindowReopens \/ TimerFires
             \/ (\E f \in Frames : FlushLands(f))
              \/ Expire \/ UNCHANGED vars
    BY <2>10, <2>12
       DEF Tick, ShowRecap, StreamAnswer, RunUpdate, WindowReopens, TimerFires, FlushLands,
           Expire, vars, course, screen, handle
  <2> HIDE DEF Telling, Ended
  <2>13. QED
    BY <2>3, <2>4, <2>5, <2>6, <2>7, <2>8, <2>9, <2>11, <2>12 DEF Next
<1>3. QED
  BY <1>1, <1>2, TypedInvariant, SurfaceInvariant, UnrepliedInvariant, PTL DEF Spec

\* Until the reply has landed each way of telling it has cost a fault.
LEMMA TriedInvariant == Spec => []Tried
<1>1. Init => Tried
  BY DEF Init, Tried
<1>2. Typed /\ Shape /\ Rests /\ Unreplied /\ Tried /\ [Next]_vars => Tried'
  <2> SUFFICES ASSUME Typed, Shape, Rests, Unreplied, Tried, [Next]_vars PROVE Tried'
    OBVIOUS
  <2>0. faults \in Nat /\ faults' \in Nat /\ faults' >= faults /\ (Shown => Shown')
    BY FaultsGrow, ReplyKept
  <2> HIDE DEF Shown
  <2>1. ASSUME UNCHANGED <<pc, says, way, ref, threw>> PROVE Tried'
    BY <2>0, <2>1 DEF Tried, WaysTried, OwnsSurface
  <2>2. CASE Tick \/ ShowRecap \/ StreamAnswer \/ RunUpdate \/ UpdateLands \/ WindowReopens
             \/ TimerFires
             \/ (\E f \in Frames : FlushLands(f)) \/ Expire \/ UNCHANGED vars
    BY <2>1, <2>2
       DEF Tick, ShowRecap, StreamAnswer, RunUpdate, UpdateLands, WindowReopens, TimerFires,
           FlushLands, Expire, vars, course, screen, handle
  <2>3. CASE BeginVoiceStatus \/ ShowListening \/ BeginStatus \/ StartLoading \/ LoopEnds
             \/ Settle \/ Settled
             \/ RunAgain \/ Crash
    BY <2>3
       DEF BeginVoiceStatus, ShowListening, BeginStatus, Open, StartLoading, LoopEnds, Settle,
           Settled, RunAgain, Crash, Tried, Ended
  <2>4. CASE Heard
    BY <2>4 DEF Heard, AfterNote, Tried, OwnsSurface
  <2>5. CASE Prepare
    BY <2>5 DEF Prepare, Step, Tried
  <2>6. CASE Audit
    <3>1. says \in {"ask", "reply"}
      BY DEF Typed, TypeOK
    <3>2. QED
      BY <2>6, <3>1 DEF Audit, Step, FirstReply, Tried, handle
  <2>7. CASE Suspend \/ SettleDraftTo \/ DraftSettled
    BY <2>7 DEF Suspend, SettleDraftTo, DraftSettled, Step, FirstAsk, Tried, course, handle
  <2>8. ASSUME NEW from, NEW done, NEW else, Deliver(from, Morph, done, else), ref # 0
        PROVE /\ UNCHANGED <<says, way, ref, threw>> /\ pc = from
              /\ \/ pc' = done /\ Shown'
                 \/ pc' = else /\ (Shown' \/ faults' = faults + 1)
    <3>1. PICK o \in Outcomes : Charge(o) /\ Edit(o, Final) /\ pc' = IF o = "ok" THEN done ELSE else
      BY <2>8 DEF Deliver, Morph
    <3>2. Takes(o) => Shown'
      BY <2>8, <3>1, EditShows, FrameFacts DEF Shown
    <3>3. QED
      BY <2>8, <3>1, <3>2, ChargeFacts DEF Deliver, Takes, course, handle
  <2>9. ASSUME NEW from, NEW done, NEW else, Deliver(from, Send, done, else)
        PROVE /\ UNCHANGED <<says, way, ref, threw>> /\ pc = from
              /\ \/ pc' = done /\ Shown'
                 \/ pc' = else /\ (Shown' \/ faults' = faults + 1)
    <3>1. PICK o \in Outcomes : Charge(o) /\ Post(o, Final) /\ pc' = IF o = "ok" THEN done ELSE else
      BY <2>9 DEF Deliver, Send
    <3>2. Takes(o) => Shown'
      BY <3>1, PostShows, FrameFacts DEF Shown
    <3>3. QED
      BY <2>9, <3>1, <3>2, ChargeFacts DEF Deliver, Takes, course, handle
  <2>10. CASE EditHtml \/ EditPlain \/ AskMorph
    <3>1. ref # 0
      BY <2>10 DEF EditHtml, EditPlain, AskMorph, Deliver, Shape
    <3>2. QED
      BY <2>0, <2>8, <2>10, <3>1 DEF EditHtml, EditPlain, AskMorph, Tried, WaysTried
  <2>11. CASE SendHtml \/ SendPlain \/ AskFresh
    BY <2>0, <2>9, <2>11 DEF SendHtml, SendPlain, AskFresh, AfterFresh, Tried, WaysTried
  <2>12. CASE Retire
    <3>1. Shown
      BY <2>12 DEF Retire, Unreplied, Shown, Shows, Typed, TypeOK
    <3>2. QED
      BY <2>0, <2>12, <3>1 DEF Retire, Tried
  <2>13. CASE Persist \/ Finalize
    BY <2>0, <2>13 DEF Persist, Step, Finalize, Tried, WaysTried, OwnsSurface, course, handle
  <2>14. QED
    BY <2>2, <2>3, <2>4, <2>5, <2>6, <2>7, <2>10, <2>11, <2>12, <2>13 DEF Next
<1>3. QED
  BY <1>1, <1>2, TypedInvariant, SurfaceInvariant, UnrepliedInvariant, PTL DEF Spec

\* A turn that is over has told the user its reply, unless it threw or every way failed, and
\* twice only after a lost answer or a second run.
THEOREM RepliedOnceHolds == Spec => []RepliedOnce
<1>1. Typed /\ Tried /\ Told => RepliedOnce
  <2> SUFFICES ASSUME Typed, Tried, Told, pc = "over", OwnsSurface
               PROVE /\ Shows(chat) = {} => threw \/ faults >= WaysTried
                     /\ Cardinality(Shows(chat)) <= losses + tries
    BY DEF RepliedOnce, OwnsSurface
  <2>1. losses \in Nat /\ tries \in Nat
    BY SurfaceConstants DEF Typed, TypeOK
  <2>2. Cardinality(Shows(chat)) <= losses + tries - 0
    BY DEF Told, Telling, Ended
  <2>3. Shown \/ threw \/ faults >= WaysTried
    BY DEF Tried
  <2>4. QED
    BY <2>1, <2>2, <2>3 DEF Shown
<1>2. QED
  BY <1>1, TypedInvariant, TriedInvariant, ToldInvariant, PTL
=============================================================================
