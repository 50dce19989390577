--------------------------- MODULE ToolLoopProofs ---------------------------
(***************************************************************************)
(* Theorems about ToolLoop, for every round-trip ceiling, fetch cap,       *)
(* correction budget, round size and number of suspensions.                *)
(***************************************************************************)
EXTENDS ToolLoop, TLAPS

\* The ledger: every successful write, saved or with nothing to save, is counted by
\* the current run or forgotten.
Ledger == saved + unchanged = committedWrites + forgotten

\* What is told and forced is decided while the ledger stands still: a denial or a
\* forced choice with nothing counted, a claim with something counted.
DecidedOnLedger ==
    /\ forcedToolChoice => pc \in {"model", "done"} /\ committedWrites = 0
    /\ told \in {"unresolved", "masked"} => pc = "done" /\ committedWrites = 0
    /\ told = "claim" => pc = "done" /\ committedWrites > 0

\* Steps wait for the audit trail only within a round.
StepsInRound == pc # "tools" => unaudited = 0

\* While tools run, the unanswered calls are those of the round still to dispatch;
\* a suspended turn has one open ask_user and the calls behind it; else only calls
\* behind an ask_user are unanswered.
WireInv ==
    /\ pc \in {"start", "model", "done"} => unanswered = AfterAsk
    /\ pc = "tools" => unanswered = {<<run, roundtrip, i>> : i \in next..Len(calls)}
    /\ pc # "asked" => \A a \in asked : a[1] < run
    /\ pc = "asked" =>
          \E a \in asked :
              /\ a[1] = run
              /\ \A b \in asked : b[1] < run \/ b = a
              /\ \A c \in unanswered :
                     c = a \/ (c[1] = a[1] /\ c[2] = a[2] /\ a[3] < c[3])
-----------------------------------------------------------------------------
USE DEF turn, counters, round, truth

\* Every variable keeps its type: the round trips, the fetches and the corrections
\* stay within their limits.
THEOREM TypeCorrect == Spec => []TypeOK
<1>1. Init => TypeOK
  <2> SUFFICES ASSUME Init PROVE TypeOK
    OBVIOUS
  <2>1. maxCorrections \in Nat
    BY ToolLoopConstants DEF Init
  <2>2. calls \in Seq(Kinds) /\ unanswered \subseteq Ids /\ asked \subseteq Ids
    BY DEF Init
  <2>3. attempted \in BOOLEAN /\ forcedToolChoice \in BOOLEAN
    BY DEF Init
  <2> QED BY <2>1, <2>2, <2>3, ToolLoopConstants DEF Init, TypeOK, Replies, Texts
<1>2. TypeOK /\ [Next]_vars => TypeOK'
  <2> SUFFICES ASSUME TypeOK, [Next]_vars PROVE TypeOK'
    OBVIOUS
  <2> USE ToolLoopConstants DEF TypeOK
  <2>0. maxCorrections \in Nat
    OBVIOUS
  <2>1. CASE BuildContext
    BY <2>1 DEF BuildContext, Tell
  <2>2. ASSUME NEW stop \in Stops, NEW text \in Texts, Reply(stop, text) PROVE TypeOK'
    BY <2>2 DEF Reply, Tell, Masked, TerminalReply, Replies, Texts
  <2>3. ASSUME NEW stop \in Stops, NEW text \in Texts, Nudge(stop, text) PROVE TypeOK'
    BY <2>3 DEF Nudge, NextRoundtrip, Tell, Masked, Replies
  <2>4. ASSUME NEW stop \in Stops, NEW text \in Texts, GiveUp(stop, text) PROVE TypeOK'
    BY <2>4 DEF GiveUp, Tell
  <2>5. ASSUME NEW cs \in Rounds, CallTools(cs) PROVE TypeOK'
    <3>1. cs \in Seq(Kinds)
      <4> PICK n \in 1..MaxCalls : cs \in [1..n -> Kinds]
        BY DEF Rounds
      <4> QED OBVIOUS
    <3>2. {<<run, roundtrip, i>> : i \in 1..Len(cs)} \subseteq Ids
      BY <3>1 DEF Ids
    <3>3. unanswered' \subseteq Ids
      BY <2>5, <3>2 DEF CallTools
    <3>4. /\ calls' \in Seq(Kinds) /\ next' = 1
          /\ pc' = "tools" /\ forcedToolChoice' = FALSE
          /\ UNCHANGED <<turn, roundtrip, counters, corrections, asked, unaudited, truth,
                         told>>
      BY <2>5, <3>1 DEF CallTools
    <3>5. next' \in Nat \ {0}
      BY <3>4
    <3>7. attempted' \in BOOLEAN /\ forcedToolChoice' \in BOOLEAN
      BY <3>4
    <3>6. told' \in Replies \cup {"question", "failure", "unresolved"}
      BY <3>4
    <3> QED BY <3>3, <3>4, <3>5, <3>6, <3>7
  <2>6. CASE FetchCapped
    BY <2>6 DEF FetchCapped, Result
  <2>7. CASE Fetch
    BY <2>7 DEF Fetch, Result
  <2>8. CASE OtherTool
    BY <2>8 DEF OtherTool, Result
  <2>9. CASE Write
    <3>1. /\ saved' \in Nat /\ unchanged' \in Nat /\ committedWrites' \in Nat
          /\ attempted' = TRUE /\ UNCHANGED <<scheduleFetches, forgotten>>
      BY <2>9 DEF Write, AlreadyAsAsked, Count
    <3>2. /\ unanswered' \subseteq Ids /\ unaudited' \in Nat /\ next' \in Nat \ {0}
          /\ UNCHANGED <<pc, turn, roundtrip, corrections, forcedToolChoice, calls, asked, told>>
      BY <2>9 DEF Write, Result
    <3>3. attempted' \in BOOLEAN
      BY <3>1
    <3> QED BY <3>1, <3>2, <3>3
  <2>10. ASSUME NEW k \in 0..BatchSize, Batch(k) PROVE TypeOK'
    BY <2>10 DEF Batch, Count, Result
  <2>11. ASSUME NEW k \in 0..BatchSize, BatchThrows(k) PROVE TypeOK'
    BY <2>11 DEF BatchThrows, Count, Result
  <2>12. CASE EndRound
    BY <2>12 DEF EndRound, NextRoundtrip, Tell, Masked, Replies
  <2>13. CASE Ask
    BY <2>13 DEF Ask, Call, Ids
  <2>14. CASE Resume
    <3>1. unanswered' \subseteq Ids
      BY <2>14 DEF Resume
    <3>2. /\ run' \in 0..MaxResumes /\ forgotten' \in Nat
          /\ roundtrip' = 0 /\ scheduleFetches' = 0 /\ corrections' = 0
          /\ committedWrites' = 0 /\ attempted' = FALSE /\ forcedToolChoice' = FALSE
          /\ pc' = "start" /\ told' = "none"
          /\ UNCHANGED <<maxCorrections, round, asked, unaudited, saved, unchanged>>
      BY <2>14 DEF Resume
    <3>3. attempted' \in BOOLEAN /\ forcedToolChoice' \in BOOLEAN
      BY <3>2
    <3> QED BY <2>0, <3>1, <3>2, <3>3 DEF Replies, Texts
  <2>15. CASE UNCHANGED vars
    BY <2>15 DEF vars
  <2> QED
    BY <2>1, <2>2, <2>3, <2>4, <2>5, <2>6, <2>7, <2>8, <2>9, <2>10, <2>11, <2>12,
       <2>13, <2>14, <2>15 DEF Next, Step
<1> QED
  BY <1>1, <1>2, PTL DEF Spec

\* The ledger and what is decided on it, over every step.
LEMMA LedgerInvariant == Spec => [](Ledger /\ DecidedOnLedger)
<1> DEFINE Inv == Ledger /\ DecidedOnLedger
<1>1. Init => Inv
  BY DEF Init, Ledger, DecidedOnLedger
<1>2. TypeOK /\ Inv /\ [Next]_vars => Inv'
  <2> SUFFICES ASSUME TypeOK, Inv, [Next]_vars PROVE Inv'
    OBVIOUS
  <2> USE ToolLoopConstants DEF TypeOK, Ledger, DecidedOnLedger
  <2>1. CASE BuildContext
    BY <2>1 DEF BuildContext, Tell
  <2>2. ASSUME NEW stop \in Stops, NEW text \in Texts, Reply(stop, text) PROVE Inv'
    BY <2>2 DEF Reply, Answers, Tell, Masked, TerminalReply, IsFalseSuccessReply,
       Vetoed, Texts
  <2>3. ASSUME NEW stop \in Stops, NEW text \in Texts, Nudge(stop, text) PROVE Inv'
    BY <2>3 DEF Nudge, Answers, NarratesWithoutWrite, NextRoundtrip, Tell, Masked,
       IsFalseSuccessReply
  <2>4. ASSUME NEW stop \in Stops, NEW text \in Texts, GiveUp(stop, text) PROVE Inv'
    BY <2>4 DEF GiveUp, Answers, NarratesWithoutWrite, Tell
  <2>5. ASSUME NEW cs \in Rounds, CallTools(cs) PROVE Inv'
    BY <2>5 DEF CallTools
  <2>6. CASE FetchCapped
    BY <2>6 DEF FetchCapped, Dispatching, Result
  <2>7. CASE Fetch
    BY <2>7 DEF Fetch, Dispatching, Result
  <2>8. CASE OtherTool
    BY <2>8 DEF OtherTool, Dispatching, Result
  <2>9. CASE Write
    BY <2>9 DEF Write, AlreadyAsAsked, Dispatching, Count, Result
  <2>10. ASSUME NEW k \in 0..BatchSize, Batch(k) PROVE Inv'
    BY <2>10 DEF Batch, Dispatching, Count, Result
  <2>11. ASSUME NEW k \in 0..BatchSize, BatchThrows(k) PROVE Inv'
    BY <2>11 DEF BatchThrows, Dispatching, Count, Result
  <2>12. CASE EndRound
    BY <2>12 DEF EndRound, NextRoundtrip, Tell, Masked, IsFalseSuccessReply
  <2>13. CASE Ask
    BY <2>13 DEF Ask, Dispatching
  <2>14. CASE Resume
    BY <2>14 DEF Resume
  <2>15. CASE UNCHANGED vars
    BY <2>15 DEF vars
  <2> QED
    BY <2>1, <2>2, <2>3, <2>4, <2>5, <2>6, <2>7, <2>8, <2>9, <2>10, <2>11, <2>12,
       <2>13, <2>14, <2>15 DEF Next, Step
<1> QED
  BY <1>1, <1>2, TypeCorrect, PTL DEF Spec

\* Whoever is told that nothing was saved has lost only writes the ledger forgot:
\* those before a suspension, or of a create_tasks call that threw.
THEOREM DeniesOnlyForgottenHolds == Spec => []DeniesOnlyForgotten
<1>1. TypeOK /\ Ledger /\ DecidedOnLedger => DeniesOnlyForgotten
  BY DEF TypeOK, Ledger, DecidedOnLedger, DeniesOnlyForgotten
<1> QED
  BY <1>1, TypeCorrect, LedgerInvariant, PTL

\* A reply that claims a change is sent only after a write of the turn succeeded.
THEOREM ClaimBackedHolds == Spec => []ClaimBacked
<1>1. TypeOK /\ Ledger /\ DecidedOnLedger => ClaimBacked
  BY DEF TypeOK, Ledger, DecidedOnLedger, ClaimBacked
<1> QED
  BY <1>1, TypeCorrect, LedgerInvariant, PTL

\* However a round ends, its steps are in the audit trail by then.
THEOREM AuditCompleteHolds == Spec => []AuditComplete
<1>1. Init => StepsInRound
  BY DEF Init, StepsInRound
<1>2. TypeOK /\ StepsInRound /\ [Next]_vars => StepsInRound'
  <2> SUFFICES ASSUME TypeOK, StepsInRound, [Next]_vars PROVE StepsInRound'
    OBVIOUS
  <2> USE DEF TypeOK, StepsInRound
  <2>1. CASE BuildContext \/ EndRound \/ Ask \/ Resume
    BY <2>1 DEF BuildContext, EndRound, Ask, Resume
  <2>2. ASSUME NEW stop \in Stops, NEW text \in Texts,
               Reply(stop, text) \/ Nudge(stop, text) \/ GiveUp(stop, text)
        PROVE StepsInRound'
    BY <2>2 DEF Reply, Nudge, GiveUp, Answers
  <2>3. ASSUME NEW cs \in Rounds, CallTools(cs) PROVE StepsInRound'
    BY <2>3 DEF CallTools
  <2>4. CASE FetchCapped \/ Fetch \/ OtherTool \/ Write
    BY <2>4 DEF FetchCapped, Fetch, OtherTool, Write, Dispatching, Result
  <2>5. ASSUME NEW k \in 0..BatchSize, Batch(k) \/ BatchThrows(k)
        PROVE StepsInRound'
    BY <2>5 DEF Batch, BatchThrows, Dispatching, Result
  <2>6. CASE UNCHANGED vars
    BY <2>6 DEF vars
  <2> QED
    BY <2>1, <2>2, <2>3, <2>4, <2>5, <2>6 DEF Next, Step
<1>3. StepsInRound => AuditComplete
  BY DEF StepsInRound, AuditComplete
<1> QED
  BY <1>1, <1>2, <1>3, TypeCorrect, PTL DEF Spec

\* One dispatched call leaves the calls behind it unanswered.
LEMMA ResultPairs ==
  ASSUME TypeOK, WireInv, pc = "tools", next <= Len(calls), Result
  PROVE  WireInv'
<1>1. unanswered' = {<<run', roundtrip', i>> : i \in next'..Len(calls')}
  BY DEF Result, WireInv, Call, TypeOK
<1>2. pc' = "tools" /\ asked' = asked /\ run' = run
  BY DEF Result
<1> QED
  BY <1>1, <1>2 DEF WireInv

\* Whenever the model is called, only calls skipped behind an ask_user lack a result.
THEOREM PairedUpToAskHolds == Spec => []PairedUpToAsk
<1>1. Init => WireInv
  BY DEF Init, WireInv, AfterAsk
<1>2. TypeOK /\ WireInv /\ [Next]_vars => WireInv'
  <2> SUFFICES ASSUME TypeOK, WireInv, [Next]_vars PROVE WireInv'
    OBVIOUS
  <2>1. CASE BuildContext
    BY <2>1 DEF BuildContext, Tell, WireInv, AfterAsk
  <2>2. ASSUME NEW stop \in Stops, NEW text \in Texts,
               Reply(stop, text) \/ Nudge(stop, text) \/ GiveUp(stop, text)
        PROVE WireInv'
    <3>1. pc = "model" /\ pc' \in {"model", "done"} /\ UNCHANGED <<run, unanswered, asked>>
      BY <2>2 DEF Reply, Nudge, GiveUp, Answers, Tell, NextRoundtrip
    <3> QED BY <3>1 DEF WireInv, AfterAsk
  <2>3. ASSUME NEW cs \in Rounds, CallTools(cs) PROVE WireInv'
    BY <2>3 DEF CallTools, WireInv
  <2>4. CASE FetchCapped \/ Fetch \/ OtherTool \/ Write
    BY <2>4, ResultPairs DEF FetchCapped, Fetch, OtherTool, Write, Dispatching
  <2>5. ASSUME NEW k \in 0..BatchSize, Batch(k) \/ BatchThrows(k)
        PROVE WireInv'
    BY <2>5, ResultPairs DEF Batch, BatchThrows, Dispatching
  <2>6. CASE EndRound
    <3>1. unanswered' = {}
      BY <2>6 DEF EndRound, WireInv, TypeOK
    <3>2. pc = "tools" /\ pc' \in {"model", "done"} /\ UNCHANGED <<run, asked>>
      BY <2>6 DEF EndRound, NextRoundtrip, Tell
    <3> QED BY <3>1, <3>2 DEF WireInv, AfterAsk
  <2>7. CASE Ask
    <3>1. /\ pc = "tools" /\ pc' = "asked" /\ run' = run
          /\ asked' = asked \cup {Call} /\ unanswered' = unanswered
      BY <2>7 DEF Ask, Dispatching
    <3>2. Call \in asked' /\ Call[1] = run /\ Call[2] = roundtrip /\ Call[3] = next
      BY <3>1 DEF Call
    <3>3. \A b \in asked' : b[1] < run \/ b = Call
      BY <3>1 DEF WireInv
    <3>4. \A c \in unanswered' : c = Call \/ (c[1] = run /\ c[2] = roundtrip /\ next < c[3])
      BY <3>1 DEF WireInv, Call, TypeOK
    <3> QED BY <3>1, <3>2, <3>3, <3>4 DEF WireInv
  <2>8. CASE Resume
    <3>1. PICK a \in asked :
              /\ a[1] = run
              /\ \A b \in asked : b[1] < run \/ b = a
              /\ \A c \in unanswered :
                     c = a \/ (c[1] = a[1] /\ c[2] = a[2] /\ a[3] < c[3])
      BY <2>8 DEF Resume, WireInv
    <3>2. /\ pc' = "start" /\ run' = run + 1 /\ asked' = asked
          /\ unanswered' = {c \in unanswered : ~(c \in asked /\ c[1] = run)}
      BY <2>8 DEF Resume
    <3>3. \A c \in unanswered' : c[1] = a[1] /\ c[2] = a[2] /\ a[3] < c[3]
      BY <3>1, <3>2
    <3>4. \A b \in asked' : b[1] < run'
      BY <3>1, <3>2 DEF TypeOK, Ids
    <3> QED BY <3>2, <3>3, <3>4 DEF WireInv, AfterAsk
  <2>9. CASE UNCHANGED vars
    BY <2>9 DEF vars, WireInv, AfterAsk
  <2> QED
    BY <2>1, <2>2, <2>3, <2>4, <2>5, <2>6, <2>7, <2>8, <2>9 DEF Next, Step
<1>3. WireInv => PairedUpToAsk
  BY DEF WireInv, PairedUpToAsk
<1> QED
  BY <1>1, <1>2, <1>3, TypeCorrect, PTL DEF Spec
=============================================================================
