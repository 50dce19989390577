--------------------------- MODULE DebounceProofs ---------------------------
(***************************************************************************)
(* Theorems about Debounce, for any number of messages, answers and        *)
(* failures.                                                               *)
(***************************************************************************)
EXTENDS Debounce, SequenceTheorems, TLAPS

\* A worker in a turn holds the lock: no path releases the key of the other worker,
\* and a dead process leaves its key to the TTL.
TurnHoldsLock == \A w \in Workers : pc[w] \in InTurn => lock = w

\* The webhook worker arms the window of a message that has arrived.
ArmsForMessage == pc["webhook"] \in {"pushed", "removed"} => arrived > 0

IInv == TypeOK /\ TurnHoldsLock /\ ArmsForMessage
-----------------------------------------------------------------------------
USE DEF queues, history, Fault

\* Sequences of one set stay in it.
LEMMA SeqConcat == ASSUME NEW S, NEW s \in Seq(S), NEW t \in Seq(S) PROVE s \o t \in Seq(S)
OBVIOUS

LEMMA SeqEmpty == ASSUME NEW S PROVE <<>> \in Seq(S)
OBVIOUS

LEMMA SeqAppend == ASSUME NEW S, NEW s \in Seq(S), NEW e \in S PROVE Append(s, e) \in Seq(S)
OBVIOUS

LEMMA LockStart == Init => IInv
BY DebounceConstants DEF Init, IInv, TypeOK, TurnHoldsLock, ArmsForMessage, Workers, InTurn

\* The handlers keep every variable's type and run turns under the lock only.
LEMMA LockStep == IInv /\ [Next]_vars => IInv'
<1> SUFFICES ASSUME IInv, [Next]_vars PROVE IInv'
  OBVIOUS
<1> USE DebounceConstants DEF IInv, TypeOK, TurnHoldsLock, ArmsForMessage, Workers, InTurn, Goto
<1>1. CASE ReceiveMessage
  BY <1>1 DEF ReceiveMessage
<1>2. CASE ReceiveAnswer
  BY <1>2 DEF ReceiveAnswer
<1>3. CASE TakeWindow
  BY <1>3 DEF TakeWindow
<1>4. CASE TakeAfter
  BY <1>4 DEF TakeAfter
<1>5. CASE TakeOther
  BY <1>5 DEF TakeOther
<1>6. CASE AppendFault
  BY <1>6 DEF AppendFault
<1>7. CASE RearmRemove
  BY <1>7 DEF RearmRemove
<1>8. CASE RearmRemoveFault
  BY <1>8 DEF RearmRemoveFault
<1>9. CASE RearmAdd
  <2>1. arrived \in 1..MaxMessages
    BY <1>9 DEF RearmAdd
  <2>2. ignored' \subseteq 1..MaxMessages /\ windowJob' \in {"none", "delayed", "active", "stalled", "failed"}
    BY <1>9, <2>1 DEF RearmAdd
  <2> QED
    BY <1>9, <2>2 DEF RearmAdd
<1>10. CASE RearmAddFault
  BY <1>10 DEF RearmAddFault
<1>11. CASE LookupFault
  BY <1>11 DEF LookupFault, EndJob
<1>12. CASE StartAnswer
  BY <1>12 DEF StartAnswer
<1>13. CASE DrainBuffer
  BY <1>13 DEF DrainBuffer, EndJob
<1>14. CASE Requeue
  BY <1>14 DEF Requeue
<1>15. CASE RequeueFault
  <2>0. batch \o buffer \in Seq(1..MaxMessages) /\ <<>> \in Seq(1..MaxMessages)
    BY SeqConcat, SeqEmpty
  <2>1. buffer' \in Seq(1..MaxMessages) /\ batch' \in Seq(1..MaxMessages)
    BY <1>15, <2>0 DEF RequeueFault
  <2> QED
    BY <1>15, <2>1 DEF RequeueFault, EndJob
<1>16. CASE LeaveOther
  BY <1>16 DEF LeaveOther
<1>17. CASE LockExpires
  BY <1>17 DEF LockExpires
<1>18. CASE Reap
  BY <1>18 DEF Reap, Abandoned
<1>19. CASE Crash
  BY <1>19 DEF Crash
<1>20. CASE Restart
  BY <1>20 DEF Restart
<1>21. CASE RecoverStalled
  BY <1>21 DEF RecoverStalled
<1>22. ASSUME NEW w \in Workers, Acquire(w) PROVE IInv'
  BY <1>22 DEF Acquire
<1>23. ASSUME NEW w \in Workers, AcquireFault(w) PROVE IInv'
  BY <1>23 DEF AcquireFault, GiveBack
<1>24. ASSUME NEW w \in Workers, Busy(w) PROVE IInv'
  BY <1>24 DEF Busy
<1>25. ASSUME NEW w \in Workers, Commit(w) PROVE IInv'
  <2>1. answer[w] # NoAnswer => answer[w] \in 1..MaxAnswers
    OBVIOUS
  <2>a. Carries(w) \in Seq(1..MaxMessages)
    BY SeqEmpty DEF Carries
  <2>2. ran' \in Seq(1..MaxMessages)
    BY <1>25, <2>a, SeqConcat DEF Commit
  <2>3. answered' \in Seq(1..MaxAnswers)
    BY <1>25, <2>1, SeqAppend DEF Commit
  <2>4. pc' = [pc EXCEPT ![w] = "committed"]
    BY <1>25 DEF Commit
  <2> HIDE DEF TypeOK
  <2>5. TypeOK'
    BY <1>25, <2>2, <2>3, <2>4 DEF Commit, TypeOK
  <2> QED
    BY <1>25, <2>4, <2>5 DEF Commit, TypeOK
<1>26. ASSUME NEW w \in Workers, Release(w) PROVE IInv'
  <2>1. \A v \in Workers : v # w => pc[v] \notin InTurn
    BY <1>26 DEF Release
  <2>2. pc' = [pc EXCEPT ![w] = "idle"]
    BY <1>26 DEF Release
  <2>3. TypeOK'
    <3>1. batch' \in Seq(1..MaxMessages)
      BY <1>26, SeqEmpty DEF Release
    <3>2. windowJob' \in {"none", "delayed", "active", "stalled", "failed"}
      BY <1>26 DEF Release, EndJob
    <3> QED
      BY <1>26, <2>2, <3>1, <3>2 DEF Release
  <2> QED
    BY <1>26, <2>1, <2>2, <2>3 DEF Release
<1>27. ASSUME NEW w \in Workers, TurnThrows(w) PROVE IInv'
  BY <1>27 DEF TurnThrows, GiveBack
<1>28. ASSUME NEW w \in Workers, ReleaseFault(w) PROVE IInv'
  BY <1>28 DEF ReleaseFault, GiveBack
<1>29. ASSUME NEW w \in Workers, ArmAfter(w) PROVE IInv'
  <2>1. afterJobs' \in Seq(1..MaxAnswers \cup {NoAnswer})
    BY <1>29 DEF ArmAfter
  <2>2. pc' = [pc EXCEPT ![w] = "idle"] /\ answer' = [answer EXCEPT ![w] = NoAnswer]
    BY <1>29 DEF ArmAfter
  <2>3. TypeOK'
    BY <1>29, <2>1, <2>2 DEF ArmAfter, EndJob
  <2> QED
    BY <1>29, <2>2, <2>3 DEF ArmAfter
<1>30. ASSUME NEW w \in Workers, ArmAfterFault(w) PROVE IInv'
  BY <1>30 DEF ArmAfterFault, EndJob
<1>31. CASE UNCHANGED vars
  BY <1>31 DEF vars
<1> QED
  BY <1>1, <1>2, <1>3, <1>4, <1>5, <1>6, <1>7, <1>8, <1>9,
     <1>10, <1>11, <1>12, <1>13, <1>14, <1>15, <1>16, <1>17, <1>18,
     <1>19, <1>20, <1>21, <1>22, <1>23, <1>24, <1>25, <1>26, <1>27,
     <1>28, <1>29, <1>30, <1>31
     DEF Next, WebhookStep, DebounceStep, TurnStep

LEMMA LockInvariant == Spec => []IInv
BY LockStart, LockStep, PTL DEF Spec

\* Every variable keeps its type.
THEOREM TypeCorrect == Spec => []TypeOK
BY LockInvariant, PTL DEF IInv

\* The webhook worker and the debounce worker never run turns of the user at once.
THEOREM OneTurnPerUserHolds == Spec => []OneTurnPerUser
<1>1. IInv => OneTurnPerUser
  BY DEF IInv, TurnHoldsLock, OneTurnPerUser, Workers
<1> QED
  BY <1>1, LockInvariant, PTL
-----------------------------------------------------------------------------
(* What the workers carry                                                   *)

Holding == {"acquire", "requeue", "rebuffer"} \cup InTurn

\* A drained batch is carried by the debounce worker from the drain to the end of its
\* turn, or until it is pushed back; a job with an answer carries none.
BatchCarried ==
    /\ batch # <<>> => pc["debounce"] \in Holding /\ answer["debounce"] = NoAnswer
    /\ pc["debounce"] \in Holding /\ answer["debounce"] = NoAnswer => batch # <<>>
    /\ pc["debounce"] \in {"requeue", "rebuffer"} => answer["debounce"] = NoAnswer

\* The webhook worker runs turns of answers only.
AnswerCarried ==
    /\ pc["webhook"] \in {"acquire", "arm"} \cup InTurn => answer["webhook"] # NoAnswer
    /\ pc["webhook"] \notin {"claimed", "requeue", "rebuffer"}

\* The catch block pushes a batch back only after a failure.
RebufferedByFault == pc["debounce"] = "rebuffer" => trouble >= 1

CarryInv == IInv /\ BatchCarried /\ AnswerCarried /\ RebufferedByFault

\* What a worker carries lies where the code of its phase left it.
LEMMA CarryInvariant == Spec => []CarryInv
<1>1. Init => CarryInv
  BY LockStart DEF Init, CarryInv, BatchCarried, AnswerCarried, RebufferedByFault, Holding, InTurn, Workers
<1>2. CarryInv /\ [Next]_vars => BatchCarried' /\ AnswerCarried' /\ RebufferedByFault'
  <2> SUFFICES ASSUME CarryInv, [Next]_vars
               PROVE  BatchCarried' /\ AnswerCarried' /\ RebufferedByFault'
    OBVIOUS
  <2> USE DebounceConstants DEF CarryInv, BatchCarried, AnswerCarried, RebufferedByFault, Holding,
          IInv, TypeOK, Workers, InTurn, Goto
  <2>1. CASE ReceiveMessage
    BY <2>1 DEF ReceiveMessage
  <2>2. CASE ReceiveAnswer
    <3>1. asked + 1 \in Nat
      OBVIOUS
    <3> QED
      BY <2>2, <3>1 DEF ReceiveAnswer
  <2>3. CASE TakeWindow
    BY <2>3 DEF TakeWindow
  <2>4. CASE TakeAfter
    BY <2>4 DEF TakeAfter
  <2>5. CASE TakeOther
    BY <2>5 DEF TakeOther
  <2>6. CASE WebhookStep
    <3>1. \/ pc' = [pc EXCEPT !["webhook"] = "idle"]
          \/ pc' = [pc EXCEPT !["webhook"] = "removed"]
      BY <2>6 DEF WebhookStep, AppendFault, RearmRemove, RearmRemoveFault, RearmAdd, RearmAddFault
    <3>2. UNCHANGED <<batch, answer>> /\ trouble' \in {trouble, trouble + 1}
      BY <2>6 DEF WebhookStep, AppendFault, RearmRemove, RearmRemoveFault, RearmAdd, RearmAddFault
    <3> QED
      BY <3>1, <3>2
  <2>7. CASE LookupFault
    BY <2>7 DEF LookupFault
  <2>8. CASE StartAnswer
    BY <2>8 DEF StartAnswer
  <2>9. CASE DrainBuffer
    BY <2>9 DEF DrainBuffer
  <2>10. CASE Requeue
    BY <2>10 DEF Requeue
  <2>11. CASE RequeueFault
    <3>1. /\ pc["debounce"] \in {"requeue", "rebuffer"} /\ UNCHANGED answer
          /\ trouble' = trouble + 1
      BY <2>11 DEF RequeueFault
    <3>2. \/ pc' = [pc EXCEPT !["debounce"] = "rebuffer"] /\ UNCHANGED batch
          \/ pc' = [pc EXCEPT !["debounce"] = "idle"] /\ batch' = <<>>
      BY <2>11 DEF RequeueFault
    <3> QED
      BY <3>1, <3>2
  <2>12. CASE LeaveOther
    BY <2>12 DEF LeaveOther
  <2>13. CASE LockExpires
    BY <2>13 DEF LockExpires
  <2>14. CASE Reap
    BY <2>14 DEF Reap
  <2>15. CASE Crash
    BY <2>15 DEF Crash
  <2>16. CASE Restart
    BY <2>16 DEF Restart
  <2>17. CASE RecoverStalled
    BY <2>17 DEF RecoverStalled
  <2>18. ASSUME NEW w \in Workers, Acquire(w)
         PROVE  BatchCarried' /\ AnswerCarried' /\ RebufferedByFault'
    BY <2>18 DEF Acquire
  <2>19. ASSUME NEW w \in Workers, AcquireFault(w)
         PROVE  BatchCarried' /\ AnswerCarried' /\ RebufferedByFault'
    BY <2>19 DEF AcquireFault, GiveBack
  <2>20. ASSUME NEW w \in Workers, Busy(w)
         PROVE  BatchCarried' /\ AnswerCarried' /\ RebufferedByFault'
    BY <2>20 DEF Busy
  <2>21. ASSUME NEW w \in Workers, Commit(w)
         PROVE  BatchCarried' /\ AnswerCarried' /\ RebufferedByFault'
    BY <2>21 DEF Commit
  <2>22. ASSUME NEW w \in Workers, Release(w)
         PROVE  BatchCarried' /\ AnswerCarried' /\ RebufferedByFault'
    BY <2>22 DEF Release
  <2>23. ASSUME NEW w \in Workers, TurnThrows(w)
         PROVE  BatchCarried' /\ AnswerCarried' /\ RebufferedByFault'
    BY <2>23 DEF TurnThrows, GiveBack
  <2>24. ASSUME NEW w \in Workers, ReleaseFault(w)
         PROVE  BatchCarried' /\ AnswerCarried' /\ RebufferedByFault'
    BY <2>24 DEF ReleaseFault, GiveBack
  <2>25. ASSUME NEW w \in Workers, ArmAfter(w) \/ ArmAfterFault(w)
         PROVE  BatchCarried' /\ AnswerCarried' /\ RebufferedByFault'
    <3>1. /\ pc[w] = "arm" /\ pc' = [pc EXCEPT ![w] = "idle"] /\ UNCHANGED batch
          /\ answer' = [answer EXCEPT ![w] = NoAnswer] /\ trouble' \in {trouble, trouble + 1}
      BY <2>25 DEF ArmAfter, ArmAfterFault
    <3> QED
      BY <3>1
  <2>26. CASE UNCHANGED vars
    BY <2>26 DEF vars
  <2> QED
    BY <2>1, <2>2, <2>3, <2>4, <2>5, <2>6, <2>7, <2>8, <2>9,
       <2>10, <2>11, <2>12, <2>13, <2>14, <2>15, <2>16, <2>17, <2>18,
       <2>19, <2>20, <2>21, <2>22, <2>23, <2>24, <2>25, <2>26
       DEF Next, DebounceStep, TurnStep
<1>3. CarryInv /\ [Next]_vars => CarryInv'
  BY <1>2, LockStep DEF CarryInv
<1> QED
  BY <1>1, <1>3, PTL DEF Spec
-----------------------------------------------------------------------------
(* The refinement of SerialInbox                                            *)

\* A sequence splits into its first part and the rest.
LEMMA SplitConcat ==
    ASSUME NEW S, NEW s \in Seq(S), NEW t \in Seq(S)
    PROVE  /\ SubSeq(s \o t, 1, Len(s)) = s
           /\ SubSeq(s \o t, Len(s) + 1, Len(s \o t)) = t
           /\ Len(s \o t) = Len(s) + Len(t)
<1>1. s \o t \in Seq(S) /\ Len(s \o t) = Len(s) + Len(t) /\ Len(s) \in Nat /\ Len(t) \in Nat
  BY ConcatProperties, LenProperties
<1>2. \A i \in 1..Len(s) + Len(t) : (s \o t)[i] = IF i <= Len(s) THEN s[i] ELSE t[i - Len(s)]
  BY ConcatProperties
<1>3. \A i \in 1..Len(s) + Len(t) : (s \o t)[i] \in S
  BY <1>1, ElementOfSeq
<1>4. /\ SubSeq(s \o t, 1, Len(s)) \in Seq(S)
      /\ Len(SubSeq(s \o t, 1, Len(s))) = Len(s)
      /\ \A i \in 1..Len(s) : SubSeq(s \o t, 1, Len(s))[i] = (s \o t)[i]
  BY <1>1, <1>3, SubSeqProperties
<1>5. SubSeq(s \o t, 1, Len(s)) = s
  BY <1>1, <1>2, <1>4, SeqEqual
<1>6. /\ SubSeq(s \o t, Len(s) + 1, Len(s \o t)) \in Seq(S)
      /\ Len(SubSeq(s \o t, Len(s) + 1, Len(s \o t))) = Len(t)
      /\ \A i \in 1..Len(t) : SubSeq(s \o t, Len(s) + 1, Len(s \o t))[i] = (s \o t)[Len(s) + i]
  BY <1>1, <1>3, SubSeqProperties
<1>7. SubSeq(s \o t, Len(s) + 1, Len(s \o t)) = t
  BY <1>1, <1>2, <1>6, SeqEqual
<1> QED
  BY <1>1, <1>5, <1>7

\* What a step of the webhook worker, of a job with an answer or of Redis leaves alone.
LEMMA SameInbox ==
    ASSUME pc'["debounce"] \in InTurn <=> pc["debounce"] \in InTurn,
           answer'["debounce"] = answer["debounce"],
           UNCHANGED <<buffer, batch, arrived, ran>>
    PROVE  UNCHANGED Inbox!vars
BY DEF Starting, Inbox!vars

\* Outside a turn the batch and the buffer wait, the batch first.
LEMMA SameWaiting ==
    ASSUME ~Starting, ~Starting', batch' \o buffer' = batch \o buffer,
           UNCHANGED <<arrived, ran>>
    PROVE  UNCHANGED Inbox!vars
BY DEF Inbox!vars

\* A worker drops what waited before some message, or behind it.
LEMMA Dropped ==
    ASSUME CarryInv, ~Starting', UNCHANGED <<arrived, ran>>,
           \/ batch' \o buffer' \in {<<>>, buffer}
           \/ batch' \o buffer' = batch /\ ~Starting
    PROVE  [Inbox!Next]_(Inbox!vars)
<1>0. batch \in Seq(1..MaxMessages) /\ buffer \in Seq(1..MaxMessages)
  BY DEF CarryInv, IInv, TypeOK
<1> DEFINE w == IF Starting THEN buffer ELSE batch \o buffer
           w2 == batch' \o buffer'
           t == IF Starting THEN batch ELSE <<>>
<1>1. w \in Seq(1..MaxMessages) /\ Len(w) \in Nat
  BY <1>0, SeqConcat, LenProperties
<1>2. ASSUME w2 = <<>> PROVE \E i \in 1..(Len(w) + 1), j \in 0..Len(w) : w2 = SubSeq(w, i, j)
  <2>1. SubSeq(w, 1, 0) = <<>>
    BY SubSeqEmpty
  <2> QED
    BY <1>1, <1>2, <2>1
<1>3. ASSUME ~Starting, w2 = batch
      PROVE  \E i \in 1..(Len(w) + 1), j \in 0..Len(w) : w2 = SubSeq(w, i, j)
  <2>1. w2 = SubSeq(w, 1, Len(batch)) /\ Len(w) = Len(batch) + Len(buffer)
    BY <1>0, <1>3, SplitConcat
  <2>2. Len(batch) \in 0..Len(w)
    BY <1>0, <2>1, LenProperties
  <2> QED
    BY <1>1, <2>1, <2>2
<1>4. ASSUME w2 = buffer
      PROVE  \E i \in 1..(Len(w) + 1), j \in 0..Len(w) : w2 = SubSeq(w, i, j)
  <2>1. CASE Starting
    <3>1. SubSeq(w, 1, Len(w)) = w
      BY <1>1, SubSeqFull
    <3> QED
      BY <1>1, <1>4, <2>1, <3>1
  <2>2. CASE ~Starting
    <3>1. w2 = SubSeq(w, Len(batch) + 1, Len(w)) /\ Len(w) = Len(batch) + Len(buffer)
      BY <1>0, <1>4, <2>2, SplitConcat
    <3>2. Len(batch) + 1 \in 1..(Len(w) + 1) /\ Len(w) \in 0..Len(w)
      BY <1>0, <3>1, LenProperties
    <3> QED
      BY <1>4, <3>1, <3>2
  <2> QED
    BY <2>1, <2>2
<1> QED
  BY <1>2, <1>3, <1>4 DEF Inbox!Next, Inbox!Drop

\* A turn of messages starts with the batch that waits.
LEMMA Begins == ASSUME CarryInv, Acquire("debounce") PROVE [Inbox!Next]_(Inbox!vars)
<1>0. batch \in Seq(1..MaxMessages) /\ buffer \in Seq(1..MaxMessages)
  BY DEF CarryInv, IInv, TypeOK
<1>1. /\ pc["debounce"] = "acquire" /\ pc'["debounce"] = "running"
      /\ UNCHANGED <<buffer, batch, answer, arrived, ran>>
  BY DEF Acquire, Goto, CarryInv, IInv, TypeOK, Workers
<1>2. CASE answer["debounce"] = NoAnswer
  <2>1. ~Starting /\ Starting' /\ batch # <<>>
    BY <1>1, <1>2 DEF Starting, InTurn, CarryInv, BatchCarried, Holding
  <2> DEFINE w == batch \o buffer
  <2>2. /\ SubSeq(w, 1, Len(batch)) = batch /\ SubSeq(w, Len(batch) + 1, Len(w)) = buffer
        /\ Len(w) = Len(batch) + Len(buffer)
    BY <1>0, SplitConcat
  <2>3. Len(batch) \in 1..Len(w)
    BY <1>0, <2>1, <2>2, EmptySeq, LenProperties
  <2>4. \E n \in 1..Len(w) : /\ n \in 1..Len(w) /\ batch' = SubSeq(w, 1, n)
                             /\ buffer' = SubSeq(w, n + 1, Len(w))
    BY <1>1, <2>2, <2>3
  <2> QED
    BY <1>1, <2>1, <2>4 DEF Inbox!Next, Inbox!Begin
<1>3. CASE answer["debounce"] # NoAnswer
  BY <1>1, <1>3 DEF Inbox!vars, Starting
<1> QED
  BY <1>2, <1>3

\* The turn commits: the batch runs, or the answer does.
LEMMA Executes ==
    ASSUME CarryInv, NEW w \in Workers, Commit(w) PROVE [Inbox!Next]_(Inbox!vars)
<1>1. /\ pc[w] = "running" /\ pc' = [pc EXCEPT ![w] = "committed"] /\ ran' = ran \o Carries(w)
      /\ UNCHANGED <<buffer, batch, answer, arrived>>
  BY DEF Commit, Goto
<1>2. ran \in Seq(1..MaxMessages) /\ pc \in [Workers -> {pc[v] : v \in Workers}]
  BY DEF CarryInv, IInv, TypeOK
<1>3. Starting' = Starting
  BY <1>1, <1>2 DEF Starting, InTurn, Workers
<1>4. CASE answer[w] = NoAnswer
  <2>1. w = "debounce"
    BY <1>1, <1>4 DEF Workers, CarryInv, AnswerCarried, InTurn
  <2>2. Starting /\ batch # <<>>
    BY <1>1, <1>4, <2>1 DEF Starting, InTurn, CarryInv, BatchCarried, Holding
  <2>3. ran' = ran \o batch
    BY <1>1, <1>4 DEF Carries
  <2> QED
    BY <1>1, <1>3, <2>2, <2>3 DEF Inbox!Next, Inbox!Execute
<1>5. CASE answer[w] # NoAnswer
  <2>1. ran' = ran
    BY <1>1, <1>2, <1>5, ConcatEmptySeq DEF Carries
  <2> QED
    BY <1>1, <1>3, <2>1 DEF Inbox!vars
<1> QED
  BY <1>4, <1>5

\* The turn of messages returned: its batch is done with.
LEMMA Finishes == ASSUME CarryInv, Release("debounce") PROVE [Inbox!Next]_(Inbox!vars)
<1>0. batch \in Seq(1..MaxMessages) /\ buffer \in Seq(1..MaxMessages)
  BY DEF CarryInv, IInv, TypeOK
<1>1. /\ pc["debounce"] = "committed" /\ pc'["debounce"] = "idle" /\ batch' = <<>>
      /\ UNCHANGED <<buffer, arrived, ran>>
  BY DEF Release, Goto, CarryInv, IInv, TypeOK, Workers
<1>2. ~Starting' /\ batch' \o buffer' = buffer
  BY <1>0, <1>1, ConcatEmptySeq DEF Starting, InTurn
<1>3. CASE Starting
  <2>1. batch # <<>>
    BY <1>1, <1>3 DEF Starting, InTurn, CarryInv, BatchCarried, Holding
  <2> QED
    BY <1>1, <1>2, <1>3, <2>1 DEF Inbox!Next, Inbox!Done
<1>4. CASE ~Starting
  <2>1. batch = <<>>
    BY <1>1, <1>4 DEF Starting, InTurn, CarryInv, BatchCarried
  <2> QED
    BY <1>1, <1>2, <1>4, <2>1, SameWaiting
<1> QED
  BY <1>3, <1>4

\* The turn failed, before its writes or after: its batch waits again, first.
LEMMA GivesBack ==
    ASSUME CarryInv, TurnThrows("debounce") \/ ReleaseFault("debounce")
    PROVE  [Inbox!Next]_(Inbox!vars)
<1>1. /\ pc["debounce"] \in InTurn /\ pc'["debounce"] \in {"rebuffer", "arm"}
      /\ UNCHANGED <<buffer, batch, answer, arrived, ran>>
  BY DEF TurnThrows, ReleaseFault, GiveBack, Goto, CarryInv, IInv, TypeOK, Workers, InTurn
<1>2. ~Starting'
  BY <1>1 DEF Starting, InTurn
<1>3. CASE Starting
  <2>1. batch # <<>>
    BY <1>1, <1>3 DEF Starting, InTurn, CarryInv, BatchCarried, Holding
  <2> QED
    BY <1>1, <1>2, <1>3, <2>1 DEF Inbox!Next, Inbox!GiveBack
<1>4. CASE ~Starting
  BY <1>1, <1>2, <1>4, SameWaiting
<1> QED
  BY <1>3, <1>4

\* requeueFront, and its pexpire rejected: the batch waits first, perhaps twice.
LEMMA PushesBack ==
    ASSUME CarryInv, Requeue \/ RequeueFault PROVE [Inbox!Next]_(Inbox!vars)
<1>0. /\ batch \in Seq(1..MaxMessages) /\ buffer \in Seq(1..MaxMessages)
      /\ batch \o buffer \in Seq(1..MaxMessages)
  BY SeqConcat DEF CarryInv, IInv, TypeOK
<1>1. /\ pc["debounce"] \in {"requeue", "rebuffer"} /\ UNCHANGED <<arrived, ran>>
      /\ pc'["debounce"] \notin InTurn /\ ~Starting
  BY DEF Requeue, RequeueFault, Goto, CarryInv, IInv, TypeOK, Workers, InTurn, Starting
<1>2. ~Starting'
  BY <1>1 DEF Starting
<1>3. CASE batch' = <<>> /\ buffer' = batch \o buffer
  BY <1>0, <1>1, <1>2, <1>3, ConcatEmptySeq, SameWaiting
<1>4. CASE batch' = <<>> /\ buffer' = buffer
  BY <1>0, <1>1, <1>2, <1>4, ConcatEmptySeq, Dropped
<1>5. CASE batch' = batch /\ buffer' = buffer
  BY <1>1, <1>2, <1>5, SameWaiting
<1>6. CASE batch' = batch /\ buffer' = batch \o buffer
  <2> DEFINE w == batch \o buffer
  <2>1. batch # <<>>
    BY <1>1 DEF CarryInv, BatchCarried, Holding
  <2>2. SubSeq(w, 1, Len(batch)) = batch /\ Len(w) = Len(batch) + Len(buffer)
    BY <1>0, SplitConcat
  <2>3. Len(batch) \in 1..Len(w)
    BY <1>0, <2>1, <2>2, EmptySeq, LenProperties
  <2>4. \E n \in 1..Len(w) : n \in 1..Len(w) /\ batch' \o buffer' = SubSeq(w, 1, n) \o w
    BY <1>6, <2>2, <2>3
  <2> QED
    BY <1>1, <1>2, <2>4 DEF Inbox!Next, Inbox!Repeat
<1> QED
  BY <1>3, <1>4, <1>5, <1>6 DEF Requeue, RequeueFault

\* The list's TTL lapses, before a turn or during one.
LEMMA Reaps == ASSUME CarryInv, Reap PROVE [Inbox!Next]_(Inbox!vars)
<1>0. batch \in Seq(1..MaxMessages) /\ buffer \in Seq(1..MaxMessages)
  BY DEF CarryInv, IInv, TypeOK
<1>1. buffer' = <<>> /\ UNCHANGED <<pc, batch, answer, arrived, ran>> /\ Starting' = Starting
  BY DEF Reap, Starting
<1>2. batch' \o buffer' = batch
  BY <1>0, <1>1, ConcatEmptySeq
<1>3. CASE ~Starting
  BY <1>1, <1>2, <1>3, Dropped
<1>4. CASE Starting
  <2>1. SubSeq(buffer, 1, 0) = <<>> /\ Len(buffer) \in Nat
    BY <1>0, SubSeqEmpty, LenProperties
  <2>2. \E i \in 1..(Len(buffer) + 1), j \in 0..Len(buffer) : buffer' = SubSeq(buffer, i, j)
    BY <1>1, <2>1
  <2> QED
    BY <1>1, <1>4, <2>2 DEF Inbox!Next, Inbox!Drop
<1> QED
  BY <1>3, <1>4

\* Every step is one of the inbox, or none.
LEMMA StepIsInbox == CarryInv /\ [Next]_vars => [Inbox!Next]_(Inbox!vars)
<1> SUFFICES ASSUME CarryInv, [Next]_vars PROVE [Inbox!Next]_(Inbox!vars)
  OBVIOUS
<1>0. /\ batch \in Seq(1..MaxMessages) /\ buffer \in Seq(1..MaxMessages)
      /\ pc \in [{"webhook", "debounce"} -> {pc["webhook"], pc["debounce"]}]
      /\ answer \in [{"webhook", "debounce"} -> 1..MaxAnswers \cup {NoAnswer}]
  BY DEF CarryInv, IInv, TypeOK, Workers, InTurn
<1>1. CASE ReceiveMessage
  <2>1. /\ arrived < MaxMessages /\ arrived' = arrived + 1
        /\ buffer' = Append(buffer, arrived + 1) /\ UNCHANGED <<batch, ran, answer>>
        /\ pc'["debounce"] = pc["debounce"]
    BY <1>0, <1>1 DEF ReceiveMessage, Goto
  <2>2. Starting' = Starting
    BY <2>1 DEF Starting
  <2>3. batch \o Append(buffer, arrived + 1) = Append(batch \o buffer, arrived + 1)
    <3>1. arrived + 1 \in 1..MaxMessages
      BY <2>1, DebounceConstants DEF CarryInv, IInv, TypeOK
    <3> HIDE <2>1
    <3>2. <<arrived + 1>> \in Seq(1..MaxMessages)
      BY <3>1
    <3>3. Append(batch \o buffer, arrived + 1) = (batch \o buffer) \o <<arrived + 1>>
      BY <1>0, <3>1, SeqConcat, AppendIsConcat
    <3>4. Append(buffer, arrived + 1) = buffer \o <<arrived + 1>>
      BY <1>0, <3>1, AppendIsConcat
    <3> QED
      BY <1>0, <3>2, <3>3, <3>4, ConcatAssociative
  <2> QED
    BY <2>1, <2>2, <2>3 DEF Inbox!Next, Inbox!Accept
<1>2. CASE ReceiveAnswer \/ TakeWindow \/ TakeOther \/ WebhookStep \/ LeaveOther
  <2>1. /\ UNCHANGED <<buffer, batch, arrived, ran>> /\ answer'["debounce"] = answer["debounce"]
        /\ pc'["debounce"] \in InTurn <=> pc["debounce"] \in InTurn
    BY <1>0, <1>2 DEF ReceiveAnswer, TakeWindow, TakeOther, WebhookStep, LeaveOther, AppendFault,
       RearmRemove, RearmRemoveFault, RearmAdd, RearmAddFault, Goto, InTurn
  <2> QED
    BY <2>1, SameInbox
<1>3. CASE TakeAfter \/ LookupFault \/ StartAnswer
  <2>1. UNCHANGED <<buffer, batch, arrived, ran>> /\ ~Starting /\ ~Starting'
    BY <1>0, <1>3 DEF TakeAfter, LookupFault, StartAnswer, Goto, InTurn, Starting
  <2> QED
    BY <2>1, SameWaiting
<1>4. CASE DrainBuffer
  <2>1. UNCHANGED <<arrived, ran>> /\ ~Starting /\ ~Starting' /\ batch' = buffer /\ buffer' = <<>>
    BY <1>0, <1>4 DEF DrainBuffer, Goto, InTurn, Starting
  <2>2. batch = <<>>
    BY <1>4 DEF DrainBuffer, CarryInv, BatchCarried, Holding, InTurn
  <2> QED
    BY <1>0, <2>1, <2>2, ConcatEmptySeq, SameWaiting
<1>5. CASE Requeue \/ RequeueFault
  BY <1>5, PushesBack
<1>6. CASE Acquire("debounce")
  BY <1>6, Begins
<1>7. CASE Release("debounce")
  BY <1>7, Finishes
<1>8. CASE TurnThrows("debounce") \/ ReleaseFault("debounce")
  BY <1>8, GivesBack
<1>9. ASSUME NEW w \in Workers, Commit(w) PROVE [Inbox!Next]_(Inbox!vars)
  BY <1>9, Executes
<1>10. CASE Acquire("webhook") \/ Release("webhook") \/ TurnThrows("webhook") \/ ReleaseFault("webhook")
  <2>1. UNCHANGED <<buffer, batch, arrived, ran>>
    BY <1>10 DEF Acquire, Release, TurnThrows, ReleaseFault
  <2>2. pc'["debounce"] = pc["debounce"] /\ answer'["debounce"] = answer["debounce"]
    BY <1>0, <1>10 DEF Acquire, Release, TurnThrows, ReleaseFault, GiveBack, Goto, Workers
  <2> QED
    BY <2>1, <2>2, SameInbox
<1>11. ASSUME NEW w \in Workers, Busy(w) \/ AcquireFault(w) PROVE [Inbox!Next]_(Inbox!vars)
  <2>1. UNCHANGED <<buffer, batch, arrived, ran, answer>>
    BY <1>11 DEF Busy, AcquireFault
  <2>2. pc'["debounce"] \in InTurn <=> pc["debounce"] \in InTurn
    BY <1>0, <1>11 DEF Busy, AcquireFault, GiveBack, Goto, InTurn, Workers
  <2> QED
    BY <2>1, <2>2, SameInbox
<1>12. ASSUME NEW w \in Workers, ArmAfter(w) \/ ArmAfterFault(w) PROVE [Inbox!Next]_(Inbox!vars)
  <2>1. UNCHANGED <<buffer, batch, arrived, ran>>
    BY <1>12 DEF ArmAfter, ArmAfterFault
  <2>2. CASE w = "webhook"
    <3>1. pc'["debounce"] = pc["debounce"] /\ answer'["debounce"] = answer["debounce"]
      BY <1>0, <1>12, <2>2 DEF ArmAfter, ArmAfterFault, Goto, Workers
    <3> QED
      BY <2>1, <3>1, SameInbox
  <2>3. CASE w = "debounce"
    <3>1. ~Starting /\ ~Starting'
      BY <1>0, <1>12, <2>3 DEF ArmAfter, ArmAfterFault, Goto, InTurn, Starting, Workers
    <3> QED
      BY <2>1, <3>1, SameWaiting
  <2> QED
    BY <2>2, <2>3 DEF Workers
<1>13. CASE LockExpires \/ RecoverStalled
  BY <1>13, SameInbox DEF LockExpires, RecoverStalled
<1>14. CASE Restart
  <2>1. UNCHANGED <<buffer, batch, arrived, ran>> /\ ~Starting /\ ~Starting'
    BY <1>0, <1>14 DEF Restart, InTurn, Starting, Workers
  <2> QED
    BY <2>1, SameWaiting
<1>15. CASE Reap
  BY <1>15, Reaps
<1>16. CASE Crash
  <2>1. UNCHANGED <<arrived, ran, buffer>> /\ ~Starting' /\ batch' = <<>>
    BY <1>0, <1>16 DEF Crash, InTurn, Starting, Workers
  <2> QED
    BY <1>0, <2>1, ConcatEmptySeq, Dropped
<1>17. CASE UNCHANGED vars
  BY <1>17, SameInbox DEF vars
<1>18. ASSUME NEW w \in Workers, TurnStep(w) PROVE [Inbox!Next]_(Inbox!vars)
  BY <1>6, <1>7, <1>8, <1>9, <1>10, <1>11, <1>12, <1>18 DEF TurnStep, Workers
<1> QED
  BY <1>1, <1>2, <1>3, <1>4, <1>5, <1>13, <1>14, <1>15, <1>16, <1>17, <1>18
     DEF Next, DebounceStep

\* The layer is a serial inbox: whatever fails, turns take what waits from the front, one
\* at a time, and a turn that fails puts its messages back before all others.
THEOREM Refinement == Spec => ImplementsInbox
<1>1. Init => Inbox!Init
  <2>1. <<>> \o <<>> = <<>>
    BY EmptySeq, ConcatEmptySeq
  <2> QED
    BY <2>1 DEF Init, Inbox!Init, Starting, InTurn, Workers
<1> QED
  BY <1>1, StepIsInbox, CarryInvariant, PTL DEF Spec, ImplementsInbox, Inbox!Spec

\* A drained batch is lost to no single failure: a living worker gives it up only after its
\* turn, or with the batch at the front of the buffer.
THEOREM DrainedRunsOrReturnsHolds == Spec => DrainedRunsOrReturns
<1> DEFINE A == batch # <<>> /\ batch' # batch /\ trouble' <= 1 /\ pc'["debounce"] # "down"
                => pc["debounce"] = "committed" \/ IsPrefix(batch, buffer')
<1>1. CarryInv /\ [Next]_vars => A
  <2> SUFFICES ASSUME CarryInv, Next, batch # <<>>, batch' # batch, trouble' <= 1,
                      pc'["debounce"] # "down"
               PROVE  pc["debounce"] = "committed" \/ IsPrefix(batch, buffer')
    BY DEF vars
  <2>0. batch \in Seq(1..MaxMessages) /\ buffer \in Seq(1..MaxMessages)
    BY DEF CarryInv, IInv, TypeOK
  <2>1. CASE DrainBuffer
    BY <2>1 DEF DrainBuffer, CarryInv, BatchCarried, Holding, InTurn
  <2>2. CASE Requeue
    <3>1. buffer' = batch \o buffer
      BY <2>2 DEF Requeue
    <3>2. /\ SubSeq(batch \o buffer, 1, Len(batch)) = batch
          /\ Len(batch \o buffer) = Len(batch) + Len(buffer)
          /\ SubSeq(batch, 1, Len(batch)) = batch /\ Len(batch) \in Nat /\ Len(buffer) \in Nat
      BY <2>0, SplitConcat, SubSeqFull, LenProperties
    <3> QED
      BY <3>1, <3>2 DEF IsPrefix
  <2>3. CASE RequeueFault
    <3>1. pc["debounce"] = "rebuffer" /\ trouble' = trouble + 1
      BY <2>3 DEF RequeueFault
    <3>2. trouble >= 1 /\ trouble \in Nat
      BY <3>1 DEF CarryInv, RebufferedByFault, IInv, TypeOK
    <3> QED
      BY <3>1, <3>2
  <2>4. ASSUME NEW w \in Workers, Release(w) PROVE pc["debounce"] = "committed"
    BY <2>4 DEF Release, Workers
  <2>5. CASE Crash
    BY <2>5 DEF Crash, Workers
  <2> QED
    BY <2>1, <2>2, <2>3, <2>4, <2>5 DEF Next, ReceiveMessage, ReceiveAnswer, TakeWindow, TakeAfter,
       TakeOther, WebhookStep, AppendFault, RearmRemove, RearmRemoveFault, RearmAdd, RearmAddFault,
       DebounceStep, LookupFault, StartAnswer, LeaveOther, TurnStep, Acquire, AcquireFault, Busy,
       Commit, TurnThrows, ReleaseFault, ArmAfter, ArmAfterFault, LockExpires, Reap, Restart,
       RecoverStalled
<1> QED
  BY <1>1, CarryInvariant, PTL DEF Spec, DrainedRunsOrReturns
=============================================================================
