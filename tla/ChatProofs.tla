----------------------------- MODULE ChatProofs -----------------------------
(***************************************************************************)
(* Theorems about Ingress and about Chat, for any updates, users, chats,   *)
(* workers, failures, crashes and keys that run out: an update is admitted *)
(* once in the life of its dedupe key, by the queue alone and with the     *)
(* chat's handlers, a link code binds once, a chat that has a menu card    *)
(* keeps one, and the pointers in Redis fit what the chat shows.           *)
(***************************************************************************)
EXTENDS Chat, SequenceTheorems, TLAPS

-----------------------------------------------------------------------------
(* The queue and the dedupe key alone (Ingress)                             *)

IngressInv == IngressTypeOK /\ AdmittedOnce /\ AdmissionHeld

LEMMA IngressStarts == IngressInit => IngressInv
BY IngressConstants DEF IngressInit, IngressStart, IngressInv, IngressTypeOK, AdmittedOnce, AdmissionHeld, Covers, JobStates

\* One step of the admission, for the modules that compose it with handlers.
LEMMA IngressSteps == IngressInv /\ [IngressNext]_ingressVars => IngressInv'
<1> SUFFICES ASSUME IngressInv, [IngressNext]_ingressVars PROVE IngressInv'
  OBVIOUS
<1> USE IngressConstants DEF IngressInv, IngressTypeOK, AdmittedOnce, AdmissionHeld, Covers, JobStates, Strikes
<1>1. ASSUME NEW u \in Updates, HandleTelegramWebhook(u) PROVE IngressInv'
  BY <1>1 DEF HandleTelegramWebhook, Enqueued
<1>2. ASSUME NEW u \in Updates, AcquireDedupe(u) PROVE IngressInv'
  <2>1. CASE u \notin keys /\ keys' = keys \cup {u} /\ UNCHANGED faults
             /\ job' = [job EXCEPT ![u] = "handling"]
             /\ admitted' = [admitted EXCEPT ![u] = @ + 1]
    BY <1>2, <2>1 DEF AcquireDedupe
  <2>2. CASE u \in keys /\ job' = [job EXCEPT ![u] = "none"]
             /\ UNCHANGED <<keys, admitted, faults>>
    BY <1>2, <2>2 DEF AcquireDedupe
  <2>3. CASE Strikes /\ job' = [job EXCEPT ![u] = "failed"]
             /\ keys' \in {keys, keys \cup {u}} /\ UNCHANGED admitted
    BY <1>2, <2>3 DEF AcquireDedupe
  <2> QED
    BY <1>2, <2>1, <2>2, <2>3 DEF AcquireDedupe
<1>3. ASSUME NEW u \in Updates, Return(u), Strikes \/ UNCHANGED faults PROVE IngressInv'
  BY <1>3 DEF Return
<1>4. ASSUME NEW u \in Updates, Throw(u) PROVE IngressInv'
  BY <1>4 DEF Throw
<1>5. ASSUME NEW u \in Updates, Crash(u) PROVE IngressInv'
  BY <1>5 DEF Crash, Active
<1>8. ASSUME NEW u \in Updates, KeyExpires(u) PROVE IngressInv'
  <2>1. /\ u \in keys /\ keys' = keys \ {u} /\ expired[u] < MaxExpiries
        /\ expired' = [expired EXCEPT ![u] = expired[u] + 1]
        /\ UNCHANGED <<job, stalled, admitted, faults, crashes>>
    BY <1>8 DEF KeyExpires
  <2>2. /\ expired'[u] = expired[u] + 1 /\ expired[u] \in 0..MaxExpiries
        /\ \A w \in Updates \ {u} : expired'[w] = expired[w] /\ (w \in keys' <=> w \in keys)
    BY <2>1
  <2>3. IngressTypeOK'
    BY <2>1, <2>2
  <2>4. ASSUME NEW w \in Updates PROVE admitted'[w] <= Covers(w)' /\ admitted'[w] <= 1 + expired'[w]
    BY <2>1, <2>2
  <2> QED
    BY <2>1, <2>3, <2>4
<1>6. CASE Fault
  BY <1>6 DEF Fault
<1>7. CASE UNCHANGED ingressVars
  BY <1>7 DEF ingressVars
<1> QED
  BY <1>1, <1>2, <1>3, <1>4, <1>5, <1>6, <1>7, <1>8 DEF IngressNext, Pipeline

LEMMA IngressInvariant == IngressSpec => []IngressInv
BY IngressStarts, IngressSteps, PTL DEF IngressSpec

\* An update is admitted once in the life of its dedupe key, however often Telegram posts it,
\* a worker dies with it or its handler throws, under any limit BullMQ sets to the restarts
\* of a stalled job, and however often and whenever the key runs out.
THEOREM AdmittedOnceHolds == IngressSpec => []AdmittedOnce
<1>1. IngressInv => AdmittedOnce
  BY DEF IngressInv
<1> QED
  BY <1>1, IngressInvariant, PTL

-----------------------------------------------------------------------------
(* The handlers and the app's requests step as Ingress lets them           *)

LEMMA GoesIsIngress ==
    ASSUME NEW u \in Updates, NEW r, Goes(u, r), Strikes \/ UNCHANGED faults
    PROVE  [IngressNext]_ingressVars
<1>1. CASE Return(u)
  BY <1>1 DEF IngressNext
<1>2. CASE UNCHANGED <<job, stalled, keys, admitted, expired, crashes>>
  BY <1>2 DEF IngressNext, Fault, ingressVars
<1> QED
  BY <1>1, <1>2 DEF Goes

LEMMA HandlerIsIngress ==
    ASSUME NEW u \in Updates, Handler(u) PROVE [IngressNext]_ingressVars
<1> USE DEF GoesOn, Swallowed, Throws
<1>1. ASSUME Throw(u) PROVE [IngressNext]_ingressVars
  BY <1>1 DEF IngressNext
<1>2. CASE Resolve(u)
  BY <1>1, <1>2 DEF Resolve, ingressVars
<1>3. CASE BeginLinking(u)
  BY <1>1, <1>3, GoesIsIngress DEF BeginLinking
<1>4. CASE SendPrompt(u)
  BY <1>1, <1>4, GoesIsIngress DEF SendPrompt
<1>5. CASE ClassifyFlow(u)
  <2>1. Strikes \/ UNCHANGED faults
    BY <1>5 DEF ClassifyFlow
  <2>2. UNCHANGED <<job, stalled, keys, admitted, expired, crashes>>
    BY <1>5 DEF ClassifyFlow
  <2> QED
    BY <2>1, <2>2 DEF IngressNext, Fault, ingressVars
<1>6. CASE HandOver(u)
  BY <1>1, <1>6, GoesIsIngress DEF HandOver
<1>7. CASE Command(u)
  BY <1>1, <1>7, GoesIsIngress DEF Command
<1>8. CASE ReadSchedule(u)
  BY <1>8, GoesIsIngress DEF ReadSchedule
<1>9. CASE ReadStatus(u)
  BY <1>1, <1>9, GoesIsIngress DEF ReadStatus
<1>10. CASE SendTextWithKeyboard(u)
  BY <1>10, GoesIsIngress DEF SendTextWithKeyboard
<1>11. CASE SetActiveSurface(u)
  BY <1>11, GoesIsIngress DEF SetActiveSurface
<1>12. CASE TakeMenu(u)
  BY <1>12, GoesIsIngress DEF TakeMenu
<1>13. CASE RetireMenu(u)
  BY <1>13, GoesIsIngress DEF RetireMenu
<1>14. CASE RecordMenu(u)
  BY <1>14, GoesIsIngress DEF RecordMenu
<1>15. CASE FindLink(u)
  BY <1>1, <1>15, GoesIsIngress DEF FindLink
<1>16. CASE DeleteLink(u)
  BY <1>1, <1>16, GoesIsIngress DEF DeleteLink
<1>17. CASE ClearSurface(u)
  BY <1>17, GoesIsIngress DEF ClearSurface
<1>18. CASE ClearMenu(u)
  BY <1>18, GoesIsIngress DEF ClearMenu
<1>19. CASE SendTextRemovingKeyboard(u)
  BY <1>19, GoesIsIngress DEF SendTextRemovingKeyboard
<1> QED
  BY <1>2, <1>3, <1>4, <1>5, <1>6, <1>7, <1>8, <1>9, <1>10, <1>11, <1>12, <1>13, <1>14,
     <1>15, <1>16, <1>17, <1>18, <1>19 DEF Handler

LEMMA RequestIsIngress ==
    ASSUME NEW v \in Users, Request(v) PROVE [IngressNext]_ingressVars
<1>1. ASSUME Fails(v) PROVE [IngressNext]_ingressVars
  BY <1>1 DEF Fails, IngressNext, Fault
<1> QED
  BY <1>1 DEF Request, RedeemNonce, FindExisting, Upsert, RequestUnlink, Unlink

LEMMA StepIsIngress == [Next]_vars => [IngressNext]_ingressVars
<1>1. ASSUME NEW u \in Updates, Arrives(u) PROVE IngressNext
  BY <1>1 DEF Arrives, IngressNext
<1>2. ASSUME UNCHANGED vars PROVE UNCHANGED ingressVars
  BY <1>2 DEF vars
<1> QED
  BY <1>1, <1>2, HandlerIsIngress, RequestIsIngress DEF Next

\* Whatever the handlers and the app do, updates are admitted as module Ingress says.
THEOREM ChatImplementsIngress == Spec => IngressSpec
<1>1. Init => IngressInit
  BY ChatConstants DEF Init, IngressInit
<1> QED
  BY <1>1, StepIsIngress, PTL DEF Spec, IngressSpec

\* No update of the chat is handled twice in the life of its key (a replay would book twice).
THEOREM ChatAdmittedOnce == Spec => []AdmittedOnce
BY ChatImplementsIngress, AdmittedOnceHolds, PTL
-----------------------------------------------------------------------------
(* What the variables hold, and in which order a handler's calls come      *)

CallNames ==
    {"mint", "prompt", "route", "hand over", "read command", "persist", "read", "status", "send",
     "take", "retire", "record", "set", "find", "delete", "clear", "untrack", "remove"}

\* The place of a call among the calls of its handler.
Stage(call) ==
    IF call \in {"mint", "route"} THEN 1
    ELSE IF call \in {"prompt", "hand over", "read command", "read", "status", "find"} THEN 2
    ELSE IF call \in {"persist", "delete"} THEN 3
    ELSE IF call \in {"send", "clear"} THEN 4
    ELSE IF call \in {"take", "untrack"} THEN 5
    ELSE IF call \in {"retire", "remove"} THEN 6
    ELSE IF call = "record" THEN 7 ELSE 8

\* A handler does not go back.
Ordered(todo) == \A i, j \in DOMAIN todo : i < j => Stage(todo[i]) < Stage(todo[j])

Todos == {todo \in Seq(CallNames) : todo # <<>> /\ Ordered(todo)}

\* Who is not linked is sent a code and no more; menu cards are openMenu's.
Fits(r) ==
    /\ r.user \in Users \/ \A i \in DOMAIN r.todo : r.todo[i] \in {"mint", "prompt"}
    /\ \A i \in DOMAIN r.todo : r.todo[i] \in {"take", "retire", "record"} => r.word = "open_menu"
    /\ (\E i \in DOMAIN r.todo : r.todo[i] = "mint") =>
         \A i \in DOMAIN r.todo : r.todo[i] \in {"mint", "prompt"}

Runs == {r \in [todo : Todos, chat : Chats, user : Users \cup {None}, word : Words,
                row : Ids \cup {None}, landed : BOOLEAN, prior : Ids \cup {None}] :
           Fits(r)}

Requests ==
    {NoRequest}
    \cup [at : {"upsert"}, code : Ids, chat : Chats]
    \cup [at : {"save"}, code : Ids, chat : Chats, existing : Rows \cup {None}]
    \cup [at : {"unlink"}, row : Ids]

RunTyped ==
    /\ run \in [Updates -> Runs \cup {NoRun}]
    /\ \A u \in Updates : run[u] # NoRun => job[u] = "handling"

StoreTyped ==
    /\ link \in [Users -> Rows \cup {None}]
    /\ nonces \subseteq [code : Ids, chat : Chats]
    /\ app \in [Users -> Requests]
    /\ docked \in [Chats -> Surfaces \cup {"none"}]
    /\ cards \in [Chats -> SUBSET Ids]
    /\ surface \in [Users -> Surfaces \cup {"none"}]
    /\ menu \in [Users -> Ids \cup {None}] /\ flagged \in [Users -> Chats \cup {None}]
    /\ binds \in [Ids -> Nat] /\ left \subseteq Ids /\ raced \in BOOLEAN

Typed == RunTyped /\ StoreTyped /\ job \in [Updates -> JobStates]

LEMMA NoRunIsNone == NoRun \notin Runs
<1>1. NoRun.todo = <<>>
  BY DEF NoRun
<1> QED
  BY <1>1 DEF Runs, Todos

LEMMA OrderedTail ==
    ASSUME NEW todo \in Todos, Len(todo) # 1
    PROVE  /\ Tail(todo) \in Todos
           /\ \A i \in DOMAIN Tail(todo) :
                /\ i + 1 \in DOMAIN todo /\ Tail(todo)[i] = todo[i + 1]
                /\ Stage(Head(todo)) < Stage(Tail(todo)[i])
<1>1. todo \in Seq(CallNames) /\ todo # <<>> /\ Len(todo) > 1
  <2>1. todo \in Seq(CallNames) /\ todo # <<>>
    BY DEF Todos
  <2>2. Len(todo) \in Nat /\ Len(todo) # 0
    BY <2>1, EmptySeq, LenProperties
  <2>3. \A n \in Nat : n # 0 /\ n # 1 => n > 1
    OBVIOUS
  <2>4. Len(todo) > 1
    BY <2>2, <2>3, Zenon
  <2> QED
    BY <2>1, <2>4
<1>2. /\ Tail(todo) \in Seq(CallNames) /\ Tail(todo) # <<>> /\ Head(todo) = todo[1]
      /\ Len(Tail(todo)) = Len(todo) - 1
      /\ \A i \in DOMAIN Tail(todo) : i \in Nat /\ i > 0 /\ i + 1 \in DOMAIN todo
                                      /\ Tail(todo)[i] = todo[i + 1]
  BY <1>1
<1>3. Ordered(todo) /\ 1 \in DOMAIN todo
  BY <1>1 DEF Todos
<1>4. Ordered(Tail(todo))
  BY <1>2, <1>3 DEF Ordered
<1>5. ASSUME NEW i \in DOMAIN Tail(todo) PROVE Stage(Head(todo)) < Stage(Tail(todo)[i])
  BY <1>2, <1>3 DEF Ordered
<1> QED
  BY <1>2, <1>4, <1>5 DEF Todos

\* How a call that is over moves its handler on, and no other.
LEMMA GoesMoves ==
    ASSUME Typed, NEW u \in Updates, NEW r \in Runs, Goes(u, r), job[u] = "handling"
    PROVE  /\ RunTyped'
           /\ UNCHANGED <<keys, admitted>>
           /\ \A w \in Updates \ {u} : run'[w] = run[w] /\ job'[w] = job[w]
           /\ \/ run'[u] = NoRun /\ job'[u] = "none"
              \/ /\ run'[u] \in Runs /\ job' = job
                 /\ run'[u] = [r EXCEPT !.todo = Tail(r.todo)]
                 /\ Tail(r.todo) \in Todos /\ Len(r.todo) # 1
<1>1. CASE Len(r.todo) = 1
  BY <1>1 DEF Goes, Return, Typed, RunTyped, JobStates
<1>2. CASE Len(r.todo) # 1
  <2>1. /\ Tail(r.todo) \in Todos
        /\ \A i \in DOMAIN Tail(r.todo) : i + 1 \in DOMAIN r.todo /\ Tail(r.todo)[i] = r.todo[i + 1]
    BY <1>2, OrderedTail DEF Runs
  <2> DEFINE s == [r EXCEPT !.todo = Tail(r.todo)]
  <2>2. /\ s \in [todo : Todos, chat : Chats, user : Users \cup {None}, word : Words,
                  row : Ids \cup {None}, landed : BOOLEAN, prior : Ids \cup {None}]
        /\ s.user = r.user /\ s.word = r.word /\ s.todo = Tail(r.todo)
    BY <2>1 DEF Runs
  <2>3. Fits(s)
    BY <2>1, <2>2 DEF Runs, Fits
  <2>4. s \in Runs
    BY <2>2, <2>3 DEF Runs
  <2>5. run' = [run EXCEPT ![u] = s] /\ UNCHANGED <<job, keys, admitted>>
    BY <1>2 DEF Goes
  <2> HIDE DEF s
  <2>6. RunTyped'
    BY <2>4, <2>5 DEF Typed, RunTyped
  <2>7. run'[u] = s /\ \A w \in Updates \ {u} : run'[w] = run[w]
    BY <2>5 DEF Typed, RunTyped
  <2> QED
    BY <1>2, <2>1, <2>4, <2>5, <2>6, <2>7 DEF s
<1> QED
  BY <1>1, <1>2

\* A handler that throws, or whose worker dies, is over.
LEMMA StopMoves ==
    ASSUME Typed, NEW u \in Updates, NEW state \in JobStates,
           run' = [run EXCEPT ![u] = NoRun], job' = [job EXCEPT ![u] = state]
    PROVE  /\ RunTyped' /\ run'[u] = NoRun /\ job'[u] = state
           /\ \A w \in Updates \ {u} : run'[w] = run[w] /\ job'[w] = job[w]
BY DEF Typed, RunTyped

\* What a handler that is at a call is.
LEMMA DoingRuns ==
    ASSUME Typed, NEW u \in Updates, NEW call, Doing(u, call)
    PROVE  /\ run[u] \in Runs /\ job[u] = "handling"
           /\ Head(run[u].todo) = call
           /\ 1 \in DOMAIN run[u].todo /\ run[u].todo[1] = call
           /\ call \notin {"mint", "prompt"} => run[u].user \in Users
           /\ call \in {"take", "retire", "record"} => run[u].word = "open_menu"
<1>1. run[u] # NoRun
  BY DEF Doing, NoRun
<1>2. run[u] \in Runs
  BY <1>1 DEF Typed, RunTyped
<1>3. run[u].todo \in Seq(CallNames) /\ run[u].todo # <<>>
  BY <1>2 DEF Runs, Todos
<1>4. 1 \in DOMAIN run[u].todo /\ run[u].todo[1] = call
  BY <1>3, EmptySeq, LenProperties DEF Doing
<1> QED
  BY <1>2, <1>4 DEF Doing, Runs, Fits

\* The handlers' lists of calls are in order.
LEMMA Stages ==
    /\ Stage("mint") = 1 /\ Stage("route") = 1 /\ Stage("prompt") = 2 /\ Stage("hand over") = 2
    /\ Stage("read command") = 2 /\ Stage("read") = 2 /\ Stage("status") = 2 /\ Stage("find") = 2
    /\ Stage("persist") = 3 /\ Stage("delete") = 3 /\ Stage("send") = 4 /\ Stage("clear") = 4
    /\ Stage("take") = 5 /\ Stage("untrack") = 5 /\ Stage("retire") = 6 /\ Stage("remove") = 6
    /\ Stage("record") = 7 /\ Stage("set") = 8
BY DEF Stage

LEMMA Ordered1 ==
    ASSUME NEW a \in CallNames PROVE <<a>> \in Todos
BY DEF Todos, Ordered

LEMMA Ordered2 ==
    ASSUME NEW a \in CallNames, NEW b \in CallNames, Stage(a) < Stage(b) PROVE <<a, b>> \in Todos
BY DEF Todos, Ordered

LEMMA Ordered3 ==
    ASSUME NEW a \in CallNames, NEW b \in CallNames, NEW c \in CallNames,
           Stage(a) < Stage(b), Stage(b) < Stage(c), Stage(a) < Stage(c)
    PROVE  <<a, b, c>> \in Todos
BY DEF Todos, Ordered

LEMMA Ordered4 ==
    ASSUME NEW a \in CallNames, NEW b \in CallNames, NEW c \in CallNames, NEW d \in CallNames,
           Stage(a) = 2, Stage(b) = 3, Stage(c) = 4, Stage(d) \in {6, 8}
    PROVE  <<a, b, c, d>> \in Todos
BY DEF Todos, Ordered

LEMMA Ordered5 ==
    ASSUME NEW a \in CallNames, NEW b \in CallNames, NEW c \in CallNames, NEW d \in CallNames,
           NEW e \in CallNames,
           Stage(a) = 2, Stage(b) = 3, Stage(c) = 4, Stage(d) = 5, Stage(e) = 6
    PROVE  <<a, b, c, d, e>> \in Todos
BY DEF Todos, Ordered

LEMMA Ordered6 ==
    ASSUME NEW a \in CallNames, NEW b \in CallNames, NEW c \in CallNames,
           NEW d \in CallNames, NEW e \in CallNames, NEW f \in CallNames,
           Stage(a) = 2, Stage(b) = 4, Stage(c) = 5, Stage(d) = 6, Stage(e) = 7, Stage(f) = 8
    PROVE  <<a, b, c, d, e, f>> \in Todos
BY DEF Todos, Ordered

LEMMA LabelsAre == Labels = {"schedule", "settings", "open_menu", "disconnect", "back", "logout"}
BY DEF Labels, OwnedBy, Surfaces

LEMMA ListsOrdered ==
    /\ <<"mint", "prompt">> \in Todos /\ <<"route">> \in Todos /\ <<"hand over">> \in Todos
    /\ <<"read", "send">> \in Todos
    /\ \A word \in Labels : Calls[word] \in Todos
    /\ \A word \in {"/start", "/other"} : CommandCalls(word) \in Todos
<1>1. /\ "mint" \in CallNames /\ "prompt" \in CallNames /\ "route" \in CallNames
      /\ "hand over" \in CallNames /\ "read command" \in CallNames /\ "persist" \in CallNames
      /\ "read" \in CallNames /\ "status" \in CallNames /\ "send" \in CallNames
      /\ "take" \in CallNames /\ "retire" \in CallNames /\ "record" \in CallNames
      /\ "set" \in CallNames /\ "find" \in CallNames /\ "delete" \in CallNames
      /\ "clear" \in CallNames /\ "untrack" \in CallNames /\ "remove" \in CallNames
  BY DEF CallNames
<1>2. <<"mint", "prompt">> \in Todos
  <2>1. Stage("mint") < Stage("prompt")
    BY DEF Stage
  <2> QED
    BY <2>1, <1>1, Ordered2
<1>3. <<"route">> \in Todos /\ <<"hand over">> \in Todos
  BY <1>1, Ordered1
<1>4. <<"read", "send">> \in Todos
  <2>1. Stage("read") < Stage("send")
    BY DEF Stage
  <2> QED
    BY <2>1, <1>1, Ordered2
<1>5. <<"read", "send", "set">> \in Todos
  <2>1. /\ Stage("read") < Stage("send") /\ Stage("send") < Stage("set")
        /\ Stage("read") < Stage("set")
    BY DEF Stage
  <2> QED
    BY <2>1, <1>1, Ordered3
<1>6. <<"send", "set">> \in Todos
  <2>1. Stage("send") < Stage("set")
    BY DEF Stage
  <2> QED
    BY <2>1, <1>1, Ordered2
<1>7. <<"status", "send", "take", "retire", "record", "set">> \in Todos
  BY <1>1, Stages, Ordered6
<1>8. <<"find", "delete", "clear", "untrack", "remove">> \in Todos
  BY <1>1, Stages, Ordered5
<1>9. <<"find", "delete", "clear", "remove">> \in Todos
  BY <1>1, Stages, Ordered4
<1>10. <<"read command", "persist", "send", "set">> \in Todos
  BY <1>1, Stages, Ordered4
<1>11. <<"read command", "persist">> \in Todos
  <2>1. Stage("read command") < Stage("persist")
    BY DEF Stage
  <2> QED
    BY <2>1, <1>1, Ordered2
<1>12. Labels = {"schedule", "settings", "open_menu", "disconnect", "back", "logout"}
  BY LabelsAre
<1>13. ASSUME NEW word \in Labels PROVE Calls[word] \in Todos
  BY <1>5, <1>6, <1>7, <1>8, <1>9, <1>12 DEF Calls
<1>14. ASSUME NEW word \in {"/start", "/other"} PROVE CommandCalls(word) \in Todos
  BY <1>10, <1>11 DEF CommandCalls
<1> QED
  BY <1>2, <1>3, <1>4, <1>13, <1>14

\* The locals a call leaves are again locals of a run that fits its list.
LEMMA LocalsFit ==
    ASSUME NEW r \in Runs
    PROVE  /\ [r EXCEPT !.landed = TRUE] \in Runs
           /\ \A m \in Ids \cup {None} : [r EXCEPT !.prior = m] \in Runs
           /\ \A m \in Ids \cup {None} : [r EXCEPT !.row = m] \in Runs
           /\ r.user \in Users => [r EXCEPT !.todo = <<"read", "send">>] \in Runs
<1>1. ASSUME NEW m \in Ids \cup {None} PROVE [r EXCEPT !.prior = m] \in Runs
  BY DEF Runs, Fits
<1>2. ASSUME NEW m \in Ids \cup {None} PROVE [r EXCEPT !.row = m] \in Runs
  BY DEF Runs, Fits
<1>3. [r EXCEPT !.landed = TRUE] \in Runs
  BY DEF Runs, Fits
<1>4. ASSUME r.user \in Users PROVE [r EXCEPT !.todo = <<"read", "send">>] \in Runs
  <2> DEFINE s == [r EXCEPT !.todo = <<"read", "send">>]
  <2>1. \A i \in DOMAIN <<"read", "send">> : <<"read", "send">>[i] \notin {"take", "retire", "record"}
    OBVIOUS
  <2>2. Fits(s)
    BY <1>4, <2>1 DEF Runs, Fits
  <2>3. s \in [todo : Todos, chat : Chats, user : Users \cup {None}, word : Words,
               row : Ids \cup {None}, landed : BOOLEAN, prior : Ids \cup {None}]
    BY ListsOrdered DEF Runs
  <2> QED
    BY <2>2, <2>3 DEF Runs
<1> QED
  BY <1>1, <1>2, <1>3, <1>4

LEMMA ThrowMoves ==
    ASSUME Typed, NEW u \in Updates, Throws(u)
    PROVE  /\ RunTyped' /\ run'[u] = NoRun /\ job'[u] = "failed"
           /\ \A w \in Updates \ {u} : run'[w] = run[w] /\ job'[w] = job[w]
BY StopMoves DEF Throws, Throw, JobStates

\* The run that the lookup of the chat's link starts.
LEMMA ResolveMoves ==
    ASSUME Typed, NEW u \in Updates, Resolve(u)
    PROVE  /\ RunTyped'
           /\ \A w \in Updates \ {u} : run'[w] = run[w] /\ job'[w] = job[w]
           /\ job[u] = "handling" /\ run[u].todo = <<>>
           /\ \/ run'[u] = NoRun /\ job'[u] = "failed"
              \/ /\ run'[u] \in Runs /\ job' = job
                 /\ run'[u].todo \in {<<"mint", "prompt">>, <<"route">>}
                 /\ ~run'[u].landed /\ run'[u].prior = None
<1>1. CASE Throws(u)
  BY <1>1, ThrowMoves DEF Resolve
<1>2. ASSUME NEW c \in Chats, NEW v \in Users \cup {None}, UNCHANGED ingressVars,
             run' = [run EXCEPT ![u] =
                      [todo |-> IF v = None THEN <<"mint", "prompt">> ELSE <<"route">>,
                       chat |-> c, user |-> v, word |-> "text",
                       row |-> None, landed |-> FALSE, prior |-> None]]
      PROVE  /\ RunTyped'
             /\ \A w \in Updates \ {u} : run'[w] = run[w] /\ job'[w] = job[w]
             /\ run'[u] \in Runs /\ job' = job
             /\ run'[u].todo \in {<<"mint", "prompt">>, <<"route">>}
             /\ ~run'[u].landed /\ run'[u].prior = None
  <2> DEFINE r == [todo |-> IF v = None THEN <<"mint", "prompt">> ELSE <<"route">>,
                   chat |-> c, user |-> v, word |-> "text",
                   row |-> None, landed |-> FALSE, prior |-> None]
  <2>1. r \in [todo : Todos, chat : Chats, user : Users \cup {None}, word : Words,
               row : Ids \cup {None}, landed : BOOLEAN, prior : Ids \cup {None}]
    BY ListsOrdered DEF Words
  <2>2. Fits(r)
    <3>1. CASE v = None
      <4>1. r.todo = <<"mint", "prompt">>
        BY <3>1
      <4>2. \A i \in DOMAIN <<"mint", "prompt">> : <<"mint", "prompt">>[i] \in {"mint", "prompt"}
        OBVIOUS
      <4> QED
        BY <4>1, <4>2 DEF Fits
    <3>2. CASE v # None
      <4>1. r.todo = <<"route">> /\ r.user \in Users
        BY <3>2
      <4>2. \A i \in DOMAIN <<"route">> : <<"route">>[i] = "route"
        OBVIOUS
      <4> QED
        BY <4>1, <4>2 DEF Fits
    <3> QED
      BY <3>1, <3>2
  <2>3. /\ r \in Runs /\ ~r.landed /\ r.prior = None
        /\ r.todo \in {<<"mint", "prompt">>, <<"route">>}
    BY <2>1, <2>2 DEF Runs
  <2>4. run' = [run EXCEPT ![u] = r] /\ UNCHANGED job
    BY <1>2 DEF ingressVars
  <2> HIDE DEF r
  <2> QED
    BY <2>3, <2>4, job[u] = "handling" DEF Typed, RunTyped, Resolve
<1>3. CASE ~Throws(u)
  <2>1. PICK c \in Chats :
           LET owners == {v \in Users : link[v] # None /\ link[v].chat = c} IN
           /\ \E v \in (IF owners = {} THEN {None} ELSE owners) :
                 run' = [run EXCEPT ![u] =
                          [todo |-> IF v = None THEN <<"mint", "prompt">> ELSE <<"route">>,
                           chat |-> c, user |-> v, word |-> "text",
                           row |-> None, landed |-> FALSE, prior |-> None]]
           /\ UNCHANGED ingressVars
    BY <1>3 DEF Resolve
  <2>2. \E v \in Users \cup {None} :
           run' = [run EXCEPT ![u] =
                    [todo |-> IF v = None THEN <<"mint", "prompt">> ELSE <<"route">>,
                     chat |-> c, user |-> v, word |-> "text",
                     row |-> None, landed |-> FALSE, prior |-> None]]
    BY <2>1
  <2> QED
    BY <1>2, <2>1, <2>2 DEF Resolve
<1> QED
  BY <1>1, <1>3

\* The lists without a menu card.
Plain == {"read command", "persist", "send", "set", "hand over", "read", "find", "delete", "clear",
          "untrack", "remove"}

LEMMA PlainLists ==
    /\ <<"hand over">> \in Seq(Plain)
    /\ \A word \in {"/start", "/other"} : CommandCalls(word) \in Seq(Plain)
    /\ \A word \in Labels \ {"open_menu"} : Calls[word] \in Seq(Plain)
<1>1. /\ "read command" \in Plain /\ "persist" \in Plain /\ "send" \in Plain /\ "set" \in Plain
      /\ "hand over" \in Plain /\ "read" \in Plain /\ "find" \in Plain /\ "delete" \in Plain
      /\ "clear" \in Plain /\ "untrack" \in Plain /\ "remove" \in Plain
  BY DEF Plain
<1>2. \A a \in Plain : <<a>> \in Seq(Plain)
  OBVIOUS
<1>3. \A a, b \in Plain : <<a, b>> \in Seq(Plain)
  OBVIOUS
<1>4. \A a, b, c \in Plain : <<a, b, c>> \in Seq(Plain)
  OBVIOUS
<1>5. \A a, b, c, d \in Plain : <<a, b, c, d>> \in Seq(Plain)
  OBVIOUS
<1>6. \A a, b, c, d, e \in Plain : <<a, b, c, d, e>> \in Seq(Plain)
  OBVIOUS
<1>7. <<"hand over">> \in Seq(Plain)
  BY <1>1, <1>2
<1>8. <<"read command", "persist">> \in Seq(Plain) /\ <<"send", "set">> \in Seq(Plain)
  BY <1>1, <1>3
<1>9. <<"read", "send", "set">> \in Seq(Plain)
  BY <1>1, <1>4
<1>10. /\ <<"read command", "persist", "send", "set">> \in Seq(Plain)
       /\ <<"find", "delete", "clear", "remove">> \in Seq(Plain)
  BY <1>1, <1>5
<1>11. <<"find", "delete", "clear", "untrack", "remove">> \in Seq(Plain)
  BY <1>1, <1>6
<1>12. \A word \in {"/start", "/other"} : CommandCalls(word) \in Seq(Plain)
  BY <1>8, <1>10 DEF CommandCalls
<1>13. ASSUME NEW word \in Labels \ {"open_menu"} PROVE Calls[word] \in Seq(Plain)
  <2>1. word \in {"schedule", "settings", "disconnect", "back", "logout"}
    BY LabelsAre
  <2>2. Calls[word] \in {<<"read", "send", "set">>, <<"send", "set">>,
                         <<"find", "delete", "clear", "untrack", "remove">>,
                         <<"find", "delete", "clear", "remove">>}
    BY <2>1 DEF Calls
  <2> QED
    BY <2>2, <1>8, <1>9, <1>10, <1>11
<1> QED
  BY <1>7, <1>12, <1>13

LEMMA MenuUnminted ==
    <<"status", "send", "take", "retire", "record", "set">> \in Seq(CallNames \ {"mint"})
<1> DEFINE S == CallNames \ {"mint"}
<1>1. /\ "status" \in S /\ "send" \in S /\ "take" \in S /\ "retire" \in S /\ "record" \in S
      /\ "set" \in S
  BY DEF CallNames
<1> HIDE DEF S
<1>2. \A a, b, c, d, e, f \in S : <<a, b, c, d, e, f>> \in Seq(S)
  OBVIOUS
<1>3. <<"status", "send", "take", "retire", "record", "set">> \in Seq(S)
  BY <1>1, <1>2
<1> QED
  BY <1>3 DEF S

\* The lists the router starts fit who is linked.
LEMMA RoutedFit ==
    ASSUME NEW r \in Runs, r.user \in Users, NEW word \in Words, NEW seen \in Surfaces \cup {"none"},
           NEW todo,
           todo = IF word \in {"/start", "/other"} THEN CommandCalls(word)
                  ELSE IF word \in OwnedBy[seen] THEN Calls[word]
                  ELSE <<"hand over">>
    PROVE  [r EXCEPT !.word = word, !.todo = todo] \in Runs
<1> DEFINE s == [r EXCEPT !.word = word, !.todo = todo]
<1>1. OwnedBy[seen] \subseteq Labels
  <2>1. CASE seen = "none"
    BY <2>1 DEF OwnedBy
  <2>2. CASE seen # "none"
    BY <2>2 DEF Labels
  <2> QED
    BY <2>1, <2>2
<1>2. todo \in Todos
  BY <1>1, ListsOrdered
<1>3. \A i \in DOMAIN todo : todo[i] \in {"take", "retire", "record"} => word = "open_menu"
  <2>1. CASE word = "open_menu"
    BY <2>1
  <2>2. CASE word # "open_menu"
    <3>1. todo \in Seq(Plain)
      BY <2>2, <1>1, PlainLists
    <3>2. \A i \in DOMAIN todo : todo[i] \in Plain
      BY <3>1, LenProperties
    <3> QED
      BY <3>2 DEF Plain
  <2> QED
    BY <2>1, <2>2
<1>4. /\ s \in [todo : Todos, chat : Chats, user : Users \cup {None}, word : Words,
               row : Ids \cup {None}, landed : BOOLEAN, prior : Ids \cup {None}]
      /\ s.user = r.user /\ s.word = word /\ s.todo = todo
  BY <1>2 DEF Runs
<1>5. \A i \in DOMAIN todo : todo[i] # "mint"
  <2>1. CASE todo \in Seq(Plain)
    <3>1. \A i \in DOMAIN todo : todo[i] \in Plain
      BY <2>1, LenProperties
    <3> QED
      BY <3>1 DEF Plain
  <2>2. CASE todo = <<"status", "send", "take", "retire", "record", "set">>
    <3>1. todo \in Seq(CallNames \ {"mint"})
      BY <2>2, MenuUnminted
    <3>2. todo \in [1..Len(todo) -> CallNames \ {"mint"}]
      BY <3>1, LenProperties
    <3> QED
      BY <3>2
  <2>3. CASE word # "open_menu" \/ word \notin OwnedBy[seen]
    BY <2>1, <2>3, <1>1, PlainLists
  <2>4. CASE word = "open_menu" /\ word \in OwnedBy[seen]
    BY <2>2, <2>4 DEF Calls
  <2> QED
    BY <2>3, <2>4
<1>6. Fits(s)
  BY <1>3, <1>4, <1>5 DEF Fits
<1> QED
  BY <1>4, <1>6 DEF Runs

LEMMA ClassifyMoves ==
    ASSUME Typed, NEW u \in Updates, ClassifyFlow(u)
    PROVE  /\ RunTyped' /\ job' = job /\ UNCHANGED <<keys, admitted>>
           /\ \A w \in Updates \ {u} : run'[w] = run[w]
           /\ 1 \in DOMAIN run[u].todo /\ run[u].todo[1] = "route"
           /\ run[u] \in Runs /\ run'[u] \in Runs
           /\ run'[u].landed = run[u].landed /\ run'[u].prior = run[u].prior
<1>1. /\ run[u] \in Runs /\ run[u].user \in Users
      /\ 1 \in DOMAIN run[u].todo /\ run[u].todo[1] = "route"
  BY DoingRuns DEF ClassifyFlow
<1>2. PICK word \in Words, seen \in {surface[run[u].user], "none"} :
         run' = [run EXCEPT ![u] = [@ EXCEPT !.word = word, !.todo =
                   IF word \in {"/start", "/other"} THEN CommandCalls(word)
                   ELSE IF word \in OwnedBy[seen] THEN Calls[word]
                   ELSE <<"hand over">>]]
  BY DEF ClassifyFlow
<1> DEFINE todo == IF word \in {"/start", "/other"} THEN CommandCalls(word)
                   ELSE IF word \in OwnedBy[seen] THEN Calls[word]
                   ELSE <<"hand over">>
           r == [run[u] EXCEPT !.word = word, !.todo = todo]
<1>3. seen \in Surfaces \cup {"none"}
  BY <1>1, <1>2 DEF Typed, StoreTyped
<1>4. r \in Runs
  BY <1>1, <1>3, RoutedFit
<1>5. r.landed = run[u].landed /\ r.prior = run[u].prior
  BY <1>1 DEF Runs
<1>6. run' = [run EXCEPT ![u] = r]
  BY <1>1, <1>2 DEF Typed, RunTyped
<1>7. UNCHANGED <<job, keys, admitted>>
  BY DEF ClassifyFlow
<1> HIDE DEF r
<1> QED
  BY <1>1, <1>4, <1>5, <1>6, <1>7 DEF Typed, RunTyped, ClassifyFlow, Doing

-----------------------------------------------------------------------------
(* Every other call moves its handler on to later calls, or ends it        *)

Advances(u) ==
    /\ RunTyped' /\ UNCHANGED admitted
    /\ \A w \in Updates \ {u} : run'[w] = run[w] /\ job'[w] = job[w]
    /\ run[u] \in Runs /\ 1 \in DOMAIN run[u].todo /\ run[u].todo[1] # "route"
    /\ \/ run'[u] = NoRun /\ job'[u] # "handling"
       \/ /\ run'[u] \in Runs /\ job' = job
          /\ \A i \in DOMAIN run'[u].todo :
               /\ Stage(run[u].todo[1]) < Stage(run'[u].todo[i])
               /\ \/ run'[u].todo[i] = "send"
                  \/ \E j \in DOMAIN run[u].todo : run[u].todo[j] = run'[u].todo[i]

LEMMA GoesAdvances ==
    ASSUME Typed, NEW u \in Updates, NEW call, Doing(u, call), call # "route",
           NEW r \in Runs, Goes(u, r), r.todo = run[u].todo
    PROVE  Advances(u)
<1>1. /\ run[u] \in Runs /\ job[u] = "handling" /\ Head(r.todo) = call
      /\ 1 \in DOMAIN run[u].todo /\ run[u].todo[1] = call
  BY DoingRuns
<1>2. /\ RunTyped' /\ UNCHANGED admitted
      /\ \A w \in Updates \ {u} : run'[w] = run[w] /\ job'[w] = job[w]
      /\ \/ run'[u] = NoRun /\ job'[u] = "none"
         \/ /\ run'[u] \in Runs /\ job' = job
            /\ run'[u] = [r EXCEPT !.todo = Tail(r.todo)]
            /\ Len(r.todo) # 1
  BY <1>1, GoesMoves
<1>3. ASSUME run'[u] \in Runs, run'[u] = [r EXCEPT !.todo = Tail(r.todo)], Len(r.todo) # 1,
             NEW i \in DOMAIN run'[u].todo
      PROVE  /\ Stage(run[u].todo[1]) < Stage(run'[u].todo[i])
             /\ \E j \in DOMAIN run[u].todo : run[u].todo[j] = run'[u].todo[i]
  <2>1. run'[u].todo = Tail(r.todo) /\ r.todo \in Todos
    BY <1>3 DEF Runs
  <2> QED
    BY <2>1, <1>1, <1>3, OrderedTail
<1> QED
  BY <1>1, <1>2, <1>3 DEF Advances

LEMMA ThrowAdvances ==
    ASSUME Typed, NEW u \in Updates, NEW call, Doing(u, call), call # "route", Throws(u)
    PROVE  Advances(u)
<1>1. run[u] \in Runs /\ 1 \in DOMAIN run[u].todo /\ run[u].todo[1] # "route"
  BY DoingRuns
<1>2. /\ RunTyped' /\ run'[u] = NoRun /\ job'[u] = "failed"
      /\ \A w \in Updates \ {u} : run'[w] = run[w] /\ job'[w] = job[w]
  BY ThrowMoves
<1>3. UNCHANGED admitted
  BY DEF Throws, Throw
<1> QED
  BY <1>1, <1>2, <1>3 DEF Advances

LEMMA ReadAdvances ==
    ASSUME Typed, NEW u \in Updates, Doing(u, "read"),
           Goes(u, [run[u] EXCEPT !.todo = <<"read", "send">>])
    PROVE  Advances(u)
<1> DEFINE r == [run[u] EXCEPT !.todo = <<"read", "send">>]
<1>1. /\ run[u] \in Runs /\ run[u].user \in Users /\ job[u] = "handling"
      /\ 1 \in DOMAIN run[u].todo /\ run[u].todo[1] = "read"
  BY DoingRuns
<1>2. r \in Runs /\ r.todo = <<"read", "send">>
  BY <1>1, LocalsFit DEF Runs
<1> HIDE DEF r
<1>3. /\ RunTyped' /\ UNCHANGED admitted
      /\ \A w \in Updates \ {u} : run'[w] = run[w] /\ job'[w] = job[w]
      /\ \/ run'[u] = NoRun /\ job'[u] = "none"
         \/ /\ run'[u] \in Runs /\ job' = job
            /\ run'[u] = [r EXCEPT !.todo = Tail(r.todo)]
  BY <1>1, <1>2, GoesMoves DEF r
<1>4. ASSUME run'[u] \in Runs, run'[u] = [r EXCEPT !.todo = Tail(r.todo)],
             NEW i \in DOMAIN run'[u].todo
      PROVE  run'[u].todo[i] = "send"
  <2>1. run'[u].todo = <<"send">>
    BY <1>2, <1>4 DEF Runs
  <2> QED
    BY <2>1
<1>5. Stage("read") < Stage("send")
  BY DEF Stage
<1> QED
  BY <1>1, <1>3, <1>4, <1>5 DEF Advances

\* The handlers that come after the router.
Later(u) ==
    \/ BeginLinking(u) \/ SendPrompt(u) \/ HandOver(u)
    \/ Command(u) \/ ReadSchedule(u) \/ ReadStatus(u) \/ SendTextWithKeyboard(u)
    \/ SetActiveSurface(u) \/ TakeMenu(u) \/ RetireMenu(u) \/ RecordMenu(u)
    \/ FindLink(u) \/ DeleteLink(u) \/ ClearSurface(u) \/ ClearMenu(u)
    \/ SendTextRemovingKeyboard(u)

LEMMA LaterAdvances ==
    ASSUME Typed, NEW u \in Updates, Later(u) PROVE Advances(u)
<1> USE DEF GoesOn, Swallowed
<1>1. ASSUME NEW call, Doing(u, call), call # "route", Goes(u, run[u]) \/ Throws(u)
      PROVE  Advances(u)
  BY <1>1, DoingRuns, GoesAdvances, ThrowAdvances
<1>2. CASE BeginLinking(u)
  <2>1. Doing(u, "mint") /\ (Goes(u, run[u]) \/ Throws(u))
    BY <1>2 DEF BeginLinking
  <2> QED
    BY <2>1, <1>1
<1>3. CASE SendPrompt(u)
  <2>1. Doing(u, "prompt") /\ (Goes(u, run[u]) \/ Throws(u))
    BY <1>3 DEF SendPrompt
  <2> QED
    BY <2>1, <1>1
<1>4. CASE HandOver(u)
  <2>1. Doing(u, "hand over") /\ (Goes(u, run[u]) \/ Throws(u))
    BY <1>4 DEF HandOver
  <2> QED
    BY <2>1, <1>1
<1>5. CASE ReadStatus(u)
  <2>1. Doing(u, "status") /\ (Goes(u, run[u]) \/ Throws(u))
    BY <1>5 DEF ReadStatus
  <2> QED
    BY <2>1, <1>1
<1>6. CASE SetActiveSurface(u)
  <2>1. Doing(u, "set") /\ (Goes(u, run[u]) \/ Throws(u))
    BY <1>6 DEF SetActiveSurface
  <2> QED
    BY <2>1, <1>1
<1>7. CASE RetireMenu(u)
  <2>1. Doing(u, "retire") /\ (Goes(u, run[u]) \/ Throws(u))
    BY <1>7 DEF RetireMenu
  <2> QED
    BY <2>1, <1>1
<1>8. CASE RecordMenu(u)
  <2>1. Doing(u, "record") /\ (Goes(u, run[u]) \/ Throws(u))
    BY <1>8 DEF RecordMenu
  <2> QED
    BY <2>1, <1>1
<1>9. CASE DeleteLink(u)
  <2>1. Doing(u, "delete") /\ (Goes(u, run[u]) \/ Throws(u))
    BY <1>9 DEF DeleteLink
  <2> QED
    BY <2>1, <1>1
<1>10. CASE ClearSurface(u)
  <2>1. Doing(u, "clear") /\ (Goes(u, run[u]) \/ Throws(u))
    BY <1>10 DEF ClearSurface
  <2> QED
    BY <2>1, <1>1
<1>11. CASE ClearMenu(u)
  <2>1. Doing(u, "untrack") /\ (Goes(u, run[u]) \/ Throws(u))
    BY <1>11 DEF ClearMenu
  <2> QED
    BY <2>1, <1>1
<1>12. CASE SendTextRemovingKeyboard(u)
  <2>1. Doing(u, "remove") /\ (Goes(u, run[u]) \/ Throws(u))
    BY <1>12 DEF SendTextRemovingKeyboard
  <2> QED
    BY <2>1, <1>1
<1>13. CASE Command(u)
  BY <1>13, <1>1 DEF Command
<1>14. CASE ReadSchedule(u)
  BY <1>14, <1>1, ReadAdvances DEF ReadSchedule
<1>15. CASE SendTextWithKeyboard(u)
  <2> DEFINE r == [run[u] EXCEPT !.landed = TRUE]
  <2>1. Doing(u, "send") /\ (Goes(u, run[u]) \/ Throws(u) \/ Goes(u, r))
    BY <1>15 DEF SendTextWithKeyboard
  <2>2. run[u] \in Runs /\ run[u].user \in Users
    BY <2>1, DoingRuns
  <2>3. r \in Runs /\ r.todo = run[u].todo
    BY <2>2, LocalsFit DEF Runs, Typed, StoreTyped, Rows
  <2> HIDE DEF r
  <2> QED
    BY <2>1, <2>3, <1>1, GoesAdvances
<1>16. CASE TakeMenu(u)
  <2> DEFINE r == [run[u] EXCEPT !.prior = menu[run[u].user]]
  <2>1. Doing(u, "take") /\ (Goes(u, run[u]) \/ Throws(u) \/ Goes(u, r))
    BY <1>16 DEF TakeMenu
  <2>2. run[u] \in Runs /\ run[u].user \in Users
    BY <2>1, DoingRuns
  <2>3. (menu[run[u].user]) \in Ids \cup {None}
    BY <2>2 DEF Typed, StoreTyped, Rows
  <2>4. r \in Runs
    BY <2>2, <2>3, LocalsFit
  <2>5. r.todo = run[u].todo
    BY <2>2 DEF Runs
  <2> HIDE DEF r
  <2> QED
    BY <2>1, <2>4, <2>5, <1>1, GoesAdvances
<1>17. CASE FindLink(u)
  <2> DEFINE r == [run[u] EXCEPT !.row = IF link[run[u].user] = None THEN None ELSE link[run[u].user].id]
  <2>1. Doing(u, "find") /\ (Goes(u, run[u]) \/ Throws(u) \/ Goes(u, r))
    BY <1>17 DEF FindLink
  <2>2. run[u] \in Runs /\ run[u].user \in Users
    BY <2>1, DoingRuns
  <2>3. (IF link[run[u].user] = None THEN None ELSE link[run[u].user].id) \in Ids \cup {None}
    BY <2>2 DEF Typed, StoreTyped, Rows
  <2>4. r \in Runs
    BY <2>2, <2>3, LocalsFit
  <2>5. r.todo = run[u].todo
    BY <2>2 DEF Runs
  <2> HIDE DEF r
  <2> QED
    BY <2>1, <2>4, <2>5, <1>1, GoesAdvances
<1> QED
  BY <1>2, <1>3, <1>4, <1>5, <1>6, <1>7, <1>8, <1>9, <1>10, <1>11, <1>12, <1>13, <1>14, <1>15, <1>16, <1>17 DEF Later

-----------------------------------------------------------------------------
(* An update that minted its code, or tracked its card, never does it again *)

Pending(u, calls) == \E i \in DOMAIN run[u].todo : run[u].todo[i] \in calls

\* The handler of the update is past the calls that name a code or a card after its run.
Done(u) ==
    ~(job[u] = "handling" /\ (run[u].todo = <<>> \/ Pending(u, {"mint", "route", "retire"})))

\* A run of an update is past them when it was admitted, and is over or done with them.
Past(m) == m[2] <= admitted[m[1]] /\ (m[2] = admitted[m[1]] => Done(m[1]))

\* A step takes no update back before them but by admitting another run of it.
Keeps(u) == admitted'[u] >= admitted[u] /\ (admitted'[u] = admitted[u] /\ Done(u) => Done(u)')

LEMMA IdsAre ==
    ASSUME NEW m \in Ids
    PROVE  m[1] \in Updates /\ m[2] \in Nat /\ m = <<m[1], m[2]>>
BY IngressConstants DEF Ids

\* The run that is being handled has a name, and is past its calls when its handler is.
LEMMA IdOfRun ==
    ASSUME IngressInv, NEW u \in Updates
    PROVE  /\ job[u] = "handling" => Id(u) \in Ids
           /\ admitted[u] \in Nat /\ (Past(Id(u)) <=> Done(u))
           /\ Id(u)[1] = u /\ Id(u)[2] = admitted[u]
<1>1. /\ admitted[u] \in Nat /\ admitted[u] <= 1 + expired[u] /\ expired[u] \in 0..MaxExpiries
      /\ job[u] = "handling" => admitted[u] >= 1
  BY DEF IngressInv, IngressTypeOK, AdmittedOnce, AdmissionHeld
<1>2. job[u] = "handling" => admitted[u] \in 1..MaxExpiries + 1
  BY <1>1, IngressConstants
<1>3. Id(u)[1] = u /\ Id(u)[2] = admitted[u]
  BY DEF Id
<1> QED
  BY <1>1, <1>2, <1>3 DEF Id, Ids, Past

LEMMA IdsDiffer ==
    ASSUME IngressInv, NEW u \in Updates, NEW w \in Updates, Id(u) = Id(w) PROVE u = w
BY IdOfRun

LEMMA IdPast ==
    ASSUME IngressInv, NEW u \in Updates, UNCHANGED admitted, Done(u)'
    PROVE  Past(Id(u))' /\ Id(u)' = Id(u)
<1>1. admitted[u] \in Nat /\ Id(u)[1] = u /\ Id(u)[2] = admitted[u]
  BY IdOfRun
<1>2. Id(u)' = Id(u)
  BY DEF Id
<1> QED
  BY <1>1, <1>2 DEF Past

LEMMA PastKept ==
    ASSUME IngressInv, IngressInv', \A u \in Updates : Keeps(u)
    PROVE  \A m \in Ids : Past(m) => Past(m)'
<1> SUFFICES ASSUME NEW m \in Ids, Past(m) PROVE Past(m)'
  OBVIOUS
<1> DEFINE u == m[1]
<1>1. u \in Updates /\ m[2] \in Nat
  BY IdsAre
<1>2. admitted[u] \in Nat /\ admitted'[u] \in Nat
  BY <1>1 DEF IngressInv, IngressTypeOK
<1>3. Keeps(u) /\ m[2] <= admitted[u] /\ (m[2] = admitted[u] => Done(u))
  BY <1>1 DEF Past
<1> HIDE DEF u
<1>4. m[2] <= admitted'[u] /\ (m[2] = admitted'[u] => Done(u)')
  BY <1>1, <1>2, <1>3 DEF Keeps
<1>5. u = m[1]
  BY DEF u
<1> QED
  BY <1>4, <1>5 DEF Past

LEMMA ArrivesMoves ==
    ASSUME Typed, IngressInv, NEW u \in Updates, Arrives(u)
    PROVE  /\ RunTyped'
           /\ \A w \in Updates : Keeps(w)
           /\ \A w \in Updates : run'[w] \in {run[w], NoRun}
           /\ \A w \in Updates : run'[w] # NoRun => admitted'[w] = admitted[w]
<1> USE DEF Typed, RunTyped, IngressInv, IngressTypeOK, JobStates
<1>1. \A w \in Updates \ {u} : job'[w] = job[w] /\ run'[w] = run[w] /\ admitted'[w] = admitted[w]
  BY DEF Arrives, Pipeline, HandleTelegramWebhook, Enqueued, AcquireDedupe, Crash, KeyExpires
<1>2. job' \in [Updates -> JobStates] /\ run' \in [Updates -> Runs \cup {NoRun}]
  BY DEF Arrives, Pipeline, HandleTelegramWebhook, Enqueued, AcquireDedupe, Crash, KeyExpires
<1>3. IF job'[u] = "handling" THEN run'[u] = run[u] ELSE run'[u] = NoRun
  BY DEF Arrives
<1>4. RunTyped'
  <2>1. \A w \in Updates \ {u} : run'[w] # NoRun => job'[w] = "handling"
    BY <1>1
  <2>2. run'[u] # NoRun => job'[u] = "handling"
    BY <1>3
  <2> QED
    BY <1>2, <2>1, <2>2
<1>5. \A w \in Updates : admitted'[w] \in Nat /\ admitted[w] \in Nat /\ admitted'[w] >= admitted[w]
  BY DEF Arrives, Pipeline, HandleTelegramWebhook, AcquireDedupe, Crash, KeyExpires
<1>6. ASSUME job'[u] = "handling" PROVE job[u] = "handling" \/ admitted'[u] # admitted[u]
  <2>1. CASE HandleTelegramWebhook(u)
    BY <2>1, <1>6 DEF HandleTelegramWebhook, Enqueued
  <2>2. CASE AcquireDedupe(u)
    BY <2>2, <1>6 DEF AcquireDedupe
  <2>3. CASE Crash(u)
    BY <2>3, <1>6 DEF Crash
  <2>4. CASE KeyExpires(u)
    BY <2>4, <1>6 DEF KeyExpires
  <2> QED
    BY <2>1, <2>2, <2>3, <2>4 DEF Arrives, Pipeline
<1>7. Keeps(u)
  BY <1>3, <1>5, <1>6 DEF Keeps, Done, Pending
<1>8. ASSUME NEW w \in Updates \ {u} PROVE Keeps(w)
  BY <1>1, <1>5 DEF Keeps, Done, Pending
<1>9. run[u] # NoRun => admitted'[u] = admitted[u]
  BY DEF Arrives, Pipeline, HandleTelegramWebhook, AcquireDedupe, Crash, KeyExpires
<1> QED
  BY <1>1, <1>3, <1>4, <1>7, <1>8, <1>9

LEMMA LaterMoves ==
    ASSUME Typed, IngressInv, NEW u \in Updates, Advances(u)
    PROVE  \A w \in Updates : Keeps(w)
<1> USE DEF IngressInv, IngressTypeOK
<1>1. ASSUME NEW w \in Updates \ {u} PROVE Keeps(w)
  BY <1>1 DEF Keeps, Done, Pending, Advances
<1>2. ASSUME Done(u) PROVE Done(u)'
  <2>1. CASE run'[u] = NoRun /\ job'[u] # "handling"
    BY <1>2, <2>1 DEF Done, Advances
  <2>2. CASE run'[u] \in Runs /\ job' = job
    <3>1. run'[u].todo # <<>> /\ run[u].todo # <<>>
      BY <2>2 DEF Runs, Todos, Advances
    <3>2. \A i \in DOMAIN run'[u].todo : \/ run'[u].todo[i] = "send"
                                         \/ \E j \in DOMAIN run[u].todo : run[u].todo[j] = run'[u].todo[i]
      BY <2>2, NoRunIsNone DEF Advances
    <3> QED
      BY <1>2, <2>2, <3>1, <3>2 DEF Done, Pending, Advances
  <2> QED
    BY <2>1, <2>2 DEF Advances
<1> QED
  BY <1>1, <1>2 DEF Keeps, Advances

LEMMA ResolvePast ==
    ASSUME Typed, IngressInv, NEW u \in Updates, Resolve(u)
    PROVE  \A w \in Updates : Keeps(w)
<1>1. ~Done(u)
  BY ResolveMoves DEF Done
<1>2. UNCHANGED admitted
  BY DEF Resolve, Throws, Throw, ingressVars
<1>3. \A w \in Updates \ {u} : run'[w] = run[w] /\ job'[w] = job[w]
  BY ResolveMoves
<1> QED
  BY <1>1, <1>2, <1>3 DEF Keeps, Done, Pending, IngressInv, IngressTypeOK

LEMMA ClassifyPast ==
    ASSUME Typed, IngressInv, NEW u \in Updates, ClassifyFlow(u)
    PROVE  \A w \in Updates : Keeps(w)
<1>1. job[u] = "handling"
  BY DEF ClassifyFlow, Doing
<1>2. ~Done(u)
  BY <1>1, ClassifyMoves DEF Done, Pending
<1>3. /\ UNCHANGED <<job, admitted>>
      /\ \A w \in Updates \ {u} : run'[w] = run[w]
  BY ClassifyMoves
<1>4. \A w \in Updates : admitted[w] \in Nat
  BY DEF IngressInv, IngressTypeOK
<1>5. ASSUME NEW w \in Updates \ {u} PROVE Done(w) => Done(w)'
  BY <1>3, <1>5 DEF Done, Pending
<1> QED
  BY <1>2, <1>3, <1>4, <1>5 DEF Keeps

LEMMA HandlerCases ==
    ASSUME NEW u \in Updates, Handler(u) PROVE Resolve(u) \/ ClassifyFlow(u) \/ Later(u)
BY DEF Handler, Later

LEMMA RequestMoves ==
    ASSUME Typed, NEW v \in Users, Request(v)
    PROVE  UNCHANGED <<run, job, admitted, keys, docked, cards, surface, menu, flagged, left, raced>>
BY DEF Request, RedeemNonce, FindExisting, Upsert, RequestUnlink, Unlink, Fails, Asks, ingressVars

LEMMA StillMoves ==
    ASSUME Typed, IngressInv, UNCHANGED <<run, job, admitted>>
    PROVE  RunTyped' /\ \A w \in Updates : Keeps(w)
<1>1. \A w \in Updates : admitted[w] \in Nat
  BY DEF IngressInv, IngressTypeOK
<1>2. \A w \in Updates : Done(w) => Done(w)'
  BY DEF Done, Pending
<1> QED
  BY <1>1, <1>2 DEF Keeps, Typed, RunTyped

\* Every step of the system keeps the runs in order, and what is past stays past.
LEMMA Flow ==
    ASSUME Typed, IngressInv, [Next]_vars
    PROVE  RunTyped' /\ \A m \in Ids : Past(m) => Past(m)'
<1>2. ASSUME NEW u \in Updates, Handler(u) PROVE RunTyped' /\ \A w \in Updates : Keeps(w)
  <2>1. CASE Resolve(u)
    BY <2>1, ResolveMoves, ResolvePast
  <2>2. CASE ClassifyFlow(u)
    BY <2>2, ClassifyMoves, ClassifyPast
  <2>3. CASE Later(u)
    <3>1. Advances(u)
      BY <2>3, LaterAdvances
    <3> QED
      BY <3>1, LaterMoves DEF Advances
  <2> QED
    BY <1>2, <2>1, <2>2, <2>3, HandlerCases
<1>3. ASSUME NEW v \in Users, Request(v) PROVE RunTyped' /\ \A w \in Updates : Keeps(w)
  BY <1>3, RequestMoves, StillMoves
<1>4. ASSUME UNCHANGED vars PROVE RunTyped' /\ \A w \in Updates : Keeps(w)
  <2>1. UNCHANGED <<run, job, admitted>>
    BY <1>4 DEF vars, chatVars, ingressVars
  <2> QED
    BY <2>1, StillMoves
<1>5. RunTyped' /\ \A w \in Updates : Keeps(w)
  <2>1. CASE \E u \in Updates \ {First} : Arrives(u)
    BY <2>1, ArrivesMoves
  <2>2. CASE \E u \in Updates \ {First} : Handler(u)
    BY <1>2, <2>2
  <2> QED
    BY <1>3, <1>4, <2>1, <2>2 DEF Next
<1>6. IngressInv'
  BY StepIsIngress, IngressSteps
<1> QED
  BY <1>5, <1>6, PastKept

-----------------------------------------------------------------------------
(* The stores hold what they are to hold                                   *)

LEMMA HandlerStores ==
    ASSUME Typed, IngressInv, RunTyped', NEW u \in Updates, Handler(u) PROVE StoreTyped'
<1> USE DEF Typed, StoreTyped, Untouched
<1>1. CASE Resolve(u)
  BY <1>1 DEF Resolve
<1>2. CASE BeginLinking(u)
  <2>1. run[u].chat \in Chats /\ Id(u) \in Ids
    BY <1>2, DoingRuns, IdOfRun DEF BeginLinking, Runs
  <2> QED
    BY <1>2, <2>1 DEF BeginLinking
<1>3. CASE SendPrompt(u) \/ ClassifyFlow(u) \/ HandOver(u) \/ Command(u) \/ ReadSchedule(u)
           \/ ReadStatus(u) \/ FindLink(u)
  BY <1>3 DEF SendPrompt, ClassifyFlow, HandOver, Command, ReadSchedule, ReadStatus, FindLink
<1>4. CASE SendTextWithKeyboard(u)
  <2>1. Id(u) \in Ids
    BY <1>4, DoingRuns, IdOfRun DEF SendTextWithKeyboard
  <2> QED
    BY <1>4, <2>1 DEF SendTextWithKeyboard, Docks, Surfaces
<1>5. CASE SetActiveSurface(u)
  <2>1. run[u].chat \in Chats
    BY <1>5, DoingRuns DEF SetActiveSurface, Runs
  <2> QED
    BY <1>5, <2>1 DEF SetActiveSurface, Docks, Surfaces
<1>6. CASE TakeMenu(u)
  BY <1>6 DEF TakeMenu
<1>7. CASE RetireMenu(u)
  <2>1. run[u].prior \in Ids \cup {None}
    BY <1>7, DoingRuns DEF RetireMenu, Runs
  <2> QED
    BY <1>7, <2>1 DEF RetireMenu, Retired
<1>8. CASE RecordMenu(u)
  <2>1. Id(u) \in Ids
    BY <1>8, DoingRuns, IdOfRun DEF RecordMenu
  <2> QED
    BY <1>8, <2>1 DEF RecordMenu
<1>9. CASE DeleteLink(u)
  BY <1>9 DEF DeleteLink, Without
<1>10. CASE ClearSurface(u)
  <2>1. run[u].chat \in Chats
    BY <1>10, DoingRuns DEF ClearSurface, Runs
  <2> QED
    BY <1>10, <2>1 DEF ClearSurface
<1>11. CASE ClearMenu(u)
  <2>1. run[u].user \in Users
    BY <1>11, DoingRuns DEF ClearMenu
  <2> QED
    BY <1>11, <2>1 DEF ClearMenu
<1>12. CASE SendTextRemovingKeyboard(u)
  BY <1>12 DEF SendTextRemovingKeyboard
<1> QED
  BY <1>1, <1>2, <1>3, <1>4, <1>5, <1>6, <1>7, <1>8, <1>9, <1>10, <1>11, <1>12 DEF Handler

LEMMA RequestStores ==
    ASSUME Typed, NEW v \in Users, Request(v) PROVE StoreTyped'
<1> USE DEF Typed, StoreTyped, Asks, Fails, Requests, NoRequest
<1>1. CASE RedeemNonce(v)
  BY <1>1 DEF RedeemNonce
<1>2. CASE FindExisting(v)
  BY <1>2 DEF FindExisting
<1>3. CASE Upsert(v)
  <2> DEFINE a == app[v]
             id == IF a.existing = None THEN a.code ELSE a.existing.id
  <2>1. a \in [at : {"save"}, code : Ids, chat : Chats, existing : Rows \cup {None}]
    BY <1>3 DEF Upsert
  <2>2. id \in Ids /\ a.chat \in Chats /\ a.code \in Ids
    BY <2>1 DEF Rows
  <2>3. /\ UNCHANGED nonces /\ app' \in {app, [app EXCEPT ![v] = NoRequest]}
        /\ UNCHANGED <<docked, cards, surface, menu, flagged, left, raced>>
    BY <1>3 DEF Upsert
  <2>4. \/ UNCHANGED <<link, binds>>
        \/ /\ link' = [link EXCEPT ![v] = [id |-> id, chat |-> a.chat]]
           /\ binds' = [binds EXCEPT ![a.code] = @ + 1]
    BY <1>3 DEF Upsert
  <2> HIDE DEF a, id
  <2>5. [id |-> id, chat |-> a.chat] \in Rows
    BY <2>2 DEF Rows
  <2>6. link' \in [Users -> Rows \cup {None}] /\ binds' \in [Ids -> Nat]
    BY <2>2, <2>4, <2>5
  <2> QED
    BY <2>3, <2>6
<1>4. CASE RequestUnlink(v)
  BY <1>4 DEF RequestUnlink, Rows
<1>5. CASE Unlink(v)
  BY <1>5 DEF Unlink, Without
<1> QED
  BY <1>1, <1>2, <1>3, <1>4, <1>5 DEF Request

LEMMA TypedSteps ==
    ASSUME Typed, IngressInv, [Next]_vars PROVE Typed'
<1>1. RunTyped'
  BY Flow
<1>2. job' \in [Updates -> JobStates]
  BY StepIsIngress, IngressSteps DEF IngressInv, IngressTypeOK
<1>3. StoreTyped'
  <2>1. CASE \E u \in Updates \ {First} : Arrives(u)
    BY <2>1 DEF Arrives, Typed, StoreTyped
  <2>2. CASE \E u \in Updates : Handler(u)
    BY <2>2, <1>1, HandlerStores
  <2>3. CASE \E v \in Users : Request(v)
    BY <2>3, RequestStores
  <2>4. CASE UNCHANGED vars
    BY <2>4 DEF vars, chatVars, Typed, StoreTyped
  <2> QED
    BY <2>1, <2>2, <2>3, <2>4 DEF Next
<1> QED
  BY <1>1, <1>2, <1>3 DEF Typed

LEMMA TypedStarts == Init => Typed /\ IngressInv
<1> SUFFICES ASSUME Init PROVE Typed /\ IngressInv
  OBVIOUS
<1>1. IngressInv
  BY IngressStarts, ChatConstants DEF Init, IngressInit
<1>2. RunTyped /\ job \in [Updates -> JobStates]
  BY DEF Init, IngressStart, RunTyped, JobStates
<1>3. link \in [Users -> Rows \cup {None}]
  <2>1. <<First, 1>> \in Ids
    BY ChatConstants, IngressConstants DEF Ids
  <2> QED
    BY <2>1 DEF Init, Rows
<1>4. /\ docked \in [Chats -> Surfaces \cup {"none"}]
      /\ surface \in [Users -> Surfaces \cup {"none"}] /\ flagged \in [Users -> Chats \cup {None}]
  BY DEF Init, Surfaces
<1>5. /\ nonces \subseteq [code : Ids, chat : Chats] /\ app \in [Users -> Requests]
      /\ cards \in [Chats -> SUBSET Ids] /\ menu \in [Users -> Ids \cup {None}]
      /\ binds \in [Ids -> Nat] /\ left \subseteq Ids /\ raced \in BOOLEAN
  BY DEF Init, Requests
<1> QED
  BY <1>1, <1>2, <1>3, <1>4, <1>5 DEF Typed, StoreTyped

-----------------------------------------------------------------------------
(* A code is in one place at a time: a nonce, a request of the app, a link *)

Holds(v) == app[v].at \in {"upsert", "save"}

CodeInv ==
    /\ \A m \in Ids : binds[m] <= 1 /\ (binds[m] = 1 => Past(m))
    /\ \A n \in nonces : Past(n.code) /\ binds[n.code] = 0
    /\ \A n, m \in nonces : n.code = m.code => n = m
    /\ \A v \in Users : Holds(v) =>
         /\ Past(app[v].code) /\ binds[app[v].code] = 0
         /\ \A n \in nonces : n.code # app[v].code
    /\ \A v, w \in Users : Holds(v) /\ Holds(w) /\ app[v].code = app[w].code => v = w

LEMMA CodeHandlers ==
    ASSUME Typed, IngressInv, CodeInv, NEW u \in Updates, Handler(u),
           \A m \in Ids : Past(m) => Past(m)'
    PROVE  CodeInv'
<1>1. UNCHANGED <<app, binds>>
  BY DEF Handler, Resolve, BeginLinking, SendPrompt, ClassifyFlow, HandOver, Command,
         ReadSchedule, ReadStatus, SendTextWithKeyboard, SetActiveSurface, TakeMenu, RetireMenu,
         RecordMenu, FindLink, DeleteLink, ClearSurface, ClearMenu, SendTextRemovingKeyboard,
         Untouched
<1>2. CASE UNCHANGED nonces
  BY <1>1, <1>2 DEF CodeInv, Holds, Typed, StoreTyped, Requests, NoRequest
<1>3. CASE BeginLinking(u) /\ nonces' # nonces
  <2> DEFINE new == [code |-> Id(u), chat |-> run[u].chat]
  <2>1. Doing(u, "mint") /\ nonces' = nonces \cup {new} /\ Goes(u, run[u])
    BY <1>3 DEF BeginLinking, GoesOn
  <2>2. run[u] \in Runs /\ job[u] = "handling" /\ 1 \in DOMAIN run[u].todo /\ run[u].todo[1] = "mint"
    BY <2>1, DoingRuns
  <2>3. ~Past(Id(u)) /\ Id(u) \in Ids
    BY <2>2, IdOfRun DEF Done, Pending
  <2>5. Advances(u)
    BY <1>3, LaterAdvances DEF Later
  <2>6. Done(u)'
    <3>1. CASE run'[u] = NoRun /\ job'[u] # "handling"
      BY <2>5, <3>1 DEF Done, Advances
    <3>2. CASE run'[u] \in Runs /\ run'[u] # NoRun
      <4>1. run'[u].todo # <<>>
        BY <3>2 DEF Runs, Todos
      <4>2. ASSUME NEW i \in DOMAIN run'[u].todo
            PROVE  run'[u].todo[i] \notin {"mint", "route", "retire"}
        <5>1. \A j \in DOMAIN run[u].todo : run[u].todo[j] \in {"mint", "prompt"}
          BY <2>2 DEF Runs, Fits
        <5>2. /\ Stage("mint") < Stage(run'[u].todo[i])
              /\ \/ run'[u].todo[i] = "send"
                 \/ \E j \in DOMAIN run[u].todo : run[u].todo[j] = run'[u].todo[i]
          BY <2>2, <2>5, <3>2 DEF Advances
        <5>3. ASSUME run'[u].todo[i] = "mint" PROVE FALSE
          <6>1. Stage("mint") < Stage("mint")
            BY <5>2, <5>3
          <6>2. ~(Stage("mint") < Stage("mint"))
            BY DEF Stage
          <6> QED
            BY <6>1, <6>2
        <5> QED
          BY <5>1, <5>2, <5>3
      <4> QED
        BY <2>5, <4>1, <4>2 DEF Done, Pending, Advances
    <3> QED
      BY <2>5, <3>1, <3>2, NoRunIsNone DEF Advances
  <2>4. Past(Id(u))'
    BY <2>5, <2>6, IdPast DEF Advances
  <2>7. new.code = Id(u) /\ binds[Id(u)] = 0
    <3>1. binds[Id(u)] \in Nat
      BY <2>3 DEF Typed, StoreTyped
    <3>2. binds[Id(u)] = 0
      BY <2>3, <3>1 DEF CodeInv
    <3> QED
      BY <3>2
  <2>8. /\ \A n \in nonces : n.code \in Ids /\ n.code # Id(u)
        /\ \A v \in Users : Holds(v) => app[v].code \in Ids /\ app[v].code # Id(u)
    BY <2>3 DEF CodeInv, Holds, Typed, StoreTyped, Requests, NoRequest
  <2>9. Id(u)' = Id(u)
    BY <2>5 DEF Advances, Id
  <2> HIDE DEF new
  <2> QED
    BY <1>1, <2>1, <2>3, <2>4, <2>7, <2>8, <2>9 DEF CodeInv, Holds
<1> QED
  BY <1>2, <1>3 DEF Handler, Resolve, BeginLinking, SendPrompt, ClassifyFlow, HandOver, Command,
         ReadSchedule, ReadStatus, SendTextWithKeyboard, SetActiveSurface, TakeMenu, RetireMenu,
         RecordMenu, FindLink, DeleteLink, ClearSurface, ClearMenu, SendTextRemovingKeyboard,
         Untouched

LEMMA CodeRequests ==
    ASSUME Typed, IngressInv, CodeInv, NEW v \in Users, Request(v),
           \A m \in Ids : Past(m) => Past(m)'
    PROVE  CodeInv'
<1> USE DEF Typed, StoreTyped, CodeInv, Holds, Asks, Requests, NoRequest
<1>1. CASE RedeemNonce(v)
  <2>1. PICK n \in nonces :
           /\ nonces' = nonces \ {n} /\ UNCHANGED binds
           /\ app' = [app EXCEPT ![v] = [at |-> "upsert", code |-> n.code, chat |-> n.chat]]
    BY <1>1 DEF RedeemNonce
  <2>2. /\ app'[v].code = n.code /\ n.code \in Ids
        /\ \A w \in Users \ {v} : app'[w] = app[w]
    BY <2>1
  <2>3. \A m \in nonces' : m \in nonces /\ m.code \in Ids /\ m.code # n.code
    BY <2>1
  <2>4. \A w \in Users : Holds(w) => app[w].code \in Ids /\ app[w].code # n.code
    OBVIOUS
  <2> QED
    BY <2>1, <2>2, <2>3, <2>4
<1>2. CASE FindExisting(v)
  <2>1. /\ UNCHANGED <<nonces, binds>> /\ Holds(v)
        /\ \A w \in Users \ {v} : app'[w] = app[w]
        /\ app'[v].at \in {"idle", "upsert", "save"}
        /\ app'[v].at # "idle" => app'[v].code = app[v].code
    BY <1>2 DEF FindExisting, Fails
  <2>2. \A w \in Users : Holds(w)' => Holds(w) /\ app'[w].code = app[w].code /\ app[w].code \in Ids
    BY <2>1
  <2>3. \A n \in nonces : n.code \in Ids
    OBVIOUS
  <2> QED
    BY <2>1, <2>2, <2>3
<1>3. CASE Upsert(v)
  <2>1. /\ UNCHANGED nonces /\ Holds(v) /\ app' = [app EXCEPT ![v] = NoRequest]
    BY <1>3 DEF Upsert, Fails
  <2>2. \A w \in Users : Holds(w)' => w # v /\ Holds(w) /\ app'[w] = app[w] /\ app[w].code \in Ids
    BY <2>1
  <2>3. \A n \in nonces : n.code \in Ids
    OBVIOUS
  <2>4. CASE UNCHANGED binds
    BY <2>1, <2>2, <2>3, <2>4
  <2>5. CASE binds' = [binds EXCEPT ![app[v].code] = @ + 1]
    <3>1. binds[app[v].code] = 0 /\ Past(app[v].code) /\ app[v].code \in Ids
      BY <2>1
    <3>2. /\ \A n \in nonces : n.code # app[v].code
          /\ \A w \in Users : Holds(w) /\ w # v => app[w].code # app[v].code
      BY <2>1
    <3>3. \A m \in Ids : binds'[m] = IF m = app[v].code THEN 1 ELSE binds[m]
      BY <2>5, <3>1
    <3> QED
      BY <2>1, <2>2, <2>3, <3>1, <3>2, <3>3
  <2> QED
    BY <1>3, <2>4, <2>5 DEF Upsert, Fails
<1>4. CASE RequestUnlink(v) \/ Unlink(v)
  <2>1. /\ UNCHANGED <<nonces, binds>> /\ \A w \in Users \ {v} : app'[w] = app[w]
        /\ app'[v].at \in {"idle", "unlink"}
    BY <1>4 DEF RequestUnlink, Unlink, Fails
  <2>2. \A w \in Users : Holds(w)' => Holds(w) /\ app'[w].code = app[w].code /\ app[w].code \in Ids
    BY <2>1
  <2>3. \A n \in nonces : n.code \in Ids
    OBVIOUS
  <2> QED
    BY <2>1, <2>2, <2>3
<1> QED
  BY <1>1, <1>2, <1>3, <1>4 DEF Request

LEMMA CodeSteps ==
    ASSUME Typed, IngressInv, CodeInv, [Next]_vars PROVE CodeInv'
<1>1. \A m \in Ids : Past(m) => Past(m)'
  BY Flow
<1>2. CASE \E u \in Updates \ {First} : Arrives(u)
  BY <1>1, <1>2 DEF Arrives, CodeInv, Holds, Typed, StoreTyped, Requests, NoRequest
<1>3. CASE UNCHANGED vars
  BY <1>1, <1>3 DEF vars, chatVars, CodeInv, Holds, Typed, StoreTyped, Requests, NoRequest
<1> QED
  BY <1>1, <1>2, <1>3, CodeHandlers, CodeRequests DEF Next

-----------------------------------------------------------------------------
(* A card that is tracked or taken is of an update that is past retiring   *)

CardInv ==
    /\ \A v \in Users : menu[v] # None => Past(menu[v])
    /\ \A u \in Updates : run[u] \in Runs =>
         /\ run[u].prior # None => Past(run[u].prior)
         /\ Pending(u, {"route"}) => ~run[u].landed
         /\ run[u].landed /\ Pending(u, {"retire"}) => Id(u) \in cards[run[u].chat]

\* No handler goes back to the router, and none retires twice.
LEMMA NoWayBack ==
    ASSUME NEW u \in Updates, Advances(u), run'[u] \in Runs, NEW i \in DOMAIN run'[u].todo
    PROVE  /\ run'[u].todo[i] # "route" /\ run'[u].todo[i] # "mint"
           /\ run[u].todo[1] \in {"retire", "record"} => run'[u].todo[i] # "retire"
<1>1. Stage(run[u].todo[1]) < Stage(run'[u].todo[i])
  BY NoRunIsNone DEF Advances
<1>2. /\ ~(Stage(run[u].todo[1]) < Stage("route"))
      /\ ~(Stage(run[u].todo[1]) < Stage("mint"))
  BY DEF Stage
<1>3. ~(Stage("retire") < Stage("retire")) /\ ~(Stage("record") < Stage("retire"))
  BY DEF Stage
<1> QED
  BY <1>1, <1>2, <1>3

\* A handler's step keeps CardInv when its own locals do and it takes no other's card.
LEMMA CardOwn ==
    ASSUME Typed, IngressInv, CardInv, NEW u \in Updates, UNCHANGED admitted,
           \A m \in Ids : Past(m) => Past(m)',
           \A w \in Updates \ {u} : run'[w] = run[w],
           \A w \in Updates \ {u} : ~Past(Id(w)) /\ run[w] \in Runs /\ Id(w) \in cards[run[w].chat]
                                    => Id(w) \in cards'[run[w].chat],
           \A v \in Users : menu'[v] # None => Past(menu[v])',
           \A w \in Updates \ {u} : run[w] \in Runs => job[w] = "handling",
           run'[u] \in Runs =>
             /\ run'[u].prior # None => Past(run'[u].prior)
             /\ Pending(u, {"route"})' => ~run'[u].landed
             /\ run'[u].landed /\ Pending(u, {"retire"})' => Id(u)' \in cards'[run'[u].chat]
    PROVE  CardInv'
<1>1. ASSUME NEW w \in Updates \ {u}, run'[w] \in Runs
      PROVE  /\ run'[w].prior # None => Past(run[w].prior)'
             /\ Pending(w, {"route"})' => ~run'[w].landed
             /\ run'[w].landed /\ Pending(w, {"retire"})' => Id(w)' \in cards'[run'[w].chat]
  <2>1. run'[w] = run[w] /\ run[w] \in Runs
    BY <1>1
  <2>2. Pending(w, {"route"})' <=> Pending(w, {"route"})
    BY <2>1 DEF Pending
  <2>3. Pending(w, {"retire"})' <=> Pending(w, {"retire"})
    BY <2>1 DEF Pending
  <2>4. /\ Pending(w, {"retire"}) => ~Past(Id(w))
        /\ Id(w)' = Id(w)
    BY <2>1, IdOfRun DEF Done, Pending, Id
  <2>5. run[w].prior \in Ids \cup {None}
    BY <2>1 DEF Runs
  <2> QED
    BY <2>1, <2>2, <2>3, <2>4, <2>5 DEF CardInv
<1>2. ASSUME run'[u] \in Runs
      PROVE  run'[u].prior # None => Past(run[u].prior)'
  BY <1>2 DEF Runs
<1> QED
  BY <1>1, <1>2 DEF CardInv

\* A step that leaves the cards and the tracked ones alone.
LEMMA CardsUntouched ==
    ASSUME Typed, CardInv, UNCHANGED <<cards, menu>>,
           \A m \in Ids : Past(m) => Past(m)'
    PROVE  /\ \A v \in Users : menu'[v] # None => Past(menu[v])'
           /\ \A w \in Updates : run[w] \in Runs => job[w] = "handling"
BY NoRunIsNone DEF Typed, RunTyped, StoreTyped, CardInv

LEMMA CardGoes ==
    ASSUME Typed, IngressInv, CardInv, NEW u \in Updates, NEW call, Doing(u, call), call # "route",
           NEW r \in Runs, Goes(u, r), r.todo = run[u].todo,
           r.prior # None => Past(r.prior),
           r.landed /\ call \notin {"retire", "record"} /\ Pending(u, {"retire"})
              => Id(u) \in cards'[r.chat],
           \A m \in Ids : Past(m) => Past(m)',
           \A w \in Updates \ {u} : ~Past(Id(w)) /\ run[w] \in Runs /\ Id(w) \in cards[run[w].chat]
                                    => Id(w) \in cards'[run[w].chat],
           \A v \in Users : menu'[v] # None => Past(menu[v])'
    PROVE  CardInv'
<1>1. /\ run[u] \in Runs /\ job[u] = "handling"
      /\ 1 \in DOMAIN run[u].todo /\ run[u].todo[1] = call
  BY DoingRuns
<1>2. Advances(u)
  BY GoesAdvances
<1>3. \A w \in Updates \ {u} : run'[w] = run[w]
  BY <1>2 DEF Advances
<1>4. ASSUME run'[u] \in Runs
      PROVE  /\ run'[u].prior # None => Past(run'[u].prior)
             /\ Pending(u, {"route"})' => ~run'[u].landed
             /\ run'[u].landed /\ Pending(u, {"retire"})' => Id(u)' \in cards'[run'[u].chat]
  <2>1. run'[u] = [r EXCEPT !.todo = Tail(r.todo)] /\ Len(r.todo) # 1
    BY <1>1, <1>4, GoesMoves, NoRunIsNone
  <2>2. run'[u].prior = r.prior /\ run'[u].landed = r.landed /\ run'[u].chat = r.chat
    BY <2>1 DEF Runs
  <2>3. ~Pending(u, {"route"})'
    BY <1>2, <1>4, NoWayBack DEF Pending
  <2>4. Pending(u, {"retire"})' => call \notin {"retire", "record"}
    BY <1>1, <1>2, <1>4, NoWayBack DEF Pending
  <2>5. Pending(u, {"retire"})' => Pending(u, {"retire"})
    <3>1. \A i \in DOMAIN run'[u].todo :
            \/ run'[u].todo[i] = "send"
            \/ \E j \in DOMAIN run[u].todo : run[u].todo[j] = run'[u].todo[i]
      BY <1>2, <1>4, NoRunIsNone DEF Advances
    <3> QED
      BY <3>1 DEF Pending
  <2>6. Id(u)' = Id(u)
    BY <1>2 DEF Advances, Id
  <2> QED
    BY <2>2, <2>3, <2>4, <2>5, <2>6
<1>5. /\ \A w \in Updates \ {u} : run[w] \in Runs => job[w] = "handling"
      /\ UNCHANGED admitted
  BY <1>2, NoRunIsNone DEF Typed, RunTyped, Advances
<1> QED
  BY <1>3, <1>4, <1>5, CardOwn

\* A handler that stops leaves no locals.
LEMMA CardStops ==
    ASSUME Typed, CardInv, NEW u \in Updates, UNCHANGED <<cards, menu>>,
           run'[u] \in {run[u], NoRun}, \A w \in Updates \ {u} : run'[w] \in {run[w], NoRun},
           \A w \in Updates : run'[w] # NoRun => admitted'[w] = admitted[w],
           \A m \in Ids : Past(m) => Past(m)'
    PROVE  CardInv'
<1>1. ASSUME NEW w \in Updates, run'[w] \in Runs
      PROVE  /\ run'[w].prior # None => Past(run[w].prior)'
             /\ Pending(w, {"route"})' => ~run'[w].landed
             /\ run'[w].landed /\ Pending(w, {"retire"})' => Id(w)' \in cards'[run'[w].chat]
  <2>1. run'[w] = run[w] /\ run[w] \in Runs
    BY <1>1, NoRunIsNone
  <2>2. /\ Pending(w, {"route"})' <=> Pending(w, {"route"})
        /\ Pending(w, {"retire"})' <=> Pending(w, {"retire"})
    BY <2>1 DEF Pending
  <2>3. run[w].prior \in Ids \cup {None}
    BY <2>1 DEF Runs
  <2>4. Id(w)' = Id(w)
    BY <1>1, NoRunIsNone DEF Id
  <2> QED
    BY <2>1, <2>2, <2>3, <2>4 DEF CardInv
<1>2. \A v \in Users : menu'[v] # None => Past(menu[v])'
  BY CardsUntouched
<1> QED
  BY <1>1, <1>2 DEF CardInv

LEMMA CardThrows ==
    ASSUME Typed, CardInv, NEW u \in Updates, Throws(u), UNCHANGED <<cards, menu>>,
           \A m \in Ids : Past(m) => Past(m)'
    PROVE  CardInv'
<1>1. UNCHANGED admitted
  BY DEF Throws, Throw
<1> QED
  BY <1>1, ThrowMoves, CardStops

\* A call that goes on with the locals it found, and touches no card.
LEMMA CardGoesOn ==
    ASSUME Typed, IngressInv, CardInv, NEW u \in Updates, NEW call, Doing(u, call), call # "route",
           Goes(u, run[u]), UNCHANGED <<cards, menu>>,
           \A m \in Ids : Past(m) => Past(m)'
    PROVE  CardInv'
<1>1. run[u] \in Runs
  BY DoingRuns
<1>2. \A v \in Users : menu'[v] # None => Past(menu[v])'
  BY CardsUntouched
<1> QED
  BY <1>1, <1>2, CardGoes DEF CardInv

LEMMA CardResolve ==
    ASSUME Typed, IngressInv, CardInv, NEW u \in Updates, Resolve(u),
           \A m \in Ids : Past(m) => Past(m)'
    PROVE  CardInv'
<1>1. UNCHANGED <<cards, menu, admitted>>
  BY DEF Resolve, Throws, Throw, ingressVars
<1>2. /\ \A v \in Users : menu'[v] # None => Past(menu[v])'
      /\ \A w \in Updates : run[w] \in Runs => job[w] = "handling"
  BY <1>1, CardsUntouched
<1>3. ASSUME run'[u] \in Runs
      PROVE  /\ run'[u].prior = None /\ ~run'[u].landed
  BY <1>3, ResolveMoves, NoRunIsNone
<1>4. \A w \in Updates \ {u} : run'[w] = run[w]
  BY ResolveMoves
<1> QED
  BY <1>1, <1>2, <1>3, <1>4, CardOwn

LEMMA CardClassify ==
    ASSUME Typed, IngressInv, CardInv, NEW u \in Updates, ClassifyFlow(u),
           \A m \in Ids : Past(m) => Past(m)'
    PROVE  CardInv'
<1>1. UNCHANGED <<cards, menu, admitted>>
  BY DEF ClassifyFlow, Untouched
<1>2. /\ \A v \in Users : menu'[v] # None => Past(menu[v])'
      /\ \A w \in Updates : run[w] \in Runs => job[w] = "handling"
  BY <1>1, CardsUntouched
<1>3. /\ run[u] \in Runs /\ Pending(u, {"route"})
      /\ run'[u].landed = run[u].landed /\ run'[u].prior = run[u].prior
      /\ \A w \in Updates \ {u} : run'[w] = run[w]
  BY ClassifyMoves DEF Pending
<1>4. ~run'[u].landed /\ (run'[u].prior # None => Past(run'[u].prior))
  BY <1>3 DEF CardInv
<1>5. ~Pending(u, {"retire"})' \/ ~run'[u].landed
  BY <1>4
<1> QED
  BY <1>1, <1>2, <1>3, <1>4, <1>5, CardOwn

\* The card this handler took is of an update past retiring, and its own is not.
LEMMA OwnCardStays ==
    ASSUME Typed, IngressInv, CardInv, NEW u \in Updates, Doing(u, "retire"), run[u].landed
    PROVE  /\ Id(u) \in cards[run[u].chat] /\ Id(u) \notin Retired(run[u])
           /\ run[u] \in Runs /\ \A m \in Retired(run[u]) : m \in Ids /\ Past(m)
<1>1. /\ run[u] \in Runs /\ job[u] = "handling"
      /\ 1 \in DOMAIN run[u].todo /\ run[u].todo[1] = "retire"
  BY DoingRuns
<1>2. Pending(u, {"retire"}) /\ ~Past(Id(u))
  BY <1>1, IdOfRun DEF Pending, Done
<1>3. run[u].prior \in Ids \cup {None}
  BY <1>1 DEF Runs
<1> QED
  BY <1>1, <1>2, <1>3 DEF CardInv, Retired

LEMMA CardLater ==
    ASSUME Typed, IngressInv, CardInv, NEW u \in Updates, Later(u),
           \A m \in Ids : Past(m) => Past(m)'
    PROVE  CardInv'
<1> USE DEF GoesOn, Swallowed, Untouched
<1>1. CASE BeginLinking(u)
  <2>1. Doing(u, "mint") /\ (Goes(u, run[u]) \/ Throws(u)) /\ UNCHANGED <<cards, menu>>
    BY <1>1 DEF BeginLinking
  <2> QED
    BY <2>1, CardGoesOn, CardThrows
<1>2. CASE SendPrompt(u)
  <2>1. Doing(u, "prompt") /\ (Goes(u, run[u]) \/ Throws(u)) /\ UNCHANGED <<cards, menu>>
    BY <1>2 DEF SendPrompt
  <2> QED
    BY <2>1, CardGoesOn, CardThrows
<1>3. CASE HandOver(u)
  <2>1. Doing(u, "hand over") /\ (Goes(u, run[u]) \/ Throws(u)) /\ UNCHANGED <<cards, menu>>
    BY <1>3 DEF HandOver
  <2> QED
    BY <2>1, CardGoesOn, CardThrows
<1>4. CASE ReadStatus(u)
  <2>1. Doing(u, "status") /\ (Goes(u, run[u]) \/ Throws(u)) /\ UNCHANGED <<cards, menu>>
    BY <1>4 DEF ReadStatus
  <2> QED
    BY <2>1, CardGoesOn, CardThrows
<1>5. CASE SetActiveSurface(u)
  <2>1. Doing(u, "set") /\ (Goes(u, run[u]) \/ Throws(u)) /\ UNCHANGED <<cards, menu>>
    BY <1>5 DEF SetActiveSurface
  <2> QED
    BY <2>1, CardGoesOn, CardThrows
<1>6. CASE DeleteLink(u)
  <2>1. Doing(u, "delete") /\ (Goes(u, run[u]) \/ Throws(u)) /\ UNCHANGED <<cards, menu>>
    BY <1>6 DEF DeleteLink
  <2> QED
    BY <2>1, CardGoesOn, CardThrows
<1>7. CASE ClearSurface(u)
  <2>1. Doing(u, "clear") /\ (Goes(u, run[u]) \/ Throws(u)) /\ UNCHANGED <<cards, menu>>
    BY <1>7 DEF ClearSurface
  <2> QED
    BY <2>1, CardGoesOn, CardThrows
<1>8. CASE SendTextRemovingKeyboard(u)
  <2>1. Doing(u, "remove") /\ (Goes(u, run[u]) \/ Throws(u)) /\ UNCHANGED <<cards, menu>>
    BY <1>8 DEF SendTextRemovingKeyboard
  <2> QED
    BY <2>1, CardGoesOn, CardThrows
<1>9. CASE Command(u)
  <2>1. /\ Doing(u, "read command") \/ Doing(u, "persist")
        /\ Goes(u, run[u]) \/ Throws(u)
        /\ UNCHANGED <<cards, menu>>
    BY <1>9 DEF Command
  <2> QED
    BY <2>1, CardGoesOn, CardThrows
<1>10. CASE FindLink(u)
  <2> DEFINE r == [run[u] EXCEPT !.row = IF link[run[u].user] = None THEN None ELSE link[run[u].user].id]
  <2>1. Doing(u, "find") /\ (Goes(u, r) \/ Throws(u)) /\ UNCHANGED <<cards, menu>>
    BY <1>10 DEF FindLink
  <2>2. run[u] \in Runs /\ run[u].user \in Users
    BY <2>1, DoingRuns
  <2>3. (IF link[run[u].user] = None THEN None ELSE link[run[u].user].id) \in Ids \cup {None}
    BY <2>2 DEF Typed, StoreTyped, Rows
  <2>4. r \in Runs
    BY <2>2, <2>3, LocalsFit
  <2>5. /\ r.todo = run[u].todo /\ r.prior = run[u].prior /\ r.landed = run[u].landed
        /\ r.chat = run[u].chat
    BY <2>2 DEF Runs
  <2>6. \A v \in Users : menu'[v] # None => Past(menu[v])'
    BY <2>1, CardsUntouched
  <2> HIDE DEF r
  <2>7. CASE Goes(u, r)
    BY <2>1, <2>2, <2>4, <2>5, <2>6, <2>7, CardGoes DEF CardInv
  <2> QED
    BY <2>1, <2>7, CardThrows
<1>11. CASE ReadSchedule(u)
  <2> DEFINE r == [run[u] EXCEPT !.todo = <<"read", "send">>]
  <2>1. Doing(u, "read") /\ (Goes(u, run[u]) \/ Goes(u, r)) /\ UNCHANGED <<cards, menu>>
    BY <1>11 DEF ReadSchedule
  <2>2. CASE Goes(u, run[u])
    BY <2>1, <2>2, CardGoesOn
  <2>3. CASE Goes(u, r)
    <3>1. Advances(u)
      BY <2>1, <2>3, ReadAdvances
    <3>2. /\ run[u] \in Runs /\ run[u].user \in Users /\ job[u] = "handling"
      BY <2>1, DoingRuns
    <3>3. r \in Runs /\ r.todo = <<"read", "send">> /\ r.prior = run[u].prior
      BY <3>2, LocalsFit DEF Runs
    <3> HIDE DEF r
    <3>4. ASSUME run'[u] \in Runs
          PROVE  run'[u].prior = run[u].prior /\ run'[u].todo = <<"send">>
      <4>1. run'[u] = [r EXCEPT !.todo = Tail(r.todo)]
        BY <2>3, <3>2, <3>3, <3>4, GoesMoves, NoRunIsNone
      <4> QED
        BY <3>3, <4>1 DEF Runs
    <3>5. ASSUME run'[u] \in Runs
          PROVE  ~Pending(u, {"route"})' /\ ~Pending(u, {"retire"})'
      BY <3>4, <3>5 DEF Pending
    <3>6. /\ \A v \in Users : menu'[v] # None => Past(menu[v])'
          /\ \A w \in Updates : run[w] \in Runs => job[w] = "handling"
      BY <2>1, CardsUntouched
    <3>7. UNCHANGED admitted /\ \A w \in Updates \ {u} : run'[w] = run[w]
      BY <3>1 DEF Advances
    <3>8. run[u].prior # None => Past(run[u].prior)
      BY <3>2 DEF CardInv
    <3> QED
      BY <2>1, <3>4, <3>5, <3>6, <3>7, <3>8, CardOwn
  <2> QED
    BY <2>1, <2>2, <2>3
<1>12. CASE SendTextWithKeyboard(u)
  <2> DEFINE r == [run[u] EXCEPT !.landed = TRUE]
  <2>1. /\ Doing(u, "send") /\ UNCHANGED menu
        /\ \/ Goes(u, r)
           \/ Goes(u, run[u])
        /\ \/ UNCHANGED cards
           \/ cards' = [cards EXCEPT ![run[u].chat] = @ \cup {Id(u)}]
        /\ Goes(u, run[u])
           \/ (run[u].word = "open_menu" => cards' = [cards EXCEPT ![run[u].chat] = @ \cup {Id(u)}])
    BY <1>12 DEF SendTextWithKeyboard
  <2>2. /\ run[u] \in Runs /\ run[u].chat \in Chats
        /\ Pending(u, {"retire"}) => run[u].word = "open_menu"
    BY <2>1, DoingRuns DEF Runs, Fits, Pending
  <2>3. \A c \in Chats : cards[c] \subseteq cards'[c]
    BY <2>1, <2>2 DEF Typed, StoreTyped
  <2>4. \A w \in Updates : run[w] \in Runs => run[w].chat \in Chats
    BY DEF Runs
  <2>5. \A v \in Users : menu'[v] # None => Past(menu[v])'
    BY <2>1 DEF CardInv, Typed, StoreTyped
  <2>6. CASE Goes(u, run[u])
    BY <2>1, <2>2, <2>3, <2>4, <2>5, <2>6, CardGoes DEF CardInv
  <2>7. CASE Goes(u, r) /\ (run[u].word = "open_menu" => cards' = [cards EXCEPT ![run[u].chat] = @ \cup {Id(u)}])
    <3>1. r \in Runs
      BY <2>2, LocalsFit
    <3>2. r.todo = run[u].todo /\ r.prior = run[u].prior /\ r.chat = run[u].chat
      BY <2>2 DEF Runs
    <3>3. Pending(u, {"retire"}) => Id(u) \in cards'[run[u].chat]
      BY <2>2, <2>7 DEF Typed, StoreTyped
    <3> HIDE DEF r
    <3> QED
      BY <2>1, <2>2, <2>3, <2>4, <2>5, <2>7, <3>1, <3>2, <3>3, CardGoes DEF CardInv
  <2> QED
    BY <2>1, <2>6, <2>7
<1>13. CASE TakeMenu(u)
  <2> DEFINE r == [run[u] EXCEPT !.prior = menu[run[u].user]]
  <2>1. /\ Doing(u, "take") /\ UNCHANGED cards
        /\ menu' \in {menu, [menu EXCEPT ![run[u].user] = None]}
        /\ Goes(u, r) \/ Goes(u, run[u])
    BY <1>13 DEF TakeMenu
  <2>2. run[u] \in Runs /\ run[u].user \in Users
    BY <2>1, DoingRuns
  <2>3. menu[run[u].user] \in Ids \cup {None}
    BY <2>2 DEF Typed, StoreTyped
  <2>4. r \in Runs
    BY <2>2, <2>3, LocalsFit
  <2>5. /\ r.todo = run[u].todo /\ r.prior = menu[run[u].user] /\ r.landed = run[u].landed
        /\ r.chat = run[u].chat
    BY <2>2 DEF Runs
  <2>6. \A v \in Users : menu'[v] # None => menu[v] # None /\ menu'[v] = menu[v]
    BY <2>1 DEF Typed, StoreTyped
  <2>7. \A v \in Users : menu'[v] # None => Past(menu[v])'
    BY <2>6 DEF CardInv, Typed, StoreTyped
  <2> HIDE DEF r
  <2>8. CASE Goes(u, run[u])
    BY <2>1, <2>2, <2>7, <2>8, CardGoes DEF CardInv
  <2>9. CASE Goes(u, r)
    BY <2>1, <2>2, <2>4, <2>5, <2>7, <2>9, CardGoes DEF CardInv
  <2> QED
    BY <2>1, <2>8, <2>9
<1>14. CASE RetireMenu(u)
  <2>1. /\ Doing(u, "retire") /\ UNCHANGED menu /\ Goes(u, run[u])
        /\ \/ UNCHANGED cards
           \/ cards' = [cards EXCEPT ![run[u].chat] = @ \ Retired(run[u])]
    BY <1>14 DEF RetireMenu
  <2>2. run[u] \in Runs
    BY <2>1, DoingRuns
  <2>3. \A m \in Retired(run[u]) : Past(m)
    BY <2>2 DEF Retired, CardInv
  <2>4. \A w \in Updates \ {u} : ~Past(Id(w)) /\ run[w] \in Runs /\ Id(w) \in cards[run[w].chat]
                                    => Id(w) \in cards'[run[w].chat]
    BY <2>1, <2>3 DEF Runs, Typed, StoreTyped
  <2>5. \A v \in Users : menu'[v] # None => Past(menu[v])'
    BY <2>1 DEF CardInv, Typed, StoreTyped
  <2> QED
    BY <2>1, <2>2, <2>4, <2>5, CardGoes DEF CardInv
<1>15. CASE RecordMenu(u)
  <2>1. /\ Doing(u, "record") /\ UNCHANGED cards /\ Goes(u, run[u])
        /\ menu' \in {menu, [menu EXCEPT ![run[u].user] = Id(u)]}
    BY <1>15 DEF RecordMenu
  <2>2. /\ run[u] \in Runs /\ job[u] = "handling"
        /\ 1 \in DOMAIN run[u].todo /\ run[u].todo[1] = "record"
    BY <2>1, DoingRuns
  <2>3. Advances(u)
    BY <2>1, <2>2, GoesAdvances
  <2>4. Past(Id(u))' /\ Id(u)' = Id(u)
    <3>1. CASE run'[u] = NoRun /\ job'[u] # "handling"
      BY <2>3, <3>1, IdPast DEF Done, Advances
    <3>2. CASE run'[u] \in Runs
      <4>1. run'[u].todo # <<>>
        BY <3>2 DEF Runs, Todos
      <4>2. ~Pending(u, {"mint", "route", "retire"})'
        BY <2>2, <2>3, <3>2, NoWayBack DEF Pending
      <4> QED
        BY <2>3, <4>1, <4>2, IdPast DEF Done, Advances
    <3> QED
      BY <2>3, <3>1, <3>2 DEF Advances
  <2>5. \A v \in Users : menu'[v] # None => menu'[v] = Id(u) \/ (menu[v] # None /\ menu'[v] = menu[v])
    BY <2>1 DEF Typed, StoreTyped
  <2>6. \A v \in Users : menu'[v] # None => Past(menu[v])'
    BY <2>4, <2>5 DEF CardInv, Typed, StoreTyped
  <2> QED
    BY <2>1, <2>2, <2>6, CardGoes DEF CardInv
<1>16. CASE ClearMenu(u)
  <2>1. /\ Doing(u, "untrack") /\ UNCHANGED cards /\ Goes(u, run[u])
        /\ menu' \in {menu, [menu EXCEPT ![run[u].user] = None]}
    BY <1>16 DEF ClearMenu
  <2>2. run[u] \in Runs
    BY <2>1, DoingRuns
  <2>3. \A v \in Users : menu'[v] # None => menu[v] # None /\ menu'[v] = menu[v]
    BY <2>1 DEF Typed, StoreTyped
  <2>4. \A v \in Users : menu'[v] # None => Past(menu[v])'
    BY <2>3 DEF CardInv, Typed, StoreTyped
  <2> QED
    BY <2>1, <2>2, <2>4, CardGoes DEF CardInv
<1> QED
  BY <1>1, <1>2, <1>3, <1>4, <1>5, <1>6, <1>7, <1>8, <1>9, <1>10, <1>11, <1>12, <1>13, <1>14, <1>15, <1>16 DEF Later

LEMMA CardSteps ==
    ASSUME Typed, IngressInv, CardInv, [Next]_vars PROVE CardInv'
<1>1. \A m \in Ids : Past(m) => Past(m)'
  BY Flow
<1>2. ASSUME NEW u \in Updates, Arrives(u) PROVE CardInv'
  <2>1. /\ \A w \in Updates : run'[w] \in {run[w], NoRun}
        /\ \A w \in Updates : run'[w] # NoRun => admitted'[w] = admitted[w]
    BY <1>2, ArrivesMoves
  <2>2. UNCHANGED <<cards, menu>>
    BY <1>2 DEF Arrives
  <2> QED
    BY <1>1, <2>1, <2>2, CardStops
<1>3. ASSUME NEW u \in Updates, Handler(u) PROVE CardInv'
  BY <1>1, <1>3, HandlerCases, CardResolve, CardClassify, CardLater
<1>4. ASSUME NEW v \in Users, Request(v) PROVE CardInv'
  <2>1. UNCHANGED <<cards, menu, run, admitted>>
    BY <1>4, RequestMoves
  <2> QED
    BY <1>1, <2>1, ChatConstants, CardStops
<1>5. CASE UNCHANGED vars
  BY <1>1, <1>5, ChatConstants, CardStops DEF vars, chatVars, ingressVars
<1> QED
  BY <1>2, <1>3, <1>4, <1>5 DEF Next

ChatInv == Typed /\ IngressInv /\ CodeInv /\ CardInv

LEMMA ChatStarts == Init => ChatInv
<1> SUFFICES ASSUME Init PROVE ChatInv
  OBVIOUS
<1>1. CodeInv
  BY DEF Init, CodeInv, Holds, NoRequest
<1>2. \A u \in Updates : run[u] \notin Runs
  BY NoRunIsNone DEF Init
<1>3. CardInv
  BY <1>2 DEF Init, CardInv
<1> QED
  BY <1>1, <1>3, TypedStarts DEF ChatInv

LEMMA ChatSteps == ChatInv /\ [Next]_vars => ChatInv'
<1> SUFFICES ASSUME ChatInv, [Next]_vars PROVE ChatInv'
  OBVIOUS
<1>1. IngressInv'
  BY StepIsIngress, IngressSteps DEF ChatInv
<1> QED
  BY <1>1, TypedSteps, CodeSteps, CardSteps DEF ChatInv

LEMMA ChatInvariant == Spec => []ChatInv
BY ChatStarts, ChatSteps, PTL DEF Spec

-----------------------------------------------------------------------------

\* The rows, the Redis values and the locals of every run are what the code makes them.
THEOREM TypeCorrect == Spec => []TypeOK
<1>1. ChatInv => TypeOK
  <2> SUFFICES ASSUME ChatInv PROVE TypeOK
    OBVIOUS
  <2>1. IngressTypeOK
    BY DEF ChatInv, IngressInv
  <2>2. ASSUME NEW u \in Updates, run[u] # NoRun
        PROVE  /\ job[u] = "handling" /\ run[u].chat \in Chats /\ run[u].user \in Users \cup {None}
               /\ run[u].word \in Words /\ run[u].landed \in BOOLEAN
               /\ {run[u].row, run[u].prior} \subseteq Ids \cup {None}
    <3>1. run[u] \in Runs /\ job[u] = "handling"
      BY <2>2 DEF ChatInv, Typed, RunTyped
    <3> QED
      BY <3>1 DEF Runs
  <2>3. \A v \in Users : app[v].at \in {"idle", "upsert", "save", "unlink"}
    BY DEF ChatInv, Typed, StoreTyped, Requests, NoRequest
  <2> QED
    BY <2>1, <2>2, <2>3 DEF ChatInv, Typed, StoreTyped, TypeOK
<1> QED
  BY <1>1, ChatInvariant, PTL

\* A link code binds one chat to one user at most once, for any users that redeem it,
\* faults and crashes.
THEOREM CodeBindsOnceHolds == Spec => []CodeBindsOnce
<1>1. ChatInv => CodeBindsOnce
  BY DEF ChatInv, CodeInv, CodeBindsOnce
<1> QED
  BY <1>1, ChatInvariant, PTL

\* A chat that has a menu card keeps one, in every interleaving of taps, faults and
\* crashes: no handler deletes the last card.
THEOREM NeverZeroMenusHolds == Spec => NeverZeroMenus
<1>1. ASSUME ChatInv, [Next]_vars, NEW c \in Chats, cards[c] # {} PROVE cards'[c] # {}
  <2>1. CASE \E u \in Updates : RetireMenu(u)
    <3>1. PICK u \in Updates : RetireMenu(u)
      BY <2>1
    <3>2. CASE UNCHANGED cards
      BY <1>1, <3>2
    <3>3. CASE /\ Doing(u, "retire") /\ Retired(run[u]) # {}
               /\ cards' = [cards EXCEPT ![run[u].chat] = @ \ Retired(run[u])]
      <4>1. run[u].landed
        BY <3>3 DEF Retired
      <4>2. Id(u) \in cards[run[u].chat] /\ Id(u) \notin Retired(run[u]) /\ run[u].chat \in Chats
        BY <1>1, <3>3, <4>1, OwnCardStays DEF ChatInv, Runs
      <4> QED
        BY <1>1, <3>3, <4>2 DEF ChatInv, Typed, StoreTyped
    <3>4. Retired(run[u]) = {} => UNCHANGED cards
      BY <1>1, <3>1 DEF RetireMenu, ChatInv, Typed, StoreTyped
    <3> QED
      BY <3>1, <3>2, <3>3, <3>4 DEF RetireMenu
  <2>2. CASE \E u \in Updates : SendTextWithKeyboard(u)
    BY <1>1, <2>2 DEF SendTextWithKeyboard, ChatInv, Typed, StoreTyped
  <2>3. CASE UNCHANGED cards
    BY <1>1, <2>3
  <2>4. ASSUME NEW u \in Updates, Handler(u), ~RetireMenu(u), ~SendTextWithKeyboard(u)
        PROVE  UNCHANGED cards
    BY <2>4 DEF Handler, Resolve, BeginLinking, SendPrompt, ClassifyFlow, HandOver, Command,
         ReadSchedule, ReadStatus, SetActiveSurface, TakeMenu,
         RecordMenu, FindLink, DeleteLink, ClearSurface, ClearMenu, SendTextRemovingKeyboard,
         Untouched
  <2>5. ASSUME NEW v \in Users, Request(v) PROVE UNCHANGED cards
    BY <1>1, <2>5, RequestMoves DEF ChatInv
  <2> QED
    BY <1>1, <2>1, <2>2, <2>3, <2>4, <2>5 DEF Next, Arrives, vars, chatVars
<1>2. ChatInv /\ [Next]_vars => [\A c \in Chats : cards[c] # {} => cards'[c] # {}]_vars
  BY <1>1
<1> QED
  BY <1>2, ChatInvariant, PTL DEF Spec, NeverZeroMenus

-----------------------------------------------------------------------------
(* What the pointers say while one update at a time is handled             *)

\* The call that comes after another, and the calls a handler ends with.
Follows ==
    {<<"mint", "prompt">>, <<"read command", "persist">>, <<"persist", "send">>,
     <<"read", "send">>, <<"status", "send">>, <<"send", "set">>, <<"send", "take">>,
     <<"take", "retire">>, <<"retire", "record">>, <<"record", "set">>,
     <<"find", "delete">>, <<"delete", "clear">>, <<"clear", "untrack">>,
     <<"clear", "remove">>, <<"untrack", "remove">>}

Lasts == {"prompt", "hand over", "route", "persist", "set", "remove"}

\* A handler whose calls do not fail makes all of them; only openMenu takes a card.
Link(a, b, word) == <<a, b>> \in Follows /\ (a = "send" => (b = "take" <=> word = "open_menu"))
Chained(todo, word) ==
    \A i \in DOMAIN todo :
       IF i = Len(todo) THEN todo[i] \in Lasts ELSE Link(todo[i], todo[i + 1], word)

Idle(r) == r.todo = <<>>
At(r, calls) == ~Idle(r) /\ r.todo[1] \in calls

OneAtATime ==
    /\ \A u, w \in Updates : ~Idle(run[u]) /\ ~Idle(run[w]) => u = w
    /\ \A u \in Updates : ~Idle(run[u]) => Chained(run[u].todo, run[u].word)

\* A card is in one chat, and was sent by a run that is past sending.
Posted(u) == job[u] = "handling" => At(run[u], {"take", "retire", "record", "set"})
Sent(m) == m[2] <= admitted[m[1]] /\ (m[2] = admitted[m[1]] => Posted(m[1]))
KeepsSent(u) == admitted'[u] >= admitted[u] /\ (admitted'[u] = admitted[u] /\ Posted(u) => Posted(u)')

CardsSent ==
    \A c \in Chats : \A m \in cards[c] : Sent(m) /\ \A d \in Chats : m \in cards[d] => c = d

\* Between the send and the flag the chat is ahead, between the clearing and the removal
\* the flag is; else they fit.
FlagsFit ==
    \A v \in Users : surface[v] = IF flagged[v] = None THEN "none" ELSE docked[flagged[v]]
Flags(r) ==
    IF At(r, {"take", "retire", "record", "set"}) THEN docked[r.chat] = Docks(r.word)
    ELSE IF At(r, {"untrack", "remove"}) THEN surface[r.user] = "none" /\ flagged[r.user] = r.chat
    ELSE FlagsFit

\* openMenu holds its own new card, and the one it took until that is deleted.
Held(u) ==
    (IF At(run[u], {"take", "retire", "record"}) THEN {Id(u)} ELSE {})
    \cup (IF At(run[u], {"retire"}) THEN {run[u].prior} ELSE {})
Tracked == left \cup {menu[v] : v \in Users}
CardsKnown(u) ==
    /\ \A c \in Chats : cards[c] \subseteq Tracked \cup Held(u)
    /\ At(run[u], {"take", "retire", "record"}) => run[u].landed
    /\ At(run[u], {"retire", "record"}) => menu[run[u].user] = None

Alone(u) == \A w \in Updates \ {u} : Idle(run[w])

CardsInv == Smooth => OneAtATime /\ CardsSent /\ \A u \in Updates : Alone(u) => CardsKnown(u)
FlagsInv == Smooth => \A u \in Updates : Alone(u) => Flags(run[u])

\* What a call that is over leaves: its handler is at the next one, or has returned.
Passes(u, call, r) ==
    /\ \A w \in Updates \ {u} : run'[w] = run[w] /\ job'[w] = job[w]
    /\ UNCHANGED admitted
    /\ \/ run'[u] = NoRun /\ job'[u] = "none" /\ call \in Lasts
       \/ /\ run'[u] \in Runs /\ job' = job /\ ~Idle(run'[u])
          /\ Chained(run'[u].todo, run'[u].word)
          /\ Link(call, run'[u].todo[1], r.word)
          /\ run'[u].chat = r.chat /\ run'[u].user = r.user /\ run'[u].word = r.word
          /\ run'[u].landed = r.landed /\ run'[u].prior = r.prior

LEMMA IdleIsNoRun ==
    ASSUME Typed, NEW u \in Updates
    PROVE  /\ Idle(run[u]) <=> run[u] = NoRun
           /\ ~Idle(run[u]) => run[u] \in Runs /\ job[u] = "handling"
BY DEF Typed, RunTyped, Idle, NoRun, Runs, Todos

LEMMA ChainedTail ==
    ASSUME NEW todo \in Todos, NEW word, Chained(todo, word)
    PROVE  /\ Len(todo) = 1 => todo[1] \in Lasts
           /\ Len(todo) # 1 =>
                /\ Tail(todo) # <<>> /\ Chained(Tail(todo), word)
                /\ Link(todo[1], Tail(todo)[1], word)
<1>1. /\ todo \in Seq(CallNames) /\ Len(todo) \in Nat /\ Len(todo) # 0
      /\ DOMAIN todo = 1..Len(todo)
  BY EmptySeq, LenProperties DEF Todos
<1>2. 1 \in DOMAIN todo
  BY <1>1
<1>3. ASSUME Len(todo) # 1
      PROVE  /\ Tail(todo) # <<>> /\ Chained(Tail(todo), word)
             /\ Link(todo[1], Tail(todo)[1], word)
  <2> DEFINE n == Len(todo)
  <2>a. n \in Nat /\ n > 1
    BY <1>1, <1>3
  <2>1. /\ Tail(todo) \in Seq(CallNames) /\ Len(Tail(todo)) = Len(todo) - 1
        /\ DOMAIN Tail(todo) = 1..(Len(todo) - 1)
        /\ \A i \in 1..(Len(todo) - 1) : Tail(todo)[i] = todo[i + 1]
    BY <1>1, <2>a
  <2>2. 1 \in DOMAIN Tail(todo) /\ Tail(todo)[1] = todo[2] /\ Tail(todo) # <<>>
    BY <1>1, <1>3, <2>1
  <2>3. ASSUME NEW i \in DOMAIN Tail(todo)
        PROVE  /\ i + 1 \in DOMAIN todo /\ Tail(todo)[i] = todo[i + 1]
               /\ i = Len(Tail(todo)) <=> i + 1 = Len(todo)
               /\ i # Len(Tail(todo)) => Tail(todo)[i + 1] = todo[(i + 1) + 1]
    BY <1>1, <2>1, <2>3
  <2>4. Chained(Tail(todo), word)
    BY <2>3 DEF Chained
  <2>5. Link(todo[1], todo[1 + 1], word)
    BY <1>2, <1>3 DEF Chained
  <2>6. 1 + 1 = 2
    OBVIOUS
  <2> QED
    BY <2>2, <2>4, <2>5, <2>6
<1> QED
  BY <1>1, <1>2, <1>3 DEF Chained

LEMMA GoesPasses ==
    ASSUME Typed, OneAtATime, NEW u \in Updates, NEW call, Doing(u, call),
           NEW r \in Runs, Goes(u, r), r.todo = run[u].todo, r.word = run[u].word
    PROVE  Passes(u, call, r)
<1>1. /\ run[u] \in Runs /\ job[u] = "handling" /\ run[u].todo[1] = call
  BY DoingRuns
<1>2. ~Idle(run[u]) /\ Chained(r.todo, r.word) /\ r.todo \in Todos /\ r.todo[1] = call
  BY <1>1 DEF Idle, Runs, Todos, OneAtATime
<1>3. /\ \A w \in Updates \ {u} : run'[w] = run[w] /\ job'[w] = job[w]
      /\ UNCHANGED admitted
      /\ \/ run'[u] = NoRun /\ job'[u] = "none"
         \/ /\ run'[u] \in Runs /\ job' = job
            /\ run'[u] = [r EXCEPT !.todo = Tail(r.todo)]
            /\ Len(r.todo) # 1
  BY <1>1, GoesMoves
<1>4. ASSUME run'[u] \in Runs, run'[u] = [r EXCEPT !.todo = Tail(r.todo)]
      PROVE  /\ run'[u].todo = Tail(r.todo) /\ run'[u].chat = r.chat /\ run'[u].user = r.user
             /\ run'[u].word = r.word /\ run'[u].landed = r.landed /\ run'[u].prior = r.prior
  BY <1>4 DEF Runs
<1>5. ASSUME run'[u] = NoRun PROVE call \in Lasts
  <2>1. Len(r.todo) = 1
    <3>1. CASE Len(r.todo) # 1
      <4>1. run' = [run EXCEPT ![u] = [r EXCEPT !.todo = Tail(r.todo)]]
        BY <3>1 DEF Goes
      <4>2. run'[u] = [r EXCEPT !.todo = Tail(r.todo)]
        BY <4>1 DEF Typed, RunTyped
      <4>3. run'[u].todo = Tail(r.todo)
        BY <4>2 DEF Runs
      <4>4. Tail(r.todo) # <<>>
        BY <1>2, <3>1, ChainedTail
      <4> QED
        BY <1>5, <4>3, <4>4 DEF NoRun
    <3> QED
      BY <3>1
  <2> QED
    BY <1>2, <2>1, ChainedTail
<1>6. CASE run'[u] = NoRun /\ job'[u] = "none"
  BY <1>3, <1>5, <1>6 DEF Passes
<1>7. CASE run'[u] \in Runs /\ job' = job /\ run'[u] = [r EXCEPT !.todo = Tail(r.todo)] /\ Len(r.todo) # 1
  <2>1. /\ Tail(r.todo) # <<>> /\ Chained(Tail(r.todo), r.word)
        /\ Link(call, Tail(r.todo)[1], r.word)
    BY <1>2, <1>7, ChainedTail
  <2> QED
    BY <1>3, <1>4, <1>7, <2>1 DEF Passes, Idle
<1> QED
  BY <1>3, <1>6, <1>7

\* What a step of one handler has to show, while no other is under way.
LEMMA CardsStep ==
    ASSUME Smooth, CardsInv, NEW u \in Updates, Alone(u),
           \A w \in Updates \ {u} : run'[w] = run[w],
           ~Idle(run'[u]) => Chained(run'[u].todo, run'[u].word),
           CardsSent', CardsKnown(u)'
    PROVE  CardsInv'
<1>1. Alone(u)' /\ \A w \in Updates \ {u} : Idle(run'[w])
  BY DEF Alone
<1>2. OneAtATime'
  BY <1>1 DEF OneAtATime
<1>3. ASSUME NEW w \in Updates \ {u}, Alone(w)' PROVE CardsKnown(w)'
  <2>1. Idle(run'[u]) /\ Idle(run'[w])
    BY <1>1, <1>3 DEF Alone
  <2> QED
    BY <2>1 DEF CardsKnown, Held, At
<1> QED
  BY <1>2, <1>3 DEF CardsInv

LEMMA FlagsStep ==
    ASSUME NEW u \in Updates, Alone(u), \A w \in Updates \ {u} : run'[w] = run[w],
           Flags(run[u])'
    PROVE  FlagsInv'
<1>1. \A w \in Updates \ {u} : Idle(run'[w])
  BY DEF Alone
<1>2. ASSUME NEW w \in Updates \ {u}, Alone(w)' PROVE Flags(run[w])'
  <2>1. Idle(run'[u]) /\ Idle(run'[w])
    BY <1>1, <1>2 DEF Alone
  <2> QED
    BY <2>1 DEF Flags, At
<1> QED
  BY <1>2 DEF FlagsInv

LEMMA SmoothBefore ==
    ASSUME IngressInv, [Next]_vars, Smooth' PROVE Smooth
<1>1. [IngressNext]_ingressVars
  BY StepIsIngress
<1>2. faults \in Nat /\ crashes \in Nat
  BY IngressConstants DEF IngressInv, IngressTypeOK
<1>3. faults' >= faults /\ crashes' >= crashes
  BY <1>1, <1>2 DEF IngressNext, Pipeline, HandleTelegramWebhook, AcquireDedupe, Crash, KeyExpires,
     Throw, Return, Fault, Strikes, ingressVars
<1>4. raced => raced'
  BY DEF Next, Arrives, Handler, Resolve, BeginLinking, SendPrompt, ClassifyFlow, HandOver, Command,
     ReadSchedule, ReadStatus, SendTextWithKeyboard, SetActiveSurface, TakeMenu, RetireMenu, RecordMenu,
     FindLink, DeleteLink, ClearSurface, ClearMenu, SendTextRemovingKeyboard, Untouched,
     Request, RedeemNonce, FindExisting, Upsert, RequestUnlink, Unlink, Asks, vars, chatVars
<1> QED
  BY <1>2, <1>3, <1>4 DEF Smooth

LEMMA NoFault ==
    ASSUME Smooth, Smooth'
    PROVE  ~Strikes /\ \A u \in Updates : ~Throws(u)
BY DEF Smooth, Strikes, Throws, Throw

\* A handler at a call while nothing went wrong: it is alone.
LEMMA HandlerAlone ==
    ASSUME Typed, Smooth, CardsInv, NEW u \in Updates, NEW call, Doing(u, call)
    PROVE  /\ run[u] \in Runs /\ ~Idle(run[u]) /\ run[u].todo[1] = call /\ job[u] = "handling"
           /\ Chained(run[u].todo, run[u].word)
           /\ Alone(u) /\ OneAtATime /\ CardsSent /\ CardsKnown(u)
<1>1. /\ run[u] \in Runs /\ run[u].todo[1] = call /\ ~Idle(run[u]) /\ job[u] = "handling"
  BY DoingRuns, IdleIsNoRun, NoRunIsNone
<1>2. OneAtATime /\ CardsSent /\ \A w \in Updates : Alone(w) => CardsKnown(w)
  BY DEF CardsInv
<1>3. Alone(u)
  BY <1>1, <1>2 DEF OneAtATime, Alone
<1> QED
  BY <1>1, <1>2, <1>3 DEF OneAtATime

\* What was sent stays sent: by the same argument as PastKept.
LEMMA SentStays ==
    ASSUME IngressInv, IngressInv', \A u \in Updates : KeepsSent(u)
    PROVE  \A m \in Ids : Sent(m) => Sent(m)'
<1> SUFFICES ASSUME NEW m \in Ids, Sent(m) PROVE Sent(m)'
  OBVIOUS
<1> DEFINE u == m[1]
<1>1. u \in Updates /\ m[2] \in Nat
  BY IdsAre
<1>2. admitted[u] \in Nat /\ admitted'[u] \in Nat
  BY <1>1 DEF IngressInv, IngressTypeOK
<1>3. KeepsSent(u) /\ m[2] <= admitted[u] /\ (m[2] = admitted[u] => Posted(u))
  BY <1>1 DEF Sent
<1> HIDE DEF u
<1>4. m[2] <= admitted'[u] /\ (m[2] = admitted'[u] => Posted(u)')
  BY <1>1, <1>2, <1>3 DEF KeepsSent
<1>5. u = m[1]
  BY DEF u
<1> QED
  BY <1>4, <1>5 DEF Sent

\* A step that admits nothing keeps all that was sent, if it keeps its own run's card sent.
LEMMA SentUnless ==
    ASSUME IngressInv, NEW u \in Updates, UNCHANGED admitted,
           \A w \in Updates \ {u} : run'[w] = run[w] /\ job'[w] = job[w]
    PROVE  \A m \in Ids : Sent(m) /\ (m = Id(u) => Posted(u)') => Sent(m)'
<1> SUFFICES ASSUME NEW m \in Ids, Sent(m), m = Id(u) => Posted(u)' PROVE Sent(m)'
  OBVIOUS
<1>1. m[1] \in Updates /\ m = <<m[1], m[2]>>
  BY IdsAre
<1>2. CASE m[1] = u
  <2>1. m[2] = admitted[u] => m = Id(u)
    BY <1>1, <1>2 DEF Id
  <2> QED
    BY <1>2, <2>1 DEF Sent
<1>3. CASE m[1] # u
  BY <1>1, <1>3 DEF Sent, Posted, At, Idle
<1> QED
  BY <1>2, <1>3

LEMMA SentKept ==
    ASSUME Typed, IngressInv, CardsSent, NEW u \in Updates, NEW call, Doing(u, call), NEW r,
           Passes(u, call, r), \A c \in Chats : cards'[c] \subseteq cards[c]
    PROVE  CardsSent'
<1>1. \A c \in Chats : cards[c] \subseteq Ids
  BY DEF Typed, StoreTyped
<1>2. job[u] = "handling" /\ run[u].todo[1] = call
  BY DoingRuns
<1>3. \A m \in Ids : Sent(m) /\ (m = Id(u) => Posted(u)') => Sent(m)'
  BY SentUnless DEF Passes
<1>4. ASSUME Sent(Id(u)) PROVE Posted(u)'
  <2>1. call \in {"take", "retire", "record", "set"}
    BY <1>2, <1>4, IdOfRun DEF Sent, Posted, At
  <2>2. CASE job'[u] = "none"
    BY <2>2 DEF Posted
  <2>3. CASE ~Idle(run'[u]) /\ Link(call, run'[u].todo[1], r.word)
    BY <2>1, <2>3 DEF Posted, At, Link, Follows
  <2> QED
    BY <2>2, <2>3 DEF Passes
<1>5. \A m \in Ids : Sent(m) => Sent(m)'
  BY <1>3, <1>4
<1> QED
  BY <1>1, <1>5 DEF CardsSent

\* A call that sends, takes and deletes no card.
LEMMA CardsPlain ==
    ASSUME Typed, IngressInv, Smooth, CardsInv, NEW u \in Updates, NEW call, Doing(u, call),
           call \notin {"send", "take", "retire", "record"},
           NEW r, Passes(u, call, r), UNCHANGED cards, Tracked \subseteq Tracked'
    PROVE  CardsInv'
<1>1. /\ ~Idle(run[u]) /\ run[u].todo[1] = call /\ Alone(u) /\ CardsSent /\ CardsKnown(u)
  BY HandlerAlone
<1>2. CardsSent'
  BY <1>1, SentKept
<1>3. ~At(run[u], {"take", "retire", "record"}) /\ ~At(run[u], {"retire", "record"})
      /\ ~At(run[u], {"retire"})
  BY <1>1 DEF At
<1>4. ~At(run[u], {"take", "retire", "record"})' /\ ~At(run[u], {"retire", "record"})'
      /\ ~At(run[u], {"retire"})'
  <2>1. CASE run'[u] = NoRun
    BY <2>1 DEF At, Idle, NoRun
  <2>2. CASE Link(call, run'[u].todo[1], r.word)
    <3>1. run'[u].todo[1] \notin {"take", "retire", "record"}
      BY <2>2 DEF Link, Follows
    <3> QED
      BY <3>1 DEF At
  <2> QED
    BY <2>1, <2>2 DEF Passes
<1>5. CardsKnown(u)'
  BY <1>1, <1>3, <1>4 DEF CardsKnown, Held
<1> QED
  BY <1>1, <1>2, <1>5, CardsStep DEF Passes, Idle, NoRun

LEMMA CardsSend ==
    ASSUME Typed, IngressInv, Smooth, Smooth', CardsInv, NEW u \in Updates, SendTextWithKeyboard(u)
    PROVE  CardsInv'
<1> DEFINE r == [run[u] EXCEPT !.landed = TRUE]
<1>1. /\ Doing(u, "send") /\ Goes(u, r) /\ UNCHANGED <<menu, left>>
      /\ cards' = IF run[u].word = "open_menu"
                  THEN [cards EXCEPT ![run[u].chat] = @ \cup {Id(u)}] ELSE cards
  BY NoFault DEF SendTextWithKeyboard, Swallowed
<1>2. /\ run[u] \in Runs /\ ~Idle(run[u]) /\ run[u].todo[1] = "send" /\ job[u] = "handling"
      /\ Alone(u) /\ OneAtATime /\ CardsSent /\ CardsKnown(u)
  BY <1>1, HandlerAlone
<1>3. r \in Runs
  BY <1>2, LocalsFit
<1>4. /\ r.todo = run[u].todo /\ r.word = run[u].word /\ r.chat = run[u].chat /\ r.landed
      /\ run[u].chat \in Chats
  BY <1>2 DEF Runs
<1> HIDE DEF r
<1>5. Passes(u, "send", r)
  BY <1>1, <1>2, <1>3, <1>4, GoesPasses
<1>6. /\ ~Idle(run'[u]) /\ run'[u].todo[1] \in {"set", "take"} /\ run'[u].landed /\ job' = job
      /\ run'[u].todo[1] = "take" <=> run[u].word = "open_menu"
      /\ Chained(run'[u].todo, run'[u].word) /\ admitted' = admitted
      /\ \A w \in Updates \ {u} : run'[w] = run[w]
  BY <1>4, <1>5 DEF Passes, Lasts, Link, Follows
<1>7. /\ Id(u) \in Ids /\ Id(u)' = Id(u) /\ ~Sent(Id(u))
      /\ \A c \in Chats : cards[c] \subseteq Ids /\ Id(u) \notin cards[c]
  <2>1. ~Posted(u)
    BY <1>2 DEF Posted, At
  <2>2. Id(u) \in Ids /\ ~Sent(Id(u))
    BY <1>2, <2>1, IdOfRun DEF Sent
  <2> QED
    BY <1>2, <1>6, <2>2 DEF Typed, StoreTyped, CardsSent, Id
<1>8. CardsSent'
  <2>1. Posted(u)'
    BY <1>2, <1>6 DEF Posted, At
  <2>a. \A w \in Updates \ {u} : job'[w] = job[w]
    BY <1>6
  <2>2. \A m \in Ids : Sent(m) => Sent(m)'
    BY <1>6, <2>1, <2>a, SentUnless
  <2>3. \A c \in Chats : cards'[c] = IF run[u].word = "open_menu" /\ c = run[u].chat
                                     THEN cards[c] \cup {Id(u)} ELSE cards[c]
    BY <1>1, <1>4 DEF Typed, StoreTyped
  <2>b. Sent(Id(u))'
    BY <1>6, <1>7, <2>1, IdOfRun DEF Sent
  <2>4. ASSUME NEW c \in Chats, NEW m \in cards'[c], m # Id(u)
        PROVE  m \in Ids /\ m \in cards[c]
    <3>1. cards'[c] = cards[c] \/ cards'[c] = cards[c] \cup {Id(u)}
      BY <2>3, <2>4
    <3>2. m \in cards[c]
      BY <2>4, <3>1
    <3> QED
      BY <1>7, <2>4, <3>2
  <2>5. ASSUME NEW c \in Chats, Id(u) \in cards'[c] PROVE c = run[u].chat
    BY <1>7, <2>3, <2>5
  <2>6. ASSUME NEW c \in Chats, NEW m \in cards'[c] PROVE Sent(m)'
    <3>1. CASE m = Id(u)
      BY <1>7, <2>b, <3>1
    <3>2. CASE m # Id(u)
      BY <1>2, <2>2, <2>4, <2>6, <3>2 DEF CardsSent
    <3> QED
      BY <3>1, <3>2
  <2>7. ASSUME NEW c \in Chats, NEW m \in cards'[c], NEW d \in Chats, m \in cards'[d] PROVE c = d
    <3>1. CASE m = Id(u)
      BY <2>5, <2>7, <3>1
    <3>2. CASE m # Id(u)
      BY <1>2, <2>4, <2>7, <3>2 DEF CardsSent
    <3> QED
      BY <3>1, <3>2
  <2> QED
    BY <2>6, <2>7 DEF CardsSent
<1>9. CardsKnown(u)'
  <2>1. \A c \in Chats : cards[c] \subseteq Tracked
    BY <1>2 DEF CardsKnown, Held, At
  <2>2. ~At(run[u], {"retire", "record"})'
    BY <1>6 DEF At
  <2>3. At(run[u], {"take", "retire", "record"})' <=> run[u].word = "open_menu"
    BY <1>6 DEF At
  <2>4. \A c \in Chats : cards'[c] \subseteq cards[c] \cup
                           (IF run[u].word = "open_menu" THEN {Id(u)} ELSE {})
    BY <1>1, <1>4 DEF Typed, StoreTyped
  <2>5. Tracked' = Tracked
    BY <1>1 DEF Tracked
  <2> QED
    BY <1>6, <1>7, <2>1, <2>2, <2>3, <2>4, <2>5 DEF CardsKnown, Held
<1> QED
  BY <1>2, <1>6, <1>8, <1>9, CardsStep

LEMMA CardsTake ==
    ASSUME Typed, IngressInv, Smooth, Smooth', CardsInv, NEW u \in Updates, TakeMenu(u)
    PROVE  CardsInv'
<1> DEFINE r == [run[u] EXCEPT !.prior = menu[run[u].user]]
<1>1. /\ Doing(u, "take") /\ Goes(u, r) /\ UNCHANGED <<cards, left>>
      /\ menu' = [menu EXCEPT ![run[u].user] = None]
  BY NoFault DEF TakeMenu, Swallowed
<1>2. /\ run[u] \in Runs /\ ~Idle(run[u]) /\ run[u].todo[1] = "take"
      /\ Alone(u) /\ OneAtATime /\ CardsSent /\ CardsKnown(u) /\ run[u].user \in Users
  BY <1>1, HandlerAlone, DoingRuns
<1>3. r \in Runs
  BY <1>2, LocalsFit DEF Typed, StoreTyped
<1>4. /\ r.todo = run[u].todo /\ r.word = run[u].word /\ r.user = run[u].user
      /\ r.landed = run[u].landed /\ r.prior = menu[run[u].user]
  BY <1>2 DEF Runs
<1> HIDE DEF r
<1>5. Passes(u, "take", r)
  BY <1>1, <1>2, <1>3, <1>4, GoesPasses
<1>6. /\ ~Idle(run'[u]) /\ run'[u].todo[1] = "retire" /\ run'[u].landed = run[u].landed
      /\ run'[u].prior = menu[run[u].user] /\ run'[u].user = run[u].user
      /\ Chained(run'[u].todo, run'[u].word)
      /\ \A w \in Updates \ {u} : run'[w] = run[w]
  BY <1>4, <1>5 DEF Passes, Lasts, Link, Follows
<1>7. CardsSent'
  BY <1>1, <1>2, <1>5, SentKept
<1>8. CardsKnown(u)'
  <2>1. Held(u)' = {Id(u), menu[run[u].user]} /\ Held(u) = {Id(u)}
    BY <1>2, <1>5, <1>6 DEF Held, At, Passes, Id
  <2>2. Tracked \subseteq Tracked' \cup {menu[run[u].user]}
    BY <1>1, <1>2 DEF Tracked, Typed, StoreTyped
  <2>3. menu'[run[u].user] = None
    BY <1>1, <1>2 DEF Typed, StoreTyped
  <2>4. run[u].landed
    BY <1>2 DEF CardsKnown, At
  <2> QED
    BY <1>1, <1>2, <1>6, <2>1, <2>2, <2>3, <2>4 DEF CardsKnown
<1> QED
  BY <1>2, <1>6, <1>7, <1>8, CardsStep

LEMMA CardsRetire ==
    ASSUME Typed, IngressInv, Smooth, Smooth', CardsInv, NEW u \in Updates, RetireMenu(u)
    PROVE  CardsInv'
<1> DEFINE r == run[u]
<1>1. /\ Doing(u, "retire") /\ Goes(u, run[u]) /\ UNCHANGED menu
      /\ cards' = [cards EXCEPT ![run[u].chat] = @ \ Retired(run[u])]
      /\ left' = left \cup (Retired(run[u]) \ cards[run[u].chat])
  BY NoFault DEF RetireMenu, Swallowed, GoesOn
<1>2. /\ run[u] \in Runs /\ ~Idle(run[u]) /\ run[u].todo[1] = "retire"
      /\ Alone(u) /\ OneAtATime /\ CardsSent /\ CardsKnown(u) /\ run[u].user \in Users
  BY <1>1, HandlerAlone, DoingRuns
<1>3. run[u].chat \in Chats
  BY <1>2 DEF Runs
<1>4. Passes(u, "retire", run[u])
  BY <1>1, <1>2, GoesPasses
<1>5. /\ ~Idle(run'[u]) /\ run'[u].todo[1] = "record" /\ run'[u].landed = run[u].landed
      /\ run'[u].user = run[u].user /\ Chained(run'[u].todo, run'[u].word)
      /\ \A w \in Updates \ {u} : run'[w] = run[w]
  BY <1>4 DEF Passes, Lasts, Link, Follows
<1>6. \A c \in Chats : cards'[c] = IF c = run[u].chat THEN cards[c] \ Retired(run[u]) ELSE cards[c]
  BY <1>1, <1>3 DEF Typed, StoreTyped
<1>7. CardsSent'
  BY <1>1, <1>2, <1>4, <1>6, SentKept
<1>8. CardsKnown(u)'
  <2>1. Held(u)' = {Id(u)} /\ Held(u) = {Id(u), run[u].prior}
    BY <1>2, <1>4, <1>5 DEF Held, At, Passes, Id
  <2>2. run[u].landed /\ menu[run[u].user] = None
    BY <1>2 DEF CardsKnown, At
  <2>3. Retired(run[u]) = {run[u].prior} \ {None}
    BY <2>2 DEF Retired
  <2>4. Tracked' = Tracked \cup (Retired(run[u]) \ cards[run[u].chat]) /\ None \in Tracked
    BY <1>1, <1>2, <2>2 DEF Tracked
  <2>5. ASSUME NEW c \in Chats, NEW w \in cards'[c] PROVE w \in Tracked' \cup {Id(u)}
    <3>1. w \in cards[c] /\ w \in Tracked \cup {Id(u), run[u].prior}
      BY <1>2, <1>6, <2>1, <2>5 DEF CardsKnown
    <3>2. CASE w = run[u].prior /\ w # None
      <4>1. c # run[u].chat
        BY <1>6, <2>3, <2>5, <3>2
      <4>2. w \notin cards[run[u].chat]
        BY <1>2, <1>3, <3>1, <4>1 DEF CardsSent
      <4> QED
        BY <2>3, <2>4, <3>2, <4>2
    <3> QED
      BY <2>4, <3>1, <3>2
  <2> QED
    BY <1>1, <1>5, <2>1, <2>2, <2>5 DEF CardsKnown
<1> QED
  BY <1>2, <1>5, <1>7, <1>8, CardsStep

LEMMA CardsRecord ==
    ASSUME Typed, IngressInv, Smooth, Smooth', CardsInv, NEW u \in Updates, RecordMenu(u)
    PROVE  CardsInv'
<1>1. /\ Doing(u, "record") /\ Goes(u, run[u]) /\ UNCHANGED <<cards, left>>
      /\ menu' = IF run[u].landed THEN [menu EXCEPT ![run[u].user] = Id(u)] ELSE menu
  BY NoFault DEF RecordMenu, Swallowed, GoesOn
<1>2. /\ run[u] \in Runs /\ ~Idle(run[u]) /\ run[u].todo[1] = "record"
      /\ Alone(u) /\ OneAtATime /\ CardsSent /\ CardsKnown(u) /\ run[u].user \in Users
  BY <1>1, HandlerAlone, DoingRuns
<1>3. Passes(u, "record", run[u])
  BY <1>1, <1>2, GoesPasses
<1>4. /\ ~Idle(run'[u]) /\ run'[u].todo[1] = "set" /\ Chained(run'[u].todo, run'[u].word)
      /\ \A w \in Updates \ {u} : run'[w] = run[w]
  BY <1>3 DEF Passes, Lasts, Link, Follows
<1>5. CardsSent'
  BY <1>1, <1>2, <1>3, SentKept
<1>6. CardsKnown(u)'
  <2>1. Held(u)' = {} /\ Held(u) = {Id(u)}
    BY <1>2, <1>4 DEF Held, At
  <2>2. run[u].landed /\ menu[run[u].user] = None
    BY <1>2 DEF CardsKnown, At
  <2>3. menu' = [menu EXCEPT ![run[u].user] = Id(u)] /\ menu'[run[u].user] = Id(u)
        /\ \A v \in Users : v # run[u].user => menu'[v] = menu[v]
    BY <1>1, <1>2, <2>2 DEF Typed, StoreTyped
  <2>4. Tracked \cup {Id(u)} \subseteq Tracked' \cup {None}
    BY <1>1, <1>2, <2>2, <2>3 DEF Tracked
  <2>5. \A c \in Chats : cards'[c] \subseteq Tracked' \cup {None}
    BY <1>1, <1>2, <2>1, <2>4 DEF CardsKnown
  <2>6. \A c \in Chats : None \notin cards'[c]
    <3>1. None \notin Ids
      BY ChatConstants, IngressConstants DEF Ids
    <3> QED
      BY <1>1, <3>1 DEF Typed, StoreTyped
  <2>7. ~At(run[u], {"take", "retire", "record"})' /\ ~At(run[u], {"retire", "record"})'
    BY <1>4 DEF At
  <2> QED
    BY <2>1, <2>5, <2>6, <2>7 DEF CardsKnown
<1> QED
  BY <1>2, <1>4, <1>5, <1>6, CardsStep

LEMMA Chain1 == ASSUME NEW a \in Lasts, NEW word PROVE Chained(<<a>>, word)
BY DEF Chained

LEMMA Chain2 ==
    ASSUME NEW word, NEW a, NEW b \in Lasts, Link(a, b, word)
    PROVE  Chained(<<a, b>>, word)
BY DEF Chained

LEMMA Chain3 ==
    ASSUME NEW word, NEW a, NEW b, NEW c \in Lasts, Link(a, b, word), Link(b, c, word)
    PROVE  Chained(<<a, b, c>>, word)
BY DEF Chained

LEMMA Chain4 ==
    ASSUME NEW word, NEW a, NEW b, NEW c, NEW d \in Lasts,
           Link(a, b, word), Link(b, c, word), Link(c, d, word)
    PROVE  Chained(<<a, b, c, d>>, word)
BY DEF Chained

LEMMA Chain5 ==
    ASSUME NEW word, NEW a, NEW b, NEW c, NEW d, NEW e \in Lasts,
           Link(a, b, word), Link(b, c, word), Link(c, d, word), Link(d, e, word)
    PROVE  Chained(<<a, b, c, d, e>>, word)
BY DEF Chained

LEMMA Chain6 ==
    ASSUME NEW word, NEW a, NEW b, NEW c, NEW d, NEW e, NEW f \in Lasts,
           Link(a, b, word), Link(b, c, word), Link(c, d, word), Link(d, e, word), Link(e, f, word)
    PROVE  Chained(<<a, b, c, d, e, f>>, word)
BY DEF Chained

\* What the router starts is a chain, and it starts before any of its effects.
LEMMA ListsChained ==
    /\ Chained(<<"read command", "persist", "send", "set">>, "/start")
    /\ \A word : Chained(<<"read command", "persist">>, word)
    /\ \A word : Chained(<<"hand over">>, word)
    /\ \A word : Chained(<<"route">>, word) /\ Chained(<<"mint", "prompt">>, word)
    /\ Chained(<<"read", "send", "set">>, "schedule")
    /\ Chained(<<"send", "set">>, "settings") /\ Chained(<<"send", "set">>, "back")
    /\ Chained(<<"status", "send", "take", "retire", "record", "set">>, "open_menu")
    /\ Chained(<<"find", "delete", "clear", "untrack", "remove">>, "logout")
    /\ Chained(<<"find", "delete", "clear", "remove">>, "disconnect")
<1>1. /\ "prompt" \in Lasts /\ "hand over" \in Lasts /\ "route" \in Lasts /\ "persist" \in Lasts
      /\ "set" \in Lasts /\ "remove" \in Lasts
  BY DEF Lasts
<1>2. ASSUME NEW word
      PROVE  /\ Link("mint", "prompt", word) /\ Link("read command", "persist", word)
             /\ Link("persist", "send", word) /\ Link("read", "send", word)
             /\ Link("status", "send", word) /\ Link("take", "retire", word)
             /\ Link("retire", "record", word) /\ Link("record", "set", word)
             /\ Link("find", "delete", word) /\ Link("delete", "clear", word)
             /\ Link("clear", "untrack", word) /\ Link("clear", "remove", word)
             /\ Link("untrack", "remove", word)
  BY DEF Link, Follows
<1>a. /\ Link("send", "set", "/start") /\ Link("send", "set", "schedule")
      /\ Link("send", "set", "settings") /\ Link("send", "set", "back")
      /\ Link("send", "take", "open_menu")
  BY DEF Link, Follows
<1>3. Chained(<<"read command", "persist", "send", "set">>, "/start")
  BY <1>1, <1>2, <1>a, Chain4
<1>4. ASSUME NEW word PROVE Chained(<<"read command", "persist">>, word)
  BY <1>1, <1>2, Chain2
<1>5. ASSUME NEW word PROVE Chained(<<"hand over">>, word)
  BY <1>1, Chain1
<1>6. ASSUME NEW word PROVE Chained(<<"route">>, word)
  BY <1>1, Chain1
<1>7. ASSUME NEW word PROVE Chained(<<"mint", "prompt">>, word)
  BY <1>1, <1>2, Chain2
<1>8. Chained(<<"read", "send", "set">>, "schedule")
  BY <1>1, <1>2, <1>a, Chain3
<1>9. Chained(<<"send", "set">>, "settings") /\ Chained(<<"send", "set">>, "back")
  BY <1>1, <1>2, <1>a, Chain2
<1>10. Chained(<<"status", "send", "take", "retire", "record", "set">>, "open_menu")
  <2>1. /\ Link("status", "send", "open_menu") /\ Link("take", "retire", "open_menu")
        /\ Link("retire", "record", "open_menu") /\ Link("record", "set", "open_menu")
    BY <1>2
  <2>2. Link("send", "take", "open_menu") /\ "set" \in Lasts
    BY <1>1, <1>a
  <2> QED
    BY <2>1, <2>2, Chain6, SMTT(60)
<1>11. Chained(<<"find", "delete", "clear", "untrack", "remove">>, "logout")
  <2>1. /\ Link("find", "delete", "logout") /\ Link("delete", "clear", "logout")
        /\ Link("clear", "untrack", "logout") /\ Link("untrack", "remove", "logout")
    BY <1>2
  <2> QED
    BY <1>1, <2>1, Chain5
<1>12. Chained(<<"find", "delete", "clear", "remove">>, "disconnect")
  BY <1>1, <1>2, Chain4
<1> QED
  BY <1>3, <1>4, <1>5, <1>6, <1>7, <1>8, <1>9, <1>10, <1>11, <1>12

Starts == {"mint", "route", "read command", "read", "send", "status", "find", "hand over"}

Routed(todo, word) ==
    \/ word = "/start" /\ todo = <<"read command", "persist", "send", "set">>
    \/ word = "/other" /\ todo = <<"read command", "persist">>
    \/ todo = <<"hand over">>
    \/ word = "schedule" /\ todo = <<"read", "send", "set">>
    \/ word = "settings" /\ todo = <<"send", "set">>
    \/ word = "back" /\ todo = <<"send", "set">>
    \/ word = "open_menu" /\ todo = <<"status", "send", "take", "retire", "record", "set">>
    \/ word = "logout" /\ todo = <<"find", "delete", "clear", "untrack", "remove">>
    \/ word = "disconnect" /\ todo = <<"find", "delete", "clear", "remove">>

LEMMA RoutedStarts ==
    ASSUME NEW todo, NEW word, Routed(todo, word)
    PROVE  Chained(todo, word) /\ todo # <<>> /\ todo[1] \in Starts
<1>1. CASE word = "/start" /\ todo = <<"read command", "persist", "send", "set">>
  <2>1. Chained(todo, word)
    BY <1>1, ListsChained, Zenon
  <2>2. todo # <<>> /\ todo[1] \in Starts
    BY <1>1 DEF Starts
  <2> QED
    BY <2>1, <2>2
<1>2. CASE word = "/other" /\ todo = <<"read command", "persist">>
  <2>1. Chained(todo, word)
    BY <1>2, ListsChained, Zenon
  <2>2. todo # <<>> /\ todo[1] \in Starts
    BY <1>2 DEF Starts
  <2> QED
    BY <2>1, <2>2
<1>3. CASE todo = <<"hand over">>
  <2>1. Chained(todo, word)
    BY <1>3, ListsChained, Zenon
  <2>2. todo # <<>> /\ todo[1] \in Starts
    BY <1>3 DEF Starts
  <2> QED
    BY <2>1, <2>2
<1>4. CASE word = "schedule" /\ todo = <<"read", "send", "set">>
  <2>1. Chained(todo, word)
    BY <1>4, ListsChained, Zenon
  <2>2. todo # <<>> /\ todo[1] \in Starts
    BY <1>4 DEF Starts
  <2> QED
    BY <2>1, <2>2
<1>5. CASE word = "settings" /\ todo = <<"send", "set">>
  <2>1. Chained(todo, word)
    BY <1>5, ListsChained, Zenon
  <2>2. todo # <<>> /\ todo[1] \in Starts
    BY <1>5 DEF Starts
  <2> QED
    BY <2>1, <2>2
<1>6. CASE word = "back" /\ todo = <<"send", "set">>
  <2>1. Chained(todo, word)
    BY <1>6, ListsChained, Zenon
  <2>2. todo # <<>> /\ todo[1] \in Starts
    BY <1>6 DEF Starts
  <2> QED
    BY <2>1, <2>2
<1>7. CASE word = "open_menu" /\ todo = <<"status", "send", "take", "retire", "record", "set">>
  <2>1. Chained(todo, word)
    BY <1>7, ListsChained, Zenon
  <2>2. todo # <<>> /\ todo[1] \in Starts
    BY <1>7 DEF Starts
  <2> QED
    BY <2>1, <2>2
<1>8. CASE word = "logout" /\ todo = <<"find", "delete", "clear", "untrack", "remove">>
  <2>1. Chained(todo, word)
    BY <1>8, ListsChained, Zenon
  <2>2. todo # <<>> /\ todo[1] \in Starts
    BY <1>8 DEF Starts
  <2> QED
    BY <2>1, <2>2
<1>9. CASE word = "disconnect" /\ todo = <<"find", "delete", "clear", "remove">>
  <2>1. Chained(todo, word)
    BY <1>9, ListsChained, Zenon
  <2>2. todo # <<>> /\ todo[1] \in Starts
    BY <1>9 DEF Starts
  <2> QED
    BY <2>1, <2>2
<1> QED
  BY <1>1, <1>2, <1>3, <1>4, <1>5, <1>6, <1>7, <1>8, <1>9, Zenon DEF Routed

LEMMA RoutedCalls ==
    ASSUME NEW word \in {"schedule", "settings", "open_menu", "disconnect", "back", "logout"}
    PROVE  Routed(Calls[word], word)
<1>1. /\ Calls["schedule"] = <<"read", "send", "set">>
      /\ Calls["settings"] = <<"send", "set">> /\ Calls["back"] = <<"send", "set">>
      /\ Calls["open_menu"] = <<"status", "send", "take", "retire", "record", "set">>
      /\ Calls["logout"] = <<"find", "delete", "clear", "untrack", "remove">>
      /\ Calls["disconnect"] = <<"find", "delete", "clear", "remove">>
  BY DEF Calls
<1>2. CASE word = "schedule"
  BY <1>1, <1>2, Zenon DEF Routed
<1>3. CASE word = "settings"
  BY <1>1, <1>3, Zenon DEF Routed
<1>4. CASE word = "back"
  BY <1>1, <1>4, Zenon DEF Routed
<1>5. CASE word = "open_menu"
  BY <1>1, <1>5, Zenon DEF Routed
<1>6. CASE word = "logout"
  BY <1>1, <1>6, Zenon DEF Routed
<1>7. CASE word = "disconnect"
  BY <1>1, <1>7, Zenon DEF Routed
<1> QED
  BY <1>2, <1>3, <1>4, <1>5, <1>6, <1>7

LEMMA RoutedChained ==
    ASSUME NEW word \in Words, NEW seen \in Surfaces \cup {"none"}, NEW todo,
           todo = IF word \in {"/start", "/other"} THEN CommandCalls(word)
                  ELSE IF word \in OwnedBy[seen] THEN Calls[word]
                  ELSE <<"hand over">>
    PROVE  Chained(todo, word) /\ todo # <<>> /\ todo[1] \in Starts
<1>1. CASE word \in {"/start", "/other"}
  BY <1>1, RoutedStarts DEF CommandCalls, Routed
<1>2. CASE word \notin {"/start", "/other"} /\ word \notin OwnedBy[seen]
  BY <1>2, RoutedStarts DEF Routed
<1>3. CASE word \notin {"/start", "/other"} /\ word \in OwnedBy[seen]
  <2>1. word \in {"schedule", "settings", "open_menu", "disconnect", "back", "logout"}
    BY <1>3 DEF OwnedBy, Surfaces
  <2>2. todo = Calls[word]
    BY <1>3
  <2>3. Routed(Calls[word], word)
    BY <2>1, RoutedCalls
  <2>4. Routed(todo, word)
    BY <2>2, <2>3, Zenon
  <2> QED
    BY <2>4, RoutedStarts, Zenon
<1> QED
  BY <1>1, <1>2, <1>3

\* A run that starts, or is routed, while no other is under way.
Begins(u) ==
    /\ Alone(u) /\ ~At(run[u], {"take", "retire", "record", "set", "untrack", "remove"})
    /\ job[u] = "handling"
    /\ \A w \in Updates \ {u} : run'[w] = run[w]
    /\ ~Idle(run'[u]) /\ Chained(run'[u].todo, run'[u].word) /\ run'[u].todo[1] \in Starts
    /\ UNCHANGED <<job, admitted, cards, menu, left, docked, surface, flagged>>

LEMMA ResolveBegins ==
    ASSUME Typed, Smooth, Smooth', CardsInv, NEW u \in Updates, Resolve(u) PROVE Begins(u)
<1>1. /\ job[u] = "handling" /\ run[u].todo = <<>>
      /\ UNCHANGED <<cards, menu, left, docked, surface, flagged>>
      /\ \A w \in Updates \ {u} : run[w].todo = <<>>
  BY DEF Resolve, Smooth
<1>2. /\ \A w \in Updates \ {u} : run'[w] = run[w]
      /\ \/ run'[u] = NoRun /\ job'[u] = "failed"
         \/ run'[u] \in Runs /\ run'[u].todo \in {<<"mint", "prompt">>, <<"route">>}
  BY ResolveMoves
<1>3. UNCHANGED <<job, admitted>>
  BY NoFault DEF Resolve, ingressVars
<1>4. /\ run'[u].todo \in {<<"mint", "prompt">>, <<"route">>}
  BY <1>1, <1>2, <1>3
<1>5. CASE run'[u].todo = <<"mint", "prompt">>
  <2>1. Chained(run'[u].todo, run'[u].word)
    BY <1>5, ListsChained, Zenon
  <2>2. ~Idle(run'[u]) /\ run'[u].todo[1] \in Starts
    BY <1>5 DEF Idle, Starts
  <2> QED
    BY <1>1, <1>2, <1>3, <2>1, <2>2 DEF Begins, Alone, Idle, At
<1>6. CASE run'[u].todo = <<"route">>
  <2>1. Chained(run'[u].todo, run'[u].word)
    BY <1>6, ListsChained, Zenon
  <2>2. ~Idle(run'[u]) /\ run'[u].todo[1] \in Starts
    BY <1>6 DEF Idle, Starts
  <2> QED
    BY <1>1, <1>2, <1>3, <2>1, <2>2 DEF Begins, Alone, Idle, At
<1> QED
  BY <1>4, <1>5, <1>6

LEMMA ClassifyBegins ==
    ASSUME Typed, Smooth, Smooth', CardsInv, NEW u \in Updates, ClassifyFlow(u) PROVE Begins(u)
<1>1. /\ run[u] \in Runs /\ run[u].user \in Users /\ run[u].todo[1] = "route"
      /\ Alone(u) /\ job[u] = "handling"
  BY HandlerAlone, DoingRuns DEF ClassifyFlow
<1>2. PICK word \in Words, seen \in {surface[run[u].user], "none"} :
         run' = [run EXCEPT ![u] = [@ EXCEPT !.word = word, !.todo =
                   IF word \in {"/start", "/other"} THEN CommandCalls(word)
                   ELSE IF word \in OwnedBy[seen] THEN Calls[word]
                   ELSE <<"hand over">>]]
  BY DEF ClassifyFlow
<1> DEFINE todo == IF word \in {"/start", "/other"} THEN CommandCalls(word)
                   ELSE IF word \in OwnedBy[seen] THEN Calls[word]
                   ELSE <<"hand over">>
           r == [run[u] EXCEPT !.word = word, !.todo = todo]
<1>3. seen \in Surfaces \cup {"none"}
  BY <1>1, <1>2 DEF Typed, StoreTyped
<1>4. Chained(todo, word) /\ todo # <<>> /\ todo[1] \in Starts
  BY <1>3, RoutedChained
<1>5. r.todo = todo /\ r.word = word
  BY <1>1 DEF Runs
<1>6. run' = [run EXCEPT ![u] = r]
  BY <1>2 DEF Typed, RunTyped
<1> HIDE DEF todo, r
<1>7. run'[u] = r /\ \A w \in Updates \ {u} : run'[w] = run[w]
  BY <1>6 DEF Typed, RunTyped
<1>8. UNCHANGED <<job, admitted, cards, menu, left, docked, surface, flagged>>
  BY DEF ClassifyFlow, Untouched
<1> QED
  BY <1>1, <1>4, <1>5, <1>7, <1>8 DEF Begins, At, Idle

LEMMA CardsBegin ==
    ASSUME Typed, IngressInv, Smooth, CardsInv, NEW u \in Updates, Begins(u) PROVE CardsInv'
<1>1. Alone(u) /\ CardsKnown(u) /\ CardsSent
  BY DEF Begins, CardsInv
<1>2. ~Sent(Id(u))
  <2>1. ~Posted(u)
    BY DEF Begins, Posted, At
  <2> QED
    BY <2>1, IdOfRun DEF Sent
<1>3. CardsSent'
  <2>1. \A c \in Chats : cards[c] \subseteq Ids \ {Id(u)}
    BY <1>1, <1>2 DEF CardsSent, Typed, StoreTyped
  <2>2. \A m \in Ids : Sent(m) /\ (m = Id(u) => Posted(u)') => Sent(m)'
    BY SentUnless DEF Begins
  <2> QED
    BY <1>1, <2>1, <2>2 DEF Begins, CardsSent
<1>4. CardsKnown(u)'
  <2>1. /\ ~At(run[u], {"take", "retire", "record"}) /\ ~At(run[u], {"retire"})
        /\ ~At(run[u], {"take", "retire", "record"})' /\ ~At(run[u], {"retire", "record"})'
        /\ ~At(run[u], {"retire"})'
    BY DEF Begins, At, Starts
  <2> QED
    BY <1>1, <2>1 DEF Begins, CardsKnown, Held, Tracked
<1> QED
  BY <1>1, <1>3, <1>4, CardsStep DEF Begins

\* The calls of a handler that succeed, as Passes has them.
LEMMA LaterPasses ==
    ASSUME Typed, Smooth, Smooth', CardsInv, NEW u \in Updates, NEW call, Doing(u, call),
           GoesOn(u) \/ Throws(u) \/ Swallowed(u, run[u])
    PROVE  Passes(u, call, run[u])
<1>1. Goes(u, run[u])
  BY NoFault DEF GoesOn, Swallowed
<1>2. run[u] \in Runs /\ OneAtATime
  BY HandlerAlone
<1> QED
  BY <1>1, <1>2, GoesPasses

\* The flag is compared with all the chats, so they are to be one user's.
OneUser == \A v, w \in Users : v = w

PointersInv == CardsInv /\ (OneUser => FlagsInv)

LEMMA FlagsPlain ==
    ASSUME Typed, Smooth, CardsInv, FlagsInv, NEW u \in Updates, NEW call, Doing(u, call),
           call \notin {"route", "send", "set", "clear", "remove"},
           NEW r, Passes(u, call, r),
           r.chat = run[u].chat, r.user = run[u].user, r.word = run[u].word,
           UNCHANGED <<docked, surface, flagged>>
    PROVE  FlagsInv'
<1>1. /\ ~Idle(run[u]) /\ run[u].todo[1] = call /\ Alone(u)
  BY HandlerAlone
<1>2. Flags(run[u])
  BY <1>1 DEF FlagsInv
<1>3. /\ run[u].todo[1] \in {"take", "retire", "record"} => call \notin Lasts
      /\ run[u].todo[1] = "untrack" => call \notin Lasts
  BY <1>1 DEF Lasts
<1>4. CASE run'[u] = NoRun
  <2>1. /\ ~At(run[u], {"take", "retire", "record", "set"}) /\ ~At(run[u], {"untrack", "remove"})
        /\ Idle(run'[u])
    BY <1>1, <1>3, <1>4 DEF At, Passes, Idle, NoRun
  <2>2. Flags(run[u])'
    BY <1>2, <2>1 DEF Flags, FlagsFit, At
  <2> QED
    BY <1>1, <2>2, FlagsStep DEF Passes
<1>5. CASE /\ ~Idle(run'[u]) /\ Link(call, run'[u].todo[1], r.word)
           /\ run'[u].chat = r.chat /\ run'[u].user = r.user /\ run'[u].word = r.word
  <2>1. <<call, run'[u].todo[1]>> \in Follows
    BY <1>5 DEF Link
  <2>2. /\ At(run[u], {"take", "retire", "record", "set"})
             <=> At(run'[u], {"take", "retire", "record", "set"})
        /\ At(run[u], {"untrack", "remove"}) <=> At(run'[u], {"untrack", "remove"})
    BY <1>1, <1>5, <2>1 DEF At, Follows
  <2>3. Flags(run[u])'
    BY <1>2, <1>5, <2>2 DEF Flags, FlagsFit, At, Idle
  <2> QED
    BY <1>1, <2>3, FlagsStep DEF Passes
<1> QED
  BY <1>4, <1>5 DEF Passes

\* A call that touches neither keyboard nor card.
LEMMA PlainCall ==
    ASSUME Typed, IngressInv, Smooth, Smooth', PointersInv, NEW u \in Updates, NEW call, Doing(u, call),
           call \notin {"route", "send", "take", "retire", "record", "set", "clear", "remove"},
           NEW r \in Runs, Goes(u, r), r.todo = run[u].todo,
           r.chat = run[u].chat, r.user = run[u].user, r.word = run[u].word,
           UNCHANGED <<docked, surface, flagged, cards>>, Tracked \subseteq Tracked'
    PROVE  PointersInv'
<1>1. OneAtATime
  BY HandlerAlone DEF PointersInv
<1>2. Passes(u, call, r)
  BY <1>1, GoesPasses
<1>3. CardsInv'
  BY <1>2, CardsPlain DEF PointersInv
<1>4. ASSUME OneUser PROVE FlagsInv'
  BY <1>2, <1>4, FlagsPlain DEF PointersInv
<1> QED
  BY <1>3, <1>4 DEF PointersInv

LEMMA PlainGoesOn ==
    ASSUME Typed, IngressInv, Smooth, Smooth', PointersInv, NEW u \in Updates, NEW call, Doing(u, call),
           call \notin {"route", "send", "take", "retire", "record", "set", "clear", "remove"},
           GoesOn(u) \/ Throws(u) \/ Swallowed(u, run[u]),
           UNCHANGED <<docked, surface, flagged, cards>>, Tracked \subseteq Tracked'
    PROVE  PointersInv'
<1>1. Goes(u, run[u])
  BY NoFault DEF GoesOn, Swallowed
<1>2. run[u] \in Runs
  BY HandlerAlone DEF PointersInv
<1> QED
  BY <1>1, <1>2, PlainCall

LEMMA FlagsSend ==
    ASSUME Typed, Smooth, Smooth', CardsInv, NEW u \in Updates, SendTextWithKeyboard(u)
    PROVE  FlagsInv'
<1> DEFINE r == [run[u] EXCEPT !.landed = TRUE]
<1>1. /\ Doing(u, "send") /\ Goes(u, r)
      /\ docked' = [docked EXCEPT ![run[u].chat] = Docks(run[u].word)]
  BY NoFault DEF SendTextWithKeyboard, Swallowed
<1>2. /\ run[u] \in Runs /\ Alone(u) /\ OneAtATime
  BY <1>1, HandlerAlone
<1>3. r \in Runs
  BY <1>2, LocalsFit
<1>4. /\ r.todo = run[u].todo /\ r.word = run[u].word /\ r.chat = run[u].chat
      /\ run[u].chat \in Chats
  BY <1>2 DEF Runs
<1> HIDE DEF r
<1>5. Passes(u, "send", r)
  BY <1>1, <1>2, <1>3, <1>4, GoesPasses
<1>6. /\ ~Idle(run'[u]) /\ run'[u].todo[1] \in {"set", "take"}
      /\ run'[u].word = run[u].word /\ run'[u].chat = run[u].chat
      /\ \A w \in Updates \ {u} : run'[w] = run[w]
  BY <1>4, <1>5 DEF Passes, Lasts, Link, Follows
<1>7. docked'[run[u].chat] = Docks(run[u].word)
  BY <1>1, <1>4 DEF Typed, StoreTyped
<1>8. Flags(run[u])'
  BY <1>6, <1>7 DEF Flags, At
<1> QED
  BY <1>2, <1>6, <1>8, FlagsStep

LEMMA FlagsSet ==
    ASSUME Typed, Smooth, Smooth', CardsInv, FlagsInv, OneUser, NEW u \in Updates,
           SetActiveSurface(u)
    PROVE  FlagsInv'
<1>1. /\ Doing(u, "set") /\ Goes(u, run[u]) /\ UNCHANGED docked
      /\ surface' = [surface EXCEPT ![run[u].user] = Docks(run[u].word)]
      /\ flagged' = [flagged EXCEPT ![run[u].user] = run[u].chat]
  BY NoFault DEF SetActiveSurface, Swallowed, GoesOn
<1>2. /\ run[u] \in Runs /\ ~Idle(run[u]) /\ run[u].todo[1] = "set" /\ Alone(u) /\ OneAtATime
      /\ run[u].user \in Users /\ run[u].chat \in Chats
  BY <1>1, HandlerAlone, DoingRuns DEF Runs
<1>3. Passes(u, "set", run[u])
  BY <1>1, <1>2, GoesPasses
<1>4. run'[u] = NoRun /\ \A w \in Updates \ {u} : run'[w] = run[w]
  BY <1>3 DEF Passes, Link, Follows
<1>5. docked[run[u].chat] = Docks(run[u].word)
  BY <1>2 DEF FlagsInv, Flags, At
<1>6. \A v \in Users : surface'[v] = docked'[run[u].chat] /\ flagged'[v] = run[u].chat
  BY <1>1, <1>2, <1>5 DEF OneUser, Typed, StoreTyped
<1>7. FlagsFit'
  BY <1>2, <1>6, ChatConstants DEF FlagsFit
<1>8. Flags(run[u])'
  BY <1>4, <1>7 DEF Flags, FlagsFit, At, Idle, NoRun
<1> QED
  BY <1>2, <1>4, <1>8, FlagsStep

LEMMA FlagsClear ==
    ASSUME Typed, Smooth, Smooth', CardsInv, NEW u \in Updates, ClearSurface(u)
    PROVE  FlagsInv'
<1>1. /\ Doing(u, "clear") /\ Goes(u, run[u])
      /\ surface' = [surface EXCEPT ![run[u].user] = "none"]
      /\ flagged' = [flagged EXCEPT ![run[u].user] = run[u].chat]
  BY NoFault DEF ClearSurface, Swallowed, GoesOn
<1>2. /\ run[u] \in Runs /\ Alone(u) /\ OneAtATime /\ run[u].user \in Users
  BY <1>1, HandlerAlone, DoingRuns
<1>3. Passes(u, "clear", run[u])
  BY <1>1, <1>2, GoesPasses
<1>4. /\ ~Idle(run'[u]) /\ run'[u].todo[1] \in {"untrack", "remove"}
      /\ run'[u].user = run[u].user /\ run'[u].chat = run[u].chat
      /\ \A w \in Updates \ {u} : run'[w] = run[w]
  BY <1>3 DEF Passes, Lasts, Link, Follows
<1>5. surface'[run[u].user] = "none" /\ flagged'[run[u].user] = run[u].chat
  BY <1>1, <1>2 DEF Typed, StoreTyped
<1>6. Flags(run[u])'
  BY <1>4, <1>5 DEF Flags, At
<1> QED
  BY <1>2, <1>4, <1>6, FlagsStep

LEMMA FlagsRemove ==
    ASSUME Typed, Smooth, Smooth', CardsInv, FlagsInv, OneUser, NEW u \in Updates,
           SendTextRemovingKeyboard(u)
    PROVE  FlagsInv'
<1>1. /\ Doing(u, "remove") /\ Goes(u, run[u]) /\ UNCHANGED <<surface, flagged>>
      /\ docked' = [docked EXCEPT ![run[u].chat] = "none"]
  BY NoFault DEF SendTextRemovingKeyboard, Swallowed, GoesOn
<1>2. /\ run[u] \in Runs /\ ~Idle(run[u]) /\ run[u].todo[1] = "remove" /\ Alone(u) /\ OneAtATime
      /\ run[u].user \in Users /\ run[u].chat \in Chats
  BY <1>1, HandlerAlone, DoingRuns DEF Runs
<1>3. Passes(u, "remove", run[u])
  BY <1>1, <1>2, GoesPasses
<1>4. run'[u] = NoRun /\ \A w \in Updates \ {u} : run'[w] = run[w]
  BY <1>3 DEF Passes, Link, Follows
<1>5. surface[run[u].user] = "none" /\ flagged[run[u].user] = run[u].chat
  BY <1>2 DEF FlagsInv, Flags, At
<1>6. docked'[run[u].chat] = "none"
  BY <1>1, <1>2 DEF Typed, StoreTyped
<1>7. \A v \in Users : surface'[v] = docked'[run[u].chat] /\ flagged'[v] = run[u].chat
  BY <1>1, <1>2, <1>5, <1>6 DEF OneUser
<1>8. FlagsFit'
  BY <1>2, <1>7, ChatConstants DEF FlagsFit
<1>9. Flags(run[u])'
  BY <1>4, <1>8 DEF Flags, FlagsFit, At, Idle, NoRun
<1> QED
  BY <1>2, <1>4, <1>9, FlagsStep

LEMMA FlagsBegin ==
    ASSUME Smooth, FlagsInv, NEW u \in Updates, Begins(u) PROVE FlagsInv'
<1>1. Alone(u) /\ Flags(run[u])
  BY DEF Begins, FlagsInv
<1>2. FlagsFit
  BY <1>1 DEF Begins, Flags, At
<1>3. ~At(run[u], {"take", "retire", "record", "set"})' /\ ~At(run[u], {"untrack", "remove"})'
  BY DEF Begins, At, Starts
<1>4. Flags(run[u])'
  BY <1>2, <1>3 DEF Begins, Flags, FlagsFit
<1> QED
  BY <1>1, <1>4, FlagsStep DEF Begins

LEMMA BeginsFits ==
    ASSUME Typed, IngressInv, Smooth, PointersInv, NEW u \in Updates, Begins(u) PROVE PointersInv'
BY CardsBegin, FlagsBegin DEF PointersInv

\* Each call of a handler, with what it does to the chat and to the stores.
LEMMA PointersLater ==
    ASSUME Typed, IngressInv, Smooth, Smooth', PointersInv, NEW u \in Updates, Later(u)
    PROVE  PointersInv'
<1> USE DEF Untouched, Tracked
<1>0. CardsInv /\ (OneUser => FlagsInv)
  BY DEF PointersInv
<1>1. CASE BeginLinking(u)
  <2>1. /\ Doing(u, "mint") /\ (GoesOn(u) \/ Throws(u))
        /\ UNCHANGED <<docked, surface, flagged, cards>> /\ Tracked' = Tracked
    BY <1>1 DEF BeginLinking
  <2> QED
    BY <2>1, PlainGoesOn
<1>2. CASE SendPrompt(u)
  <2>1. /\ Doing(u, "prompt") /\ (GoesOn(u) \/ Throws(u))
        /\ UNCHANGED <<docked, surface, flagged, cards>> /\ Tracked' = Tracked
    BY <1>2 DEF SendPrompt
  <2> QED
    BY <2>1, PlainGoesOn
<1>3. CASE HandOver(u)
  <2>1. /\ Doing(u, "hand over") /\ (GoesOn(u) \/ Throws(u))
        /\ UNCHANGED <<docked, surface, flagged, cards>> /\ Tracked' = Tracked
    BY <1>3 DEF HandOver
  <2> QED
    BY <2>1, PlainGoesOn
<1>4. CASE Command(u)
  <2>1. /\ Doing(u, "read command") \/ Doing(u, "persist")
        /\ GoesOn(u) \/ Throws(u)
        /\ UNCHANGED <<docked, surface, flagged, cards>> /\ Tracked' = Tracked
    BY <1>4 DEF Command
  <2> QED
    BY <2>1, PlainGoesOn
<1>5. CASE ReadSchedule(u)
  <2>1. /\ Doing(u, "read") /\ GoesOn(u)
        /\ UNCHANGED <<docked, surface, flagged, cards>> /\ Tracked' = Tracked
    BY <1>5, NoFault DEF ReadSchedule, Swallowed
  <2> QED
    BY <2>1, PlainGoesOn
<1>6. CASE ReadStatus(u)
  <2>1. /\ Doing(u, "status") /\ (GoesOn(u) \/ Throws(u))
        /\ UNCHANGED <<docked, surface, flagged, cards>> /\ Tracked' = Tracked
    BY <1>6 DEF ReadStatus
  <2> QED
    BY <2>1, PlainGoesOn
<1>7. CASE SendTextWithKeyboard(u)
  BY <1>0, <1>7, CardsSend, FlagsSend DEF PointersInv
<1>8. CASE SetActiveSurface(u)
  <2>1. /\ Doing(u, "set") /\ Goes(u, run[u]) /\ UNCHANGED cards /\ Tracked' = Tracked
    BY <1>8 DEF SetActiveSurface, GoesOn, Swallowed
  <2>2. run[u] \in Runs /\ OneAtATime
    BY <1>0, <2>1, HandlerAlone
  <2>3. Passes(u, "set", run[u])
    BY <2>1, <2>2, GoesPasses
  <2>4. CardsInv'
    BY <1>0, <2>1, <2>3, CardsPlain
  <2> QED
    BY <1>0, <1>8, <2>4, FlagsSet DEF PointersInv
<1>9. CASE TakeMenu(u)
  <2>1. /\ Doing(u, "take") /\ Goes(u, [run[u] EXCEPT !.prior = menu[run[u].user]])
        /\ UNCHANGED <<docked, surface, flagged>>
    BY <1>9, NoFault DEF TakeMenu, Swallowed
  <2>2. run[u] \in Runs /\ OneAtATime /\ run[u].user \in Users
    BY <1>0, <2>1, HandlerAlone, DoingRuns
  <2> DEFINE r == [run[u] EXCEPT !.prior = menu[run[u].user]]
  <2>3. r \in Runs
    BY <2>2, LocalsFit DEF Typed, StoreTyped
  <2>4. r.todo = run[u].todo /\ r.word = run[u].word /\ r.chat = run[u].chat /\ r.user = run[u].user
    BY <2>2 DEF Runs
  <2> HIDE DEF r
  <2>5. Passes(u, "take", r)
    BY <2>1, <2>2, <2>3, <2>4, GoesPasses DEF r
  <2>6. OneUser => FlagsInv'
    BY <1>0, <2>1, <2>4, <2>5, FlagsPlain
  <2> QED
    BY <1>0, <1>9, <2>6, CardsTake DEF PointersInv
<1>10. CASE RetireMenu(u)
  <2>1. Doing(u, "retire") /\ Goes(u, run[u]) /\ UNCHANGED <<docked, surface, flagged>>
    BY <1>10 DEF RetireMenu, GoesOn, Swallowed
  <2>2. run[u] \in Runs /\ OneAtATime
    BY <1>0, <2>1, HandlerAlone
  <2>3. Passes(u, "retire", run[u])
    BY <2>1, <2>2, GoesPasses
  <2>4. OneUser => FlagsInv'
    BY <1>0, <2>1, <2>3, FlagsPlain
  <2> QED
    BY <1>0, <1>10, <2>4, CardsRetire DEF PointersInv
<1>11. CASE RecordMenu(u)
  <2>1. Doing(u, "record") /\ Goes(u, run[u]) /\ UNCHANGED <<docked, surface, flagged>>
    BY <1>11 DEF RecordMenu, GoesOn, Swallowed
  <2>2. run[u] \in Runs /\ OneAtATime
    BY <1>0, <2>1, HandlerAlone
  <2>3. Passes(u, "record", run[u])
    BY <2>1, <2>2, GoesPasses
  <2>4. OneUser => FlagsInv'
    BY <1>0, <2>1, <2>3, FlagsPlain
  <2> QED
    BY <1>0, <1>11, <2>4, CardsRecord DEF PointersInv
<1>12. CASE FindLink(u)
  <2> DEFINE r == [run[u] EXCEPT !.row = IF link[run[u].user] = None THEN None ELSE link[run[u].user].id]
  <2>1. /\ Doing(u, "find") /\ Goes(u, r)
        /\ UNCHANGED <<docked, surface, flagged, cards>> /\ Tracked' = Tracked
    BY <1>12, NoFault DEF FindLink
  <2>2. run[u] \in Runs /\ run[u].user \in Users
    BY <2>1, DoingRuns
  <2>3. (IF link[run[u].user] = None THEN None ELSE link[run[u].user].id) \in Ids \cup {None}
    BY <2>2 DEF Typed, StoreTyped, Rows
  <2>4. r \in Runs
    BY <2>2, <2>3, LocalsFit
  <2>5. r.todo = run[u].todo /\ r.word = run[u].word /\ r.chat = run[u].chat /\ r.user = run[u].user
    BY <2>2 DEF Runs
  <2> HIDE DEF r
  <2> QED
    BY <2>1, <2>4, <2>5, PlainCall
<1>13. CASE DeleteLink(u)
  <2>1. /\ Doing(u, "delete") /\ (GoesOn(u) \/ Throws(u))
        /\ UNCHANGED <<docked, surface, flagged, cards>> /\ Tracked' = Tracked
    BY <1>13 DEF DeleteLink
  <2> QED
    BY <2>1, PlainGoesOn
<1>14. CASE ClearSurface(u)
  <2>1. /\ Doing(u, "clear") /\ Goes(u, run[u]) /\ UNCHANGED cards /\ Tracked' = Tracked
    BY <1>14 DEF ClearSurface, GoesOn, Swallowed
  <2>2. run[u] \in Runs /\ OneAtATime
    BY <1>0, <2>1, HandlerAlone
  <2>3. Passes(u, "clear", run[u])
    BY <2>1, <2>2, GoesPasses
  <2>4. CardsInv'
    BY <1>0, <2>1, <2>3, CardsPlain
  <2> QED
    BY <1>0, <1>14, <2>4, FlagsClear DEF PointersInv
<1>15. CASE ClearMenu(u)
  <2>1. /\ Doing(u, "untrack") /\ GoesOn(u) /\ UNCHANGED <<docked, surface, flagged, cards>>
        /\ menu' = [menu EXCEPT ![run[u].user] = None]
        /\ left' = left \cup ({menu[run[u].user]} \ {None})
    BY <1>15, NoFault DEF ClearMenu, Swallowed
  <2>2. run[u].user \in Users
    BY <2>1, DoingRuns
  <2>3. menu'[run[u].user] = None /\ \A v \in Users : v # run[u].user => menu'[v] = menu[v]
    BY <2>1, <2>2 DEF Typed, StoreTyped
  <2>4. Tracked \subseteq Tracked'
    BY <2>1, <2>2, <2>3
  <2> QED
    BY <2>1, <2>4, PlainGoesOn
<1>16. CASE SendTextRemovingKeyboard(u)
  <2>1. /\ Doing(u, "remove") /\ Goes(u, run[u]) /\ UNCHANGED cards /\ Tracked' = Tracked
    BY <1>16 DEF SendTextRemovingKeyboard, GoesOn, Swallowed
  <2>2. run[u] \in Runs /\ OneAtATime
    BY <1>0, <2>1, HandlerAlone
  <2>3. Passes(u, "remove", run[u])
    BY <2>1, <2>2, GoesPasses
  <2>4. CardsInv'
    BY <1>0, <2>1, <2>3, CardsPlain
  <2> QED
    BY <1>0, <1>16, <2>4, FlagsRemove DEF PointersInv
<1> QED
  BY <1>1, <1>2, <1>3, <1>4, <1>5, <1>6, <1>7, <1>8, <1>9, <1>10, <1>11, <1>12, <1>13, <1>14, <1>15, <1>16 DEF Later

\* A step of the queue, or of the app, touches neither.
LEMMA PointersKept ==
    ASSUME Smooth, PointersInv, UNCHANGED <<run, docked, cards, surface, menu, flagged, left>>,
           \A w \in Updates : ~Idle(run[w]) => admitted'[w] = admitted[w],
           \A m \in Ids : Sent(m) => Sent(m)', Typed
    PROVE  PointersInv'
<1>1. CardsInv'
  <2>1. OneAtATime' /\ \A w \in Updates : Alone(w)' => CardsKnown(w)'
    BY DEF PointersInv, CardsInv, OneAtATime, Alone, CardsKnown, Held, Tracked, At, Idle, Id
  <2>2. CardsSent'
    BY DEF PointersInv, CardsInv, CardsSent, Typed, StoreTyped
  <2> QED
    BY <2>1, <2>2 DEF CardsInv
<1>2. OneUser => FlagsInv'
  BY DEF PointersInv, FlagsInv, Flags, FlagsFit, Alone, At, Idle
<1> QED
  BY <1>1, <1>2 DEF PointersInv

\* An update that comes in, or is admitted, or whose key runs out, while nothing went wrong.
LEMMA PointersArrive ==
    ASSUME Typed, IngressInv, IngressInv', Smooth, Smooth', PointersInv,
           NEW u \in Updates, Arrives(u)
    PROVE  PointersInv'
<1> USE DEF IngressInv, IngressTypeOK
<1>1. UNCHANGED <<docked, cards, surface, menu, flagged, left>>
  BY DEF Arrives
<1>2. ~Crash(u)
  BY DEF Crash, Smooth
<1>3. CASE HandleTelegramWebhook(u) \/ KeyExpires(u)
  <2>1. UNCHANGED admitted /\ \A w \in Updates : job'[w] = "handling" <=> job[w] = "handling"
    BY <1>3 DEF HandleTelegramWebhook, Enqueued, KeyExpires, Typed
  <2>2. run' = run
    BY <2>1 DEF Arrives, Typed, RunTyped
  <2>3. \A w \in Updates : KeepsSent(w)
    BY <2>1, <2>2 DEF KeepsSent, Posted, At, Idle
  <2> QED
    BY <1>1, <2>1, <2>2, <2>3, SentStays, PointersKept
<1>4. CASE AcquireDedupe(u)
  <2>1. /\ job[u] = "waiting"
        /\ \/ /\ job' = [job EXCEPT ![u] = "handling"]
              /\ admitted' = [admitted EXCEPT ![u] = @ + 1]
           \/ job' = [job EXCEPT ![u] = "none"] /\ UNCHANGED admitted
    BY <1>4, NoFault DEF AcquireDedupe
  <2>2. run' = run
    BY <2>1 DEF Arrives, Typed, RunTyped
  <2>3. ASSUME NEW w \in Updates PROVE KeepsSent(w)
    <3>1. CASE w # u
      BY <2>1, <2>2, <3>1 DEF KeepsSent, Posted, At, Idle
    <3>2. CASE w = u /\ job' = [job EXCEPT ![u] = "none"] /\ UNCHANGED admitted
      BY <3>2 DEF KeepsSent, Posted, Typed
    <3>3. CASE w = u /\ admitted' = [admitted EXCEPT ![u] = @ + 1]
      BY <3>3 DEF KeepsSent
    <3> QED
      BY <2>1, <3>1, <3>2, <3>3
  <2>4. \A w \in Updates : ~Idle(run[w]) => admitted'[w] = admitted[w]
    BY <2>1, IdleIsNoRun
  <2> QED
    BY <1>1, <2>2, <2>3, <2>4, SentStays, PointersKept
<1> QED
  BY <1>2, <1>3, <1>4 DEF Arrives, Pipeline

LEMMA PointersSteps ==
    ASSUME Typed, IngressInv, PointersInv, [Next]_vars PROVE PointersInv'
<1> SUFFICES ASSUME Smooth' PROVE PointersInv'
  BY DEF PointersInv, CardsInv, FlagsInv
<1>1. Smooth /\ IngressInv'
  BY SmoothBefore, StepIsIngress, IngressSteps
<1>2. ASSUME NEW u \in Updates, Arrives(u) PROVE PointersInv'
  BY <1>1, <1>2, PointersArrive
<1>3. ASSUME NEW u \in Updates, Handler(u) PROVE PointersInv'
  <2>1. CASE Resolve(u)
    BY <1>1, <2>1, ResolveBegins, BeginsFits DEF PointersInv
  <2>2. CASE ClassifyFlow(u)
    BY <1>1, <2>2, ClassifyBegins, BeginsFits DEF PointersInv
  <2>3. CASE Later(u)
    BY <1>1, <2>3, PointersLater
  <2> QED
    BY <1>3, <2>1, <2>2, <2>3, HandlerCases
<1>4. ASSUME UNCHANGED <<run, job, admitted, docked, cards, surface, menu, flagged, left>>
      PROVE  PointersInv'
  <2>1. \A m \in Ids : Sent(m) => Sent(m)'
    BY <1>4 DEF Sent, Posted, At, Idle
  <2> QED
    BY <1>1, <1>4, <2>1, PointersKept
<1>5. ASSUME NEW v \in Users, Request(v) PROVE PointersInv'
  BY <1>4, <1>5, RequestMoves
<1>6. CASE UNCHANGED vars
  BY <1>4, <1>6 DEF vars, chatVars, ingressVars
<1> QED
  BY <1>2, <1>3, <1>5, <1>6 DEF Next

LEMMA PointersStart == Init => PointersInv
<1> SUFFICES ASSUME Init PROVE PointersInv
  OBVIOUS
<1>1. \A u \in Updates : Idle(run[u])
  BY DEF Init, Idle, NoRun
<1>2. CardsInv
  BY <1>1 DEF Init, CardsInv, OneAtATime, CardsSent, CardsKnown, At
<1>3. OneUser => FlagsFit
  BY ChatConstants DEF Init, FlagsFit, OneUser
<1>4. OneUser => FlagsInv
  BY <1>1, <1>3 DEF FlagsInv, Flags, At
<1> QED
  BY <1>2, <1>4 DEF PointersInv

\* While no call failed, no worker died and no two updates were handled at once, whenever no
\* update is being handled the user's flag names the keyboard docked in the chat where a
\* handler last set or cleared it, and a chat holds only cards that are tracked, forgotten by
\* a logout or displaced from another chat. For any updates, chats and requests of the app;
\* for one user, because two who share a chat dock over each other's flag.
THEOREM PointersFitHolds ==
    ASSUME OneUser
    PROVE  Spec => []PointersFit
<1>1. PointersInv /\ Typed => PointersFit
  <2> SUFFICES ASSUME PointersInv, Typed, Smooth, Active = {} PROVE PointersFit
    BY DEF PointersFit
  <2>1. First \in Updates /\ \A u \in Updates : Idle(run[u])
    BY ChatConstants DEF Typed, RunTyped, Active, Idle, NoRun
  <2>2. Alone(First)
    BY <2>1 DEF Alone
  <2>3. CardsKnown(First) /\ Flags(run[First])
    BY <2>1, <2>2 DEF PointersInv, CardsInv, FlagsInv
  <2> QED
    BY <2>1, <2>3 DEF PointersFit, CardsKnown, Held, Tracked, Flags, FlagsFit, At
<1>2. Spec => []PointersInv
  <2>1. ChatInv /\ PointersInv /\ [Next]_vars => PointersInv'
    BY PointersSteps DEF ChatInv
  <2> QED
    BY <2>1, PointersStart, ChatInvariant, PTL DEF Spec
<1>3. ChatInv => Typed
  BY DEF ChatInv
<1> QED
  BY <1>1, <1>2, <1>3, ChatInvariant, PTL
=============================================================================
