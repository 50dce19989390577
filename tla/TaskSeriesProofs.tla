------------------------- MODULE TaskSeriesProofs -------------------------
(***************************************************************************)
(* Proofs about TaskSeries and ConflictGate, for any rows, days and rules. *)
(*                                                                         *)
(* For any number of clients whose requests overlap: the type invariant,   *)
(* the unique live child of a slot, that no occurrence is shown twice,     *)
(* that a child has a parent (Lineage), that a cut conserves what recurs,  *)
(* and that what the user removed keeps its skip (GoneSkipped).            *)
(* For requests that come one at a time (OneClient): children fit their    *)
(* series, what was removed stays away, and a request about one occurrence *)
(* shows in no other.                                                      *)
(* The turn of ConflictGate is one more client, and its gate agrees with   *)
(* the calendar. What the gate found to be free for a call stays free      *)
(* until the call writes or a device races it (CallFits, Cleared), so what *)
(* the write books over is explained.                                      *)
(***************************************************************************)
EXTENDS ConflictGate, TLAPS, FiniteSetTheorems

Table == [Ids -> Row \cup {NoTask}]
ExceptionTable == [Ids \X Days -> Exception \cup {NoException}]

\* No row leaves the table: a deletion is a flag.
Keeps(table) == \A i \in Ids : tasks[i] # NoTask => table[i] # NoTask
-----------------------------------------------------------------------------
(* The rows that the requests compute are rows.                             *)

\* A record of a task that create, a split or an override inserts.
LEMMA TaskType ==
    ASSUME NEW start \in Days, NEW length \in Nat, NEW rule \in Rule \cup {NoRule},
           NEW grouped \in BOOLEAN
    PROVE  Task(start, length, rule, grouped) \in Row
BY SeriesConstants DEF Task, Row, Days

LEMMA SlotType ==
    ASSUME NEW row \in Row, NEW parent \in 0..MaxTask, NEW slot \in Days
    PROVE  [row EXCEPT !.parent = parent, !.slot = slot] \in Row
BY DEF Row

\* A request about a row, or about one slot of it.
LEMMA BlankType == Blank \in Ask
BY SeriesConstants DEF Blank, Ask, Kinds, Fields, Days

LEMMA OnType ==
    ASSUME NEW kind \in Kinds, NEW i \in 0..MaxTask
    PROVE  On(kind, i) \in Ask /\ On(kind, i).task = i /\ On(kind, i).kind = kind
BY BlankType DEF On, Ask

LEMMA AtType ==
    ASSUME NEW kind \in Kinds, NEW i \in Ids, NEW d \in Days
    PROVE  At(kind, i, d) \in Ask /\ At(kind, i, d).task = i /\ At(kind, i, d).kind = kind
<1>1. i \in 0..MaxTask
  BY SeriesConstants DEF Ids
<1> QED
  BY <1>1, BlankType DEF At, Ask

\* A request with a time differs in nothing else.
LEMMA WithTimeIs ==
    ASSUME NEW ask \in Ask, NEW a \in WithTime(ask)
    PROVE  /\ a \in Ask /\ a.task = ask.task /\ a.kind = ask.kind /\ a.slot = ask.slot
           /\ a.field = ask.field /\ a.rule = ask.rule /\ a.flag = ask.flag
           /\ a.day \in Targets /\ a.length \in Lengths
<1>1. PICK t \in Targets \X Lengths : a = [ask EXCEPT !.day = t[1], !.length = t[2]]
  BY DEF WithTime
<1>2. t[1] \in Targets /\ t[1] \in Days /\ t[2] \in Lengths /\ t[2] \in Nat
  BY SeriesConstants
<1> QED
  BY <1>1, <1>2 DEF Ask

\* The requests a client may send are requests about a row.
LEMMA AskType == \A a \in Asks : a \in Ask /\ a.task \in Ids /\ a.kind # "idle"
<1>2. /\ Targets \subseteq Days /\ Lengths \subseteq Nat /\ UserRules \cup {NoRule} \subseteq Rule \cup {NoRule}
      /\ Ids \subseteq 0..MaxTask
  BY SeriesConstants DEF Ids
<1>3. ASSUME NEW kind \in Kinds \ {"idle"}, NEW i \in Ids
      PROVE  On(kind, i) \in Ask /\ On(kind, i).task = i /\ On(kind, i).kind = kind
  BY <1>2, OnType
<1>4. ASSUME NEW kind \in Kinds \ {"idle"}, NEW i \in Ids, NEW d \in Days
      PROVE  At(kind, i, d) \in Ask /\ At(kind, i, d).task = i /\ At(kind, i, d).kind = kind
  BY AtType
<1>5. ASSUME NEW i \in Ids, NEW a \in EditsOf(i)
      PROVE  a \in Ask /\ a.task = i /\ a.kind # "idle"
  <2>1. On("update", i) \in Ask /\ On("update", i).task = i /\ On("update", i).kind = "update"
    BY <1>3 DEF Kinds
  <2>2. CASE a = On("update", i)
    BY <2>1, <2>2
  <2>3. CASE \E b \in BOOLEAN : a = [On("update", i) EXCEPT !.field = "group", !.flag = b]
    BY <2>1, <2>3 DEF Ask, Fields
  <2>4. CASE a \in WithTime([On("update", i) EXCEPT !.field = "start"])
    <3>1. /\ [On("update", i) EXCEPT !.field = "start"] \in Ask
          /\ [On("update", i) EXCEPT !.field = "start"].task = i
          /\ [On("update", i) EXCEPT !.field = "start"].kind = "update"
      BY <2>1 DEF Ask, Fields
    <3> QED
      BY <2>4, <3>1, WithTimeIs
  <2>5. CASE \E r \in UserRules \cup {NoRule} :
                a = [On("update", i) EXCEPT !.field = "rule", !.rule = r]
    BY <1>2, <2>1, <2>5 DEF Ask, Fields
  <2> QED
    BY <1>5, <2>2, <2>3, <2>4, <2>5 DEF EditsOf
<1>6. ASSUME NEW i \in Ids, NEW a \in RowAsks(i)
      PROVE  a \in Ask /\ a.task = i /\ a.kind # "idle"
  <2>1. PICK kind \in {"complete", "remove"}, b \in BOOLEAN : a = [On(kind, i) EXCEPT !.flag = b]
    BY <1>6 DEF RowAsks
  <2>2. On(kind, i) \in Ask /\ On(kind, i).task = i /\ On(kind, i).kind = kind
    BY <1>3 DEF Kinds
  <2> QED
    BY <2>1, <2>2 DEF Ask
<1>7. ASSUME NEW i \in Ids, NEW d \in Days, NEW a, a \in SlotAsks(i, d)
      PROVE  a \in Ask /\ a.task = i /\ a.kind # "idle"
  <2>1. \A kind \in Kinds \ {"idle"} :
           At(kind, i, d) \in Ask /\ At(kind, i, d).task = i /\ At(kind, i, d).kind = kind
    BY <1>4
  <2>2. CASE \E b \in BOOLEAN : a = [At("completeOccurrence", i, d) EXCEPT !.flag = b]
    <3>1. /\ At("completeOccurrence", i, d) \in Ask /\ At("completeOccurrence", i, d).task = i
          /\ At("completeOccurrence", i, d).kind = "completeOccurrence"
      BY <2>1 DEF Kinds
    <3> QED
      BY <2>2, <3>1 DEF Ask
  <2>3. CASE \E kind \in {"skip", "override", "split", "end"} : a = At(kind, i, d)
    BY <2>1, <2>3 DEF Kinds
  <2>4. CASE \E kind \in {"move", "override", "split"} :
                a \in WithTime([At(kind, i, d) EXCEPT !.flag = TRUE])
    <3>1. PICK kind \in {"move", "override", "split"} :
             a \in WithTime([At(kind, i, d) EXCEPT !.flag = TRUE])
      BY <2>4
    <3>2. At(kind, i, d) \in Ask /\ At(kind, i, d).task = i /\ At(kind, i, d).kind = kind
      BY <2>1 DEF Kinds
    <3>3. /\ [At(kind, i, d) EXCEPT !.flag = TRUE] \in Ask
          /\ [At(kind, i, d) EXCEPT !.flag = TRUE].task = i
          /\ [At(kind, i, d) EXCEPT !.flag = TRUE].kind = kind
      BY <3>2 DEF Ask
    <3> QED
      BY <3>1, <3>3, WithTimeIs
  <2>5. \/ \E b \in BOOLEAN : a = [At("completeOccurrence", i, d) EXCEPT !.flag = b]
        \/ \E kind \in {"skip", "override", "split", "end"} : a = At(kind, i, d)
        \/ \E kind \in {"move", "override", "split"} :
               a \in WithTime([At(kind, i, d) EXCEPT !.flag = TRUE])
    BY <1>7 DEF SlotAsks
  <2> QED
    BY <2>2, <2>3, <2>4, <2>5
<1> QED
  <2> SUFFICES ASSUME NEW a \in Asks PROVE a \in Ask /\ a.task \in Ids /\ a.kind # "idle"
    OBVIOUS
  <2>1. PICK i \in Ids : \/ a \in EditsOf(i) \/ a \in RowAsks(i)
                        \/ \E d \in Days : a \in SlotAsks(i, d)
    BY DEF Asks
  <2> QED
    BY <1>5, <1>6, <1>7, <2>1

LEMMA LimitType ==
    ASSUME NEW r \in Rule, NEW n \in Int, NEW e \in {"never", "count", "until"}
    PROVE  [r EXCEPT !.end = e, !.limit = n] \in Rule /\ [r EXCEPT !.limit = n] \in Rule
BY DEF Rule

\* What a split leaves of the rule is a rule.
LEMMA RuleType ==
    ASSUME NEW row \in Row, row.rule # NoRule, NEW slot \in Days
    PROVE  Until(row.rule, slot) \in Rule /\ SplitRule(row, slot) \in Rule
<1>1. row.rule \in Rule /\ slot \in Int /\ row.rule.limit \in Int
  BY SeriesConstants DEF Row, Rule, Days
<1>2. Until(row.rule, slot) \in Rule
  <2>1. slot - 1 \in Int
    BY <1>1
  <2> QED
    BY <1>1, <2>1, LimitType DEF Until
<1>3. CountBefore(row, slot) \in Nat
  <2>1. IsFiniteSet(Days)
    BY FS_Interval, SeriesConstants DEF Days
  <2>2. {d \in Generated(row, row.rule) : d < slot} \subseteq Days
    BY DEF Generated
  <2> QED
    BY <2>1, <2>2, FS_Subset, FS_CardinalityType DEF CountBefore
<1>4. SplitRule(row, slot) \in Rule
  <2> DEFINE left == row.rule.limit - CountBefore(row, slot)
  <2>1. (IF left > 0 THEN left ELSE 0) \in Int
    BY <1>1, <1>3
  <2> HIDE DEF left
  <2>2. [row.rule EXCEPT !.limit = IF left > 0 THEN left ELSE 0] \in Rule
    BY <1>1, <2>1, LimitType
  <2> QED
    BY <1>1, <2>2 DEF SplitRule, left
<1> QED
  BY <1>2, <1>4

\* The requests keep the type of the rows they save.
LEMMA SavedType ==
    ASSUME TypeOK, NEW i \in Ids, NEW row \in Row
    PROVE  Saved(i, row) \in Table /\ Keeps(Saved(i, row))
BY SeriesConstants DEF TypeOK, Saved, Table, Keeps

LEMMA SweptType ==
    ASSUME NEW table \in Table, Keeps(table), NEW i
    PROVE  Swept(table, i) \in Table /\ Keeps(Swept(table, i))
<1>1. ASSUME NEW k \in Ids
      PROVE  Swept(table, i)[k] \in Row \cup {NoTask}
             /\ (table[k] # NoTask => Swept(table, i)[k] # NoTask)
  <2> DEFINE flag == table[k].slot \notin Generated(table[i], Effective(table[i]))
             detaches == table[k] # NoTask /\ ~table[k].deleted /\ table[k].parent = i
  <2>1. Swept(table, i)[k] = IF detaches THEN [table[k] EXCEPT !.detached = flag] ELSE table[k]
    BY DEF Swept
  <2>2. flag \in BOOLEAN
    OBVIOUS
  <2>3. table[k] # NoTask => [table[k] EXCEPT !.detached = flag] \in Row
    <3> HIDE DEF flag
    <3> QED
      BY <2>2 DEF Table, Row
  <2> HIDE DEF flag
  <2> QED
    BY <2>1, <2>3, SeriesConstants DEF Table
<1>2. Swept(table, i) = [k \in Ids |-> Swept(table, i)[k]]
  BY DEF Swept
<1> QED
  BY <1>1, <1>2 DEF Table, Keeps
-----------------------------------------------------------------------------
(* What a request reads, and how it ends.                                   *)

\* A request under way is about an existing row and has read a row.
LEMMA RequestType ==
    ASSUME TypeOK, NEW c \in Clients, req[c].ask.kind # "idle"
    PROVE  /\ req[c].ask \in Ask /\ req[c].ask.task \in Ids
           /\ req[c].ask.slot \in Days /\ req[c].ask.day \in Days /\ req[c].ask.length \in Nat
           /\ req[c].ask.rule \in Rule \cup {NoRule} /\ req[c].ask.flag \in BOOLEAN
           /\ req[c].row \in Row /\ req[c].child \in 0..MaxTask
           /\ tasks[req[c].ask.task] \in Row
<1>1. req[c].ask \in Ask /\ req[c].child \in 0..MaxTask
  BY DEF TypeOK
<1>2. req[c].ask.task \in Ids /\ tasks[req[c].ask.task] # NoTask /\ req[c].row # NoTask
  BY DEF TypeOK
<1>3. req[c].row \in Row /\ tasks[req[c].ask.task] \in Row
  BY <1>2 DEF TypeOK
<1> QED
  BY <1>1, <1>2, <1>3 DEF Ask

\* A live row is a row.
LEMMA LiveType == ASSUME TypeOK, NEW i \in Ids, Live(i) PROVE tasks[i] \in Row
BY DEF TypeOK, Live

LEMMA ChildType ==
    ASSUME TypeOK, NEW i, NEW slot
    PROVE  /\ ChildAt(i, slot) \in 0..MaxTask
           /\ ChildAt(i, slot) # 0 =>
                 ChildAt(i, slot) \in Ids /\ tasks[ChildAt(i, slot)] \in Row
<1> DEFINE found == {k \in Children(i) : tasks[k].slot = slot}
<1>1. CASE found = {}
  BY <1>1, SeriesConstants DEF ChildAt
<1>2. CASE found # {}
  <2>1. ChildAt(i, slot) \in found
    BY <1>2 DEF ChildAt
  <2>2. ChildAt(i, slot) \in Ids /\ Live(ChildAt(i, slot))
    BY <2>1 DEF Children
  <2> QED
    BY <2>2, LiveType, SeriesConstants DEF Ids
<1> QED
  BY <1>1, <1>2

LEMMA ExceptionType ==
    ASSUME TypeOK, NEW k \in Ids \X Days
    PROVE  ExceptionAt(k) \in Exception
<1>1. EmptyException \in Exception
  BY DEF EmptyException, Exception
<1>2. exceptions[k] \in Exception \cup {NoException}
  BY DEF TypeOK
<1> QED
  BY <1>1, <1>2 DEF ExceptionAt

\* The end of a request keeps the types when its tables are typed.
LEMMA Settle ==
    ASSUME TypeOK, NEW c \in Clients, Reply(c),
           tasks' \in Table, Keeps(tasks'), exceptions' \in ExceptionTable,
           UNCHANGED <<groupRule, served>>, gone' \subseteq Ids \X Days, asked' \subseteq Ids
    PROVE  TypeOK'
<1>1. Idle \in [ask: Ask, row: Row \cup {NoTask}, child: 0..MaxTask] /\ Idle.ask.kind = "idle"
  <2>1. Blank \in Ask /\ Blank.kind = "idle"
    BY SeriesConstants DEF Blank, Ask, Kinds, Fields, Days
  <2> QED
    BY <2>1, SeriesConstants DEF Idle
<1>2. req' \in [Clients -> [ask: Ask, row: Row \cup {NoTask}, child: 0..MaxTask]]
  BY <1>1 DEF TypeOK, Reply
<1>3. \A d \in Clients : req'[d].ask.kind # "idle" => d # c /\ req'[d] = req[d]
  BY <1>1 DEF TypeOK, Reply
<1>4. \A d \in Clients : req'[d].ask.kind # "idle" =>
           /\ req'[d].ask.task \in Ids /\ tasks'[req'[d].ask.task] # NoTask
           /\ req'[d].row # NoTask
  BY <1>3 DEF TypeOK, Keeps
<1> QED
  BY <1>2, <1>4 DEF TypeOK, Table, ExceptionTable

\* The tables as they are, or as a commit leaves them, are typed.
LEMMA TablesType ==
    ASSUME TypeOK
    PROVE  /\ tasks \in Table /\ Keeps(tasks) /\ exceptions \in ExceptionTable
           /\ gone \subseteq Ids \X Days /\ asked \subseteq Ids
BY DEF TypeOK, Table, Keeps, ExceptionTable

LEMMA FailType == ASSUME TypeOK, NEW c \in Clients, Fail(c) PROVE TypeOK'
BY TablesType, Settle DEF Fail, Keeps

LEMMA CommitType ==
    ASSUME TypeOK, NEW c \in Clients, NEW table \in Table, Keeps(table), Commit(c, table)
    PROVE  Reply(c) /\ tasks' \in Table /\ Keeps(tasks')
BY TablesType DEF Commit, Keeps

LEMMA CommitExceptionType ==
    ASSUME TypeOK, NEW c \in Clients, NEW k \in Ids \X Days,
           NEW e \in Exception \cup {NoException}, CommitException(c, k, e)
    PROVE  Reply(c) /\ exceptions' \in ExceptionTable
BY TablesType DEF CommitException, ExceptionTable
-----------------------------------------------------------------------------
(* The service methods keep the types.                                      *)

LEMMA UpdateRowType ==
    ASSUME TypeOK, NEW c \in Clients, NEW i \in Ids, NEW row \in Row,
           NEW ask, ask.day \in Days, ask.length \in Nat,
           ask.rule \in Rule \cup {NoRule}, ask.flag \in BOOLEAN,
           UpdateRow(c, i, row, ask)
    PROVE  TypeOK'
<1> DEFINE next == Edited(row, ask)
           ruleInputsChanged ==
               /\ row.parent = 0
               /\ \/ next.start # row.start \/ next.rule # row.rule \/ next.grouped # row.grouped
                  \/ ask.field = "rule" /\ ask.rule # NoRule
           saves == next # row \/ ruleInputsChanged \/ ask.field = "title"
           table == IF ruleInputsChanged THEN Swept(Saved(i, next), i)
                    ELSE IF saves THEN Saved(i, next) ELSE tasks
<1>1. next \in Row
  BY DEF Edited, Row
<1>2. table \in Table /\ Keeps(table)
  <2>1. Saved(i, next) \in Table /\ Keeps(Saved(i, next))
    BY <1>1, SavedType
  <2>2. Swept(Saved(i, next), i) \in Table /\ Keeps(Swept(Saved(i, next), i))
    BY <2>1, SweptType
  <2> HIDE DEF next
  <2> QED
    BY <2>1, <2>2, TablesType
<1>3. CASE Fail(c)
  BY <1>3, FailType
<1>4. CASE Commit(c, table) /\ UNCHANGED <<exceptions, groupRule, served, gone, asked>>
  <2> HIDE DEF table
  <2> QED
    BY <1>2, <1>4, CommitType, TablesType, Settle
<1> QED
  BY <1>3, <1>4 DEF UpdateRow

LEMMA CompleteRowType ==
    ASSUME TypeOK, NEW c \in Clients, NEW i \in Ids, NEW row \in Row, NEW done \in BOOLEAN,
           CompleteRow(c, i, row, done)
    PROVE  TypeOK'
<1>1. [row EXCEPT !.done = done] \in Row
  BY DEF Row
<1> DEFINE table == IF row.done # done THEN Saved(i, [row EXCEPT !.done = done]) ELSE tasks
<1>2. table \in Table /\ Keeps(table)
  BY <1>1, SavedType, TablesType
<1>3. Commit(c, table) /\ UNCHANGED <<exceptions, groupRule, served, gone, asked>>
  BY DEF CompleteRow
<1> HIDE DEF table
<1> QED
  BY <1>2, <1>3, CommitType, TablesType, Settle

LEMMA CompleteTaskType ==
    ASSUME TypeOK, NEW c \in Clients, NEW i \in Ids, NEW done \in BOOLEAN,
           CompleteTask(c, i, done)
    PROVE  TypeOK'
BY CompleteRowType, LiveType, FailType DEF CompleteTask

LEMMA RemoveSeriesType ==
    ASSUME TypeOK, NEW c \in Clients, NEW i \in Ids, NEW row \in Row,
           RemoveSeries(c, i, row), asked' \subseteq Ids
    PROVE  TypeOK'
<1> DEFINE table == [k \in Ids |-> IF k = i THEN [row EXCEPT !.deleted = TRUE]
                                  ELSE IF k \in Children(i)
                                  THEN [tasks[k] EXCEPT !.deleted = TRUE]
                                  ELSE tasks[k]]
<1>1. [row EXCEPT !.deleted = TRUE] \in Row
  BY DEF Row
<1>2. \A k \in Children(i) : [tasks[k] EXCEPT !.deleted = TRUE] \in Row
  <2> SUFFICES ASSUME NEW k \in Children(i) PROVE [tasks[k] EXCEPT !.deleted = TRUE] \in Row
    OBVIOUS
  <2>1. tasks[k] \in Row
    BY LiveType DEF Children
  <2> QED
    BY <2>1 DEF Row
<1>3. table \in Table /\ Keeps(table)
  BY <1>1, <1>2, TablesType, SeriesConstants DEF Table, Keeps
<1>4. Commit(c, table) /\ UNCHANGED <<exceptions, groupRule, served, gone>>
  BY DEF RemoveSeries
<1> HIDE DEF table
<1> QED
  BY <1>3, <1>4, CommitType, TablesType, Settle

LEMMA RemoveChildType ==
    ASSUME TypeOK, NEW c \in Clients, NEW i \in Ids, NEW row \in Row, row.parent # 0,
           NEW revert \in BOOLEAN, RemoveChild(c, i, row, revert)
    PROVE  TypeOK'
<1> DEFINE k == <<row.parent, row.slot>>
           e == IF ~revert THEN [ExceptionAt(k) EXCEPT !.skip = TRUE]
                ELSE IF row.done THEN [ExceptionAt(k) EXCEPT !.done = TRUE]
                ELSE exceptions[k]
<1>1. k \in Ids \X Days
  BY SeriesConstants DEF Row, Ids
<1>2. e \in Exception \cup {NoException}
  <2>1. ExceptionAt(k) \in Exception
    BY <1>1, ExceptionType
  <2>2. /\ [ExceptionAt(k) EXCEPT !.skip = TRUE] \in Exception
        /\ [ExceptionAt(k) EXCEPT !.done = TRUE] \in Exception
    BY <2>1 DEF Exception
  <2>3. exceptions[k] \in Exception \cup {NoException}
    BY <1>1 DEF TypeOK
  <2> QED
    BY <2>2, <2>3
<1>3. Saved(i, [row EXCEPT !.deleted = TRUE]) \in Table
      /\ Keeps(Saved(i, [row EXCEPT !.deleted = TRUE]))
  <2>1. [row EXCEPT !.deleted = TRUE] \in Row
    BY DEF Row
  <2> QED
    BY <2>1, SavedType
<1>4. /\ CommitException(c, k, e) /\ tasks' = Saved(i, [row EXCEPT !.deleted = TRUE])
      /\ gone' = (IF revert THEN gone ELSE gone \cup {k})
      /\ UNCHANGED <<groupRule, served, asked>>
  BY DEF RemoveChild
<1> HIDE DEF k, e
<1>5. gone' \subseteq Ids \X Days
  BY <1>1, <1>4, TablesType
<1>6. Reply(c) /\ exceptions' \in ExceptionTable
  BY <1>1, <1>2, <1>4, CommitExceptionType
<1>7. tasks' \in Table /\ Keeps(tasks')
  BY <1>3, <1>4
<1> QED
  BY <1>4, <1>5, <1>6, <1>7, TablesType, Settle
-----------------------------------------------------------------------------
(* Each action keeps the types.                                             *)

LEMMA LoadKeepsType == ASSUME TypeOK, NEW c \in Clients, Load(c) PROVE TypeOK'
<1>1. PICK a \in Asks :
        /\ Live(a.task)
        /\ req' = [req EXCEPT ![c] =
               [ask |-> a, row |-> tasks[a.task],
                child |-> IF a.kind \in {"completeOccurrence", "skip", "move"}
                          THEN ChildAt(a.task, a.slot) ELSE 0]]
  BY DEF Load
<1> DEFINE child == IF a.kind \in {"completeOccurrence", "skip", "move"}
                    THEN ChildAt(a.task, a.slot) ELSE 0
<1>2. a \in Ask /\ a.task \in Ids /\ a.kind # "idle"
  BY AskType
<1>3. tasks[a.task] \in Row /\ tasks[a.task] # NoTask
  BY <1>1, <1>2, LiveType, SeriesConstants
<1>4. child \in 0..MaxTask
  BY ChildType, SeriesConstants
<1> HIDE DEF child
<1>5. req' = [req EXCEPT ![c] = [ask |-> a, row |-> tasks[a.task], child |-> child]]
  BY <1>1 DEF child
<1>6. req' \in [Clients -> [ask: Ask, row: Row \cup {NoTask}, child: 0..MaxTask]]
  BY <1>2, <1>3, <1>4, <1>5 DEF TypeOK
<1>7. \A d \in Clients : req'[d].ask.kind # "idle" =>
         req'[d].ask.task \in Ids /\ tasks[req'[d].ask.task] # NoTask /\ req'[d].row # NoTask
  BY <1>2, <1>3, <1>5 DEF TypeOK
<1>8. served' \in 0..MaxRequests
  BY SeriesConstants DEF Load, TypeOK
<1>9. UNCHANGED <<tasks, exceptions, groupRule, gone, asked>>
  BY DEF Load
<1> QED
  BY <1>6, <1>7, <1>8, <1>9 DEF TypeOK

LEMMA UpdateKeepsType == ASSUME TypeOK, NEW c \in Clients, Update(c) PROVE TypeOK'
<1>1. req[c].ask.kind # "idle" /\ UpdateRow(c, req[c].ask.task, req[c].row, req[c].ask)
  BY DEF Update
<1>2. /\ req[c].ask.task \in Ids /\ req[c].row \in Row /\ req[c].ask.day \in Days /\ req[c].ask.length \in Nat
      /\ req[c].ask.rule \in Rule \cup {NoRule} /\ req[c].ask.flag \in BOOLEAN
  BY <1>1, RequestType
<1> QED
  BY <1>1, <1>2, UpdateRowType

LEMMA SetCompletedKeepsType == ASSUME TypeOK, NEW c \in Clients, SetCompleted(c) PROVE TypeOK'
<1>1. /\ req[c].ask.kind # "idle"
      /\ CompleteRow(c, req[c].ask.task, req[c].row, req[c].ask.flag)
  BY DEF SetCompleted
<1> QED
  BY <1>1, RequestType, CompleteRowType

LEMMA SetOccurrenceCompletedKeepsType ==
    ASSUME TypeOK, NEW c \in Clients, SetOccurrenceCompleted(c) PROVE TypeOK'
<1> DEFINE ask == req[c].ask  k == <<ask.task, ask.slot>>
           e == [ExceptionAt(k) EXCEPT !.done = ask.flag]
<1>1. ask.kind # "idle"
  BY DEF SetOccurrenceCompleted
<1>2. CASE CompleteTask(c, ask.task, ask.flag)
  BY <1>1, <1>2, RequestType, CompleteTaskType
<1>3. CASE req[c].child # 0 /\ CompleteTask(c, req[c].child, ask.flag)
  <2>1. req[c].child \in Ids
    BY <1>1, <1>3, RequestType, SeriesConstants DEF Ids
  <2> QED
    BY <1>1, <1>3, <2>1, RequestType, CompleteTaskType
<1>4. CASE CommitException(c, k, e) /\ UNCHANGED <<tasks, groupRule, served, gone, asked>>
  <2>1. k \in Ids \X Days /\ ask.flag \in BOOLEAN
    BY <1>1, RequestType
  <2>2. e \in Exception
    <3>1. ExceptionAt(k) \in Exception
      BY <2>1, ExceptionType
    <3> QED
      BY <2>1, <3>1 DEF Exception
  <2> HIDE DEF k, e
  <2>3. Reply(c) /\ exceptions' \in ExceptionTable
    BY <1>4, <2>1, <2>2, CommitExceptionType
  <2> QED
    BY <1>4, <2>3, TablesType, Settle DEF Keeps
<1> QED
  BY <1>2, <1>3, <1>4 DEF SetOccurrenceCompleted

\* The exception of a skip or a move.
LEMMA WriteExceptionKeepsType ==
    ASSUME TypeOK, NEW c \in Clients, NEW k \in Ids \X Days, NEW e \in Exception,
           CommitException(c, k, e), UNCHANGED <<tasks, groupRule, served, asked>>,
           gone' = gone \/ gone' = gone \cup {k}
    PROVE  TypeOK'
<1>1. Reply(c) /\ exceptions' \in ExceptionTable
  BY CommitExceptionType
<1>2. gone' \subseteq Ids \X Days
  BY TablesType
<1> QED
  BY <1>1, <1>2, TablesType, Settle DEF Keeps

LEMMA CollapseSkipType ==
    ASSUME TypeOK, NEW c \in Clients, NEW i \in Ids, CollapseSkip(c, i) PROVE TypeOK'
<1>1. CASE Fail(c)
  BY <1>1, FailType
<1>2. CASE Live(i) /\ tasks[i].parent # 0 /\ RemoveChild(c, i, tasks[i], FALSE)
  BY <1>2, LiveType, RemoveChildType
<1>3. CASE /\ Live(i) /\ RemoveSeries(c, i, tasks[i])
           /\ asked' = IF Effective(tasks[i]) = NoRule THEN asked \cup {i} ELSE asked
  BY <1>3, LiveType, TablesType, RemoveSeriesType
<1> QED
  BY <1>1, <1>2, <1>3 DEF CollapseSkip

LEMMA SkipKeepsType == ASSUME TypeOK, NEW c \in Clients, SkipOccurrence(c) PROVE TypeOK'
<1> DEFINE ask == req[c].ask  k == <<ask.task, ask.slot>>
<1>1. ask.kind # "idle"
  BY DEF SkipOccurrence
<1>2. k \in Ids \X Days
  BY <1>1, RequestType
<1>3. [ExceptionAt(k) EXCEPT !.skip = TRUE] \in Exception
  <2>1. ExceptionAt(k) \in Exception
    BY <1>2, ExceptionType
  <2> QED
    BY <2>1 DEF Exception
<1>4. \/ CollapseSkip(c, ask.task)
      \/ Fail(c)
      \/ /\ CommitException(c, k, [ExceptionAt(k) EXCEPT !.skip = TRUE])
         /\ gone' = gone \cup {k}
         /\ UNCHANGED <<tasks, groupRule, served, asked>>
  BY DEF SkipOccurrence
<1> QED
  BY <1>1, <1>2, <1>3, <1>4, RequestType, CollapseSkipType, FailType, WriteExceptionKeepsType

LEMMA MoveKeepsType == ASSUME TypeOK, NEW c \in Clients, MoveOccurrence(c) PROVE TypeOK'
<1> DEFINE ask == req[c].ask  k == <<ask.task, ask.slot>>
           edit == [ask EXCEPT !.field = "start"]
<1>1. ask.kind # "idle"
  BY DEF MoveOccurrence
<1>2. k \in Ids \X Days /\ ask \in Ask /\ ask.task \in Ids /\ ask.day \in Days /\ ask.length \in Nat
  BY <1>1, RequestType
<1>3. [ExceptionAt(k) EXCEPT !.at = ask.day, !.length = ask.length] \in Exception
  <2>1. ExceptionAt(k) \in Exception
    BY <1>2, ExceptionType
  <2> QED
    BY <1>2, <2>1 DEF Exception
<1>4. /\ edit.day \in Days /\ edit.length \in Nat /\ edit.rule \in Rule \cup {NoRule}
      /\ edit.flag \in BOOLEAN
  BY <1>2 DEF Ask
<1>5. \/ Live(ask.task) /\ UpdateRow(c, ask.task, tasks[ask.task], edit)
      \/ Fail(c)
      \/ /\ CommitException(c, k, [ExceptionAt(k) EXCEPT !.at = ask.day, !.length = ask.length])
         /\ UNCHANGED <<tasks, groupRule, served, gone, asked>>
  BY DEF MoveOccurrence
<1> HIDE DEF edit
<1>6. CASE Live(ask.task) /\ UpdateRow(c, ask.task, tasks[ask.task], edit)
  <2>1. tasks[ask.task] \in Row
    BY <1>2, <1>6, LiveType
  <2> QED
    BY <1>2, <1>4, <1>6, <2>1, UpdateRowType
<1> QED
  BY <1>2, <1>3, <1>5, <1>6, FailType, WriteExceptionKeepsType

LEMMA RemoveKeepsType == ASSUME TypeOK, NEW c \in Clients, Remove(c) PROVE TypeOK'
<1>1. req[c].ask.kind # "idle"
  BY DEF Remove
<1>2. req[c].ask.task \in Ids /\ req[c].row \in Row /\ req[c].ask.flag \in BOOLEAN
  BY <1>1, RequestType
<1>3. CASE RemoveSeries(c, req[c].ask.task, req[c].row) /\ asked' = asked \cup {req[c].ask.task}
  BY <1>2, <1>3, TablesType, RemoveSeriesType
<1>4. CASE /\ req[c].row.parent # 0
           /\ RemoveChild(c, req[c].ask.task, req[c].row, req[c].ask.flag)
  BY <1>2, <1>4, RemoveChildType
<1> QED
  BY <1>3, <1>4 DEF Remove, RemoveRow

LEMMA OverrideKeepsType ==
    ASSUME TypeOK, NEW c \in Clients, CreateOrUpdateOverride(c) PROVE TypeOK'
<1> DEFINE ask == req[c].ask  k == <<ask.task, ask.slot>>  parent == req[c].row
           existing == ChildAt(ask.task, ask.slot)
           id == IF existing # 0 THEN existing ELSE FreeId
           base == IF existing # 0 THEN tasks[existing] ELSE NewChild(ask.task, parent, ask.slot)
           child == Absorbed(base, exceptions[k])
           patched == IF ask.flag THEN [child EXCEPT !.start = ask.day, !.length = ask.length] ELSE child
<1>1. ask.kind # "idle"
  BY DEF CreateOrUpdateOverride
<1>2. /\ k \in Ids \X Days /\ ask.task \in Ids /\ ask.slot \in Days /\ ask.day \in Days
      /\ ask.length \in Nat /\ parent \in Row
  BY <1>1, RequestType
<1>3. CASE Fail(c)
  BY <1>3, FailType
<1>4. CASE /\ existing = 0 => HasFreeId
           /\ CommitException(c, k, NoException) /\ tasks' = Saved(id, patched)
           /\ gone' = gone \ {k} /\ UNCHANGED <<groupRule, served, asked>>
  <2>1. id \in Ids
    BY <1>4, ChildType DEF HasFreeId, FreeId
  <2>2. base \in Row
    <3>1. Task(ask.slot, parent.length, NoRule, parent.grouped) \in Row
      BY <1>2, TaskType DEF Row
    <3>2. NewChild(ask.task, parent, ask.slot) \in Row
      <4>1. ask.task \in 0..MaxTask
        BY <1>2, SeriesConstants DEF Ids
      <4> QED
        BY <1>2, <3>1, <4>1, SlotType DEF NewChild
    <3>3. existing # 0 => tasks[existing] \in Row
      BY ChildType
    <3> HIDE DEF existing, ask, parent
    <3> QED
      BY <3>2, <3>3
  <2>3. exceptions[k] \in Exception \cup {NoException}
    BY <1>2 DEF TypeOK
  <2>4. child \in Row
    <3> HIDE DEF base, k
    <3>1. CASE exceptions[k] = NoException
      BY <2>2, <3>1 DEF Absorbed
    <3>2. CASE exceptions[k] # NoException
      <4>1. exceptions[k] \in Exception
        BY <2>3, <3>2
      <4>2. (IF exceptions[k].at # NoDay THEN exceptions[k].at ELSE base.start) \in Days
        BY <2>2, <4>1 DEF Exception, Row
      <4>3. (base.done \/ exceptions[k].done) \in BOOLEAN
        OBVIOUS
      <4>4. (IF exceptions[k].at # NoDay THEN exceptions[k].length ELSE base.length) \in Nat
        BY <2>2, <4>1 DEF Exception, Row
      <4> QED
        BY <2>2, <3>2, <4>2, <4>3, <4>4 DEF Absorbed, Row
    <3> QED
      BY <3>1, <3>2
  <2>5. patched \in Row
    <3> HIDE DEF child
    <3> QED
      BY <1>2, <2>4 DEF Row
  <2> HIDE DEF patched, id
  <2>6. tasks' \in Table /\ Keeps(tasks')
    BY <1>4, <2>1, <2>5, SavedType
  <2>7. Reply(c) /\ exceptions' \in ExceptionTable
    BY <1>2, <1>4, CommitExceptionType
  <2>8. gone' \subseteq Ids \X Days
    BY <1>4, TablesType
  <2> QED
    BY <1>4, <2>6, <2>7, <2>8, TablesType, Settle
<1> QED
  BY <1>3, <1>4 DEF CreateOrUpdateOverride

LEMMA SplitKeepsType == ASSUME TypeOK, NEW c \in Clients, SplitSeries(c) PROVE TypeOK'
<1> DEFINE ask == req[c].ask  i == ask.task  row == req[c].row
           ended == [row EXCEPT !.rule = Until(row.rule, ask.slot)]
           new == Task(IF ask.flag THEN ask.day ELSE ask.slot,
                       IF ask.flag THEN ask.length ELSE row.length,
                       SplitRule(row, ask.slot), row.grouped)
           edit == [ask EXCEPT !.field = IF ask.flag THEN "start" ELSE "title"]
           table == Swept([tasks EXCEPT ![i] = ended, ![FreeId] = new], i)
           added == {<<FreeId, d>> : d \in {e \in Days : e >= ask.slot /\ <<i, e>> \in gone}}
<1>1. ask.kind # "idle"
  BY DEF SplitSeries
<1>2. /\ ask \in Ask /\ i \in Ids /\ ask.slot \in Days /\ ask.day \in Days
      /\ ask.length \in Nat /\ row \in Row
  BY <1>1, RequestType
<1>3. CASE Fail(c)
  BY <1>3, FailType
<1>4. CASE Live(i) /\ UpdateRow(c, i, tasks[i], edit)
  <2>1. tasks[i] \in Row
    BY <1>2, <1>4, LiveType
  <2>2. edit.day \in Days /\ edit.length \in Nat /\ edit.rule \in Rule \cup {NoRule} /\ edit.flag \in BOOLEAN
    BY <1>2 DEF Ask
  <2> HIDE DEF edit
  <2> QED
    BY <1>2, <1>4, <2>1, <2>2, UpdateRowType
<1>5. CASE /\ row.rule # NoRule /\ HasFreeId
           /\ Commit(c, table) /\ exceptions' = Copied(i, FreeId, ask.slot)
           /\ gone' = gone \cup added
           /\ UNCHANGED <<groupRule, served, asked>>
  <2>1. FreeId \in Ids
    BY <1>5 DEF HasFreeId, FreeId
  <2>2. ended \in Row /\ new \in Row
    <3>1. Until(row.rule, ask.slot) \in Rule /\ SplitRule(row, ask.slot) \in Rule
      BY <1>2, <1>5, RuleType
    <3>2. ended \in Row
      BY <1>2, <3>1 DEF Row
    <3>3. /\ (IF ask.flag THEN ask.day ELSE ask.slot) \in Days /\ row.grouped \in BOOLEAN
          /\ (IF ask.flag THEN ask.length ELSE row.length) \in Nat
      BY <1>2 DEF Row
    <3>4. new \in Row
      BY <3>1, <3>3, TaskType
    <3> QED
      BY <3>2, <3>4
  <2> HIDE DEF ended, new
  <2>3. /\ [tasks EXCEPT ![i] = ended, ![FreeId] = new] \in Table
        /\ Keeps([tasks EXCEPT ![i] = ended, ![FreeId] = new])
    BY <1>2, <2>1, <2>2, TablesType, SeriesConstants DEF Table, Keeps
  <2>4. table \in Table /\ Keeps(table)
    BY <2>3, SweptType
  <2>5. exceptions' \in ExceptionTable
    <3>1. \A k \in Ids \X Days : k = <<k[1], k[2]>> /\ k[2] \in Days
      OBVIOUS
    <3>2. \A k \in Ids \X Days : <<i, k[2]>> \in Ids \X Days
      BY <1>2, <3>1
    <3> QED
      BY <1>5, <3>2, TablesType DEF Copied, ExceptionTable
  <2>6. gone' \subseteq Ids \X Days
    <3>1. added \subseteq Ids \X Days
      <4> SUFFICES ASSUME NEW x \in added PROVE x \in Ids \X Days
        OBVIOUS
      <4>1. PICK d \in Days : x = <<FreeId, d>>
        OBVIOUS
      <4> QED
        BY <2>1, <4>1
    <3> HIDE DEF added
    <3> QED
      BY <1>5, <3>1, TablesType
  <2> HIDE DEF table
  <2> QED
    BY <1>5, <2>4, <2>5, <2>6, CommitType, TablesType, Settle
<1> QED
  BY <1>3, <1>4, <1>5 DEF SplitSeries

LEMMA EndKeepsType == ASSUME TypeOK, NEW c \in Clients, EndSeriesAt(c) PROVE TypeOK'
<1> DEFINE ask == req[c].ask  i == ask.task  row == req[c].row
           ended == [row EXCEPT !.rule = Until(row.rule, ask.slot)]
           table == Swept(Saved(i, ended), i)
<1>1. ask.kind # "idle"
  BY DEF EndSeriesAt
<1>2. i \in Ids /\ ask.slot \in Days /\ row \in Row
  BY <1>1, RequestType
<1>3. CASE Fail(c)
  BY <1>3, FailType
<1>4. CASE Live(i) /\ tasks[i].parent # 0 /\ RemoveChild(c, i, tasks[i], FALSE)
  BY <1>2, <1>4, LiveType, RemoveChildType
<1>5. CASE /\ Live(i) /\ RemoveSeries(c, i, tasks[i])
           /\ asked' = asked \cup {i} \/ asked' = asked
  BY <1>2, <1>5, LiveType, TablesType, RemoveSeriesType
<1>6. CASE /\ row.rule # NoRule /\ Commit(c, table)
           /\ UNCHANGED <<exceptions, groupRule, served, gone, asked>>
  <2>1. ended \in Row
    <3>1. Until(row.rule, ask.slot) \in Rule
      BY <1>2, <1>6, RuleType
    <3> QED
      BY <1>2, <3>1 DEF Row
  <2> HIDE DEF ended
  <2>2. table \in Table /\ Keeps(table)
    BY <1>2, <2>1, SavedType, SweptType
  <2> HIDE DEF table
  <2> QED
    BY <1>6, <2>2, CommitType, TablesType, Settle
<1> QED
  BY <1>3, <1>4, <1>5, <1>6 DEF EndSeriesAt

LEMMA CreateKeepsType == ASSUME TypeOK, Create PROVE TypeOK'
<1>1. PICK start \in Targets, length \in Lengths, rule \in UserRules \cup {NoRule},
         grouped \in BOOLEAN :
         tasks' = Saved(FreeId, Task(start, length, rule, grouped))
  BY DEF Create
<1>2. FreeId \in Ids
  BY DEF Create, HasFreeId, FreeId
<1>3. Task(start, length, rule, grouped) \in Row
  BY TaskType, SeriesConstants
<1>4. tasks' \in Table /\ Keeps(tasks')
  BY <1>1, <1>2, <1>3, SavedType
<1>5. served' \in 0..MaxRequests
  BY SeriesConstants DEF Create, TypeOK
<1>6. UNCHANGED <<exceptions, groupRule, req, gone, asked>>
  BY DEF Create
<1> QED
  BY <1>4, <1>5, <1>6 DEF TypeOK, Table, Keeps

LEMMA GroupKeepsType == ASSUME TypeOK, SetGroupRule \/ RemoveGroup PROVE TypeOK'
<1>1. served' \in 0..MaxRequests
  BY SeriesConstants DEF SetGroupRule, RemoveGroup, TypeOK
<1>2. groupRule' \in Rule \cup {NoRule}
  BY SeriesConstants DEF SetGroupRule, RemoveGroup
<1>3. tasks' \in Table /\ Keeps(tasks')
  <2>1. CASE SetGroupRule
    BY <2>1, TablesType DEF SetGroupRule, Keeps
  <2>2. CASE RemoveGroup
    <3>1. tasks' = [i \in Ids |-> IF tasks[i] = NoTask THEN NoTask
                                 ELSE [tasks[i] EXCEPT !.grouped = FALSE]]
      BY <2>2 DEF RemoveGroup
    <3>2. ASSUME NEW i \in Ids, tasks[i] # NoTask
          PROVE  [tasks[i] EXCEPT !.grouped = FALSE] \in Row
      <4>1. tasks[i] \in Row
        BY <3>2 DEF TypeOK
      <4> QED
        BY <4>1 DEF Row
    <3> QED
      BY <3>1, <3>2, SeriesConstants DEF Table, Keeps
  <2> QED
    BY <2>1, <2>2
<1>4. UNCHANGED <<exceptions, req, gone, asked>>
  BY DEF SetGroupRule, RemoveGroup
<1> QED
  BY <1>1, <1>2, <1>3, <1>4 DEF TypeOK, Table, Keeps

LEMMA InitType == Init => TypeOK
<1> SUFFICES ASSUME Init PROVE TypeOK
  OBVIOUS
<1>1. PICK rule \in UserRules, grouped \in BOOLEAN, length \in Lengths :
        /\ tasks = [i \in Ids |-> IF i # 1 THEN NoTask
                                  ELSE Task(0, length, IF grouped THEN NoRule ELSE rule, grouped)]
        /\ groupRule = IF grouped THEN rule ELSE NoRule
  BY DEF Init
<1>2. tasks \in [Ids -> Row \cup {NoTask}]
  <2>1. 0 \in Days /\ (IF grouped THEN NoRule ELSE rule) \in Rule \cup {NoRule}
    BY SeriesConstants DEF Days
  <2>2. Task(0, length, IF grouped THEN NoRule ELSE rule, grouped) \in Row
    BY <2>1, TaskType, SeriesConstants
  <2> QED
    BY <1>1, <2>2
<1>3. groupRule \in Rule \cup {NoRule}
  BY <1>1, SeriesConstants
<1>4. exceptions \in [Ids \X Days -> Exception \cup {NoException}]
  BY DEF Init
<1>5. /\ req \in [Clients -> [ask: Ask, row: Row \cup {NoTask}, child: 0..MaxTask]]
      /\ \A c \in Clients : req[c].ask.kind = "idle"
  <2>1. Blank \in Ask /\ Blank.kind = "idle"
    BY SeriesConstants DEF Blank, Ask, Kinds, Fields, Days
  <2>2. /\ Idle \in [ask: Ask, row: Row \cup {NoTask}, child: 0..MaxTask]
        /\ Idle.ask.kind = "idle"
    BY <2>1, SeriesConstants DEF Idle
  <2> QED
    BY <2>2 DEF Init
<1>6. served \in 0..MaxRequests /\ gone = {} /\ asked = {}
  BY SeriesConstants DEF Init
<1> QED
  BY <1>2, <1>3, <1>4, <1>5, <1>6 DEF TypeOK

LEMMA NextKeepsType == ASSUME TypeOK, [Next]_vars PROVE TypeOK'
<1>1. ASSUME NEW c \in Clients,
             \/ Load(c) \/ Update(c) \/ SetCompleted(c) \/ SetOccurrenceCompleted(c)
             \/ SkipOccurrence(c) \/ MoveOccurrence(c) \/ CreateOrUpdateOverride(c)
             \/ Remove(c) \/ SplitSeries(c) \/ EndSeriesAt(c)
      PROVE  TypeOK'
  BY <1>1, LoadKeepsType, UpdateKeepsType, SetCompletedKeepsType,
     SetOccurrenceCompletedKeepsType, SkipKeepsType, MoveKeepsType, OverrideKeepsType,
     RemoveKeepsType, SplitKeepsType, EndKeepsType
<1>2. CASE Create \/ SetGroupRule \/ RemoveGroup
  BY <1>2, CreateKeepsType, GroupKeepsType
<1>3. CASE UNCHANGED vars
  BY <1>3 DEF TypeOK, vars
<1> QED
  BY <1>1, <1>2, <1>3 DEF Next

\* Rows, exceptions and requests keep their types, for any rules, days and clients.
THEOREM TypeCorrect == Spec => []TypeOK
<1>1. TypeOK /\ [Next]_vars => TypeOK'
  BY NextKeepsType
<1> QED
  BY InitType, <1>1, PTL DEF Spec
-----------------------------------------------------------------------------
(* No slot has two live children, and nothing is shown twice.               *)

SlotsUnique == OneLiveChildPerSlot(tasks)

\* Re-saving rows with other flags, or deleting some, gives no slot a second child.
LEMMA FewerChildren ==
    ASSUME SlotsUnique, NEW table,
           \A i \in Ids : table[i] # NoTask /\ ~table[i].deleted =>
                \/ table[i].parent = 0
                \/ /\ tasks[i] # NoTask /\ ~tasks[i].deleted
                   /\ tasks[i].parent = table[i].parent /\ tasks[i].slot = table[i].slot
    PROVE  OneLiveChildPerSlot(table)
<1> SUFFICES ASSUME NEW i \in Ids, NEW k \in Ids,
                    table[i] # NoTask, ~table[i].deleted, table[i].parent # 0,
                    table[k] # NoTask, ~table[k].deleted,
                    table[k].parent = table[i].parent, table[k].slot = table[i].slot
             PROVE  i = k
  BY DEF OneLiveChildPerSlot
<1> QED
  BY DEF SlotsUnique, OneLiveChildPerSlot

\* The index refuses a commit that would break it.
LEMMA CommitUnique ==
    ASSUME SlotsUnique, NEW c, NEW table, Commit(c, table) PROVE SlotsUnique'
BY DEF SlotsUnique, Commit, OneLiveChildPerSlot

\* The removal of a child saves its row as deleted.
LEMMA RemoveChildUnique ==
    ASSUME TypeOK, SlotsUnique, NEW c \in Clients, NEW i \in Ids, NEW row \in Row,
           NEW revert, RemoveChild(c, i, row, revert)
    PROVE  SlotsUnique'
<1>1. tasks' = Saved(i, [row EXCEPT !.deleted = TRUE])
  BY DEF RemoveChild
<1>2. \A k \in Ids : tasks'[k] # NoTask /\ ~tasks'[k].deleted => tasks'[k] = tasks[k]
  BY <1>1 DEF Saved, TypeOK, Row
<1>3. OneLiveChildPerSlot(tasks')
  BY <1>2, FewerChildren
<1> QED
  BY <1>3 DEF SlotsUnique, OneLiveChildPerSlot

\* Whatever a request writes, it saves through the index or deletes a child.
LEMMA NextUnique == ASSUME TypeOK, SlotsUnique, [Next]_vars PROVE SlotsUnique'
<1> USE DEF SlotsUnique
<1>1. ASSUME UNCHANGED tasks PROVE SlotsUnique'
  BY <1>1 DEF OneLiveChildPerSlot
<1>2. ASSUME NEW c \in Clients, Fail(c) PROVE SlotsUnique'
  BY <1>1, <1>2 DEF Fail
<1>3. ASSUME NEW c \in Clients, NEW i, NEW row, NEW ask, UpdateRow(c, i, row, ask)
      PROVE  SlotsUnique'
  BY <1>2, <1>3, CommitUnique DEF UpdateRow
<1>4. ASSUME NEW c \in Clients, NEW i, NEW row, NEW done, CompleteRow(c, i, row, done)
      PROVE  SlotsUnique'
  BY <1>4, CommitUnique DEF CompleteRow
<1>5. ASSUME NEW c \in Clients, NEW i, NEW done, CompleteTask(c, i, done)
      PROVE  SlotsUnique'
  BY <1>2, <1>4, <1>5 DEF CompleteTask
<1>6. ASSUME NEW c \in Clients, NEW i, NEW row, RemoveSeries(c, i, row)
      PROVE  SlotsUnique'
  BY <1>6, CommitUnique DEF RemoveSeries
<1>7. ASSUME NEW c \in Clients, Load(c) \/ Update(c) \/ SetCompleted(c)
      PROVE  SlotsUnique'
  BY <1>1, <1>3, <1>4, <1>7 DEF Load, Update, SetCompleted
<1>8. ASSUME NEW c \in Clients, SetOccurrenceCompleted(c) PROVE SlotsUnique'
  BY <1>1, <1>5, <1>8 DEF SetOccurrenceCompleted
<1>9. ASSUME NEW c \in Clients, SkipOccurrence(c) PROVE SlotsUnique'
  <2>1. req[c].ask.task \in Ids
    BY <1>9, RequestType DEF SkipOccurrence
  <2>2. CASE CollapseSkip(c, req[c].ask.task)
    BY <1>2, <1>6, <2>1, <2>2, LiveType, RemoveChildUnique DEF CollapseSkip
  <2> QED
    BY <1>1, <1>2, <1>9, <2>2 DEF SkipOccurrence
<1>10. ASSUME NEW c \in Clients, MoveOccurrence(c) PROVE SlotsUnique'
  BY <1>1, <1>2, <1>3, <1>10 DEF MoveOccurrence
<1>11. ASSUME NEW c \in Clients, CreateOrUpdateOverride(c) PROVE SlotsUnique'
  <2>1. CASE Fail(c)
    BY <1>2, <2>1
  <2>2. CASE OneLiveChildPerSlot(tasks')
    BY <2>2 DEF OneLiveChildPerSlot
  <2> QED
    BY <1>11, <2>1, <2>2 DEF CreateOrUpdateOverride
<1>12. ASSUME NEW c \in Clients, Remove(c) PROVE SlotsUnique'
  <2>1. req[c].ask.task \in Ids /\ req[c].row \in Row
    BY <1>12, RequestType DEF Remove
  <2> QED
    BY <1>6, <1>12, <2>1, RemoveChildUnique DEF Remove, RemoveRow
<1>13. ASSUME NEW c \in Clients, SplitSeries(c) PROVE SlotsUnique'
  BY <1>2, <1>3, <1>13, CommitUnique DEF SplitSeries
<1>14. ASSUME NEW c \in Clients, EndSeriesAt(c) PROVE SlotsUnique'
  <2>1. req[c].ask.task \in Ids
    BY <1>14, RequestType DEF EndSeriesAt
  <2> QED
    BY <1>2, <1>6, <1>14, <2>1, LiveType, RemoveChildUnique, CommitUnique DEF EndSeriesAt
<1>15. CASE Create
  <2>1. PICK start \in Targets, length \in Lengths, rule \in UserRules \cup {NoRule},
           grouped \in BOOLEAN :
           tasks' = Saved(FreeId, Task(start, length, rule, grouped))
    BY <1>15 DEF Create
  <2>2. FreeId \in Ids /\ tasks[FreeId] = NoTask
    BY <1>15 DEF Create, HasFreeId, FreeId
  <2>3. Task(start, length, rule, grouped).parent = 0
    BY DEF Task
  <2>4. \A k \in Ids : tasks'[k] = tasks[k] \/ tasks'[k].parent = 0
    BY <2>1, <2>2, <2>3 DEF Saved, TypeOK
  <2>5. OneLiveChildPerSlot(tasks')
    BY <2>4, FewerChildren
  <2> QED
    BY <2>5 DEF OneLiveChildPerSlot
<1>16. CASE SetGroupRule
  BY <1>1, <1>16 DEF SetGroupRule
<1>17. CASE RemoveGroup
  <2>1. \A k \in Ids : tasks'[k] # NoTask =>
           tasks[k] # NoTask /\ tasks'[k] = [tasks[k] EXCEPT !.grouped = FALSE]
    BY <1>17 DEF RemoveGroup
  <2>2. \A k \in Ids : tasks'[k] # NoTask =>
           /\ tasks[k] # NoTask /\ tasks'[k].deleted = tasks[k].deleted
           /\ tasks'[k].parent = tasks[k].parent /\ tasks'[k].slot = tasks[k].slot
    BY <2>1 DEF TypeOK, Row
  <2>3. OneLiveChildPerSlot(tasks')
    BY <2>2, FewerChildren
  <2> QED
    BY <2>3 DEF OneLiveChildPerSlot
<1>18. CASE UNCHANGED vars
  BY <1>1, <1>18 DEF vars
<1> QED
  BY <1>7, <1>8, <1>9, <1>10, <1>11, <1>12, <1>13, <1>14, <1>15, <1>16, <1>17, <1>18 DEF Next

\* At every moment a slot of a series has at most one live child.
THEOREM SlotsUniqueHolds == Spec => []SlotsUnique
<1>1. Init => SlotsUnique
  BY DEF Init, SlotsUnique, OneLiveChildPerSlot, Task
<1>2. TypeOK /\ SlotsUnique /\ [Next]_vars => SlotsUnique'
  BY NextUnique
<1> QED
  BY TypeCorrect, <1>1, <1>2, PTL DEF Spec

\* A row is an anchor or a one-off, never both; a child hides the occurrence it replaces,
\* and is alone in its slot.
LEMMA ShownUnique ==
    ASSUME SlotsUnique, NEW e \in Shown, NEW f \in Shown, e.of = f.of PROVE e = f
<1> DEFINE Single == {k \in Ids : Live(k) /\ tasks[k].rule = NoRule /\ ~InheritsGroupRecurrence(k)}
           OneOff(i) == [task |-> i,
                         of |-> IF tasks[i].parent = 0 THEN <<i, tasks[i].start>>
                                ELSE <<tasks[i].parent, tasks[i].slot>>,
                         at |-> tasks[i].start, length |-> tasks[i].length,
                         done |-> tasks[i].done]
<1>1. ASSUME NEW g \in Shown
      PROVE  \/ \E i \in Single : g = OneOff(i)
             \/ \E i \in Anchors, d \in Days : g = Occurrence(i, d)
  <2>1. g \in OneOffs \/ \E i \in Anchors : g \in Expanded(i)
    BY DEF Shown
  <2> QED
    BY <2>1 DEF OneOffs, Expanded, Generated
<1>2. ASSUME NEW g \in Shown, g.of[1] = g.task PROVE g.of \notin SuppressedSlots
  BY <1>2 DEF Shown
<1>3. ASSUME NEW i \in Single, tasks[i].parent # 0
      PROVE  <<tasks[i].parent, tasks[i].slot>> \in SuppressedSlots
  BY <1>3 DEF SuppressedSlots
<1>4. ASSUME NEW i \in Anchors, NEW d \in Days
      PROVE  Occurrence(i, d).task = i /\ Occurrence(i, d).of = <<i, d>>
  BY DEF Occurrence
<1>5. Single \cap Anchors = {}
  BY DEF Anchors, InheritsGroupRecurrence
<1>6. CASE (\E i \in Anchors, d \in Days : e = Occurrence(i, d))
           /\ (\E i \in Anchors, d \in Days : f = Occurrence(i, d))
  BY <1>4, <1>6
<1>7. ASSUME NEW g \in Shown, NEW h \in Shown, g.of = h.of,
             NEW i \in Single, g = OneOff(i),
             NEW j \in Anchors, NEW d \in Days, h = Occurrence(j, d)
      PROVE  FALSE
  <2>1. h.task = j /\ h.of = <<j, d>>
    BY <1>4, <1>7
  <2>2. CASE tasks[i].parent = 0
    <3>1. g.of = <<i, tasks[i].start>>
      BY <1>7, <2>2
    <3> QED
      BY <1>5, <1>7, <2>1, <3>1
  <2>3. CASE tasks[i].parent # 0
    <3>1. g.of = <<tasks[i].parent, tasks[i].slot>>
      BY <1>7, <2>3
    <3> QED
      BY <1>2, <1>3, <1>7, <2>1, <2>3, <3>1
  <2> QED
    BY <2>2, <2>3
<1>8. ASSUME NEW i \in Single, e = OneOff(i), NEW j \in Single, f = OneOff(j)
      PROVE  i = j
  <2>1. CASE tasks[i].parent = 0 /\ tasks[j].parent = 0
    BY <1>8, <2>1
  <2>2. CASE tasks[i].parent # 0 /\ tasks[j].parent # 0
    <3>1. tasks[i].parent = tasks[j].parent /\ tasks[i].slot = tasks[j].slot
      BY <1>8, <2>2
    <3> QED
      BY <2>2, <3>1 DEF SlotsUnique, OneLiveChildPerSlot, Live
  <2>3. CASE tasks[i].parent = 0 /\ tasks[j].parent # 0
    BY <1>2, <1>3, <1>8, <2>3
  <2>4. CASE tasks[i].parent # 0 /\ tasks[j].parent = 0
    BY <1>2, <1>3, <1>8, <2>4
  <2> QED
    BY <2>1, <2>2, <2>3, <2>4
<1> HIDE DEF OneOff, Single
<1> QED
  BY <1>1, <1>6, <1>7, <1>8

-----------------------------------------------------------------------------
(* A split shares out what the rule generates.                              *)

\* What the integer division of a whole number of strides is.
LEMMA Division ==
    ASSUME NEW a \in Nat, NEW n \in Nat \ {0}
    PROVE  /\ a % n \in 0..(n - 1) /\ a \div n \in Nat
           /\ a % n = 0 => a = n * (a \div n)
           /\ (a * n) % n = 0 /\ (a * n) \div n = a
BY Z3

LEMMA Quotient ==
    ASSUME NEW a \in Nat, NEW n \in Nat \ {0}, NEW q \in Nat, a = n * q
    PROVE  a % n = 0 /\ a \div n = q
BY SMT

LEMMA Divisible ==
    ASSUME NEW a \in Nat, NEW n \in Nat \ {0}, a % n = 0
    PROVE  \E q \in Nat : a = n * q /\ a \div n = q
BY Division

\* Strides before and after a point that is on the grid.
LEMMA Shifted ==
    ASSUME NEW a \in Nat, NEW b \in Nat, NEW n \in Nat \ {0}, a % n = 0
    PROVE  /\ (a + b) % n = 0 <=> b % n = 0
           /\ b % n = 0 => (a + b) \div n = a \div n + b \div n
<1>1. PICK q \in Nat : a = n * q /\ a \div n = q
  BY Divisible
<1>2. ASSUME b % n = 0
      PROVE  (a + b) % n = 0 /\ (a + b) \div n = a \div n + b \div n
  <2>1. PICK p \in Nat : b = n * p /\ b \div n = p
    BY <1>2, Divisible
  <2>2. a + b \in Nat /\ q + p \in Nat /\ a + b = n * (q + p)
    BY <1>1, <2>1
  <2> QED
    BY <1>1, <2>1, <2>2, Quotient
<1>3. ASSUME (a + b) % n = 0 PROVE b % n = 0
  <2>1. PICK s \in Nat : a + b = n * s
    BY <1>3, Divisible
  <2>2. s >= q
    BY <1>1, <2>1
  <2>3. s - q \in Nat /\ b = n * (s - q)
    BY <1>1, <2>1, <2>2
  <2> QED
    BY <2>3, Quotient
<1> QED
  BY <1>2, <1>3

LEMMA FewerStrides ==
    ASSUME NEW a \in Nat, NEW b \in Nat, NEW n \in Nat \ {0}, a % n = 0, b % n = 0, a < b
    PROVE  a \div n < b \div n
BY SMT

LEMMA GeneratedMember ==
    ASSUME NEW row, NEW rule \in Rule
    PROVE  \A d : d \in Generated(row, rule) <=>
              /\ d \in Days /\ d >= row.start /\ (d - row.start) % rule.every = 0
              /\ rule.end = "count" => (d - row.start) \div rule.every < rule.limit
              /\ rule.end = "until" => d <= rule.limit
BY SeriesConstants DEF Generated

LEMMA GeneratedType ==
    ASSUME NEW row \in Row, NEW rule \in Rule, NEW slot \in Generated(row, rule)
    PROVE  /\ row.start \in Nat /\ slot \in Nat /\ slot \in Days
           /\ rule.every \in Nat \ {0} /\ rule.limit \in Int
<1>1. Days \subseteq Nat
  BY SeriesConstants DEF Days
<1>2. row.start \in Days /\ slot \in Days
  BY DEF Row, Generated
<1>3. rule.every \in Nat \ {0} /\ rule.limit \in Int
  BY SeriesConstants DEF Rule
<1> QED
  BY <1>1, <1>2, <1>3

\* The days a rule generates before one of them.
LEMMA GeneratedBefore ==
    ASSUME NEW row \in Row, NEW rule \in Rule, NEW slot \in Generated(row, rule), NEW d \in Days,
           d < slot
    PROVE  d \in Generated(row, rule) <=> d >= row.start /\ (d - row.start) % rule.every = 0
<1>1. /\ row.start \in Nat /\ d \in Nat /\ slot \in Nat /\ rule.every \in Nat \ {0}
      /\ rule.limit \in Int
  <2>1. d \in Nat
    BY SeriesConstants DEF Days
  <2> QED
    BY <2>1, GeneratedType
<1>2. /\ slot >= row.start /\ (slot - row.start) % rule.every = 0
      /\ rule.end = "count" => (slot - row.start) \div rule.every < rule.limit
      /\ rule.end = "until" => slot <= rule.limit
  BY GeneratedMember
<1>3. ASSUME d >= row.start, (d - row.start) % rule.every = 0
      PROVE  d \in Generated(row, rule)
  <2>1. /\ d - row.start \in Nat /\ slot - row.start \in Nat /\ d - row.start < slot - row.start
    BY <1>1, <1>2, <1>3
  <2>2. (d - row.start) \div rule.every < (slot - row.start) \div rule.every
    BY <1>1, <1>2, <1>3, <2>1, FewerStrides
  <2>3. (d - row.start) \div rule.every \in Nat /\ (slot - row.start) \div rule.every \in Nat
    BY <1>1, <2>1, Division
  <2>4. rule.end = "count" => (d - row.start) \div rule.every < rule.limit
    BY <1>1, <1>2, <2>2, <2>3
  <2>5. rule.end = "until" => d <= rule.limit
    BY <1>1, <1>2
  <2> QED
    BY <1>3, <2>4, <2>5, GeneratedMember
<1> QED
  BY <1>3, GeneratedMember

\* Ended the day before an occurrence, a series keeps exactly the earlier ones.
LEMMA CutBefore ==
    ASSUME NEW row \in Row, NEW rule \in Rule, NEW slot \in Generated(row, rule),
           NEW ended, ended.start = row.start
    PROVE  Generated(ended, Until(rule, slot)) = {d \in Generated(row, rule) : d < slot}
<1>1. /\ Until(rule, slot) \in Rule /\ Until(rule, slot).end = "until"
      /\ Until(rule, slot).every = rule.every /\ Until(rule, slot).limit = slot - 1
  <2>1. slot - 1 \in Int
    BY GeneratedMember, SeriesConstants DEF Days
  <2> QED
    BY <2>1, LimitType DEF Until, Rule
<1>2. ASSUME NEW d \in Days
      PROVE  d \in Generated(ended, Until(rule, slot))
                <=> d < slot /\ d >= row.start /\ (d - row.start) % rule.every = 0
  <2>1. d <= slot - 1 <=> d < slot
    BY GeneratedMember, SeriesConstants DEF Days
  <2> QED
    BY <1>1, <2>1, GeneratedMember
<1>3. ASSUME NEW d \in Days
      PROVE  d \in Generated(ended, Until(rule, slot)) <=> d \in Generated(row, rule) /\ d < slot
  BY <1>2, GeneratedBefore
<1>4. Generated(ended, Until(rule, slot)) \subseteq Days /\ Generated(row, rule) \subseteq Days
  BY DEF Generated
<1> QED
  BY <1>3, <1>4

\* The occurrences before a slot are as many as the strides up to it.
LEMMA CountBeforeIs ==
    ASSUME NEW row \in Row, row.rule \in Rule, NEW slot \in Generated(row, row.rule)
    PROVE  CountBefore(row, slot) = (slot - row.start) \div row.rule.every
<1> DEFINE start == row.start  every == row.rule.every
           n == (slot - start) \div every
           before == {d \in Generated(row, row.rule) : d < slot}
           f == [q \in 1..n |-> start + every * (q - 1)]
<1>1. start \in Nat /\ slot \in Nat /\ slot \in Days /\ every \in Nat \ {0}
  BY GeneratedType
<1>2. slot >= start /\ slot - start \in Nat /\ (slot - start) % every = 0
  BY <1>1, GeneratedMember
<1>3. n \in Nat /\ slot - start = every * n
  BY <1>1, <1>2, Division
<1> HIDE DEF n, start, every
<1>4. ASSUME NEW q \in 1..n PROVE start + every * (q - 1) \in before
  <2>1. q - 1 \in Nat /\ q - 1 < n
    BY <1>3
  <2>2. every * (q - 1) \in Nat /\ every * (q - 1) < every * n
    BY <1>1, <1>3, <2>1
  <2> DEFINE d == start + every * (q - 1)
  <2>3. d \in Nat /\ d < slot /\ d >= start /\ d - start = every * (q - 1)
    BY <1>1, <1>2, <1>3, <2>2
  <2>4. (d - start) % every = 0
    BY <1>1, <2>1, <2>2, <2>3, Quotient
  <2>5. d \in Days
    BY <1>1, <2>3, SeriesConstants DEF Days
  <2> HIDE DEF d
  <2>6. d \in Generated(row, row.rule)
    BY <2>3, <2>4, <2>5, GeneratedBefore DEF start, every
  <2> QED
    BY <2>3, <2>6 DEF d
<1>5. ASSUME NEW d \in before PROVE \E q \in 1..n : f[q] = d
  <2>1. d \in Nat /\ d < slot /\ d >= start /\ (d - start) % every = 0
    BY GeneratedMember, SeriesConstants DEF Days, start, every
  <2>2. d - start \in Nat
    BY <1>1, <2>1
  <2>3. PICK p \in Nat : d - start = every * p
    BY <1>1, <2>1, <2>2, Divisible
  <2>4. every * p < every * n
    BY <1>1, <1>3, <2>1, <2>3
  <2>5. p < n
    BY <1>1, <1>3, <2>4
  <2>6. p + 1 \in 1..n /\ d = start + every * ((p + 1) - 1)
    BY <1>1, <1>3, <2>1, <2>3, <2>5
  <2> QED
    BY <2>6
<1>6. f \in [1..n -> before]
  BY <1>4
<1>7. \A p, q \in 1..n : f[p] = f[q] => p = q
  <2> SUFFICES ASSUME NEW p \in 1..n, NEW q \in 1..n, f[p] = f[q] PROVE p = q
    OBVIOUS
  <2>1. p \in Int /\ q \in Int /\ every * (p - 1) \in Int /\ every * (q - 1) \in Int
    BY <1>1, <1>3
  <2>2. every * (p - 1) = every * (q - 1)
    BY <1>1, <2>1
  <2>3. p - 1 = q - 1
    BY <1>1, <2>1, <2>2
  <2> QED
    BY <2>1, <2>3
<1> HIDE DEF f, before
<1>8. ExistsBijection(1..n, before)
  <2>1. f \in Injection(1..n, before)
    BY <1>6, <1>7 DEF Injection, IsInjective
  <2>2. f \in Surjection(1..n, before)
    BY <1>5, <1>6 DEF Surjection
  <2> QED
    BY <2>1, <2>2 DEF ExistsBijection, Bijection
<1>9. Cardinality(before) = n
  BY <1>3, <1>8, FS_CountingElements
<1> QED
  BY <1>9 DEF CountBefore, before, n, start, every

\* The new series of a split at an occurrence takes over there.
LEMMA CutAfter ==
    ASSUME NEW row \in Row, row.rule \in Rule, NEW slot \in Generated(row, row.rule),
           NEW new, new.start = slot
    PROVE  Generated(new, SplitRule(row, slot)) = {d \in Generated(row, row.rule) : d >= slot}
<1> DEFINE rule == row.rule  start == row.start  every == row.rule.every
           n == (slot - start) \div every
<1>1. start \in Nat /\ slot \in Nat /\ slot \in Days /\ every \in Nat \ {0} /\ rule.limit \in Int
  BY GeneratedType
<1>2. /\ slot >= start /\ slot - start \in Nat /\ (slot - start) % every = 0
      /\ rule.end = "count" => n < rule.limit
  BY <1>1, GeneratedMember
<1>3. n \in Nat
  BY <1>1, <1>2, Division
<1>4. /\ SplitRule(row, slot) \in Rule /\ SplitRule(row, slot).every = every
      /\ SplitRule(row, slot).end = rule.end
      /\ rule.end = "count" => SplitRule(row, slot).limit = rule.limit - n
      /\ rule.end # "count" => SplitRule(row, slot).limit = rule.limit
  <2>1. SplitRule(row, slot) \in Rule
    BY <1>1, RuleType, SeriesConstants
  <2>2. CountBefore(row, slot) = n
    BY CountBeforeIs
  <2> HIDE DEF n
  <2>3. CASE rule.end = "count"
    <3>1. rule.limit - n > 0
      BY <1>1, <1>2, <1>3, <2>3
    <3>2. SplitRule(row, slot) = [rule EXCEPT !.limit = rule.limit - n]
      BY <2>2, <2>3, <3>1 DEF SplitRule
    <3> QED
      BY <2>1, <2>3, <3>2 DEF Rule
  <2>4. CASE rule.end # "count"
    BY <2>1, <2>4 DEF SplitRule
  <2> QED
    BY <2>3, <2>4
<1> DEFINE later == SplitRule(row, slot)
<1> HIDE DEF later
<1>5. ASSUME NEW d \in Days, d >= slot
      PROVE  d \in Generated(new, later) <=> d \in Generated(row, rule)
  <2>1. /\ d \in Nat /\ d - slot \in Nat /\ d - start = (slot - start) + (d - slot)
        /\ d >= start /\ (d - slot) \div every \in Int
    <3>1. d \in Nat
      BY SeriesConstants DEF Days
    <3> HIDE DEF start, every, n
    <3>2. /\ d - slot \in Nat /\ d - start = (slot - start) + (d - slot) /\ d >= start
      BY <1>1, <1>2, <1>5, <3>1
    <3>3. (d - slot) \div every \in Nat
      BY <1>1, <3>2, Division
    <3> QED
      BY <3>1, <3>2, <3>3
  <2> HIDE DEF start, every
  <2> DEFINE a == slot - start  b == d - slot
  <2>7. a \in Nat /\ b \in Nat /\ d - start = a + b /\ a % every = 0 /\ n = a \div every
    BY <1>2, <2>1
  <2> HIDE DEF a, b
  <2>8. /\ (a + b) % every = 0 <=> b % every = 0
        /\ b % every = 0 => (a + b) \div every = a \div every + b \div every
    <3>1. every \in Nat \ {0} /\ a \in Nat /\ b \in Nat /\ a % every = 0
      BY <1>1, <2>7
    <3> QED
      BY <3>1, Shifted, Zenon
  <2>2. (d - start) % every = 0 <=> (d - slot) % every = 0
    BY <2>7, <2>8 DEF b
  <2>3. (d - slot) % every = 0 => (d - start) \div every = n + (d - slot) \div every
    BY <2>7, <2>8 DEF b
  <2> HIDE DEF n
  <2>4. rule.end = "count" /\ (d - slot) % every = 0 =>
           ((d - start) \div every < rule.limit <=> (d - slot) \div every < later.limit)
    BY <1>1, <1>3, <1>4, <2>1, <2>3 DEF later
  <2>5. /\ d \in Generated(new, later) <=>
              /\ (d - slot) % every = 0
              /\ rule.end = "count" => (d - slot) \div every < later.limit
              /\ rule.end = "until" => d <= later.limit
        /\ d \in Generated(row, rule) <=>
              /\ (d - start) % every = 0
              /\ rule.end = "count" => (d - start) \div every < rule.limit
              /\ rule.end = "until" => d <= rule.limit
    BY <1>1, <1>4, <1>5, <2>1, GeneratedMember DEF later, start, every
  <2> QED
    BY <1>4, <2>2, <2>4, <2>5 DEF later
<1>6. \A d \in Generated(new, later) : d \in Days /\ d >= slot
  BY <1>4, GeneratedMember DEF later
<1>7. Generated(row, rule) \subseteq Days
  BY DEF Generated
<1> QED
  BY <1>5, <1>6, <1>7 DEF later
-----------------------------------------------------------------------------
(* Where a row comes from.                                                  *)

\* A child does not recur, and its parent is another row, which exists.
Proper(i, row) ==
    row.parent # 0 =>
        /\ row.rule = NoRule /\ row.parent # i /\ tasks[row.parent] # NoTask

\* The rows are so, and the copies that requests will save.
Lineage ==
    /\ \A i \in Ids : tasks[i] # NoTask => Proper(i, tasks[i])
    /\ \A c \in Clients : req[c].ask.kind # "idle" => Proper(req[c].ask.task, req[c].row)

\* A table a request may commit.
Descends(table) ==
    Keeps(table) /\ \A i \in Ids : table[i] # NoTask => Proper(i, table[i])

LEMMA TasksDescend == ASSUME TypeOK, Lineage PROVE Descends(tasks)
BY TablesType DEF Descends, Lineage

LEMMA SavedDescends ==
    ASSUME TypeOK, Lineage, NEW i \in Ids, NEW row \in Row, Proper(i, row)
    PROVE  Descends(Saved(i, row))
<1>1. Keeps(Saved(i, row))
  BY SavedType
<1>2. ASSUME NEW k \in Ids, Saved(i, row)[k] # NoTask PROVE Proper(k, Saved(i, row)[k])
  BY <1>2 DEF Saved, TypeOK, Lineage
<1> QED
  BY <1>1, <1>2 DEF Descends

\* Sweeping changes no more than the flag of a child.
LEMMA SweptRow ==
    ASSUME NEW table \in Table, NEW i, NEW k \in Ids
    PROVE  /\ Swept(table, i)[k] # NoTask <=> table[k] # NoTask
           /\ table[k] # NoTask =>
                 /\ Swept(table, i)[k].deleted = table[k].deleted
                 /\ Swept(table, i)[k].start = table[k].start
                 /\ Swept(table, i)[k].length = table[k].length
                 /\ Swept(table, i)[k].rule = table[k].rule
                 /\ Swept(table, i)[k].grouped = table[k].grouped
                 /\ Swept(table, i)[k].parent = table[k].parent
                 /\ Swept(table, i)[k].slot = table[k].slot
                 /\ Swept(table, i)[k].done = table[k].done
                 /\ Swept(table, i)[k].detached =
                       IF ~table[k].deleted /\ table[k].parent = i
                       THEN table[k].slot \notin Generated(table[i], Effective(table[i]))
                       ELSE table[k].detached
<1> DEFINE flag == table[k].slot \notin Generated(table[i], Effective(table[i]))
           child == table[k] # NoTask /\ ~table[k].deleted /\ table[k].parent = i
<1>1. Swept(table, i)[k] = IF child THEN [table[k] EXCEPT !.detached = flag] ELSE table[k]
  BY DEF Swept
<1>2. flag \in BOOLEAN
  OBVIOUS
<1> HIDE DEF flag
<1>3. ASSUME table[k] # NoTask
      PROVE  table[k] \in Row /\ [table[k] EXCEPT !.detached = flag] \in Row
  <2>1. table[k] \in Row
    BY <1>3 DEF Table
  <2> QED
    BY <1>2, <2>1 DEF Row
<1>4. ASSUME table[k] # NoTask, child
      PROVE  LET r == [table[k] EXCEPT !.detached = flag]
             IN  /\ r.deleted = table[k].deleted /\ r.start = table[k].start
                 /\ r.length = table[k].length
                 /\ r.rule = table[k].rule /\ r.grouped = table[k].grouped
                 /\ r.parent = table[k].parent /\ r.slot = table[k].slot
                 /\ r.done = table[k].done /\ r.detached = flag
  <2> HIDE DEF child
  <2> QED
    BY <1>3, <1>4 DEF Row
<1>5. CASE child
  <2>1. Swept(table, i)[k] # NoTask /\ table[k] # NoTask
    BY <1>1, <1>3, <1>5, SeriesConstants
  <2> QED
    BY <1>1, <1>4, <1>5, <2>1 DEF flag
<1>6. CASE ~child
  BY <1>1, <1>6
<1> QED
  BY <1>5, <1>6

LEMMA SweptDescends ==
    ASSUME NEW table \in Table, Descends(table), NEW i PROVE Descends(Swept(table, i))
<1>1. Keeps(Swept(table, i))
  BY SweptRow DEF Descends, Keeps
<1>2. ASSUME NEW k \in Ids, Swept(table, i)[k] # NoTask PROVE Proper(k, Swept(table, i)[k])
  <2>1. table[k] # NoTask /\ Proper(k, table[k])
    BY <1>2, SweptRow DEF Descends
  <2> QED
    BY <2>1, SweptRow DEF Proper
<1> QED
  BY <1>1, <1>2 DEF Descends

LEMMA CommitDescends ==
    ASSUME TypeOK, Lineage, NEW c, NEW table, Descends(table), Commit(c, table)
    PROVE  Reply(c) /\ Descends(tasks')
BY TasksDescend DEF Commit, Descends, Keeps

\* The end of a request that leaves such a table.
LEMMA LineageSettle ==
    ASSUME TypeOK, TypeOK', Lineage, NEW c \in Clients, Reply(c), Descends(tasks')
    PROVE  Lineage'
<1>1. ASSUME NEW i, NEW row \in Row, Proper(i, row) PROVE Proper(i, row)'
  <2>1. row.parent # 0 => row.parent \in Ids
    BY SeriesConstants DEF Row, Ids
  <2> QED
    BY <1>1, <2>1 DEF Descends, Keeps, Proper
<1>2. ASSUME NEW i \in Ids, tasks'[i] # NoTask PROVE Proper(i, tasks[i])'
  <2>1. Proper(i, tasks'[i])
    BY <1>2 DEF Descends
  <2>2. tasks'[i] \in Row
    BY <1>2 DEF TypeOK
  <2> QED
    BY <1>1, <2>1, <2>2
<1>3. ASSUME NEW d \in Clients, req'[d].ask.kind # "idle"
      PROVE  Proper(req[d].ask.task, req[d].row)'
  <2>1. d # c /\ req'[d] = req[d]
    BY <1>3 DEF Reply, TypeOK, Idle, Blank
  <2>2. req[d].ask.kind # "idle" /\ Proper(req[d].ask.task, req[d].row)
    BY <1>3, <2>1 DEF Lineage
  <2>3. req[d].row \in Row
    BY <2>2, RequestType
  <2> QED
    BY <1>1, <2>1, <2>2, <2>3
<1> QED
  BY <1>2, <1>3 DEF Lineage
-----------------------------------------------------------------------------
(* What each service method leaves of the tables: rows that descend from     *)
(* rows.                                                                     *)

LEMMA UpdateRowDescends ==
    ASSUME TypeOK, Lineage, NEW c \in Clients, NEW i \in Ids, NEW row \in Row, Proper(i, row),
           NEW ask, ask.day \in Days, ask.length \in Nat, ask.rule \in Rule \cup {NoRule}, ask.flag \in BOOLEAN,
           UpdateRow(c, i, row, ask)
    PROVE  Reply(c) /\ Descends(tasks')
<1> DEFINE next == Edited(row, ask)
           ruleInputsChanged ==
               /\ row.parent = 0
               /\ \/ next.start # row.start \/ next.rule # row.rule \/ next.grouped # row.grouped
                  \/ ask.field = "rule" /\ ask.rule # NoRule
           saves == next # row \/ ruleInputsChanged \/ ask.field = "title"
           table == IF ruleInputsChanged THEN Swept(Saved(i, next), i)
                    ELSE IF saves THEN Saved(i, next) ELSE tasks
<1>1. next \in Row
  BY DEF Edited, Row
<1>2. CASE Fail(c)
  BY <1>2, TasksDescend DEF Fail, Descends, Keeps
<1>3. CASE /\ ~(row.parent # 0 /\ ask.field = "rule" /\ ask.rule # NoRule)
           /\ Commit(c, table)
  <2>1. next.parent = row.parent /\ (row.parent # 0 /\ row.rule = NoRule => next.rule = NoRule)
    BY <1>3 DEF Edited, Row
  <2>2. Proper(i, next)
    BY <2>1 DEF Proper
  <2>3. Saved(i, next) \in Table /\ Descends(Saved(i, next))
    BY <1>1, <2>2, SavedType, SavedDescends
  <2>4. Descends(Swept(Saved(i, next), i))
    BY <2>3, SweptDescends
  <2> HIDE DEF next
  <2>5. Descends(table)
    BY <2>3, <2>4, TasksDescend
  <2> HIDE DEF table
  <2> QED
    BY <1>3, <2>5, CommitDescends
<1> QED
  BY <1>2, <1>3 DEF UpdateRow

LEMMA CompleteRowDescends ==
    ASSUME TypeOK, Lineage, NEW c \in Clients, NEW i \in Ids, NEW row \in Row, Proper(i, row),
           NEW done \in BOOLEAN, CompleteRow(c, i, row, done)
    PROVE  Reply(c) /\ Descends(tasks')
<1>1. [row EXCEPT !.done = done] \in Row /\ Proper(i, [row EXCEPT !.done = done])
  BY DEF Row, Proper
<1> DEFINE table == IF row.done # done THEN Saved(i, [row EXCEPT !.done = done]) ELSE tasks
<1>2. Descends(table)
  BY <1>1, SavedDescends, TasksDescend
<1>3. Commit(c, table)
  BY DEF CompleteRow
<1> HIDE DEF table
<1> QED
  BY <1>2, <1>3, CommitDescends

LEMMA CompleteTaskDescends ==
    ASSUME TypeOK, Lineage, NEW c \in Clients, NEW i \in Ids, NEW done \in BOOLEAN,
           CompleteTask(c, i, done)
    PROVE  Reply(c) /\ Descends(tasks')
<1>1. CASE Fail(c)
  BY <1>1, TasksDescend DEF Fail, Descends, Keeps
<1>2. CASE Live(i) /\ CompleteRow(c, i, tasks[i], done)
  <2>1. tasks[i] \in Row /\ Proper(i, tasks[i])
    BY <1>2, LiveType DEF Live, Lineage
  <2> QED
    BY <1>2, <2>1, CompleteRowDescends
<1> QED
  BY <1>1, <1>2 DEF CompleteTask

\* What the removal of a series commits.
RemovedTable(i, row) ==
    [k \in Ids |-> IF k = i THEN [row EXCEPT !.deleted = TRUE]
                   ELSE IF k \in Children(i) THEN [tasks[k] EXCEPT !.deleted = TRUE]
                   ELSE tasks[k]]

LEMMA RemovedRow ==
    ASSUME TypeOK, NEW i \in Ids, NEW row \in Row, NEW k \in Ids
    PROVE  LET new == RemovedTable(i, row)[k]  old == IF k = i THEN row ELSE tasks[k]
           IN  /\ new # NoTask <=> old # NoTask
               /\ new # NoTask =>
                     /\ new.start = old.start /\ new.rule = old.rule /\ new.parent = old.parent
                     /\ new.slot = old.slot /\ new.grouped = old.grouped
                     /\ new.detached = old.detached /\ new.done = old.done
                     /\ new.deleted = (old.deleted \/ k = i \/ k \in Children(i))
<1>1. CASE k = i
  <2>1. RemovedTable(i, row)[k] = [row EXCEPT !.deleted = TRUE] /\ row # NoTask
    BY <1>1, SeriesConstants DEF RemovedTable
  <2>2. [row EXCEPT !.deleted = TRUE] \in Row
    BY DEF Row
  <2>3. [row EXCEPT !.deleted = TRUE] # NoTask
    BY <2>2, SeriesConstants
  <2> QED
    BY <1>1, <2>1, <2>3 DEF Row
<1>2. CASE k # i /\ k \in Children(i)
  <2>1. tasks[k] \in Row /\ ~tasks[k].deleted /\ tasks[k] # NoTask
    BY <1>2, LiveType DEF Children, Live
  <2>2. RemovedTable(i, row)[k] = [tasks[k] EXCEPT !.deleted = TRUE]
    BY <1>2 DEF RemovedTable
  <2>3. [tasks[k] EXCEPT !.deleted = TRUE] \in Row
    BY <2>1 DEF Row
  <2>4. [tasks[k] EXCEPT !.deleted = TRUE] # NoTask
    BY <2>3, SeriesConstants
  <2> QED
    BY <1>2, <2>1, <2>2, <2>4 DEF Row
<1>3. CASE k # i /\ k \notin Children(i)
  <2>1. RemovedTable(i, row)[k] = tasks[k]
    BY <1>3 DEF RemovedTable
  <2>2. tasks[k] # NoTask => tasks[k].deleted \in BOOLEAN
    BY DEF TypeOK, Row
  <2> QED
    BY <1>3, <2>1, <2>2
<1> QED
  BY <1>1, <1>2, <1>3

LEMMA RemoveSeriesDescends ==
    ASSUME TypeOK, Lineage, NEW c \in Clients, NEW i \in Ids, NEW row \in Row, Proper(i, row),
           RemoveSeries(c, i, row)
    PROVE  Reply(c) /\ Descends(tasks')
<1>1. Commit(c, RemovedTable(i, row))
  BY DEF RemoveSeries, RemovedTable
<1>2. ASSUME NEW k \in Ids
      PROVE  /\ tasks[k] # NoTask => RemovedTable(i, row)[k] # NoTask
             /\ RemovedTable(i, row)[k] # NoTask => Proper(k, RemovedTable(i, row)[k])
  <2>1. row # NoTask
    BY SeriesConstants
  <2>2. tasks[k] # NoTask => Proper(k, tasks[k])
    BY DEF Lineage
  <2> QED
    BY <2>1, <2>2, RemovedRow DEF Proper
<1>3. Descends(RemovedTable(i, row))
  BY <1>2 DEF Descends, Keeps
<1> QED
  BY <1>1, <1>3, CommitDescends

LEMMA RemoveChildDescends ==
    ASSUME TypeOK, Lineage, NEW c \in Clients, NEW i \in Ids, NEW row \in Row, Proper(i, row),
           NEW revert, RemoveChild(c, i, row, revert)
    PROVE  Reply(c) /\ Descends(tasks')
<1>1. [row EXCEPT !.deleted = TRUE] \in Row /\ Proper(i, [row EXCEPT !.deleted = TRUE])
  BY DEF Row, Proper
<1>2. Reply(c) /\ tasks' = Saved(i, [row EXCEPT !.deleted = TRUE])
  BY DEF RemoveChild, CommitException
<1> QED
  BY <1>1, <1>2, SavedDescends
-----------------------------------------------------------------------------
(* The effects a request may have: what the tail of a request does, told by  *)
(* the service method that writes.                                           *)

\* Row i as client c has it: as its request read it, or as it stands.
Copy(c, i, row) ==
    \/ req[c].ask.kind # "idle" /\ i = req[c].ask.task /\ row = req[c].row
    \/ Live(i) /\ row = tasks[i]

Edits(c) ==
    \E i \in Ids, row \in Row, ask \in Ask : Copy(c, i, row) /\ UpdateRow(c, i, row, ask)

Completes(c) ==
    \E i \in Ids, row \in Row, done \in BOOLEAN :
        Copy(c, i, row) /\ CompleteRow(c, i, row, done)

RemovesSeries(c) ==
    \E i \in Ids, row \in Row : Copy(c, i, row) /\ row.parent = 0 /\ RemoveSeries(c, i, row)

RemovesChild(c) ==
    \E i \in Ids, row \in Row, revert \in BOOLEAN :
        Copy(c, i, row) /\ row.parent # 0 /\ RemoveChild(c, i, row, revert)

ByOccurrence == {"completeOccurrence", "skip", "move"}

\* The exception of a slot that had no child when the request looked.
WritesException(c) ==
    LET ask == req[c].ask  k == <<ask.task, ask.slot>>
    IN  /\ ask.kind \in ByOccurrence /\ req[c].child = 0 /\ req[c].row.rule # NoRule
        /\ \E e \in Exception :
              /\ CommitException(c, k, e)
              /\ \/ gone' = gone /\ e.skip = ExceptionAt(k).skip
                 \/ gone' = gone \cup {k} /\ e.skip
              /\ ask.kind # "completeOccurrence" => e.done = ExceptionAt(k).done
        /\ UNCHANGED <<tasks, groupRule, served, asked>>

\* The child of a slot, new or as it stands, with what it absorbed.
NewAt(i, slot, id, child) ==
    /\ tasks[id] = NoTask /\ child.rule = NoRule /\ ~child.detached
    /\ \A k \in Children(i) : tasks[k].slot # slot

FoundAt(i, slot, id, child) ==
    /\ Live(id) /\ tasks[id].parent = i /\ tasks[id].slot = slot
    /\ child.rule = tasks[id].rule /\ child.detached = tasks[id].detached
    /\ tasks[id].done => child.done

Overrides(c) ==
    LET ask == req[c].ask  i == ask.task  slot == ask.slot  k == <<i, slot>>  row == req[c].row
    IN  /\ ask.kind = "override"
        /\ CommitException(c, k, NoException)
        /\ gone' = gone \ {k} /\ UNCHANGED <<groupRule, served, asked>>
        /\ \E id \in Ids, child \in Row :
              /\ tasks' = Saved(id, child)
              /\ ~child.deleted /\ child.parent = i /\ child.slot = slot
              /\ exceptions[k] # NoException /\ exceptions[k].done => child.done
              /\ \/ NewAt(i, slot, id, child) /\ slot \in Generated(row, Effective(row))
                 \/ FoundAt(i, slot, id, child)

Ended(row, slot) == [row EXCEPT !.rule = Until(row.rule, slot)]

NewSeries(ask, row) ==
    Task(IF ask.flag THEN ask.day ELSE ask.slot, IF ask.flag THEN ask.length ELSE row.length,
         SplitRule(row, ask.slot), row.grouped)

Splits(c) ==
    LET ask == req[c].ask  i == ask.task  slot == ask.slot  row == req[c].row
    IN  /\ ask.kind = "split" /\ row.rule # NoRule /\ row.start # slot /\ HasFreeId
        /\ Commit(c, Swept([tasks EXCEPT ![i] = Ended(row, slot),
                                         ![FreeId] = NewSeries(ask, row)], i))
        /\ exceptions' = Copied(i, FreeId, slot)
        /\ gone' = gone \cup {<<FreeId, d>> : d \in {e \in Days : e >= slot /\ <<i, e>> \in gone}}
        /\ UNCHANGED <<groupRule, served, asked>>

Ends(c) ==
    LET ask == req[c].ask  i == ask.task  slot == ask.slot  row == req[c].row
    IN  /\ ask.kind = "end" /\ row.rule # NoRule /\ row.start # slot
        /\ Commit(c, Swept(Saved(i, Ended(row, slot)), i))
        /\ UNCHANGED <<exceptions, groupRule, served, gone, asked>>

Effect(c) ==
    \/ Fail(c) \/ Edits(c) \/ Completes(c) \/ RemovesSeries(c) \/ RemovesChild(c)
    \/ WritesException(c) \/ Overrides(c) \/ Splits(c) \/ Ends(c)

LEMMA ReadCopy ==
    ASSUME TypeOK, NEW c \in Clients, req[c].ask.kind # "idle"
    PROVE  /\ Copy(c, req[c].ask.task, req[c].row)
           /\ req[c].ask.task \in Ids /\ req[c].row \in Row
BY RequestType DEF Copy

LEMMA LiveCopy ==
    ASSUME TypeOK, NEW c \in Clients, NEW i \in Ids, Live(i)
    PROVE  Copy(c, i, tasks[i]) /\ tasks[i] \in Row
BY LiveType DEF Copy

LEMMA CompleteTaskEffect ==
    ASSUME TypeOK, NEW c \in Clients, NEW i \in Ids, NEW done \in BOOLEAN, CompleteTask(c, i, done)
    PROVE  Fail(c) \/ Completes(c)
BY LiveCopy DEF CompleteTask, Completes

LEMMA RemoveEffect ==
    ASSUME TypeOK, NEW c \in Clients, Remove(c) PROVE RemovesSeries(c) \/ RemovesChild(c)
<1> DEFINE ask == req[c].ask  i == ask.task  row == req[c].row
<1>1. ask.kind # "idle"
  BY DEF Remove
<1>2. Copy(c, i, row) /\ i \in Ids /\ row \in Row /\ ask.flag \in BOOLEAN
  BY <1>1, ReadCopy, RequestType
<1>3. CASE row.parent = 0 /\ RemoveSeries(c, i, row)
  BY <1>2, <1>3 DEF RemovesSeries
<1>4. CASE row.parent # 0 /\ RemoveChild(c, i, row, ask.flag)
  BY <1>2, <1>4 DEF RemovesChild
<1> QED
  BY <1>3, <1>4 DEF Remove, RemoveRow

LEMMA RowEffect ==
    ASSUME TypeOK, NEW c \in Clients, Update(c) \/ SetCompleted(c)
    PROVE  Edits(c) \/ Completes(c)
<1> DEFINE ask == req[c].ask  i == ask.task  row == req[c].row
<1>1. ask.kind # "idle"
  BY DEF Update, SetCompleted
<1>2. /\ Copy(c, i, row) /\ i \in Ids /\ row \in Row
      /\ ask \in Ask /\ ask.flag \in BOOLEAN
  BY <1>1, ReadCopy, RequestType
<1>3. CASE UpdateRow(c, i, row, ask)
  BY <1>2, <1>3 DEF Edits
<1>4. CASE CompleteRow(c, i, row, ask.flag)
  BY <1>2, <1>4 DEF Completes
<1> QED
  BY <1>3, <1>4 DEF Update, SetCompleted

LEMMA SetOccurrenceCompletedEffect ==
    ASSUME TypeOK, NEW c \in Clients, SetOccurrenceCompleted(c)
    PROVE  Fail(c) \/ Completes(c) \/ WritesException(c)
<1> DEFINE ask == req[c].ask  k == <<ask.task, ask.slot>>
           e == [ExceptionAt(k) EXCEPT !.done = ask.flag]
<1>1. ask.kind = "completeOccurrence"
  BY DEF SetOccurrenceCompleted
<1>2. ask.task \in Ids /\ ask.flag \in BOOLEAN /\ k \in Ids \X Days
  BY <1>1, RequestType
<1>3. CASE CompleteTask(c, ask.task, ask.flag)
  BY <1>2, <1>3, CompleteTaskEffect
<1>4. CASE req[c].child # 0 /\ CompleteTask(c, req[c].child, ask.flag)
  <2>1. req[c].child \in Ids
    BY <1>1, <1>4, RequestType, SeriesConstants DEF Ids
  <2> QED
    BY <1>2, <1>4, <2>1, CompleteTaskEffect
<1>5. CASE /\ req[c].row.rule # NoRule /\ req[c].child = 0
           /\ CommitException(c, k, e) /\ UNCHANGED <<tasks, groupRule, served, gone, asked>>
  <2>1. ExceptionAt(k) \in Exception
    BY <1>2, ExceptionType
  <2>2. e \in Exception /\ e.skip = ExceptionAt(k).skip
    BY <1>2, <2>1 DEF Exception
  <2> HIDE DEF e
  <2> QED
    BY <1>1, <1>5, <2>2 DEF WritesException, ByOccurrence
<1> QED
  BY <1>3, <1>4, <1>5 DEF SetOccurrenceCompleted

LEMMA SkipEffect ==
    ASSUME TypeOK, NEW c \in Clients, SkipOccurrence(c)
    PROVE  Fail(c) \/ RemovesChild(c) \/ RemovesSeries(c) \/ WritesException(c)
<1> DEFINE ask == req[c].ask  i == ask.task  k == <<ask.task, ask.slot>>
           e == [ExceptionAt(k) EXCEPT !.skip = TRUE]
<1>1. ask.kind = "skip"
  BY DEF SkipOccurrence
<1>2. i \in Ids /\ k \in Ids \X Days
  BY <1>1, RequestType
<1>3. CASE Live(i) /\ tasks[i].parent # 0 /\ RemoveChild(c, i, tasks[i], FALSE)
  BY <1>2, <1>3, LiveCopy DEF RemovesChild
<1>4. CASE Live(i) /\ tasks[i].parent = 0 /\ RemoveSeries(c, i, tasks[i])
  BY <1>2, <1>4, LiveCopy DEF RemovesSeries
<1>5. CASE /\ req[c].row.rule # NoRule /\ req[c].child = 0
           /\ CommitException(c, k, e) /\ gone' = gone \cup {k}
           /\ UNCHANGED <<tasks, groupRule, served, asked>>
  <2>1. ExceptionAt(k) \in Exception
    BY <1>2, ExceptionType
  <2>2. e \in Exception /\ e.skip /\ e.done = ExceptionAt(k).done
    BY <2>1 DEF Exception
  <2> HIDE DEF e
  <2> QED
    BY <1>1, <1>5, <2>2 DEF WritesException, ByOccurrence
<1>6. CASE Fail(c)
  BY <1>6
<1> QED
  BY <1>3, <1>4, <1>5, <1>6 DEF SkipOccurrence, CollapseSkip

LEMMA MoveOwnEffect ==
    ASSUME TypeOK, NEW c \in Clients, MoveOccurrence(c), req[c].row.rule # NoRule
    PROVE  Fail(c) \/ WritesException(c)
<1> DEFINE ask == req[c].ask  k == <<ask.task, ask.slot>>
           e == [ExceptionAt(k) EXCEPT !.at = ask.day, !.length = ask.length]
<1>1. ask.kind = "move"
  BY DEF MoveOccurrence
<1>2. k \in Ids \X Days /\ ask.day \in Days /\ ask.length \in Nat
  BY <1>1, RequestType
<1>3. CASE /\ req[c].row.rule # NoRule /\ req[c].child = 0
           /\ CommitException(c, k, e) /\ UNCHANGED <<tasks, groupRule, served, gone, asked>>
  <2>1. ExceptionAt(k) \in Exception
    BY <1>2, ExceptionType
  <2>2. e \in Exception /\ e.skip = ExceptionAt(k).skip /\ e.done = ExceptionAt(k).done
    BY <1>2, <2>1 DEF Exception
  <2> HIDE DEF e
  <2> QED
    BY <1>1, <1>3, <2>2 DEF WritesException, ByOccurrence
<1>4. CASE Fail(c)
  BY <1>4
<1> QED
  BY <1>3, <1>4 DEF MoveOccurrence

LEMMA MoveEffect ==
    ASSUME TypeOK, NEW c \in Clients, MoveOccurrence(c)
    PROVE  Fail(c) \/ Edits(c) \/ WritesException(c)
<1> DEFINE ask == req[c].ask  i == ask.task  edit == [ask EXCEPT !.field = "start"]
<1>1. ask.kind = "move"
  BY DEF MoveOccurrence
<1>2. i \in Ids /\ ask \in Ask
  BY <1>1, RequestType
<1>3. CASE Live(i) /\ UpdateRow(c, i, tasks[i], edit)
  <2>1. edit \in Ask
    BY <1>2 DEF Ask, Fields
  <2> HIDE DEF edit
  <2> QED
    BY <1>2, <1>3, <2>1, LiveCopy DEF Edits
<1>4. CASE req[c].row.rule # NoRule
  BY <1>4, MoveOwnEffect
<1> QED
  BY <1>3, <1>4 DEF MoveOccurrence

LEMMA SplitEffect ==
    ASSUME TypeOK, NEW c \in Clients, SplitSeries(c)
    PROVE  Fail(c) \/ Edits(c) \/ Splits(c)
<1> DEFINE ask == req[c].ask  i == ask.task  row == req[c].row
           edit == [ask EXCEPT !.field = IF ask.flag THEN "start" ELSE "title"]
<1>1. ask.kind = "split"
  BY DEF SplitSeries
<1>2. i \in Ids /\ ask \in Ask
  BY <1>1, RequestType
<1>3. CASE Live(i) /\ UpdateRow(c, i, tasks[i], edit)
  <2>1. edit \in Ask
    BY <1>2 DEF Ask, Fields
  <2> HIDE DEF edit
  <2> QED
    BY <1>2, <1>3, <2>1, LiveCopy DEF Edits
<1>4. CASE Fail(c)
  BY <1>4
<1>5. CASE ~(row.rule = NoRule \/ row.start = ask.slot)
  BY <1>5 DEF SplitSeries, Splits, Ended, NewSeries
<1>6. CASE row.rule = NoRule \/ row.start = ask.slot
  BY <1>3, <1>4, <1>6 DEF SplitSeries
<1> QED
  BY <1>5, <1>6

LEMMA EndEffect ==
    ASSUME TypeOK, NEW c \in Clients, EndSeriesAt(c)
    PROVE  Fail(c) \/ RemovesChild(c) \/ RemovesSeries(c) \/ Ends(c)
<1> DEFINE ask == req[c].ask  i == ask.task  row == req[c].row
<1>1. ask.kind = "end"
  BY DEF EndSeriesAt
<1>2. i \in Ids
  BY <1>1, RequestType
<1>3. CASE Live(i) /\ tasks[i].parent # 0 /\ RemoveChild(c, i, tasks[i], FALSE)
  BY <1>2, <1>3, LiveCopy DEF RemovesChild
<1>4. CASE Live(i) /\ tasks[i].parent = 0 /\ RemoveSeries(c, i, tasks[i])
  BY <1>2, <1>4, LiveCopy DEF RemovesSeries
<1>5. CASE Fail(c)
  BY <1>5
<1>6. CASE ~(row.rule = NoRule \/ row.start = ask.slot)
  BY <1>6 DEF EndSeriesAt, Ends, Ended
<1>7. CASE row.rule = NoRule \/ row.start = ask.slot
  BY <1>3, <1>4, <1>5, <1>7 DEF EndSeriesAt
<1> QED
  BY <1>6, <1>7

LEMMA ChildAtIs ==
    ASSUME NEW i, NEW slot
    PROVE  IF ChildAt(i, slot) = 0 THEN \A k \in Children(i) : tasks[k].slot # slot
           ELSE ChildAt(i, slot) \in Children(i) /\ tasks[ChildAt(i, slot)].slot = slot
<1> DEFINE found == {k \in Children(i) : tasks[k].slot = slot}
<1>1. found # {} => ChildAt(i, slot) \in found
  BY DEF ChildAt
<1>2. found = {} => ChildAt(i, slot) = 0
  BY DEF ChildAt
<1>3. 0 \notin found
  BY SeriesConstants DEF Children, Ids
<1> QED
  BY <1>1, <1>2, <1>3

\* The child of the slot, with what it absorbs and the patch.
LEMMA OverrideEffect ==
    ASSUME TypeOK, NEW c \in Clients, CreateOrUpdateOverride(c)
    PROVE  Fail(c) \/ Overrides(c)
<1> DEFINE ask == req[c].ask  i == ask.task  slot == ask.slot  k == <<i, slot>>
           parent == req[c].row  existing == ChildAt(i, slot)
           id == IF existing # 0 THEN existing ELSE FreeId
           base == IF existing # 0 THEN tasks[existing] ELSE NewChild(i, parent, slot)
           child == Absorbed(base, exceptions[k])
           patched == IF ask.flag THEN [child EXCEPT !.start = ask.day, !.length = ask.length] ELSE child
<1>1. ask.kind = "override"
  BY DEF CreateOrUpdateOverride
<1>2. /\ k \in Ids \X Days /\ i \in Ids /\ slot \in Days /\ ask.day \in Days /\ ask.length \in Nat /\ parent \in Row
  BY <1>1, RequestType
<1>3. CASE Fail(c)
  BY <1>3
<1>4. CASE /\ existing # 0 \/ slot \in Generated(parent, Effective(parent))
           /\ existing = 0 => HasFreeId
           /\ CommitException(c, k, NoException) /\ tasks' = Saved(id, patched)
           /\ gone' = gone \ {k} /\ UNCHANGED <<groupRule, served, asked>>
  <2>1. id \in Ids
    BY <1>4, ChildType DEF HasFreeId, FreeId
  <2>2. /\ existing # 0 => /\ existing \in Children(i) /\ tasks[existing].slot = slot
                           /\ existing \in Ids /\ Live(existing)
        /\ existing = 0 => \A j \in Children(i) : tasks[j].slot # slot
    <3>1. IF existing = 0 THEN \A j \in Children(i) : tasks[j].slot # slot
          ELSE existing \in Children(i) /\ tasks[existing].slot = slot
      BY ChildAtIs
    <3> HIDE DEF existing
    <3> QED
      BY <3>1 DEF Children
  <2>3. NewChild(i, parent, slot) \in Row
    <3>1. Task(slot, parent.length, NoRule, parent.grouped) \in Row
      BY <1>2, TaskType DEF Row
    <3>2. i \in 0..MaxTask
      BY <1>2, SeriesConstants DEF Ids
    <3> DEFINE t == Task(slot, parent.length, NoRule, parent.grouped)
    <3>3. NewChild(i, parent, slot) = [t EXCEPT !.parent = i, !.slot = slot]
      BY DEF NewChild
    <3> HIDE DEF t
    <3>4. t \in Row
      BY <3>1 DEF t
    <3>5. [t EXCEPT !.parent = i, !.slot = slot] \in Row
      BY <1>2, <3>2, <3>4 DEF Row
    <3> QED
      BY <3>3, <3>5
  <2>4. LET r == NewChild(i, parent, slot)
        IN  /\ ~r.deleted /\ r.parent = i /\ r.slot = slot /\ r.rule = NoRule /\ ~r.detached
            /\ r.done = FALSE
    BY DEF NewChild, Task
  <2>5. /\ base \in Row /\ ~base.deleted /\ base.parent = i /\ base.slot = slot
        /\ existing = 0 => base.rule = NoRule /\ ~base.detached
        /\ existing # 0 => base = tasks[existing]
    <3>1. existing # 0 => tasks[existing] \in Row /\ ~tasks[existing].deleted
                          /\ tasks[existing].parent = i
      BY <2>2, LiveType DEF Live, Children
    <3> HIDE DEF existing
    <3> QED
      BY <2>2, <2>3, <2>4, <3>1
  <2> HIDE DEF base
  <2>6. exceptions[k] \in Exception \cup {NoException}
    BY <1>2 DEF TypeOK
  <2>7. ASSUME NEW e \in Exception \cup {NoException}
        PROVE  LET r == Absorbed(base, e)
               IN  /\ r \in Row /\ r.deleted = base.deleted /\ r.parent = base.parent
                   /\ r.slot = base.slot /\ r.rule = base.rule /\ r.detached = base.detached
                   /\ base.done => r.done
                   /\ e # NoException /\ e.done => r.done
    <3>1. CASE e = NoException
      BY <2>5, <3>1 DEF Absorbed
    <3>2. CASE e # NoException
      <4> DEFINE start == IF e.at # NoDay THEN e.at ELSE base.start
                 length == IF e.at # NoDay THEN e.length ELSE base.length
                 done == base.done \/ e.done
      <4>1. start \in Days /\ length \in Nat /\ done \in BOOLEAN
        BY <2>5, <3>2 DEF Exception, Row
      <4>2. Absorbed(base, e) = [base EXCEPT !.start = start, !.length = length, !.done = done]
        BY <3>2 DEF Absorbed
      <4>3. (base.done => done) /\ (e.done => done)
        OBVIOUS
      <4> HIDE DEF start, length, done
      <4> QED
        BY <2>5, <3>2, <4>1, <4>2, <4>3 DEF Row
    <3> QED
      BY <3>1, <3>2
  <2>8. /\ child \in Row /\ child.deleted = base.deleted /\ child.parent = base.parent
        /\ child.slot = base.slot /\ child.rule = base.rule /\ child.detached = base.detached
        /\ base.done => child.done
        /\ exceptions[k] # NoException /\ exceptions[k].done => child.done
    BY <2>6, <2>7
  <2> HIDE DEF child
  <2>9. /\ patched \in Row /\ patched.deleted = base.deleted /\ patched.parent = base.parent
        /\ patched.slot = base.slot /\ patched.rule = base.rule
        /\ patched.detached = base.detached
        /\ base.done => patched.done
        /\ exceptions[k] # NoException /\ exceptions[k].done => patched.done
    BY <1>2, <2>8 DEF Row
  <2> HIDE DEF patched
  <2>10. CASE existing = 0
    <3>1. tasks[id] = NoTask
      BY <1>4, <2>10 DEF HasFreeId, FreeId
    <3>2. NewAt(i, slot, id, patched)
      BY <2>2, <2>5, <2>9, <2>10, <3>1 DEF NewAt
    <3> HIDE DEF id, existing
    <3> QED
      BY <1>1, <1>4, <2>1, <2>5, <2>9, <2>10, <3>2 DEF Overrides
  <2>11. CASE existing # 0
    <3>1. id = existing
      BY <2>11
    <3> HIDE DEF id, existing
    <3>2. FoundAt(i, slot, id, patched)
      BY <2>2, <2>5, <2>9, <2>11, <3>1 DEF FoundAt, Children
    <3> QED
      BY <1>1, <1>4, <2>1, <2>5, <2>9, <3>2 DEF Overrides
  <2> QED
    BY <2>10, <2>11
<1> QED
  BY <1>3, <1>4 DEF CreateOrUpdateOverride

LEMMA ServeEffect == ASSUME TypeOK, NEW c \in Clients, Serve(c) PROVE Effect(c)
BY RowEffect, RemoveEffect, SetOccurrenceCompletedEffect, SkipEffect, MoveEffect, SplitEffect,
   EndEffect, OverrideEffect DEF Serve, Effect

LEMMA NextIs ==
    ASSUME [Next]_vars
    PROVE  \/ \E c \in Clients : Load(c) \/ Serve(c)
           \/ Create \/ SetGroupRule \/ RemoveGroup \/ UNCHANGED vars
BY DEF Next, Serve
-----------------------------------------------------------------------------
(* Rows descend from rows, whatever requests do.                            *)

LEMMA CopyProper ==
    ASSUME TypeOK, Lineage, NEW c \in Clients, NEW i \in Ids, NEW row \in Row, Copy(c, i, row)
    PROVE  Proper(i, row)
BY DEF Copy, Lineage, Live

LEMMA UntilProper ==
    ASSUME TypeOK, NEW i \in Ids, NEW row \in Row, row.rule # NoRule, NEW slot \in Days,
           Proper(i, row)
    PROVE  /\ Ended(row, slot) \in Row /\ row.parent = 0 /\ Proper(i, Ended(row, slot))
           /\ Ended(row, slot).start = row.start /\ Ended(row, slot).parent = 0
           /\ Ended(row, slot).rule = Until(row.rule, slot)
           /\ Ended(row, slot).deleted = row.deleted
<1>1. Until(row.rule, slot) \in Rule
  BY RuleType
<1>2. row.parent = 0
  BY DEF Proper
<1> QED
  BY <1>1, <1>2 DEF Ended, Row, Proper

\* The table of a split, before the sweep.
SplitTable(i, row, ask) ==
    [tasks EXCEPT ![i] = Ended(row, ask.slot), ![FreeId] = NewSeries(ask, row)]

LEMMA SplitRows ==
    ASSUME TypeOK, Lineage, HasFreeId, NEW i \in Ids, tasks[i] # NoTask, NEW row \in Row,
           row.rule # NoRule, Proper(i, row), NEW ask \in Ask
    PROVE  /\ FreeId \in Ids /\ tasks[FreeId] = NoTask /\ FreeId # i
           /\ NewSeries(ask, row) \in Row /\ NewSeries(ask, row).parent = 0
           /\ SplitTable(i, row, ask) \in Table /\ Descends(SplitTable(i, row, ask))
           /\ SplitTable(i, row, ask)[i] = Ended(row, ask.slot)
           /\ SplitTable(i, row, ask)[FreeId] = NewSeries(ask, row)
           /\ \A k \in Ids \ {i, FreeId} : SplitTable(i, row, ask)[k] = tasks[k]
<1> DEFINE ended == Ended(row, ask.slot)  new == NewSeries(ask, row)
           table == SplitTable(i, row, ask)
<1>1. FreeId \in Ids /\ tasks[FreeId] = NoTask /\ FreeId # i
  BY DEF HasFreeId, FreeId
<1>2. ended \in Row /\ Proper(i, ended)
  BY UntilProper DEF Ask
<1>3. new \in Row /\ new.parent = 0
  <2>1. SplitRule(row, ask.slot) \in Rule
    BY RuleType DEF Ask
  <2>2. /\ (IF ask.flag THEN ask.day ELSE ask.slot) \in Days /\ row.grouped \in BOOLEAN
        /\ (IF ask.flag THEN ask.length ELSE row.length) \in Nat
    BY DEF Ask, Row
  <2>3. new \in Row
    BY <2>1, <2>2, TaskType DEF NewSeries
  <2> QED
    BY <2>3 DEF NewSeries, Task
<1> HIDE DEF ended, new
<1>4. table = [tasks EXCEPT ![i] = ended, ![FreeId] = new]
  BY DEF SplitTable, ended, new
<1>5. table \in Table /\ table[i] = ended /\ table[FreeId] = new
      /\ \A k \in Ids \ {i, FreeId} : table[k] = tasks[k]
  BY <1>1, <1>2, <1>3, <1>4 DEF TypeOK, Table
<1>6. Keeps(table)
  BY <1>2, <1>3, <1>5, SeriesConstants DEF Keeps
<1>7. ASSUME NEW k \in Ids, table[k] # NoTask PROVE Proper(k, table[k])
  <2>1. CASE k = i
    BY <1>2, <1>5, <2>1
  <2>2. CASE k = FreeId
    BY <1>3, <1>5, <2>2 DEF Proper
  <2>3. CASE k \notin {i, FreeId}
    BY <1>5, <1>7, <2>3 DEF Lineage
  <2> QED
    BY <2>1, <2>2, <2>3
<1> QED
  BY <1>1, <1>3, <1>5, <1>6, <1>7 DEF Descends, ended, new

LEMMA EffectDescends ==
    ASSUME TypeOK, Lineage, NEW c \in Clients, Effect(c)
    PROVE  Reply(c) /\ Descends(tasks')
<1>1. CASE Fail(c)
  BY <1>1, TasksDescend DEF Fail, Descends, Keeps
<1>2. CASE Edits(c)
  <2>1. PICK i \in Ids, row \in Row, ask \in Ask : Copy(c, i, row) /\ UpdateRow(c, i, row, ask)
    BY <1>2 DEF Edits
  <2>2. /\ Proper(i, row) /\ ask.day \in Days /\ ask.length \in Nat /\ ask.rule \in Rule \cup {NoRule}
        /\ ask.flag \in BOOLEAN
    BY <2>1, CopyProper DEF Ask
  <2> QED
    BY <2>1, <2>2, UpdateRowDescends
<1>3. CASE Completes(c)
  BY <1>3, CopyProper, CompleteRowDescends DEF Completes
<1>4. CASE RemovesSeries(c)
  BY <1>4, CopyProper, RemoveSeriesDescends DEF RemovesSeries
<1>5. CASE RemovesChild(c)
  BY <1>5, CopyProper, RemoveChildDescends DEF RemovesChild
<1>6. CASE WritesException(c)
  <2>1. Reply(c) /\ tasks' = tasks
    BY <1>6 DEF WritesException, CommitException
  <2> QED
    BY <2>1, TasksDescend
<1>7. CASE Overrides(c)
  <2> DEFINE ask == req[c].ask  i == ask.task  slot == ask.slot
  <2>1. PICK id \in Ids, child \in Row :
           /\ tasks' = Saved(id, child)
           /\ child.parent = i /\ child.slot = slot
           /\ NewAt(i, slot, id, child) \/ FoundAt(i, slot, id, child)
    BY <1>7 DEF Overrides
  <2>2. i \in Ids /\ tasks[i] # NoTask
    BY <1>7 DEF Overrides, TypeOK
  <2>3. Proper(id, child)
    <3>1. CASE NewAt(i, slot, id, child)
      BY <2>1, <2>2, <3>1 DEF NewAt, Proper
    <3>2. CASE FoundAt(i, slot, id, child)
      <4>1. Proper(id, tasks[id])
        BY <3>2 DEF FoundAt, Live, Lineage
      <4> QED
        BY <2>1, <3>2, <4>1 DEF FoundAt, Proper
    <3> QED
      BY <2>1, <3>1, <3>2
  <2>4. Reply(c)
    BY <1>7 DEF Overrides, CommitException
  <2> QED
    BY <2>1, <2>3, <2>4, SavedDescends
<1>8. CASE Splits(c)
  <2> DEFINE ask == req[c].ask  i == ask.task  row == req[c].row
  <2>1. ask \in Ask /\ i \in Ids /\ tasks[i] # NoTask /\ row \in Row
    BY <1>8, RequestType DEF Splits, TypeOK
  <2>2. row.rule # NoRule /\ HasFreeId /\ Proper(i, row)
    BY <1>8 DEF Splits, Lineage
  <2>3. SplitTable(i, row, ask) \in Table /\ Descends(SplitTable(i, row, ask))
    BY <2>1, <2>2, SplitRows
  <2>4. Commit(c, Swept(SplitTable(i, row, ask), i))
    BY <1>8 DEF Splits, SplitTable
  <2> HIDE DEF ask, i, row
  <2>5. Descends(Swept(SplitTable(i, row, ask), i))
    BY <2>3, SweptDescends
  <2> QED
    BY <2>4, <2>5, CommitDescends
<1>9. CASE Ends(c)
  <2> DEFINE ask == req[c].ask  i == ask.task  row == req[c].row
             ended == Ended(row, ask.slot)
  <2>1. ask \in Ask /\ i \in Ids /\ row \in Row /\ ask.slot \in Days
    BY <1>9, RequestType DEF Ends
  <2>2. row.rule # NoRule /\ Proper(i, row)
    BY <1>9 DEF Ends, Lineage
  <2>3. ended \in Row /\ Proper(i, ended)
    BY <2>1, <2>2, UntilProper
  <2>4. Commit(c, Swept(Saved(i, ended), i))
    BY <1>9 DEF Ends
  <2> HIDE DEF ended, i
  <2>5. Descends(Swept(Saved(i, ended), i))
    BY <2>1, <2>3, SavedType, SavedDescends, SweptDescends DEF i
  <2> QED
    BY <2>4, <2>5, CommitDescends
<1> QED
  BY <1>1, <1>2, <1>3, <1>4, <1>5, <1>6, <1>7, <1>8, <1>9 DEF Effect

LEMMA NextLineage == ASSUME TypeOK, Lineage, [Next]_vars PROVE Lineage' /\ Keeps(tasks')
<1>1. TypeOK'
  BY NextKeepsType
<1>2. ASSUME NEW c \in Clients, Serve(c) PROVE Lineage' /\ Keeps(tasks')
  BY <1>1, <1>2, ServeEffect, EffectDescends, LineageSettle DEF Descends
<1>3. ASSUME Keeps(tasks'), NEW i, NEW row \in Row, Proper(i, row) PROVE Proper(i, row)'
  <2>1. row.parent # 0 => row.parent \in Ids
    BY SeriesConstants DEF Row, Ids
  <2> QED
    BY <1>3, <2>1 DEF Keeps, Proper
<1>4. ASSUME req' = req, Keeps(tasks'), \A i \in Ids : tasks'[i] # NoTask => Proper(i, tasks'[i])
      PROVE  Lineage'
  <2>1. ASSUME NEW i \in Ids, tasks'[i] # NoTask PROVE Proper(i, tasks[i])'
    <3>1. tasks'[i] \in Row /\ Proper(i, tasks'[i])
      BY <1>1, <1>4, <2>1 DEF TypeOK
    <3> QED
      BY <1>3, <1>4, <3>1
  <2>2. ASSUME NEW c \in Clients, req'[c].ask.kind # "idle"
        PROVE  Proper(req[c].ask.task, req[c].row)'
    <3>1. req[c].row \in Row /\ Proper(req[c].ask.task, req[c].row)
      BY <1>4, <2>2, RequestType DEF Lineage
    <3> QED
      BY <1>3, <1>4, <3>1
  <2> QED
    BY <2>1, <2>2 DEF Lineage
<1>5. ASSUME NEW c \in Clients, Load(c) PROVE Lineage' /\ Keeps(tasks')
  <2>1. PICK a \in Asks :
          /\ Live(a.task)
          /\ req' = [req EXCEPT ![c] =
                 [ask |-> a, row |-> tasks[a.task],
                  child |-> IF a.kind \in {"completeOccurrence", "skip", "move"}
                            THEN ChildAt(a.task, a.slot) ELSE 0]]
    BY <1>5 DEF Load
  <2>2. tasks' = tasks
    BY <1>5 DEF Load
  <2>3. a.task \in Ids /\ Proper(a.task, tasks[a.task])
    BY <2>1, AskType DEF Live, Lineage
  <2>4. ASSUME NEW d \in Clients, req'[d].ask.kind # "idle"
        PROVE  Proper(req'[d].ask.task, req'[d].row)
    <3>1. CASE d = c
      <4>1. req'[d].ask = a /\ req'[d].row = tasks[a.task]
        BY <2>1, <3>1 DEF TypeOK
      <4> QED
        BY <2>3, <4>1
    <3>2. CASE d # c
      BY <2>1, <2>4, <3>2 DEF TypeOK, Lineage
    <3> QED
      BY <3>1, <3>2
  <2> QED
    BY <2>2, <2>4 DEF Lineage, Proper, Keeps
<1>6. CASE Create
  <2>1. PICK start \in Targets, length \in Lengths, rule \in UserRules \cup {NoRule},
           grouped \in BOOLEAN :
           tasks' = Saved(FreeId, Task(start, length, rule, grouped))
    BY <1>6 DEF Create
  <2>2. FreeId \in Ids /\ tasks[FreeId] = NoTask
    BY <1>6 DEF Create, HasFreeId, FreeId
  <2>3. Task(start, length, rule, grouped) \in Row /\ Proper(FreeId, Task(start, length, rule, grouped))
    <3>1. Task(start, length, rule, grouped).parent = 0
      BY DEF Task
    <3> QED
      BY <3>1, TaskType, SeriesConstants DEF Proper
  <2>4. Descends(tasks')
    BY <2>1, <2>2, <2>3, SavedDescends
  <2> QED
    BY <1>4, <1>6, <2>4 DEF Create, Descends
<1>7. CASE SetGroupRule \/ UNCHANGED vars
  <2>1. tasks' = tasks /\ req' = req
    BY <1>7 DEF SetGroupRule, vars
  <2> QED
    BY <1>4, <2>1, TasksDescend DEF Descends
<1>8. CASE RemoveGroup
  <2>1. tasks' = [i \in Ids |-> IF tasks[i] = NoTask THEN NoTask
                               ELSE [tasks[i] EXCEPT !.grouped = FALSE]]
    BY <1>8 DEF RemoveGroup
  <2>2. ASSUME NEW i \in Ids
        PROVE  /\ tasks[i] # NoTask => tasks'[i] # NoTask
               /\ tasks'[i] # NoTask => Proper(i, tasks'[i])
    <3>1. CASE tasks[i] = NoTask
      BY <2>1, <3>1
    <3>2. CASE tasks[i] # NoTask
      <4>1. tasks[i] \in Row /\ Proper(i, tasks[i])
        BY <3>2 DEF TypeOK, Lineage
      <4>2. tasks'[i] = [tasks[i] EXCEPT !.grouped = FALSE]
        BY <2>1, <3>2
      <4>3. tasks'[i] \in Row
        BY <4>1, <4>2 DEF Row
      <4> QED
        BY <4>1, <4>2, <4>3, SeriesConstants DEF Proper, Row
    <3> QED
      BY <3>1, <3>2
  <2> QED
    BY <1>4, <1>8, <2>2 DEF RemoveGroup, Keeps
<1> QED
  BY <1>2, <1>5, <1>6, <1>7, <1>8, NextIs

LEMMA LineageHolds == Spec => []Lineage
<1>1. Init => Lineage
  <2> SUFFICES ASSUME Init PROVE Lineage
    OBVIOUS
  <2>1. \A i \in Ids : tasks[i] # NoTask => tasks[i].parent = 0
    BY DEF Init, Task
  <2>2. \A c \in Clients : req[c].ask.kind = "idle"
    BY DEF Init, Idle, Blank
  <2> QED
    BY <2>1, <2>2 DEF Lineage, Proper
<1>2. TypeOK /\ Lineage /\ [Next]_vars => Lineage'
  BY NextLineage
<1> QED
  BY TypeCorrect, <1>1, <1>2, PTL DEF Spec
-----------------------------------------------------------------------------
(* The cut of a series.                                                     *)

\* A table whose children are those of the tables passes the unique index.
LEMMA SweptUnique ==
    ASSUME TypeOK, SlotsUnique, NEW table \in Table, NEW i \in Ids,
           \A k \in Ids : table[k] # NoTask => table[k].parent = 0 \/ table[k] = tasks[k]
    PROVE  OneLiveChildPerSlot(Swept(table, i))
<1>1. ASSUME NEW k \in Ids, Swept(table, i)[k] # NoTask, ~Swept(table, i)[k].deleted
      PROVE  \/ Swept(table, i)[k].parent = 0
             \/ /\ tasks[k] # NoTask /\ ~tasks[k].deleted
                /\ tasks[k].parent = Swept(table, i)[k].parent
                /\ tasks[k].slot = Swept(table, i)[k].slot
  BY <1>1, SweptRow
<1> QED
  BY <1>1, FewerChildren

\* What the two cuts leave of the tables.
LEMMA SplitLeaves ==
    ASSUME TypeOK, Lineage, SlotsUnique, NEW c \in Clients, Splits(c)
    PROVE  LET ask == req[c].ask  i == ask.task  row == req[c].row
           IN  /\ tasks' = Swept(SplitTable(i, row, ask), i)
               /\ tasks'[i].start = row.start /\ tasks'[i].length = row.length
               /\ tasks'[i].rule = Until(row.rule, ask.slot)
               /\ tasks'[FreeId].start = IF ask.flag THEN ask.day ELSE ask.slot
               /\ tasks'[FreeId].length = IF ask.flag THEN ask.length ELSE row.length
               /\ tasks'[FreeId].rule = SplitRule(row, ask.slot)
<1> DEFINE ask == req[c].ask  i == ask.task  row == req[c].row  table == SplitTable(i, row, ask)
<1>1. ask \in Ask /\ ask.slot \in Days /\ i \in Ids /\ tasks[i] # NoTask /\ row \in Row
  BY RequestType DEF Splits, TypeOK
<1>2. row.rule # NoRule /\ HasFreeId /\ Proper(i, row) /\ Commit(c, Swept(table, i))
  BY DEF Splits, SplitTable, Lineage
<1>3. NewSeries(ask, row).start = (IF ask.flag THEN ask.day ELSE ask.slot)
      /\ NewSeries(ask, row).length = (IF ask.flag THEN ask.length ELSE row.length)
      /\ NewSeries(ask, row).rule = SplitRule(row, ask.slot)
  BY DEF NewSeries, Task
<1> HIDE DEF ask, i, row, table
<1>4. /\ FreeId \in Ids /\ FreeId # i /\ table \in Table /\ table[i] = Ended(row, ask.slot)
      /\ table[FreeId] = NewSeries(ask, row) /\ NewSeries(ask, row) \in Row
      /\ NewSeries(ask, row).parent = 0
      /\ \A k \in Ids \ {i, FreeId} : table[k] = tasks[k]
  BY <1>1, <1>2, SplitRows DEF table
<1>5. /\ Ended(row, ask.slot) \in Row /\ Ended(row, ask.slot).parent = 0
      /\ Ended(row, ask.slot).start = row.start
      /\ Ended(row, ask.slot).rule = Until(row.rule, ask.slot)
      /\ Ended(row, ask.slot).length = row.length
  BY <1>1, <1>2, UntilProper DEF Ended, Row
<1>6. OneLiveChildPerSlot(Swept(table, i))
  BY <1>1, <1>4, <1>5, SweptUnique
<1>7. tasks' = Swept(table, i)
  BY <1>2, <1>6 DEF Commit
<1>8. table[i] # NoTask /\ table[FreeId] # NoTask
  BY <1>4, <1>5, SeriesConstants
<1> QED
  BY <1>1, <1>3, <1>4, <1>5, <1>7, <1>8, SweptRow DEF ask, i, row, table

LEMMA EndLeaves ==
    ASSUME TypeOK, Lineage, SlotsUnique, NEW c \in Clients, Ends(c)
    PROVE  LET ask == req[c].ask  i == ask.task  row == req[c].row
           IN  /\ tasks' = Swept(Saved(i, Ended(row, ask.slot)), i)
               /\ tasks'[i].start = row.start
               /\ tasks'[i].rule = Until(row.rule, ask.slot)
<1> DEFINE ask == req[c].ask  i == ask.task  row == req[c].row  ended == Ended(row, ask.slot)
           table == Saved(i, ended)
<1>1. ask \in Ask /\ ask.slot \in Days /\ i \in Ids /\ row \in Row
  BY RequestType DEF Ends
<1>2. row.rule # NoRule /\ Proper(i, row) /\ Commit(c, Swept(table, i))
  BY DEF Ends, Lineage
<1> HIDE DEF ask, i, row
<1>3. /\ ended \in Row /\ ended.parent = 0 /\ ended.start = row.start
      /\ ended.rule = Until(row.rule, ask.slot)
  BY <1>1, <1>2, UntilProper
<1> HIDE DEF ended
<1>4. /\ table \in Table /\ table[i] = ended
      /\ \A k \in Ids \ {i} : table[k] = tasks[k]
  BY <1>1, <1>3, SavedType DEF Saved, TypeOK
<1> HIDE DEF table
<1>5. OneLiveChildPerSlot(Swept(table, i))
  BY <1>1, <1>3, <1>4, SweptUnique
<1>6. tasks' = Swept(table, i)
  BY <1>2, <1>5 DEF Commit
<1>7. table[i] # NoTask
  BY <1>3, <1>4, SeriesConstants
<1> QED
  BY <1>1, <1>3, <1>4, <1>6, <1>7, SweptRow DEF ask, i, row, table, ended

\* What a rule generates depends on the start of the row and on no other column.
LEMMA GeneratedByStart ==
    ASSUME NEW r, NEW s, NEW rule, r.start = s.start
    PROVE  Generated(r, rule) = Generated(s, rule)
BY DEF Generated

\* However many clients edit, with fresh rows or stale ones: a split at an occurrence of
\* the row that was read adds none and drops none, and an end keeps what came before.
THEOREM CutConservesHolds == Spec => CutConserves
<1> DEFINE A(c) ==
      LET ask == req[c].ask  i == ask.task  row == req[c].row
          before == Generated(row, row.rule)
          cut == row.rule # NoRule /\ ask.slot \in before /\ ask.slot # row.start
      IN  /\ SplitSeries(c) /\ cut =>
                 /\ Generated(tasks'[i], tasks'[i].rule) = {d \in before : d < ask.slot}
                 /\ LET new == FreeId
                    IN  /\ ~ask.flag => Generated(tasks'[new], tasks'[new].rule)
                                            = {d \in before : d >= ask.slot}
                        /\ \A d \in before : d >= ask.slot =>
                               exceptions'[<<new, d>>] = exceptions[<<i, d>>]
          /\ EndSeriesAt(c) /\ cut =>
                 Generated(tasks'[i], tasks'[i].rule) = {d \in before : d < ask.slot}
<1>1. ASSUME TypeOK, Lineage, SlotsUnique, NEW c \in Clients PROVE A(c)
  <2> DEFINE ask == req[c].ask  i == ask.task  row == req[c].row
             before == Generated(row, row.rule)
  <2> SUFFICES ASSUME SplitSeries(c) \/ EndSeriesAt(c),
                      row.rule # NoRule, ask.slot \in before, ask.slot # row.start
               PROVE  A(c)
    OBVIOUS
  <2>1. ask.kind # "idle"
    BY DEF SplitSeries, EndSeriesAt
  <2>2. row \in Row /\ row.rule \in Rule
    BY <1>1, <2>1, RequestType DEF Row
  <2>3. SplitSeries(c) => Splits(c)
    BY DEF SplitSeries, Splits, Ended, NewSeries
  <2>4. EndSeriesAt(c) => Ends(c)
    BY DEF EndSeriesAt, Ends, Ended
  <2>5. SplitSeries(c) \/ EndSeriesAt(c) =>
           tasks'[i].start = row.start /\ tasks'[i].rule = Until(row.rule, ask.slot)
    BY <1>1, <2>3, <2>4, SplitLeaves, EndLeaves
  <2>6. SplitSeries(c) =>
           /\ tasks'[FreeId].start = (IF ask.flag THEN ask.day ELSE ask.slot)
           /\ tasks'[FreeId].rule = SplitRule(row, ask.slot)
    BY <1>1, <2>3, SplitLeaves
  <2>7. Generated(tasks'[i], tasks'[i].rule) = {d \in before : d < ask.slot}
    <3>1. \A ended : ended.start = row.start =>
             Generated(ended, Until(row.rule, ask.slot)) = {d \in before : d < ask.slot}
      BY <2>2, CutBefore
    <3> QED
      BY <2>5, <3>1
  <2>8. SplitSeries(c) /\ ~ask.flag =>
           Generated(tasks'[FreeId], tasks'[FreeId].rule) = {d \in before : d >= ask.slot}
    <3>1. \A new : new.start = ask.slot =>
             Generated(new, SplitRule(row, ask.slot)) = {d \in before : d >= ask.slot}
      BY <2>2, CutAfter
    <3> QED
      BY <2>6, <3>1
  <2>9. SplitSeries(c) => \A d \in before : d >= ask.slot =>
                             exceptions'[<<FreeId, d>>] = exceptions[<<i, d>>]
    <3> SUFFICES ASSUME SplitSeries(c), NEW d \in before, d >= ask.slot
                 PROVE  exceptions'[<<FreeId, d>>] = exceptions[<<i, d>>]
      OBVIOUS
    <3>1. exceptions' = Copied(i, FreeId, ask.slot) /\ HasFreeId
      BY <2>3 DEF Splits
    <3>2. FreeId \in Ids /\ d \in Days
      BY <3>1 DEF HasFreeId, FreeId, Generated
    <3> QED
      BY <3>1, <3>2 DEF Copied
  <2> QED
    BY <2>7, <2>8, <2>9
<1> DEFINE Kept == \A c \in Clients : A(c)
<1>2. TypeOK /\ Lineage /\ SlotsUnique => [Kept]_vars
  BY <1>1
<1> QED
  BY <1>2, TypeCorrect, LineageHolds, SlotsUniqueHolds, PTL DEF CutConserves
-----------------------------------------------------------------------------
(* What the user removed keeps its skip.                                    *)

\* An occurrence that counts as removed has an exception that skips it.
GoneSkipped ==
    \A k \in gone :
        /\ tasks[k[1]] # NoTask
        /\ exceptions[k] # NoException /\ exceptions[k].skip

LEMMA GoneKept ==
    ASSUME TypeOK, GoneSkipped, Keeps(tasks'), UNCHANGED <<exceptions, gone>>
    PROVE  GoneSkipped'
BY DEF GoneSkipped, Keeps, TypeOK

LEMMA EffectGone ==
    ASSUME TypeOK, Lineage, SlotsUnique, GoneSkipped, Keeps(tasks'), NEW c \in Clients,
           Effect(c)
    PROVE  GoneSkipped'
<1>1. gone \subseteq Ids \X Days /\ exceptions \in ExceptionTable
  BY TablesType
<1>2. \A k \in gone : k[1] \in Ids /\ tasks'[k[1]] # NoTask
  BY <1>1 DEF GoneSkipped, Keeps
<1>3. ASSUME NEW k \in Ids \X Days, NEW e, exceptions' = [exceptions EXCEPT ![k] = e],
             gone' \subseteq gone \cup {k},
             k \in gone' => tasks'[k[1]] # NoTask /\ e # NoException /\ e.skip
      PROVE  GoneSkipped'
  <2>1. \A x \in gone' : x = k \/ (x \in gone /\ exceptions'[x] = exceptions[x])
    BY <1>1, <1>3 DEF ExceptionTable
  <2>2. exceptions'[k] = e
    BY <1>1, <1>3 DEF ExceptionTable
  <2> QED
    BY <1>2, <1>3, <2>1, <2>2 DEF GoneSkipped
<1>4. CASE Fail(c)
  BY <1>4, GoneKept DEF Fail
<1>5. CASE Edits(c)
  BY <1>5, GoneKept DEF Edits, UpdateRow, Fail
<1>6. CASE Completes(c)
  BY <1>6, GoneKept DEF Completes, CompleteRow
<1>7. CASE RemovesSeries(c)
  BY <1>7, GoneKept DEF RemovesSeries, RemoveSeries
<1>8. CASE RemovesChild(c)
  <2>1. PICK i \in Ids, row \in Row, revert \in BOOLEAN :
           Copy(c, i, row) /\ row.parent # 0 /\ RemoveChild(c, i, row, revert)
    BY <1>8 DEF RemovesChild
  <2> DEFINE k == <<row.parent, row.slot>>
             e == IF ~revert THEN [ExceptionAt(k) EXCEPT !.skip = TRUE]
                  ELSE IF row.done THEN [ExceptionAt(k) EXCEPT !.done = TRUE]
                  ELSE exceptions[k]
  <2>2. k \in Ids \X Days /\ tasks'[row.parent] # NoTask
    <3>1. tasks[row.parent] # NoTask
      BY <2>1, CopyProper DEF Proper
    <3>2. row.parent \in Ids /\ row.slot \in Days
      BY <2>1, SeriesConstants DEF Row, Ids
    <3> QED
      BY <3>1, <3>2 DEF Keeps
  <2>3. exceptions' = [exceptions EXCEPT ![k] = e]
        /\ gone' = IF revert THEN gone ELSE gone \cup {k}
    BY <2>1 DEF RemoveChild, CommitException
  <2>4. ExceptionAt(k) \in Exception /\ (k \in gone => exceptions[k] # NoException
                                          /\ exceptions[k].skip /\ ExceptionAt(k).skip)
    BY <2>2, ExceptionType DEF GoneSkipped, ExceptionAt
  <2>5. k \in gone' => e # NoException /\ e.skip
    <3>1. CASE ~revert
      <4>1. e = [ExceptionAt(k) EXCEPT !.skip = TRUE]
        BY <3>1
      <4>2. [ExceptionAt(k) EXCEPT !.skip = TRUE] \in Exception
            /\ [ExceptionAt(k) EXCEPT !.skip = TRUE].skip
        BY <2>4 DEF Exception
      <4> QED
        BY <4>1, <4>2, SeriesConstants
    <3>2. CASE revert /\ row.done
      <4>1. e = [ExceptionAt(k) EXCEPT !.done = TRUE] /\ gone' = gone
        BY <2>3, <3>2
      <4>2. [ExceptionAt(k) EXCEPT !.done = TRUE] \in Exception
            /\ [ExceptionAt(k) EXCEPT !.done = TRUE].skip = ExceptionAt(k).skip
        BY <2>4 DEF Exception
      <4> QED
        BY <2>4, <4>1, <4>2, SeriesConstants
    <3>3. CASE revert /\ ~row.done
      BY <2>3, <2>4, <3>3
    <3> QED
      BY <3>1, <3>2, <3>3
  <2> HIDE DEF e
  <2>6. k[1] = row.parent
    OBVIOUS
  <2> HIDE DEF k
  <2> QED
    BY <1>3, <2>2, <2>3, <2>5, <2>6
<1>9. CASE WritesException(c)
  <2> DEFINE ask == req[c].ask  k == <<ask.task, ask.slot>>
  <2>1. PICK e \in Exception :
           /\ CommitException(c, k, e)
           /\ \/ gone' = gone /\ e.skip = ExceptionAt(k).skip
              \/ gone' = gone \cup {k} /\ e.skip
    BY <1>9 DEF WritesException
  <2>2. k \in Ids \X Days /\ tasks'[ask.task] # NoTask
    <3>1. ask.task \in Ids /\ ask.slot \in Days /\ tasks[ask.task] # NoTask
      BY <1>9, RequestType DEF WritesException, ByOccurrence, TypeOK
    <3> QED
      BY <3>1 DEF Keeps
  <2>3. exceptions' = [exceptions EXCEPT ![k] = e]
    BY <2>1 DEF CommitException
  <2>4. k \in gone => ExceptionAt(k).skip
    BY DEF GoneSkipped, ExceptionAt
  <2>5. k[1] = ask.task
    OBVIOUS
  <2> HIDE DEF k, ask
  <2>6. k \in gone' => e # NoException /\ e.skip
    BY <2>1, <2>4, SeriesConstants
  <2> QED
    BY <1>3, <2>1, <2>2, <2>3, <2>5, <2>6
<1>10. CASE Overrides(c)
  <2> DEFINE ask == req[c].ask  k == <<ask.task, ask.slot>>
  <2>1. /\ exceptions' = [exceptions EXCEPT ![k] = NoException] /\ gone' = gone \ {k}
    BY <1>10 DEF Overrides, CommitException
  <2>2. k \in Ids \X Days
    BY <1>10, RequestType DEF Overrides
  <2> HIDE DEF k
  <2> QED
    BY <1>3, <2>1, <2>2
<1>11. CASE Splits(c)
  <2> DEFINE ask == req[c].ask  i == ask.task  slot == ask.slot
             added == {<<FreeId, d>> : d \in {e \in Days : e >= slot /\ <<i, e>> \in gone}}
  <2>1. exceptions' = Copied(i, FreeId, slot) /\ gone' = gone \cup added /\ HasFreeId
    BY <1>11 DEF Splits
  <2>2. FreeId \in Ids /\ tasks[FreeId] = NoTask
    BY <2>1 DEF HasFreeId, FreeId
  <2>3. tasks'[FreeId] # NoTask
    <3>1. ask \in Ask /\ i \in Ids /\ tasks[i] # NoTask /\ req[c].row \in Row
      BY <1>11, RequestType DEF Splits, TypeOK
    <3>2. req[c].row.rule # NoRule /\ Proper(i, req[c].row)
      BY <1>11 DEF Splits, Lineage
    <3>3. /\ SplitTable(i, req[c].row, ask) \in Table
          /\ SplitTable(i, req[c].row, ask)[FreeId] # NoTask
      BY <2>1, <3>1, <3>2, SplitRows, SeriesConstants
    <3>4. tasks' = Swept(SplitTable(i, req[c].row, ask), i)
      BY <1>11, SplitLeaves
    <3> HIDE DEF ask, i
    <3> QED
      BY <2>2, <3>3, <3>4, SweptRow
  <2>4. ASSUME NEW k \in gone' PROVE tasks'[k[1]] # NoTask /\ exceptions'[k] # NoException
                                     /\ exceptions'[k].skip
    <3>1. CASE k \in gone
      <4>1. k \in Ids \X Days /\ k[1] # FreeId
        BY <1>1, <2>2, <3>1 DEF GoneSkipped
      <4>2. exceptions'[k] = exceptions[k]
        BY <2>1, <4>1 DEF Copied
      <4> QED
        BY <1>2, <3>1, <4>2 DEF GoneSkipped
    <3>2. CASE k \in added
      <4>1. PICK d \in Days : d >= slot /\ <<i, d>> \in gone /\ k = <<FreeId, d>>
        BY <3>2
      <4>2. exceptions'[<<FreeId, d>>] = exceptions[<<i, d>>]
        <5>1. <<FreeId, d>> \in Ids \X Days
          BY <2>2
        <5> QED
          BY <2>1, <4>1, <5>1 DEF Copied
      <4>3. exceptions[<<i, d>>] # NoException /\ exceptions[<<i, d>>].skip
        BY <4>1 DEF GoneSkipped
      <4>4. k[1] = FreeId /\ exceptions'[k] = exceptions[<<i, d>>]
        BY <4>1, <4>2
      <4> QED
        BY <2>3, <4>3, <4>4
    <3> QED
      BY <2>1, <2>4, <3>1, <3>2
  <2> QED
    BY <2>4 DEF GoneSkipped
<1>12. CASE Ends(c)
  BY <1>12, GoneKept DEF Ends
<1> QED
  BY <1>4, <1>5, <1>6, <1>7, <1>8, <1>9, <1>10, <1>11, <1>12 DEF Effect

\* However many clients edit: a removed occurrence stays skipped.
LEMMA GoneSkippedHolds == Spec => []GoneSkipped
<1>1. Init => GoneSkipped
  BY DEF Init, GoneSkipped
<1>2. ASSUME TypeOK, Lineage, SlotsUnique, GoneSkipped, [Next]_vars PROVE GoneSkipped'
  <2>1. Keeps(tasks')
    BY <1>2, NextLineage
  <2>2. ASSUME NEW c \in Clients, Serve(c) PROVE GoneSkipped'
    BY <1>2, <2>1, <2>2, ServeEffect, EffectGone
  <2>3. CASE UNCHANGED <<exceptions, gone>>
    BY <1>2, <2>1, <2>3, GoneKept
  <2>4. ASSUME NEW c \in Clients, Load(c) PROVE UNCHANGED <<exceptions, gone>>
    BY <2>4 DEF Load
  <2>5. Create \/ SetGroupRule \/ RemoveGroup \/ UNCHANGED vars => UNCHANGED <<exceptions, gone>>
    BY DEF Create, SetGroupRule, RemoveGroup, vars
  <2> QED
    BY <1>2, <2>2, <2>3, <2>4, <2>5, NextIs
<1>3. TypeOK /\ Lineage /\ SlotsUnique /\ GoneSkipped /\ [Next]_vars => GoneSkipped'
  BY <1>2
<1> QED
  BY <1>1, <1>3, TypeCorrect, LineageHolds, SlotsUniqueHolds, PTL DEF Spec
-----------------------------------------------------------------------------
(* One request at a time: what it has read is what it writes over.          *)

OneClient == \A c, d \in Clients : c = d

\* Two rows with the same columns but the group's.
SameButGroup(r, s) ==
    /\ r.deleted = s.deleted /\ r.start = s.start /\ r.rule = s.rule
    /\ r.parent = s.parent /\ r.slot = s.slot /\ r.detached = s.detached /\ r.done = s.done

\* The row a request has read is live and unchanged, but for a group removed meanwhile (an
\* override has locked it), and so is the child it found, or none is there.
ReadsFresh(c) ==
    LET ask == req[c].ask  child == req[c].child
    IN  ask.kind # "idle" =>
            /\ Live(ask.task) /\ SameButGroup(req[c].row, tasks[ask.task])
            /\ ask.kind = "override" => req[c].row.grouped = tasks[ask.task].grouped
            /\ ask.kind \in ByOccurrence =>
                  IF child = 0 THEN \A k \in Children(ask.task) : tasks[k].slot # ask.slot
                  ELSE child \in Children(ask.task) /\ tasks[child].slot = ask.slot

Fresh == \A c \in Clients : ReadsFresh(c)

\* Whatever leaves the rows as they are, but for their group and new ordinary tasks.
LEMMA FreshKept ==
    ASSUME TypeOK, Fresh, req' = req,
           \A i \in Ids : tasks[i] # NoTask => tasks'[i] # NoTask /\ SameButGroup(tasks'[i], tasks[i]),
           \A i \in Ids : tasks[i] = NoTask /\ tasks'[i] # NoTask => tasks'[i].parent = 0,
           \A c \in Clients : LET i == req[c].ask.task
                             IN  req[c].ask.kind = "override" => tasks'[i].grouped = tasks[i].grouped
    PROVE  Fresh'
<1>1. \A i \in Ids : Live(i) => Live(i)'
  BY DEF Live, SameButGroup
<1>2. ASSUME NEW i, i # 0 PROVE Children(i)' = Children(i)
  <2>1. \A k \in Ids : (Live(k) /\ tasks[k].parent = i)' <=> Live(k) /\ tasks[k].parent = i
    BY <1>2 DEF Live, SameButGroup
  <2> QED
    BY <2>1 DEF Children
<1>3. ASSUME NEW c \in Clients, req[c].ask.kind # "idle" PROVE ReadsFresh(c)'
  <2> DEFINE ask == req[c].ask  i == ask.task
  <2>1. i \in Ids /\ i # 0
    BY <1>3, RequestType, SeriesConstants DEF Ids
  <2>2. ReadsFresh(c)
    BY DEF Fresh
  <2>3. Live(i)' /\ SameButGroup(req[c].row, tasks'[i])
    BY <1>1, <1>3, <2>1, <2>2 DEF ReadsFresh, SameButGroup, Live
  <2>6. ask.kind = "override" => req[c].row.grouped = tasks'[i].grouped
    BY <1>3, <2>2 DEF ReadsFresh
  <2>4. \A k \in Children(i) : k \in Ids /\ tasks'[k].slot = tasks[k].slot
    BY DEF Children, Live, SameButGroup
  <2>5. Children(i)' = Children(i)
    BY <1>2, <2>1
  <2> QED
    BY <1>3, <2>2, <2>3, <2>4, <2>5, <2>6 DEF ReadsFresh
<1>4. ASSUME NEW c \in Clients, req[c].ask.kind = "idle" PROVE ReadsFresh(c)'
  BY <1>4 DEF ReadsFresh
<1> QED
  BY <1>3, <1>4 DEF Fresh

LEMMA NextFresh ==
    ASSUME OneClient, TypeOK, Lineage, Fresh, [Next]_vars PROVE Fresh'
<1>1. ASSUME NEW c \in Clients, Serve(c) PROVE Fresh'
  <2>1. Reply(c)
    BY <1>1, ServeEffect, EffectDescends
  <2>2. \A d \in Clients : req'[d].ask.kind = "idle"
    BY <2>1 DEF OneClient, Reply, TypeOK, Idle, Blank
  <2> QED
    BY <2>2 DEF Fresh, ReadsFresh
<1>2. ASSUME NEW c \in Clients, Load(c) PROVE Fresh'
  <2>1. PICK a \in Asks :
          /\ Live(a.task)
          /\ req' = [req EXCEPT ![c] =
                 [ask |-> a, row |-> tasks[a.task],
                  child |-> IF a.kind \in {"completeOccurrence", "skip", "move"}
                            THEN ChildAt(a.task, a.slot) ELSE 0]]
    BY <1>2 DEF Load
  <2>2. tasks' = tasks
    BY <1>2 DEF Load
  <2>3. ASSUME NEW d \in Clients PROVE ReadsFresh(d)'
    <3>1. d = c
      BY DEF OneClient
    <3>2. /\ req'[d].ask = a /\ req'[d].row = tasks[a.task]
          /\ a.kind \in ByOccurrence => req'[d].child = ChildAt(a.task, a.slot)
      BY <2>1, <3>1 DEF TypeOK, ByOccurrence
    <3>3. SameButGroup(tasks[a.task], tasks[a.task])
      BY DEF SameButGroup
    <3>4. IF ChildAt(a.task, a.slot) = 0
          THEN \A k \in Children(a.task) : tasks[k].slot # a.slot
          ELSE ChildAt(a.task, a.slot) \in Children(a.task)
               /\ tasks[ChildAt(a.task, a.slot)].slot = a.slot
      BY ChildAtIs
    <3>5. Children(a.task)' = Children(a.task) /\ (Live(a.task)' <=> Live(a.task))
      BY <2>2 DEF Children, Live
    <3> QED
      BY <2>1, <2>2, <3>2, <3>3, <3>4, <3>5 DEF ReadsFresh
  <2> QED
    BY <2>3 DEF Fresh
<1>3. CASE Create
  <2>1. PICK start \in Targets, length \in Lengths, rule \in UserRules \cup {NoRule},
           grouped \in BOOLEAN :
           tasks' = Saved(FreeId, Task(start, length, rule, grouped))
    BY <1>3 DEF Create
  <2>2. FreeId \in Ids /\ tasks[FreeId] = NoTask
    BY <1>3 DEF Create, HasFreeId, FreeId
  <2>3. Task(start, length, rule, grouped).parent = 0
    BY DEF Task
  <2>4. \A i \in Ids : IF i = FreeId THEN tasks'[i] = Task(start, length, rule, grouped)
                       ELSE tasks'[i] = tasks[i]
    BY <2>1, <2>2 DEF Saved, TypeOK
  <2>5. \A c \in Clients : req[c].ask.kind = "override" =>
                             req[c].ask.task \in Ids /\ tasks[req[c].ask.task] # NoTask
    BY DEF TypeOK
  <2> QED
    BY <1>3, <2>2, <2>3, <2>4, <2>5, FreshKept DEF Create, SameButGroup
<1>4. CASE SetGroupRule \/ UNCHANGED vars
  <2>1. tasks' = tasks /\ req' = req
    BY <1>4 DEF SetGroupRule, vars
  <2> QED
    BY <2>1, FreshKept DEF SameButGroup
<1>5. CASE RemoveGroup
  <2>1. tasks' = [i \in Ids |-> IF tasks[i] = NoTask THEN NoTask
                               ELSE [tasks[i] EXCEPT !.grouped = FALSE]]
    BY <1>5 DEF RemoveGroup
  <2>2. ASSUME NEW i \in Ids
        PROVE  /\ tasks[i] # NoTask => tasks'[i] # NoTask /\ SameButGroup(tasks'[i], tasks[i])
               /\ tasks[i] = NoTask => tasks'[i] = NoTask
    <3>1. CASE tasks[i] = NoTask
      BY <2>1, <3>1
    <3>2. CASE tasks[i] # NoTask
      <4>1. tasks[i] \in Row
        BY <3>2 DEF TypeOK
      <4>2. tasks'[i] = [tasks[i] EXCEPT !.grouped = FALSE]
        BY <2>1, <3>2
      <4>3. tasks'[i] \in Row
        BY <4>1, <4>2 DEF Row
      <4> QED
        BY <3>2, <4>1, <4>2, <4>3, SeriesConstants DEF SameButGroup, Row
    <3> QED
      BY <3>1, <3>2
  <2>3. ASSUME NEW c \in Clients, req[c].ask.kind = "override"
        PROVE  tasks'[req[c].ask.task].grouped = tasks[req[c].ask.task].grouped
    <3> DEFINE i == req[c].ask.task
    <3>1. i \in Ids /\ tasks[i] # NoTask /\ tasks[i] \in Row
      BY <2>3 DEF TypeOK
    <3>2. ~tasks[i].grouped
      BY <1>5, <2>3 DEF RemoveGroup
    <3>3. tasks'[i] = [tasks[i] EXCEPT !.grouped = FALSE]
      BY <2>1, <3>1
    <3> HIDE DEF i
    <3>4. tasks[i].grouped = FALSE /\ tasks'[i].grouped = FALSE
      BY <3>1, <3>2, <3>3 DEF Row
    <3> QED
      BY <3>4 DEF i
  <2> QED
    BY <1>5, <2>2, <2>3, FreshKept DEF RemoveGroup
<1> QED
  BY <1>1, <1>2, <1>3, <1>4, <1>5, NextIs
-----------------------------------------------------------------------------
(* A live child and its series agree.                                       *)

ChildIn(table, k) == table[k] # NoTask /\ ~table[k].deleted /\ table[k].parent # 0

\* ChildrenFit for one child.
FitsAt(table, excs, k) ==
    LET i == table[k].parent
    IN  /\ excs[<<i, table[k].slot>>] = NoException
        /\ table[i].rule # NoRule =>
               (table[k].detached <=> table[k].slot \notin Generated(table[i], table[i].rule))

LEMMA FitsIs == ChildrenFit <=> \A k \in Ids : ChildIn(tasks, k) => FitsAt(tasks, exceptions, k)
BY DEF ChildrenFit, ChildIn, FitsAt, Live

\* A child that keeps its columns, under a series that keeps its rule or loses it.
LEMMA FitsKept ==
    ASSUME ChildrenFit, NEW k \in Ids, ChildIn(tasks, k), NEW table, NEW excs,
           table[k].parent = tasks[k].parent, table[k].slot = tasks[k].slot,
           table[k].detached = tasks[k].detached,
           LET p == tasks[k].parent
           IN  /\ table[p].rule # NoRule =>
                     table[p].rule = tasks[p].rule /\ table[p].start = tasks[p].start
               /\ excs[<<p, tasks[k].slot>>] = exceptions[<<p, tasks[k].slot>>]
    PROVE  FitsAt(table, excs, k)
<1> DEFINE p == tasks[k].parent
<1>1. FitsAt(tasks, exceptions, k)
  BY FitsIs
<1>2. table[p].rule # NoRule =>
         Generated(table[p], table[p].rule) = Generated(tasks[p], tasks[p].rule)
  BY GeneratedByStart
<1> QED
  BY <1>1, <1>2 DEF FitsAt

\* A child of the series that is swept is flagged by what the series generates now.
LEMMA SweptFitsAt ==
    ASSUME NEW table \in Table, NEW i \in Ids, table[i] # NoTask, table[i].parent = 0,
           NEW excs, NEW k \in Ids, ChildIn(Swept(table, i), k), table[k].parent = i,
           excs[<<i, table[k].slot>>] = NoException
    PROVE  FitsAt(Swept(table, i), excs, k)
<1> DEFINE after == Swept(table, i)
<1>1. table[k] # NoTask
  BY SweptRow DEF ChildIn
<1>2. /\ ~table[k].deleted
      /\ after[k].parent = i /\ after[k].slot = table[k].slot
      /\ after[i].rule = table[i].rule /\ after[i].start = table[i].start
      /\ after[k].detached = (table[k].slot \notin Generated(table[i], Effective(table[i])))
  BY <1>1, SweptRow DEF ChildIn
<1>3. table[i].rule # NoRule => Effective(table[i]) = table[i].rule
  BY DEF Effective
<1>4. Generated(after[i], table[i].rule) = Generated(table[i], table[i].rule)
  BY <1>2, GeneratedByStart
<1> HIDE DEF after
<1>5. FitsAt(after, excs, k)
  BY <1>2, <1>3, <1>4 DEF FitsAt
<1> QED
  BY <1>5 DEF after

\* The parent of a live child is a row, another than the child, and does not descend.
LEMMA ParentOf ==
    ASSUME TypeOK, Lineage, NEW k \in Ids, ChildIn(tasks, k)
    PROVE  /\ tasks[k] \in Row /\ tasks[k].parent \in Ids /\ tasks[k].slot \in Days
           /\ tasks[k].parent # k /\ tasks[tasks[k].parent] # NoTask /\ tasks[k].rule = NoRule
<1>1. tasks[k] \in Row /\ Proper(k, tasks[k])
  BY DEF ChildIn, TypeOK, Lineage
<1> QED
  BY <1>1, SeriesConstants DEF Proper, ChildIn, Row, Ids

\* What a sweep of series i after a save of i, and of a new ordinary row, leaves.
LEMMA SweptFits ==
    ASSUME TypeOK, Lineage, ChildrenFit, NEW table \in Table, NEW i \in Ids,
           table[i] # NoTask, table[i].parent = 0, tasks[i] # NoTask,
           \A k \in Ids : table[k] # NoTask => table[k].parent = 0 \/ table[k] = tasks[k],
           \A k \in Ids \ {i} : tasks[k] # NoTask => table[k] = tasks[k],
           tasks' = Swept(table, i),
           \A k \in Ids, d \in Days : tasks[k] # NoTask => exceptions'[<<k, d>>] = exceptions[<<k, d>>]
    PROVE  ChildrenFit'
<1>1. ASSUME NEW k \in Ids, ChildIn(tasks', k) PROVE FitsAt(tasks', exceptions', k)
  <2>1. table[k] # NoTask /\ ~table[k].deleted /\ table[k].parent # 0
    BY <1>1, SweptRow DEF ChildIn
  <2>2. table[k] = tasks[k] /\ ChildIn(tasks, k)
    BY <2>1 DEF ChildIn
  <2> DEFINE p == tasks[k].parent
  <2>3. /\ p \in Ids /\ tasks[k].slot \in Days /\ tasks[p] # NoTask
    BY <2>2, ParentOf
  <2>4. /\ exceptions[<<p, tasks[k].slot>>] = NoException
        /\ exceptions'[<<p, tasks[k].slot>>] = NoException
    BY <2>2, <2>3, FitsIs DEF FitsAt
  <2>5. CASE p = i
    <3>1. ChildIn(Swept(table, i), k)
      BY <1>1
    <3>2. FitsAt(Swept(table, i), exceptions', k)
      BY <2>2, <2>4, <2>5, <3>1, SweptFitsAt
    <3> QED
      BY <3>2
  <2>6. CASE p # i
    <3>1. table[p] = tasks[p]
      BY <2>3, <2>6
    <3>2. /\ tasks'[p].rule = tasks[p].rule /\ tasks'[p].start = tasks[p].start
          /\ tasks'[k].parent = p /\ tasks'[k].slot = tasks[k].slot
          /\ tasks'[k].detached = tasks[k].detached
      BY <2>1, <2>2, <2>3, <2>6, <3>1, SweptRow
    <3> QED
      BY <2>2, <2>4, <3>2, FitsKept
  <2> QED
    BY <2>5, <2>6
<1> QED
  BY <1>1 DEF ChildrenFit, ChildIn, FitsAt, Live

\* A save that leaves a child's place and flag, and the rule and start of what recurs.
LEMMA SavedFits ==
    ASSUME TypeOK, Lineage, ChildrenFit, NEW i \in Ids, Live(i), NEW row \in Row,
           row.parent = tasks[i].parent, row.slot = tasks[i].slot,
           row.detached = tasks[i].detached,
           row.rule # NoRule => row.rule = tasks[i].rule /\ row.start = tasks[i].start,
           tasks' = Saved(i, row), exceptions' = exceptions
    PROVE  ChildrenFit'
<1>0. tasks'[i] = row /\ \A k \in Ids \ {i} : tasks'[k] = tasks[k]
  BY DEF Saved, TypeOK
<1>1. ASSUME NEW k \in Ids, ChildIn(tasks', k) PROVE FitsAt(tasks', exceptions', k)
  <2>1. ChildIn(tasks, k)
    BY <1>0, <1>1 DEF ChildIn, Live
  <2>2. tasks[k].parent \in Ids /\ tasks[k].parent # k
    BY <2>1, ParentOf
  <2>3. /\ tasks'[k].parent = tasks[k].parent /\ tasks'[k].slot = tasks[k].slot
        /\ tasks'[k].detached = tasks[k].detached
    BY <1>0
  <2>4. tasks'[tasks[k].parent].rule # NoRule =>
           /\ tasks'[tasks[k].parent].rule = tasks[tasks[k].parent].rule
           /\ tasks'[tasks[k].parent].start = tasks[tasks[k].parent].start
    BY <1>0, <2>2
  <2> QED
    BY <2>1, <2>3, <2>4, FitsKept
<1> QED
  BY <1>1 DEF ChildrenFit, ChildIn, FitsAt, Live

LEMMA SameFits ==
    ASSUME ChildrenFit, tasks' = tasks, exceptions' = exceptions PROVE ChildrenFit'
BY DEF ChildrenFit, Live, Generated

\* With one request at a time every copy is the row as it stands.
LEMMA CopyFresh ==
    ASSUME Fresh, NEW c \in Clients, NEW i, NEW row, Copy(c, i, row)
    PROVE  Live(i) /\ SameButGroup(row, tasks[i])
BY DEF Copy, Fresh, ReadsFresh, SameButGroup

\* What the effects of a request leave of the children.
LEMMA EditsFit ==
    ASSUME TypeOK, Lineage, Fresh, ChildrenFit, NEW c \in Clients, Edits(c) PROVE ChildrenFit'
<1>1. PICK i \in Ids, row \in Row, ask \in Ask : Copy(c, i, row) /\ UpdateRow(c, i, row, ask)
  BY DEF Edits
<1> DEFINE next == Edited(row, ask)
           ruleInputsChanged ==
               /\ row.parent = 0
               /\ \/ next.start # row.start \/ next.rule # row.rule \/ next.grouped # row.grouped
                  \/ ask.field = "rule" /\ ask.rule # NoRule
           saves == next # row \/ ruleInputsChanged \/ ask.field = "title"
           table == IF ruleInputsChanged THEN Swept(Saved(i, next), i)
                    ELSE IF saves THEN Saved(i, next) ELSE tasks
<1>2. Live(i) /\ SameButGroup(row, tasks[i]) /\ Proper(i, row) /\ tasks[i] # NoTask
  BY <1>1, CopyFresh, CopyProper DEF Live
<1>3. next \in Row /\ next.parent = row.parent /\ next.slot = row.slot
      /\ next.detached = row.detached /\ next.deleted = row.deleted
  BY DEF Edited, Row, Ask
<1>4. row.parent # 0 /\ ~(ask.field = "rule" /\ ask.rule # NoRule) => next.rule = NoRule
  BY <1>2 DEF Edited, Proper, Row, Ask
<1>5. CASE tasks' = tasks /\ exceptions' = exceptions
  BY <1>5, SameFits
<1>6. CASE /\ ~(row.parent # 0 /\ ask.field = "rule" /\ ask.rule # NoRule)
           /\ tasks' = table /\ exceptions' = exceptions
  <2>1. CASE ruleInputsChanged
    <3> DEFINE new == Saved(i, next)
    <3>1. new \in Table /\ new[i] = next /\ \A k \in Ids \ {i} : new[k] = tasks[k]
      BY <1>3, SavedType DEF Saved, TypeOK
    <3>2. tasks' = Swept(new, i) /\ next # NoTask
      BY <1>3, <1>6, <2>1, SeriesConstants
    <3>3. next.parent = 0
      BY <1>3, <2>1
    <3> HIDE DEF new, next
    <3> QED
      BY <1>2, <1>6, <3>1, <3>2, <3>3, SweptFits
  <2>2. CASE ~ruleInputsChanged /\ saves
    <3>1. tasks' = Saved(i, next)
      BY <1>6, <2>2
    <3>2. next.rule # NoRule => next.rule = tasks[i].rule /\ next.start = tasks[i].start
      BY <1>2, <1>4, <1>6, <2>2 DEF SameButGroup
    <3> HIDE DEF next
    <3> QED
      BY <1>2, <1>3, <1>6, <3>1, <3>2, SavedFits DEF SameButGroup
  <2>3. CASE ~ruleInputsChanged /\ ~saves
    BY <1>5, <1>6, <2>3
  <2> QED
    BY <2>1, <2>2, <2>3
<1>7. Fail(c) => tasks' = tasks /\ exceptions' = exceptions
  BY DEF Fail
<1>8. UpdateRow(c, i, row, ask) /\ ~Fail(c) =>
        /\ ~(row.parent # 0 /\ ask.field = "rule" /\ ask.rule # NoRule)
        /\ Commit(c, table) /\ exceptions' = exceptions
  BY DEF UpdateRow
<1> HIDE DEF table
<1> QED
  BY <1>1, <1>5, <1>6, <1>7, <1>8 DEF Commit

LEMMA CompletesFit ==
    ASSUME TypeOK, Lineage, Fresh, ChildrenFit, NEW c \in Clients, Completes(c)
    PROVE  ChildrenFit'
<1>1. PICK i \in Ids, row \in Row, done \in BOOLEAN :
         Copy(c, i, row) /\ CompleteRow(c, i, row, done)
  BY DEF Completes
<1> DEFINE new == [row EXCEPT !.done = done]
<1>2. Live(i) /\ SameButGroup(row, tasks[i])
  BY <1>1, CopyFresh
<1>3. /\ new \in Row /\ new.parent = row.parent /\ new.slot = row.slot
      /\ new.detached = row.detached /\ new.rule = row.rule /\ new.start = row.start
  BY DEF Row
<1> HIDE DEF new
<1>4. tasks' = Saved(i, new) \/ tasks' = tasks
  BY <1>1 DEF CompleteRow, Commit, new
<1>5. exceptions' = exceptions
  BY <1>1 DEF CompleteRow
<1> QED
  BY <1>2, <1>3, <1>4, <1>5, SavedFits, SameFits DEF SameButGroup

LEMMA RemovesSeriesFit ==
    ASSUME TypeOK, Lineage, Fresh, ChildrenFit, NEW c \in Clients, RemovesSeries(c)
    PROVE  ChildrenFit'
<1>1. PICK i \in Ids, row \in Row : Copy(c, i, row) /\ RemoveSeries(c, i, row)
  BY DEF RemovesSeries
<1>2. Commit(c, RemovedTable(i, row)) /\ exceptions' = exceptions
  BY <1>1 DEF RemoveSeries, RemovedTable
<1>3. ASSUME tasks' = RemovedTable(i, row), NEW k \in Ids, ChildIn(tasks', k)
      PROVE  FitsAt(tasks', exceptions', k)
  <2>1. /\ k # i /\ k \notin Children(i) /\ ChildIn(tasks, k)
        /\ tasks'[k].parent = tasks[k].parent /\ tasks'[k].slot = tasks[k].slot
        /\ tasks'[k].detached = tasks[k].detached
    <3> DEFINE new == RemovedTable(i, row)[k]  old == IF k = i THEN row ELSE tasks[k]
    <3>1. new # NoTask /\ ~new.deleted /\ new.parent # 0 /\ tasks'[k] = new
      BY <1>3 DEF ChildIn
    <3>2. /\ old # NoTask /\ new.parent = old.parent /\ new.slot = old.slot
          /\ new.detached = old.detached
          /\ new.deleted = (old.deleted \/ k = i \/ k \in Children(i))
      BY <3>1, RemovedRow
    <3> HIDE DEF new
    <3>3. k # i /\ k \notin Children(i) /\ ~old.deleted
      BY <3>1, <3>2
    <3> QED
      BY <3>1, <3>2, <3>3 DEF ChildIn
  <2>2. tasks[k].parent # i
    BY <2>1 DEF Children, ChildIn, Live
  <2>3. tasks[k].parent \in Ids /\ tasks[tasks[k].parent] # NoTask
    BY <2>1, ParentOf
  <2>4. /\ tasks'[tasks[k].parent].rule = tasks[tasks[k].parent].rule
        /\ tasks'[tasks[k].parent].start = tasks[tasks[k].parent].start
    BY <1>3, <2>2, <2>3, RemovedRow
  <2> QED
    BY <1>2, <2>1, <2>4, FitsKept
<1>4. tasks' = RemovedTable(i, row) => ChildrenFit'
  BY <1>3 DEF ChildrenFit, ChildIn, FitsAt, Live
<1> QED
  BY <1>2, <1>4, SameFits DEF Commit

LEMMA RemovesChildFit ==
    ASSUME TypeOK, Lineage, SlotsUnique, Fresh, ChildrenFit, NEW c \in Clients, RemovesChild(c)
    PROVE  ChildrenFit'
<1>1. PICK i \in Ids, row \in Row, revert \in BOOLEAN :
         Copy(c, i, row) /\ row.parent # 0 /\ RemoveChild(c, i, row, revert)
  BY DEF RemovesChild
<1> DEFINE at == <<row.parent, row.slot>>  new == [row EXCEPT !.deleted = TRUE]
<1>2. Live(i) /\ SameButGroup(row, tasks[i])
  BY <1>1, CopyFresh
<1>3. new \in Row /\ new.rule = row.rule /\ new.start = row.start /\ new.deleted
  BY DEF Row
<1>4. tasks' = Saved(i, new)
  BY <1>1 DEF RemoveChild
<1> HIDE DEF new
<1>5. tasks'[i] = new /\ \A k \in Ids \ {i} : tasks'[k] = tasks[k]
  BY <1>4 DEF Saved, TypeOK
<1>6. \A x \in Ids \X Days : x # at => exceptions'[x] = exceptions[x]
  BY <1>1 DEF RemoveChild, CommitException, TypeOK
<1> HIDE DEF at
<1>7. ASSUME NEW k \in Ids, ChildIn(tasks', k) PROVE FitsAt(tasks', exceptions', k)
  <2>1. k # i /\ tasks'[k] = tasks[k] /\ ChildIn(tasks, k)
    BY <1>3, <1>5, <1>7 DEF ChildIn
  <2> DEFINE p == tasks[k].parent
  <2>2. p \in Ids /\ tasks[k].slot \in Days
    BY <2>1, ParentOf
  <2>3. <<p, tasks[k].slot>> # at
    BY <1>1, <1>2, <2>1 DEF SlotsUnique, OneLiveChildPerSlot, ChildIn, Live, SameButGroup, at
  <2>4. exceptions'[<<p, tasks[k].slot>>] = exceptions[<<p, tasks[k].slot>>]
    BY <1>6, <2>2, <2>3
  <2>5. tasks'[p].rule = tasks[p].rule /\ tasks'[p].start = tasks[p].start
    BY <1>2, <1>3, <1>5, <2>2 DEF SameButGroup
  <2> QED
    BY <2>1, <2>4, <2>5, FitsKept
<1> QED
  BY <1>7 DEF ChildrenFit, ChildIn, FitsAt, Live

LEMMA WritesExceptionFits ==
    ASSUME TypeOK, Lineage, Fresh, ChildrenFit, NEW c \in Clients, WritesException(c)
    PROVE  ChildrenFit'
<1> DEFINE ask == req[c].ask  at == <<ask.task, ask.slot>>
<1>1. \A k \in Children(ask.task) : tasks[k].slot # ask.slot
  BY DEF WritesException, Fresh, ReadsFresh, ByOccurrence
<1>2. tasks' = tasks /\ \A x \in Ids \X Days : x # at => exceptions'[x] = exceptions[x]
  BY DEF WritesException, CommitException, TypeOK
<1>3. ASSUME NEW k \in Ids, ChildIn(tasks', k) PROVE FitsAt(tasks', exceptions', k)
  <2>1. ChildIn(tasks, k)
    BY <1>2, <1>3
  <2>2. tasks[k].parent \in Ids /\ tasks[k].slot \in Days
    BY <2>1, ParentOf
  <2>3. <<tasks[k].parent, tasks[k].slot>> # at
    BY <1>1, <2>1 DEF Children, ChildIn, Live
  <2>4. exceptions'[<<tasks[k].parent, tasks[k].slot>>] = exceptions[<<tasks[k].parent, tasks[k].slot>>]
    BY <1>2, <2>2, <2>3
  <2> QED
    BY <1>2, <2>1, <2>4, FitsKept
<1> QED
  BY <1>3 DEF ChildrenFit, ChildIn, FitsAt, Live

LEMMA OverridesFit ==
    ASSUME TypeOK, Lineage, Fresh, ChildrenFit, NEW c \in Clients, Overrides(c)
    PROVE  ChildrenFit'
<1> DEFINE ask == req[c].ask  i == ask.task  slot == ask.slot  at == <<i, slot>>
           row == req[c].row
<1>1. PICK id \in Ids, child \in Row :
         /\ tasks' = Saved(id, child) /\ ~child.deleted /\ child.parent = i /\ child.slot = slot
         /\ \/ NewAt(i, slot, id, child) /\ slot \in Generated(row, Effective(row))
            \/ FoundAt(i, slot, id, child)
  BY DEF Overrides
<1>2. /\ i \in Ids /\ slot \in Days /\ row \in Row /\ tasks[i] # NoTask /\ tasks[i] \in Row
      /\ SameButGroup(row, tasks[i]) /\ Proper(i, tasks[i])
  BY RequestType DEF Overrides, Fresh, ReadsFresh, Live, TypeOK, Lineage
<1>3. /\ tasks'[id] = child /\ \A k \in Ids \ {id} : tasks'[k] = tasks[k]
      /\ exceptions'[at] = NoException
      /\ \A x \in Ids \X Days : x # at => exceptions'[x] = exceptions[x]
  <2>1. exceptions' = [exceptions EXCEPT ![at] = NoException] /\ at \in Ids \X Days
    BY <1>2 DEF Overrides, CommitException
  <2> HIDE DEF at
  <2> QED
    BY <1>1, <2>1 DEF Saved, TypeOK
<1>4. FoundAt(i, slot, id, child) => /\ ChildIn(tasks, id) /\ tasks[id].rule = NoRule
                                     /\ child.rule = NoRule /\ id # i
  <2> SUFFICES ASSUME FoundAt(i, slot, id, child)
               PROVE  /\ ChildIn(tasks, id) /\ tasks[id].rule = NoRule
                      /\ child.rule = NoRule /\ id # i
    OBVIOUS
  <2>1. ChildIn(tasks, id)
    BY <1>2, SeriesConstants DEF FoundAt, ChildIn, Live, Ids
  <2> QED
    BY <2>1, ParentOf DEF FoundAt
<1>5. NewAt(i, slot, id, child) => tasks[id] = NoTask /\ child.rule = NoRule /\ id # i
  BY <1>2 DEF NewAt
<1> HIDE DEF ask, at
<1>6. ASSUME NEW k \in Ids, k # id, ChildIn(tasks', k) PROVE FitsAt(tasks', exceptions', k)
  <2>1. ChildIn(tasks, k) /\ tasks'[k] = tasks[k]
    BY <1>3, <1>6 DEF ChildIn
  <2> DEFINE p == tasks[k].parent
  <2>2. p \in Ids /\ tasks[k].slot \in Days /\ tasks[p] # NoTask
    BY <2>1, ParentOf
  <2>3. exceptions[<<p, tasks[k].slot>>] = NoException
    BY <2>1, FitsIs DEF FitsAt
  <2>4. exceptions'[<<p, tasks[k].slot>>] = NoException
    BY <1>3, <2>2, <2>3
  <2>5. tasks'[p].rule # NoRule => tasks'[p] = tasks[p]
    BY <1>1, <1>3, <1>4, <1>5, <2>2
  <2> QED
    BY <2>1, <2>3, <2>4, <2>5, FitsKept
<1>7. FitsAt(tasks', exceptions', id)
  <2>1. tasks'[i] = tasks[i] /\ tasks'[id].parent = i /\ tasks'[id].slot = slot
        /\ tasks'[id].detached = child.detached
    BY <1>1, <1>2, <1>3, <1>4, <1>5
  <2>2. ASSUME tasks[i].rule # NoRule
        PROVE  child.detached <=> slot \notin Generated(tasks[i], tasks[i].rule)
    <3>1. CASE NewAt(i, slot, id, child) /\ slot \in Generated(row, Effective(row))
      <4>1. tasks[i].parent = 0
        BY <1>2, <2>2 DEF Proper
      <4>2. Effective(row) = tasks[i].rule
        BY <1>2, <2>2, <4>1 DEF Effective, SameButGroup
      <4>3. Generated(row, tasks[i].rule) = Generated(tasks[i], tasks[i].rule)
        BY <1>2, GeneratedByStart DEF SameButGroup
      <4> QED
        BY <3>1, <4>2, <4>3 DEF NewAt
    <3>2. CASE FoundAt(i, slot, id, child)
      <4>1. FitsAt(tasks, exceptions, id)
        BY <1>4, <3>2, FitsIs
      <4> QED
        BY <2>2, <3>2, <4>1 DEF FitsAt, FoundAt
    <3> QED
      BY <1>1, <3>1, <3>2
  <2>3. exceptions'[<<i, slot>>] = NoException
    BY <1>3 DEF at
  <2> HIDE DEF i, slot
  <2> QED
    BY <2>1, <2>2, <2>3 DEF FitsAt
<1> QED
  BY <1>6, <1>7 DEF ChildrenFit, ChildIn, FitsAt, Live

LEMMA SplitsFit ==
    ASSUME TypeOK, Lineage, SlotsUnique, ChildrenFit, NEW c \in Clients, Splits(c)
    PROVE  ChildrenFit'
<1> DEFINE ask == req[c].ask  i == ask.task  row == req[c].row  table == SplitTable(i, row, ask)
<1>1. ask \in Ask /\ ask.slot \in Days /\ i \in Ids /\ tasks[i] # NoTask /\ row \in Row
  BY RequestType DEF Splits, TypeOK
<1>2. /\ row.rule # NoRule /\ HasFreeId /\ Proper(i, row)
      /\ exceptions' = Copied(i, FreeId, ask.slot)
  BY DEF Splits, Lineage
<1>3. tasks' = Swept(table, i)
  BY SplitLeaves
<1> HIDE DEF ask, i, row, table
<1>4. /\ FreeId \in Ids /\ FreeId # i /\ tasks[FreeId] = NoTask
      /\ table \in Table /\ table[i] = Ended(row, ask.slot)
      /\ table[FreeId].parent = 0
      /\ \A k \in Ids \ {i, FreeId} : table[k] = tasks[k]
  BY <1>1, <1>2, SplitRows DEF table
<1>5. Ended(row, ask.slot) # NoTask /\ Ended(row, ask.slot).parent = 0
  BY <1>1, <1>2, UntilProper, SeriesConstants
<1>6. \A k \in Ids, d \in Days : tasks[k] # NoTask => exceptions'[<<k, d>>] = exceptions[<<k, d>>]
  BY <1>2, <1>4 DEF Copied
<1> QED
  BY <1>1, <1>3, <1>4, <1>5, <1>6, SweptFits

LEMMA EndsFit ==
    ASSUME TypeOK, Lineage, SlotsUnique, ChildrenFit, NEW c \in Clients, Ends(c)
    PROVE  ChildrenFit'
<1> DEFINE ask == req[c].ask  i == ask.task  row == req[c].row  ended == Ended(row, ask.slot)
           table == Saved(i, ended)
<1>1. ask \in Ask /\ ask.slot \in Days /\ i \in Ids /\ tasks[i] # NoTask /\ row \in Row
  BY RequestType DEF Ends, TypeOK
<1>2. row.rule # NoRule /\ Proper(i, row) /\ exceptions' = exceptions
  BY DEF Ends, Lineage
<1>3. tasks' = Swept(table, i)
  BY EndLeaves
<1> HIDE DEF ask, i, row
<1>4. ended \in Row /\ ended.parent = 0 /\ ended # NoTask
  BY <1>1, <1>2, UntilProper, SeriesConstants
<1> HIDE DEF ended
<1>5. table \in Table /\ table[i] = ended /\ \A k \in Ids \ {i} : table[k] = tasks[k]
  BY <1>1, <1>4, SavedType DEF Saved, TypeOK
<1> HIDE DEF table
<1> QED
  BY <1>1, <1>2, <1>3, <1>4, <1>5, SweptFits

LEMMA NextFits ==
    ASSUME OneClient, TypeOK, Lineage, SlotsUnique, Fresh, ChildrenFit, [Next]_vars
    PROVE  ChildrenFit'
<1>1. ASSUME NEW c \in Clients, Serve(c) PROVE ChildrenFit'
  <2>1. Effect(c)
    BY <1>1, ServeEffect
  <2>2. Fail(c) => ChildrenFit'
    BY SameFits DEF Fail
  <2> QED
    BY <2>1, <2>2, EditsFit, CompletesFit, RemovesSeriesFit, RemovesChildFit,
       WritesExceptionFits, OverridesFit, SplitsFit, EndsFit DEF Effect
<1>2. ASSUME NEW c \in Clients, Load(c) PROVE ChildrenFit'
  BY <1>2, SameFits DEF Load
<1>3. CASE SetGroupRule \/ UNCHANGED vars
  BY <1>3, SameFits DEF SetGroupRule, vars
<1>4. ASSUME exceptions' = exceptions,
             \A k \in Ids : ChildIn(tasks', k) => ChildIn(tasks, k) /\ SameButGroup(tasks'[k], tasks[k]),
             \A k \in Ids : tasks[k] # NoTask => SameButGroup(tasks'[k], tasks[k])
      PROVE  ChildrenFit'
  <2>1. ASSUME NEW k \in Ids, ChildIn(tasks', k) PROVE FitsAt(tasks', exceptions', k)
    <3>1. ChildIn(tasks, k) /\ SameButGroup(tasks'[k], tasks[k])
      BY <1>4, <2>1
    <3>2. SameButGroup(tasks'[tasks[k].parent], tasks[tasks[k].parent])
      BY <1>4, <3>1, ParentOf
    <3> QED
      BY <1>4, <3>1, <3>2, FitsKept DEF SameButGroup
  <2> QED
    BY <2>1 DEF ChildrenFit, ChildIn, FitsAt, Live
<1>5. CASE Create
  <2>1. PICK start \in Targets, length \in Lengths, rule \in UserRules \cup {NoRule},
           grouped \in BOOLEAN :
           tasks' = Saved(FreeId, Task(start, length, rule, grouped))
    BY <1>5 DEF Create
  <2>2. FreeId \in Ids /\ tasks[FreeId] = NoTask
    BY <1>5 DEF Create, HasFreeId, FreeId
  <2>3. Task(start, length, rule, grouped).parent = 0
    BY DEF Task
  <2>4. \A i \in Ids : IF i = FreeId THEN tasks'[i] = Task(start, length, rule, grouped)
                       ELSE tasks'[i] = tasks[i]
    BY <2>1, <2>2 DEF Saved, TypeOK
  <2> QED
    BY <1>4, <1>5, <2>2, <2>3, <2>4 DEF Create, ChildIn, SameButGroup
<1>6. CASE RemoveGroup
  <2>1. tasks' = [i \in Ids |-> IF tasks[i] = NoTask THEN NoTask
                               ELSE [tasks[i] EXCEPT !.grouped = FALSE]]
    BY <1>6 DEF RemoveGroup
  <2>2. ASSUME NEW i \in Ids
        PROVE  /\ tasks[i] # NoTask => tasks'[i] # NoTask /\ SameButGroup(tasks'[i], tasks[i])
               /\ tasks[i] = NoTask => tasks'[i] = NoTask
    <3>1. CASE tasks[i] = NoTask
      BY <2>1, <3>1
    <3>2. CASE tasks[i] # NoTask
      <4>1. tasks[i] \in Row
        BY <3>2 DEF TypeOK
      <4>2. tasks'[i] = [tasks[i] EXCEPT !.grouped = FALSE]
        BY <2>1, <3>2
      <4>3. tasks'[i] \in Row
        BY <4>1, <4>2 DEF Row
      <4> QED
        BY <3>2, <4>1, <4>2, <4>3, SeriesConstants DEF SameButGroup, Row
    <3> QED
      BY <3>1, <3>2
  <2>3. \A k \in Ids : ChildIn(tasks', k) => ChildIn(tasks, k) /\ SameButGroup(tasks'[k], tasks[k])
    BY <2>2 DEF ChildIn, SameButGroup
  <2> QED
    BY <1>4, <1>6, <2>2, <2>3 DEF RemoveGroup
<1> QED
  BY <1>1, <1>2, <1>3, <1>5, <1>6, NextIs

LEMMA FreshHolds == ASSUME OneClient PROVE Spec => []Fresh
<1>1. Init => Fresh
  BY DEF Init, Fresh, ReadsFresh, Idle, Blank
<1>2. TypeOK /\ Lineage /\ Fresh /\ [Next]_vars => Fresh'
  BY NextFresh
<1> QED
  BY <1>1, <1>2, TypeCorrect, LineageHolds, PTL DEF Spec

\* While requests come one at a time, the children of a series and the series agree.
THEOREM ChildrenFitHolds == ASSUME OneClient PROVE Spec => []ChildrenFit
<1>1. Init => ChildrenFit
  <2> SUFFICES ASSUME Init PROVE ChildrenFit
    OBVIOUS
  <2>1. \A i \in Ids : tasks[i] # NoTask => tasks[i].parent = 0
    BY DEF Init, Task
  <2> QED
    BY <2>1 DEF ChildrenFit, Live
<1>2. TypeOK /\ Lineage /\ SlotsUnique /\ Fresh /\ ChildrenFit /\ [Next]_vars => ChildrenFit'
  BY NextFits
<1> QED
  BY <1>1, <1>2, TypeCorrect, LineageHolds, SlotsUniqueHolds, FreshHolds, PTL DEF Spec
-----------------------------------------------------------------------------
(* What a window of the calendar shows.                                     *)

\* A slot that begins in the window is hidden there when its child hides it anywhere; so is
\* the day of a former series.
LEMMA WindowIsShown ==
    ASSUME TypeOK, Lineage, NEW from \in Days, NEW to \in Int, NEW e \in ShownIn(from, to)
    PROVE  e \in Shown \/ e.of[2] < from
<1> SUFFICES ASSUME e \notin Shown PROVE e.of[2] < from
  OBVIOUS
<1>1. /\ e \in OneOffsIn(from, to) \/ \E i \in Anchors : e \in ExpandedIn(i, from, to)
      /\ e.of[1] = e.task => e.of \notin SuppressedIn(from, to)
  BY DEF ShownIn
<1>2. e \in OneOffs \/ \E i \in Anchors : e \in Expanded(i)
  BY <1>1 DEF OneOffsIn, ExpandedIn
<1>3. e.of[1] = e.task /\ e.of \in SuppressedSlots
  BY <1>2 DEF Shown
<1>4. ~(from <= e.of[2] /\ e.of[2] < to)
  BY <1>1, <1>3 DEF SuppressedIn
<1>5. e.of[2] < to
  <2>1. CASE e \in OneOffsIn(from, to)
    <3>1. e \in OneOffs /\ e.at < to
      BY <2>1 DEF OneOffsIn, Meets
    <3>2. PICK i \in Ids :
             /\ Live(i) /\ e.task = i /\ e.at = tasks[i].start
             /\ e.of = IF tasks[i].parent = 0 THEN <<i, tasks[i].start>>
                       ELSE <<tasks[i].parent, tasks[i].slot>>
      BY <3>1 DEF OneOffs
    <3>3. tasks[i].parent = 0
      BY <1>3, <3>2, ParentOf DEF ChildIn, Live
    <3> QED
      BY <3>1, <3>2, <3>3
  <2>2. CASE \E i \in Anchors : e \in ExpandedIn(i, from, to)
    BY <2>2 DEF ExpandedIn, Meets
  <2> QED
    BY <1>1, <2>1, <2>2
<1>6. e.of[2] \in Int
  <2>1. PICK i \in Ids : Live(i) /\ e.of = <<tasks[i].parent, tasks[i].slot>>
    BY <1>3 DEF SuppressedSlots
  <2>2. tasks[i] \in Row
    BY <2>1, LiveType
  <2> QED
    BY <2>1, <2>2, SeriesConstants DEF Row, Days
<1> QED
  BY <1>4, <1>5, <1>6, SeriesConstants DEF Days

\* However requests overlap, an occurrence is shown at most once, and a window shows nothing
\* beside, but for occurrences that began before it.
THEOREM ShownOnceHolds == Spec => []ShownOnce
<1>1. TypeOK /\ Lineage /\ SlotsUnique => ShownOnce
  BY ShownUnique, WindowIsShown, SeriesConstants DEF ShownOnce, Days
<1> QED
  BY <1>1, TypeCorrect, LineageHolds, SlotsUniqueHolds, PTL
-----------------------------------------------------------------------------
(* What is shown, told from the tables: of any two states.                  *)

LiveIn(table, i) == table[i] # NoTask /\ ~table[i].deleted

\* A live child hides the slot it replaces.
Hides(table, k) ==
    \E i \in Ids : ChildIn(table, i) /\ <<table[i].parent, table[i].slot>> = k

EffectiveIn(row, group) ==
    IF row.parent # 0 THEN NoRule
    ELSE IF row.rule # NoRule THEN row.rule
    ELSE IF row.grouped THEN group ELSE NoRule

OneOff(table, i, of) ==
    [task |-> i, of |-> of, at |-> table[i].start, length |-> table[i].length,
     done |-> table[i].done]

OccurrenceIn(table, excs, i, d) ==
    LET x == excs[<<i, d>>]
        moved == x # NoException /\ x.at # NoDay
    IN  [task |-> i, of |-> <<i, d>>,
         at |-> IF moved THEN x.at ELSE d,
         length |-> IF moved THEN x.length ELSE table[i].length,
         done |-> x # NoException /\ x.done]

\* A child, a task that does not recur, or a series shows e.
ShowsChild(table, i, e) ==
    ChildIn(table, i) /\ e = OneOff(table, i, <<table[i].parent, table[i].slot>>)

ShowsSingle(table, group, i, e) ==
    /\ LiveIn(table, i) /\ table[i].parent = 0 /\ EffectiveIn(table[i], group) = NoRule
    /\ ~Hides(table, <<i, table[i].start>>)
    /\ e = OneOff(table, i, <<i, table[i].start>>)

ShowsSeries(table, excs, group, i, d, e) ==
    /\ LiveIn(table, i) /\ table[i].parent = 0
    /\ d \in Generated(table[i], EffectiveIn(table[i], group))
    /\ excs[<<i, d>>] # NoException => ~excs[<<i, d>>].skip
    /\ ~Hides(table, <<i, d>>)
    /\ e = OccurrenceIn(table, excs, i, d)

Shows(table, excs, group, e) ==
    \E i \in Ids :
        \/ ShowsChild(table, i, e) \/ ShowsSingle(table, group, i, e)
        \/ \E d \in Days : ShowsSeries(table, excs, group, i, d, e)

ShownIsShows == \A e : e \in Shown <=> Shows(tasks, exceptions, groupRule, e)

LEMMA HidesIs == \A k : k \in SuppressedSlots <=> Hides(tasks, k)
BY DEF SuppressedSlots, Hides, ChildIn, Live

LEMMA EffectiveIs == \A row : Effective(row) = EffectiveIn(row, groupRule)
BY DEF Effective, EffectiveIn

\* A row with no parent is an anchor or stands for itself.
LEMMA AnchorIs ==
    ASSUME NEW i \in Ids, Live(i), tasks[i].parent = 0
    PROVE  /\ i \in Anchors <=> Effective(tasks[i]) # NoRule
           /\ tasks[i].rule = NoRule /\ ~InheritsGroupRecurrence(i)
                 <=> Effective(tasks[i]) = NoRule
BY DEF Anchors, Effective, InheritsGroupRecurrence

LEMMA OneOffIs ==
    ASSUME TypeOK, Lineage, NEW e
    PROVE  e \in OneOffs <=>
             \E i \in Ids :
                 \/ ShowsChild(tasks, i, e)
                 \/ /\ Live(i) /\ tasks[i].parent = 0 /\ Effective(tasks[i]) = NoRule
                    /\ e = OneOff(tasks, i, <<i, tasks[i].start>>)
<1> DEFINE Of(i) == IF tasks[i].parent = 0 THEN <<i, tasks[i].start>>
                    ELSE <<tasks[i].parent, tasks[i].slot>>
<1>1. e \in OneOffs <=>
        \E i \in Ids : /\ Live(i) /\ tasks[i].rule = NoRule /\ ~InheritsGroupRecurrence(i)
                       /\ e = OneOff(tasks, i, Of(i))
  BY DEF OneOffs, OneOff
<1>2. ASSUME NEW i \in Ids, Live(i)
      PROVE  (tasks[i].rule = NoRule /\ ~InheritsGroupRecurrence(i) /\ e = OneOff(tasks, i, Of(i)))
             <=> \/ ShowsChild(tasks, i, e)
                 \/ /\ tasks[i].parent = 0 /\ Effective(tasks[i]) = NoRule
                    /\ e = OneOff(tasks, i, <<i, tasks[i].start>>)
  <2>1. CASE tasks[i].parent = 0
    BY <1>2, <2>1, AnchorIs DEF ShowsChild, ChildIn
  <2>2. CASE tasks[i].parent # 0
    <3>1. tasks[i].rule = NoRule /\ ~InheritsGroupRecurrence(i) /\ ChildIn(tasks, i)
      BY <1>2, <2>2 DEF Lineage, Proper, Live, InheritsGroupRecurrence, ChildIn
    <3>2. Of(i) = <<tasks[i].parent, tasks[i].slot>>
      BY <2>2
    <3> QED
      BY <2>2, <3>1, <3>2 DEF ShowsChild
  <2> QED
    BY <2>1, <2>2
<1>3. \A i \in Ids : ShowsChild(tasks, i, e) => Live(i)
  BY DEF ShowsChild, ChildIn, Live
<1> QED
  BY <1>1, <1>2, <1>3

LEMMA SeriesIs ==
    ASSUME TypeOK, NEW e
    PROVE  e \in UNION {Expanded(i) : i \in Anchors} <=>
             \E i \in Ids, d \in Days :
                 /\ Live(i) /\ tasks[i].parent = 0
                 /\ d \in Generated(tasks[i], Effective(tasks[i]))
                 /\ exceptions[<<i, d>>] # NoException => ~exceptions[<<i, d>>].skip
                 /\ e = OccurrenceIn(tasks, exceptions, i, d)
<1>1. \A i, d : Occurrence(i, d) = OccurrenceIn(tasks, exceptions, i, d)
  BY DEF Occurrence, OccurrenceIn
<1>2. \A i : e \in Expanded(i) <=>
        \E d \in Generated(tasks[i], Effective(tasks[i])) :
            /\ exceptions[<<i, d>>] # NoException => ~exceptions[<<i, d>>].skip
            /\ e = OccurrenceIn(tasks, exceptions, i, d)
  BY <1>1 DEF Expanded
<1>3. \A row, rule : Generated(row, rule) \subseteq Days /\ Generated(row, NoRule) = {}
  BY DEF Generated
<1>4. \A i : i \in Anchors <=> /\ i \in Ids /\ Live(i) /\ tasks[i].parent = 0
                               /\ Effective(tasks[i]) # NoRule
  BY AnchorIs DEF Anchors
<1> QED
  BY <1>2, <1>3, <1>4

\* The occurrences findOccurrencesInRange shows.
LEMMA ShownIs == TypeOK /\ Lineage => ShownIsShows
<1> SUFFICES ASSUME TypeOK, Lineage, NEW e
             PROVE  e \in Shown <=> Shows(tasks, exceptions, groupRule, e)
  BY DEF ShownIsShows
<1>1. e \in Shown <=> /\ e \in OneOffs \/ e \in UNION {Expanded(i) : i \in Anchors}
                      /\ e.of[1] = e.task => ~Hides(tasks, e.of)
  BY HidesIs DEF Shown
<1>2. ASSUME NEW i \in Ids, ShowsChild(tasks, i, e)
      PROVE  e.of[1] # e.task
  BY <1>2, ParentOf DEF ShowsChild, OneOff
<1>3. \A i : LiveIn(tasks, i) <=> Live(i)
  BY DEF LiveIn, Live
<1>4. ASSUME NEW i \in Ids PROVE
        ShowsSingle(tasks, groupRule, i, e) <=>
          /\ Live(i) /\ tasks[i].parent = 0 /\ Effective(tasks[i]) = NoRule
          /\ e = OneOff(tasks, i, <<i, tasks[i].start>>)
          /\ e.of[1] = e.task => ~Hides(tasks, e.of)
  BY <1>3, EffectiveIs DEF ShowsSingle, OneOff
<1>5. ASSUME NEW i \in Ids, NEW d \in Days PROVE
        ShowsSeries(tasks, exceptions, groupRule, i, d, e) <=>
          /\ Live(i) /\ tasks[i].parent = 0
          /\ d \in Generated(tasks[i], Effective(tasks[i]))
          /\ exceptions[<<i, d>>] # NoException => ~exceptions[<<i, d>>].skip
          /\ e = OccurrenceIn(tasks, exceptions, i, d)
          /\ e.of[1] = e.task => ~Hides(tasks, e.of)
  <2>1. e = OccurrenceIn(tasks, exceptions, i, d) => e.of = <<i, d>> /\ e.of[1] = e.task
    BY DEF OccurrenceIn
  <2> QED
    BY <1>3, <2>1, EffectiveIs DEF ShowsSeries
<1> QED
  BY <1>1, <1>2, <1>4, <1>5, OneOffIs, SeriesIs DEF Shows

LEMMA ShownIsNext == ASSUME TypeOK', Lineage' PROVE ShownIsShows'
<1>1. (TypeOK /\ Lineage => ShownIsShows)'
  BY ShownIs, PTL
<1> QED
  BY <1>1
-----------------------------------------------------------------------------
(* What the user removed stays away.                                        *)

\* Slot s of p shows e: by a child in its place, as a task of its own, or by the series.
ByChild(table, p, s, e) ==
    \E j \in Ids : /\ ChildIn(table, j) /\ table[j].parent = p /\ table[j].slot = s
                   /\ e.task = j /\ e.done = table[j].done

BySingle(table, group, p, s, e) ==
    /\ p \in Ids /\ ShowsSingle(table, group, p, e) /\ table[p].start = s
    /\ e.task = p /\ e.done = table[p].done

BySeries(table, excs, group, p, s, e) ==
    /\ p \in Ids /\ s \in Days /\ ShowsSeries(table, excs, group, p, s, e)
    /\ e.task = p /\ e.done = (excs[<<p, s>>] # NoException /\ excs[<<p, s>>].done)

LEMMA ShowsAt ==
    ASSUME NEW table, NEW excs, NEW group, NEW e, Shows(table, excs, group, e),
           NEW p, NEW s, e.of = <<p, s>>
    PROVE  \/ ByChild(table, p, s, e) \/ BySingle(table, group, p, s, e)
           \/ BySeries(table, excs, group, p, s, e)
<1>1. PICK i \in Ids :
         \/ ShowsChild(table, i, e) \/ ShowsSingle(table, group, i, e)
         \/ \E d \in Days : ShowsSeries(table, excs, group, i, d, e)
  BY DEF Shows
<1>2. CASE ShowsChild(table, i, e)
  BY <1>2 DEF ShowsChild, OneOff, ByChild
<1>3. CASE ShowsSingle(table, group, i, e)
  <2>1. e.of = <<i, table[i].start>> /\ e.task = i /\ e.done = table[i].done
    BY <1>3 DEF ShowsSingle, OneOff
  <2>2. i = p /\ table[p].start = s
    BY <2>1
  <2> QED
    BY <1>3, <2>1, <2>2 DEF BySingle
<1>4. ASSUME NEW d \in Days, ShowsSeries(table, excs, group, i, d, e)
      PROVE  BySeries(table, excs, group, p, s, e)
  <2>1. /\ e.of = <<i, d>> /\ e.task = i
        /\ e.done = (excs[<<i, d>>] # NoException /\ excs[<<i, d>>].done)
    BY <1>4 DEF ShowsSeries, OccurrenceIn
  <2>2. i = p /\ d = s
    BY <2>1
  <2> QED
    BY <1>4, <2>1, <2>2 DEF BySeries
<1> QED
  BY <1>1, <1>2, <1>3, <1>4

\* What is shown of a removed slot: not the series, which skips it; not a child, since a
\* slot with a child has no exception; and the task itself only when it does not recur.
LEMMA StaysAway ==
    ASSUME TypeOK, Lineage, GoneSkipped, ChildrenFit PROVE RemovedStaysAway
<1> SUFFICES ASSUME NEW k \in gone, Live(k[1]), Effective(tasks[k[1]]) # NoRule,
                    NEW e \in Shown, e.of = k
             PROVE  FALSE
  BY DEF RemovedStaysAway
<1>1. PICK p \in Ids, s \in Days : k = <<p, s>>
  BY DEF TypeOK
<1>2. exceptions[<<p, s>>] # NoException /\ exceptions[<<p, s>>].skip
  BY <1>1 DEF GoneSkipped
<1>3. Shows(tasks, exceptions, groupRule, e) /\ e.of = <<p, s>>
  BY <1>1, ShownIs DEF ShownIsShows
<1>4. ~ByChild(tasks, p, s, e)
  BY <1>2, FitsIs DEF FitsAt, ByChild
<1>5. ~BySingle(tasks, groupRule, p, s, e)
  BY <1>1, EffectiveIs DEF BySingle, ShowsSingle
<1>6. ~BySeries(tasks, exceptions, groupRule, p, s, e)
  BY <1>2 DEF BySeries, ShowsSeries
<1> QED
  BY <1>3, <1>4, <1>5, <1>6, ShowsAt

\* While requests come one at a time, an occurrence the user removed is not shown again.
THEOREM RemovedStaysAwayHolds == ASSUME OneClient PROVE Spec => []RemovedStaysAway
<1>1. TypeOK /\ Lineage /\ GoneSkipped /\ ChildrenFit => RemovedStaysAway
  BY StaysAway
<1> QED
  BY <1>1, TypeCorrect, LineageHolds, GoneSkippedHolds, ChildrenFitHolds, PTL
-----------------------------------------------------------------------------
(* A request about one occurrence.                                          *)

\* Row i does not show, unless as a child of slot k.
AtSlot(table, i, k) ==
    LiveIn(table, i) => ChildIn(table, i) /\ <<table[i].parent, table[i].slot>> = k

\* Two states with the same rows and exceptions, but for what is at slot k.
Alike(table, excs, after, excsAfter, k) ==
    /\ \A x \in Ids \X Days : x # k => excsAfter[x] = excs[x]
    /\ \A i \in Ids : after[i] = table[i] \/ (AtSlot(table, i, k) /\ AtSlot(after, i, k))

LEMMA AlikeHides ==
    ASSUME NEW table, NEW excs, NEW after, NEW excsAfter, NEW k,
           Alike(table, excs, after, excsAfter, k), NEW x, x # k, Hides(after, x)
    PROVE  Hides(table, x)
BY DEF Hides, Alike, AtSlot, ChildIn, LiveIn

LEMMA AlikeShows ==
    ASSUME NEW table, NEW excs, NEW after, NEW excsAfter, NEW k, NEW group,
           Alike(table, excs, after, excsAfter, k),
           NEW e, e.of # k, Shows(table, excs, group, e)
    PROVE  Shows(after, excsAfter, group, e)
<1>1. PICK i \in Ids :
         \/ ShowsChild(table, i, e) \/ ShowsSingle(table, group, i, e)
         \/ \E d \in Days : ShowsSeries(table, excs, group, i, d, e)
  BY DEF Shows
<1>2. ASSUME ~AtSlot(table, i, k) PROVE after[i] = table[i]
  BY <1>2 DEF Alike
<1>3. CASE ShowsChild(table, i, e)
  <2>1. e.of = <<table[i].parent, table[i].slot>>
    BY <1>3 DEF ShowsChild, OneOff
  <2>2. after[i] = table[i]
    BY <1>2, <1>3, <2>1 DEF AtSlot, ShowsChild, ChildIn, LiveIn
  <2>3. ShowsChild(after, i, e)
    BY <1>3, <2>2 DEF ShowsChild, ChildIn, OneOff
  <2> QED
    BY <2>3 DEF Shows
<1>4. CASE ShowsSingle(table, group, i, e)
  <2>1. e.of = <<i, table[i].start>>
    BY <1>4 DEF ShowsSingle, OneOff
  <2>2. after[i] = table[i]
    BY <1>2, <1>4 DEF AtSlot, ShowsSingle, ChildIn, LiveIn
  <2>3. ~Hides(after, <<i, table[i].start>>)
    BY <1>4, <2>1, AlikeHides DEF ShowsSingle
  <2>4. ShowsSingle(after, group, i, e)
    BY <1>4, <2>2, <2>3 DEF ShowsSingle, LiveIn, OneOff
  <2> QED
    BY <2>4 DEF Shows
<1>5. ASSUME NEW d \in Days, ShowsSeries(table, excs, group, i, d, e)
      PROVE  ShowsSeries(after, excsAfter, group, i, d, e)
  <2>1. e.of = <<i, d>>
    BY <1>5 DEF ShowsSeries, OccurrenceIn
  <2>2. after[i] = table[i]
    BY <1>2, <1>5 DEF AtSlot, ShowsSeries, ChildIn, LiveIn
  <2>3. ~Hides(after, <<i, d>>)
    BY <1>5, <2>1, AlikeHides DEF ShowsSeries
  <2>4. excsAfter[<<i, d>>] = excs[<<i, d>>]
    BY <2>1 DEF Alike
  <2>5. OccurrenceIn(after, excsAfter, i, d) = OccurrenceIn(table, excs, i, d)
    BY <2>2, <2>4 DEF OccurrenceIn
  <2> QED
    BY <1>5, <2>2, <2>3, <2>4, <2>5 DEF ShowsSeries, LiveIn
<1> QED
  BY <1>1, <1>3, <1>4, <1>5 DEF Shows

\* A step that touches no more than one slot.
Touches(k) == groupRule' = groupRule /\ Alike(tasks, exceptions, tasks', exceptions', k)

LEMMA TouchesOne ==
    ASSUME TypeOK, Lineage, TypeOK', Lineage', NEW k, Touches(k)
    PROVE  {e \in Shown : e.of # k} = {e \in Shown' : e.of # k}
<1>1. \A e : e \in Shown <=> Shows(tasks, exceptions, groupRule, e)
  BY ShownIs DEF ShownIsShows
<1>2. \A e : e \in Shown' <=> Shows(tasks', exceptions', groupRule', e)
  BY ShownIsNext DEF ShownIsShows
<1>3. Alike(tasks', exceptions', tasks, exceptions, k)
  BY DEF Touches, Alike
<1>4. ASSUME NEW e, e.of # k
      PROVE  Shows(tasks, exceptions, groupRule, e) <=> Shows(tasks', exceptions', groupRule', e)
  <2>1. Shows(tasks, exceptions, groupRule, e) => Shows(tasks', exceptions', groupRule, e)
    BY <1>4, AlikeShows DEF Touches
  <2>2. Shows(tasks', exceptions', groupRule, e) => Shows(tasks, exceptions, groupRule, e)
    BY <1>3, <1>4, AlikeShows
  <2> QED
    BY <2>1, <2>2 DEF Touches
<1> QED
  BY <1>1, <1>2, <1>4

LEMMA SameTouches ==
    ASSUME tasks' = tasks, exceptions' = exceptions, groupRule' = groupRule, NEW k
    PROVE  Touches(k)
BY DEF Touches, Alike

LEMMA ExceptionTouches ==
    ASSUME TypeOK, NEW c, NEW k, NEW x, CommitException(c, k, x), UNCHANGED <<tasks, groupRule>>
    PROVE  Touches(k)
BY DEF Touches, Alike, CommitException, TypeOK

\* Row id, which shows nothing or is the child of a slot, is saved as such a child.
LEMMA SavedTouches ==
    ASSUME TypeOK, NEW k, NEW id \in Ids, NEW row \in Row, tasks' = Saved(id, row),
           groupRule' = groupRule,
           \A x \in Ids \X Days : x # k => exceptions'[x] = exceptions[x],
           AtSlot(tasks, id, k),
           row.deleted \/ (row.parent # 0 /\ <<row.parent, row.slot>> = k)
    PROVE  Touches(k)
<1>1. tasks'[id] = row /\ \A i \in Ids \ {id} : tasks'[i] = tasks[i]
  BY DEF Saved, TypeOK
<1>2. AtSlot(tasks', id, k)
  BY <1>1, SeriesConstants DEF AtSlot, LiveIn, ChildIn
<1> QED
  BY <1>1, <1>2 DEF Touches, Alike

LEMMA OverridesTouches ==
    ASSUME TypeOK, Fresh, NEW c \in Clients, Overrides(c)
    PROVE  Touches(<<req[c].ask.task, req[c].ask.slot>>)
<1> DEFINE i == req[c].ask.task  slot == req[c].ask.slot  at == <<i, slot>>
<1>1. PICK id \in Ids, child \in Row :
         /\ tasks' = Saved(id, child) /\ ~child.deleted /\ child.parent = i /\ child.slot = slot
         /\ NewAt(i, slot, id, child) \/ FoundAt(i, slot, id, child)
  BY DEF Overrides
<1>2. i \in Ids /\ i # 0
  BY RequestType, SeriesConstants DEF Overrides, Ids
<1>3. AtSlot(tasks, id, at)
  BY <1>1, <1>2 DEF AtSlot, LiveIn, ChildIn, NewAt, FoundAt, Live
<1>4. groupRule' = groupRule /\ exceptions' = [exceptions EXCEPT ![at] = NoException]
  BY DEF Overrides, CommitException
<1>5. child.parent # 0 /\ <<child.parent, child.slot>> = at
  BY <1>1, <1>2
<1> HIDE DEF at
<1>6. \A x \in Ids \X Days : x # at => exceptions'[x] = exceptions[x]
  BY <1>4 DEF TypeOK
<1>7. Touches(at)
  BY <1>1, <1>3, <1>4, <1>5, <1>6, SavedTouches
<1> QED
  BY <1>7 DEF at

LEMMA RemoveChildTouches ==
    ASSUME TypeOK, NEW c \in Clients, NEW i \in Ids, NEW row \in Row, NEW revert,
           SameButGroup(row, tasks[i]), row.parent # 0, RemoveChild(c, i, row, revert)
    PROVE  Touches(<<row.parent, row.slot>>)
<1> DEFINE k == <<row.parent, row.slot>>  new == [row EXCEPT !.deleted = TRUE]
           x == IF ~revert THEN [ExceptionAt(k) EXCEPT !.skip = TRUE]
                ELSE IF row.done THEN [ExceptionAt(k) EXCEPT !.done = TRUE]
                ELSE exceptions[k]
<1>1. tasks' = Saved(i, new) /\ groupRule' = groupRule /\ exceptions' = [exceptions EXCEPT ![k] = x]
  BY DEF RemoveChild, CommitException
<1>2. new \in Row /\ new.deleted
  BY DEF Row
<1>3. AtSlot(tasks, i, k)
  BY DEF AtSlot, LiveIn, ChildIn, SameButGroup
<1> HIDE DEF k, new, x
<1>4. \A y \in Ids \X Days : y # k => exceptions'[y] = exceptions[y]
  BY <1>1 DEF TypeOK
<1>5. Touches(k)
  BY <1>1, <1>2, <1>3, <1>4, SavedTouches
<1> QED
  BY <1>5 DEF k

\* The child of the slot takes the completion.
LEMMA CompleteTouches ==
    ASSUME TypeOK, Fresh, NEW c \in Clients, NEW done \in BOOLEAN,
           req[c].ask.kind = "completeOccurrence", req[c].child # 0,
           CompleteTask(c, req[c].child, done)
    PROVE  Touches(<<req[c].ask.task, req[c].ask.slot>>)
<1> DEFINE i == req[c].child  at == <<req[c].ask.task, req[c].ask.slot>>
           new == [tasks[i] EXCEPT !.done = done]
<1>1. ReadsFresh(c) /\ req[c].ask.task # 0
  BY RequestType, SeriesConstants DEF Fresh, Ids
<1>2. /\ i \in Ids /\ Live(i) /\ tasks[i].parent # 0
      /\ <<tasks[i].parent, tasks[i].slot>> = at
  BY <1>1 DEF ReadsFresh, ByOccurrence, Children
<1>3. tasks[i] \in Row
  BY <1>2, LiveType
<1>4. new \in Row /\ new.parent = tasks[i].parent /\ new.slot = tasks[i].slot
  BY <1>3 DEF Row
<1>5. AtSlot(tasks, i, at)
  BY <1>2 DEF AtSlot, ChildIn, Live
<1>6. UNCHANGED <<exceptions, groupRule>> /\ (tasks' = Saved(i, new) \/ tasks' = tasks)
  BY <1>2 DEF CompleteTask, CompleteRow, Commit
<1> HIDE DEF i, at, new
<1>7. tasks' = Saved(i, new) => Touches(at)
  BY <1>2, <1>4, <1>5, <1>6, SavedTouches
<1>8. Touches(at)
  BY <1>6, <1>7, SameTouches
<1> QED
  BY <1>8 DEF at

\* A request about an occurrence of a series with a rule of its own touches its slot only.
LEMMA OccurrenceTouches ==
    ASSUME TypeOK, Fresh, NEW c \in Clients, req[c].row.rule # NoRule,
           \/ SetOccurrenceCompleted(c) \/ SkipOccurrence(c) \/ MoveOccurrence(c)
           \/ CreateOrUpdateOverride(c)
    PROVE  Touches(<<req[c].ask.task, req[c].ask.slot>>)
<1> DEFINE at == <<req[c].ask.task, req[c].ask.slot>>
<1>1. Fail(c) => Touches(at)
  BY SameTouches DEF Fail
<1>2. CASE SetOccurrenceCompleted(c)
  <2>1. req[c].ask.kind = "completeOccurrence" /\ req[c].ask.flag \in BOOLEAN
    BY <1>2, RequestType DEF SetOccurrenceCompleted
  <2> QED
    BY <1>2, <2>1, CompleteTouches, ExceptionTouches DEF SetOccurrenceCompleted
<1>3. CASE SkipOccurrence(c)
  BY <1>1, <1>3, ExceptionTouches DEF SkipOccurrence
<1>4. CASE MoveOccurrence(c)
  BY <1>1, <1>4, ExceptionTouches DEF MoveOccurrence
<1>5. CASE CreateOrUpdateOverride(c)
  BY <1>1, <1>5, OverrideEffect, OverridesTouches
<1> QED
  BY <1>2, <1>3, <1>4, <1>5
-----------------------------------------------------------------------------
(* No completed occurrence comes back as open.                              *)

\* What was shown as completed is shown as completed, or is the task a child covered.
Stays ==
    \A e \in Shown', f \in Shown : e.of = f.of /\ f.done => e.done \/ Uncovered(e)

\* Outside of the slot that a step touches nothing changes.
LEMMA TouchesStays ==
    ASSUME TypeOK, Lineage, TypeOK', Lineage', ShownOnce, NEW k, Touches(k),
           \A e \in Shown', f \in Shown :
               e.of = k /\ f.of = k /\ f.done => e.done \/ Uncovered(e)
    PROVE  Stays
<1>1. {e \in Shown : e.of # k} = {e \in Shown' : e.of # k}
  BY TouchesOne
<1>2. ASSUME NEW e \in Shown', NEW f \in Shown, e.of = f.of, f.done, e.of # k
      PROVE  e.done
  <2>1. e \in Shown
    BY <1>1, <1>2
  <2> QED
    BY <1>2, <2>1 DEF ShownOnce
<1> QED
  BY <1>2 DEF Stays

\* What is shown names a task and a slot.
LEMMA ShowsPair ==
    ASSUME NEW table, NEW excs, NEW group, NEW e, Shows(table, excs, group, e)
    PROVE  \E p, s : e.of = <<p, s>>
<1>1. PICK i \in Ids :
         \/ ShowsChild(table, i, e) \/ ShowsSingle(table, group, i, e)
         \/ \E d \in Days : ShowsSeries(table, excs, group, i, d, e)
  BY DEF Shows
<1>2. CASE ShowsChild(table, i, e)
  BY <1>2 DEF ShowsChild, OneOff
<1>3. CASE ShowsSingle(table, group, i, e)
  BY <1>3 DEF ShowsSingle, OneOff
<1>4. ASSUME NEW d \in Days, ShowsSeries(table, excs, group, i, d, e)
      PROVE  e.of = <<i, d>>
  BY <1>4 DEF ShowsSeries, OccurrenceIn
<1> QED
  BY <1>1, <1>2, <1>3, <1>4

\* Nor does anything where the rows that are left keep their completion, and whether they
\* recur, and their children.
LEMMA RowsStay ==
    ASSUME TypeOK, Lineage, TypeOK', Lineage', SlotsUnique, exceptions' = exceptions,
           \A j \in Ids : ChildIn(tasks', j) =>
               /\ ChildIn(tasks, j) /\ tasks'[j].parent = tasks[j].parent
               /\ tasks'[j].slot = tasks[j].slot /\ tasks'[j].done = tasks[j].done,
           \A p \in Ids : LiveIn(tasks', p) /\ tasks'[p].parent = 0 =>
               /\ EffectiveIn(tasks'[p], groupRule') = NoRule
                     <=> EffectiveIn(tasks[p], groupRule) = NoRule
               /\ tasks'[p].done = tasks[p].done
               /\ \A s : Hides(tasks, <<p, s>>) => Hides(tasks', <<p, s>>)
    PROVE  Stays
<1> SUFFICES ASSUME NEW e \in Shown', NEW f \in Shown, e.of = f.of, f.done PROVE e.done
  BY DEF Stays
<1>1. Shows(tasks, exceptions, groupRule, f)
  BY ShownIs DEF ShownIsShows
<1>2. Shows(tasks', exceptions', groupRule', e)
  BY ShownIsNext DEF ShownIsShows
<1>3. PICK p, s : e.of = <<p, s>> /\ f.of = <<p, s>>
  <2>1. PICK p, s : e.of = <<p, s>>
    BY <1>2, ShowsPair
  <2> QED
    BY <2>1
<1>4. \A row : Generated(row, NoRule) = {}
  BY DEF Generated
<1>5. \/ ByChild(tasks', p, s, e) \/ BySingle(tasks', groupRule', p, s, e)
      \/ BySeries(tasks', exceptions', groupRule', p, s, e)
  BY <1>2, <1>3, ShowsAt
<1>6. \/ ByChild(tasks, p, s, f) \/ BySingle(tasks, groupRule, p, s, f)
      \/ BySeries(tasks, exceptions, groupRule, p, s, f)
  BY <1>1, <1>3, ShowsAt
<1>7. CASE ByChild(tasks', p, s, e)
  <2>1. PICK j \in Ids : /\ ChildIn(tasks, j) /\ tasks[j].parent = p /\ tasks[j].slot = s
                         /\ e.done = tasks[j].done
    BY <1>7 DEF ByChild
  <2>2. Hides(tasks, <<p, s>>)
    BY <2>1 DEF Hides
  <2>3. ~BySingle(tasks, groupRule, p, s, f) /\ ~BySeries(tasks, exceptions, groupRule, p, s, f)
    BY <2>2 DEF BySingle, BySeries, ShowsSingle, ShowsSeries
  <2>4. PICK k \in Ids : /\ ChildIn(tasks, k) /\ tasks[k].parent = p /\ tasks[k].slot = s
                         /\ f.done = tasks[k].done
    BY <1>6, <2>3 DEF ByChild
  <2>5. k = j
    BY <2>1, <2>4 DEF SlotsUnique, OneLiveChildPerSlot, ChildIn
  <2> QED
    BY <2>1, <2>4, <2>5
<1>8. ASSUME p \in Ids, LiveIn(tasks', p), tasks'[p].parent = 0, ~Hides(tasks', <<p, s>>)
      PROVE  /\ EffectiveIn(tasks'[p], groupRule') = NoRule
                   <=> EffectiveIn(tasks[p], groupRule) = NoRule
             /\ tasks'[p].done = tasks[p].done
             /\ \/ BySingle(tasks, groupRule, p, s, f)
                \/ BySeries(tasks, exceptions, groupRule, p, s, f)
  <2>1. ~Hides(tasks, <<p, s>>)
    BY <1>8
  <2>2. ~ByChild(tasks, p, s, f)
    BY <2>1 DEF Hides, ByChild
  <2> QED
    BY <1>6, <1>8, <2>2
<1>9. CASE BySingle(tasks', groupRule', p, s, e)
  <2>1. /\ EffectiveIn(tasks[p], groupRule) = NoRule /\ e.done = tasks[p].done
        /\ \/ BySingle(tasks, groupRule, p, s, f)
           \/ BySeries(tasks, exceptions, groupRule, p, s, f)
    BY <1>8, <1>9 DEF BySingle, ShowsSingle
  <2>2. ~BySeries(tasks, exceptions, groupRule, p, s, f)
    BY <1>4, <2>1 DEF BySeries, ShowsSeries
  <2> QED
    BY <2>1, <2>2 DEF BySingle
<1>10. CASE BySeries(tasks', exceptions', groupRule', p, s, e)
  <2>1. EffectiveIn(tasks'[p], groupRule') # NoRule
    BY <1>4, <1>10 DEF BySeries, ShowsSeries
  <2>2. /\ EffectiveIn(tasks[p], groupRule) # NoRule
        /\ \/ BySingle(tasks, groupRule, p, s, f)
           \/ BySeries(tasks, exceptions, groupRule, p, s, f)
    BY <1>8, <1>10, <2>1 DEF BySeries, ShowsSeries
  <2>3. ~BySingle(tasks, groupRule, p, s, f)
    BY <2>2 DEF BySingle, ShowsSingle
  <2> QED
    BY <1>10, <2>2, <2>3 DEF BySeries
<1> QED
  BY <1>5, <1>7, <1>9, <1>10

LEMMA SameStays ==
    ASSUME TypeOK, Lineage, TypeOK', Lineage', SlotsUnique,
           tasks' = tasks, exceptions' = exceptions, groupRule' = groupRule
    PROVE  Stays
BY RowsStay DEF Hides, ChildIn, LiveIn, EffectiveIn

LEMMA RemovesSeriesStays ==
    ASSUME TypeOK, Lineage, TypeOK', Lineage', SlotsUnique, Fresh,
           NEW c \in Clients, RemovesSeries(c)
    PROVE  Stays
<1>1. PICK i \in Ids, row \in Row : Copy(c, i, row) /\ row.parent = 0 /\ RemoveSeries(c, i, row)
  BY DEF RemovesSeries
<1>2. /\ Commit(c, RemovedTable(i, row)) /\ exceptions' = exceptions /\ groupRule' = groupRule
  BY <1>1 DEF RemoveSeries, RemovedTable
<1>3. Live(i) /\ SameButGroup(row, tasks[i])
  BY <1>1, CopyFresh
<1>4. CASE tasks' = RemovedTable(i, row)
  <2>1. ASSUME NEW k \in Ids, LiveIn(tasks', k)
        PROVE  k # i /\ k \notin Children(i) /\ tasks'[k] = tasks[k]
    <3> DEFINE new == RemovedTable(i, row)[k]  old == IF k = i THEN row ELSE tasks[k]
    <3>1. new # NoTask /\ ~new.deleted
      BY <1>4, <2>1 DEF LiveIn
    <3>2. new.deleted = (old.deleted \/ k = i \/ k \in Children(i))
      BY <3>1, RemovedRow
    <3> HIDE DEF new, old
    <3>3. k # i /\ k \notin Children(i)
      BY <3>1, <3>2
    <3> QED
      BY <1>4, <3>3 DEF RemovedTable
  <2>2. ASSUME NEW k \in Ids, k # i, k \notin Children(i) PROVE tasks'[k] = tasks[k]
    BY <1>4, <2>2 DEF RemovedTable
  <2>3. ASSUME NEW p \in Ids, LiveIn(tasks', p), NEW s, Hides(tasks, <<p, s>>)
        PROVE  Hides(tasks', <<p, s>>)
    <3>1. PICK j \in Ids : ChildIn(tasks, j) /\ tasks[j].parent = p /\ tasks[j].slot = s
      BY <2>3 DEF Hides
    <3>2. j # i /\ j \notin Children(i)
      BY <1>1, <1>3, <2>1, <2>3, <3>1 DEF ChildIn, Children, SameButGroup
    <3>3. tasks'[j] = tasks[j]
      BY <2>2, <3>2
    <3> QED
      BY <3>1, <3>3 DEF Hides, ChildIn
  <2>4. \A j \in Ids : ChildIn(tasks', j) =>
               /\ ChildIn(tasks, j) /\ tasks'[j].parent = tasks[j].parent
               /\ tasks'[j].slot = tasks[j].slot /\ tasks'[j].done = tasks[j].done
    BY <2>1 DEF ChildIn, LiveIn
  <2> QED
    BY <1>2, <2>1, <2>3, <2>4, RowsStay
<1> QED
  BY <1>2, <1>4, SameStays DEF Commit

LEMMA EndsStays ==
    ASSUME TypeOK, Lineage, TypeOK', Lineage', SlotsUnique, Fresh,
           NEW c \in Clients, Ends(c)
    PROVE  Stays
<1> DEFINE ask == req[c].ask  i == ask.task  row == req[c].row  ended == Ended(row, ask.slot)
           table == Saved(i, ended)
<1>1. ask \in Ask /\ ask.slot \in Days /\ i \in Ids /\ tasks[i] # NoTask /\ row \in Row
  BY RequestType DEF Ends, TypeOK
<1>2. /\ row.rule # NoRule /\ Proper(i, row) /\ exceptions' = exceptions
      /\ groupRule' = groupRule /\ Live(i) /\ SameButGroup(row, tasks[i])
  BY DEF Ends, Lineage, Fresh, ReadsFresh
<1>3. tasks' = Swept(table, i)
  BY EndLeaves
<1> HIDE DEF ask, i, row
<1>4. /\ ended \in Row /\ ended.parent = 0 /\ ended # NoTask /\ ended.done = row.done
      /\ ended.rule = Until(row.rule, ask.slot) /\ ended.rule \in Rule
  <2>1. ended.done = row.done
    BY DEF Ended
  <2>2. Until(row.rule, ask.slot) \in Rule
    BY <1>1, <1>2, RuleType
  <2> QED
    BY <1>1, <1>2, <2>1, <2>2, UntilProper, SeriesConstants
<1> HIDE DEF ended
<1>5. table \in Table /\ table[i] = ended /\ \A k \in Ids \ {i} : table[k] = tasks[k]
  BY <1>1, <1>4, SavedType DEF Saved, TypeOK
<1> HIDE DEF table
<1>6. /\ ended.rule # NoRule /\ tasks[i].rule # NoRule /\ tasks[i].parent = 0
      /\ tasks[i].done = ended.done
  <2>1. tasks[i].rule # NoRule /\ tasks[i].parent = 0
    BY <1>1, <1>2 DEF SameButGroup, Proper
  <2> QED
    BY <1>2, <1>4, <2>1, SeriesConstants DEF SameButGroup
<1>7. ASSUME NEW k \in Ids, tasks'[k] # NoTask
      PROVE  /\ tasks'[k].parent = tasks[k].parent /\ tasks'[k].done = tasks[k].done
             /\ k # i => /\ tasks[k] # NoTask /\ tasks'[k].deleted = tasks[k].deleted
                         /\ tasks'[k].rule = tasks[k].rule /\ tasks'[k].slot = tasks[k].slot
                         /\ tasks'[k].grouped = tasks[k].grouped
             /\ k = i => tasks'[k].rule = ended.rule
  <2>1. table[k] # NoTask
    BY <1>3, <1>5, <1>7, SweptRow
  <2> QED
    BY <1>3, <1>4, <1>5, <1>6, <2>1, SweptRow
<1>8. \A j \in Ids : ChildIn(tasks', j) =>
               /\ ChildIn(tasks, j) /\ tasks'[j].parent = tasks[j].parent
               /\ tasks'[j].slot = tasks[j].slot /\ tasks'[j].done = tasks[j].done
  BY <1>6, <1>7 DEF ChildIn
<1>9. ASSUME NEW j \in Ids, ChildIn(tasks, j)
      PROVE  /\ ChildIn(tasks', j) /\ tasks'[j].parent = tasks[j].parent
             /\ tasks'[j].slot = tasks[j].slot
  <2>1. j # i /\ table[j] = tasks[j] /\ tasks[j] # NoTask
    BY <1>5, <1>6, <1>9 DEF ChildIn
  <2>2. tasks'[j] # NoTask
    BY <1>3, <1>5, <2>1, SweptRow
  <2> QED
    BY <1>7, <1>9, <2>1, <2>2 DEF ChildIn
<1>10. \A k : Hides(tasks, k) => Hides(tasks', k)
  BY <1>9 DEF Hides
<1>11. ASSUME NEW p \in Ids, LiveIn(tasks', p), tasks'[p].parent = 0
       PROVE  /\ EffectiveIn(tasks'[p], groupRule') = NoRule
                    <=> EffectiveIn(tasks[p], groupRule) = NoRule
              /\ tasks'[p].done = tasks[p].done
  <2>1. CASE p = i
    BY <1>6, <1>7, <1>11, <2>1 DEF EffectiveIn, LiveIn
  <2>2. CASE p # i
    BY <1>2, <1>7, <1>11, <2>2 DEF EffectiveIn, LiveIn
  <2> QED
    BY <2>1, <2>2
<1> QED
  BY <1>2, <1>8, <1>10, <1>11, RowsStay

\* The slot that a request about an occurrence touches, before and after.
LEMMA SlotStays ==
    ASSUME TypeOK, Lineage, TypeOK', Lineage', ShownOnce, NEW p, NEW s, Touches(<<p, s>>),
           \A e, f :
               /\ \/ ByChild(tasks', p, s, e) \/ BySingle(tasks', groupRule', p, s, e)
                  \/ BySeries(tasks', exceptions', groupRule', p, s, e)
               /\ \/ ByChild(tasks, p, s, f) \/ BySingle(tasks, groupRule, p, s, f)
                  \/ BySeries(tasks, exceptions, groupRule, p, s, f)
               /\ e.of = <<p, s>> /\ f.done
               => e.done \/ Uncovered(e)
    PROVE  Stays
<1>1. ASSUME NEW e \in Shown', NEW f \in Shown, e.of = <<p, s>>, f.of = <<p, s>>, f.done
      PROVE  e.done \/ Uncovered(e)
  <2>1. Shows(tasks', exceptions', groupRule', e)
    BY <1>1, ShownIsNext DEF ShownIsShows
  <2>2. Shows(tasks, exceptions, groupRule, f)
    BY <1>1, ShownIs DEF ShownIsShows
  <2>3. \/ ByChild(tasks', p, s, e) \/ BySingle(tasks', groupRule', p, s, e)
        \/ BySeries(tasks', exceptions', groupRule', p, s, e)
    BY <1>1, <2>1, ShowsAt
  <2>4. \/ ByChild(tasks, p, s, f) \/ BySingle(tasks, groupRule, p, s, f)
        \/ BySeries(tasks, exceptions, groupRule, p, s, f)
    BY <1>1, <2>2, ShowsAt
  <2> QED
    BY <1>1, <2>3, <2>4
<1> QED
  BY <1>1, TouchesStays

\* A skip or a move leaves the completion of the exception alone.
LEMMA WritesExceptionStays ==
    ASSUME TypeOK, Lineage, TypeOK', Lineage', ShownOnce, Fresh,
           NEW c \in Clients, WritesException(c), req[c].ask.kind # "completeOccurrence"
    PROVE  Stays
<1> DEFINE i == req[c].ask.task  slot == req[c].ask.slot  at == <<i, slot>>
<1>1. PICK x \in Exception : CommitException(c, at, x) /\ x.done = ExceptionAt(at).done
  BY DEF WritesException
<1>2. /\ tasks' = tasks /\ groupRule' = groupRule /\ i \in Ids /\ slot \in Days
      /\ req[c].ask.kind \in ByOccurrence /\ req[c].child = 0 /\ req[c].row.rule # NoRule
  BY RequestType DEF WritesException, ByOccurrence
<1>3. ReadsFresh(c)
  BY DEF Fresh
<1>4. tasks[i].rule # NoRule /\ tasks[i].parent = 0
  BY <1>2, <1>3 DEF ReadsFresh, SameButGroup, ByOccurrence, Live, Lineage, Proper
<1>5. \A k \in Children(i) : tasks[k].slot # slot
  BY <1>2, <1>3 DEF ReadsFresh, ByOccurrence
<1> HIDE DEF i, slot
<1>6. /\ exceptions'[at] = x /\ x # NoException
      /\ exceptions[at] # NoException => exceptions[at].done = x.done
  BY <1>1, <1>2, SeriesConstants DEF CommitException, TypeOK, ExceptionAt
<1>7. Touches(at)
  BY <1>1, <1>2, ExceptionTouches
<1>8. \A e : ~ByChild(tasks, i, slot, e) /\ ~BySingle(tasks, groupRule, i, slot, e)
  <2>1. \A e : ~ByChild(tasks, i, slot, e)
    BY <1>5 DEF ByChild, Children, ChildIn, Live
  <2>2. \A e : ~BySingle(tasks, groupRule, i, slot, e)
    BY <1>4 DEF BySingle, ShowsSingle, EffectiveIn
  <2> QED
    BY <2>1, <2>2
<1>9. ASSUME NEW e, NEW f, BySeries(tasks', exceptions', groupRule', i, slot, e),
             BySeries(tasks, exceptions, groupRule, i, slot, f), f.done
      PROVE  e.done
  <2>1. e.done = x.done
    BY <1>6, <1>9 DEF BySeries, Exception
  <2>2. exceptions[at] # NoException /\ exceptions[at].done
    BY <1>9 DEF BySeries
  <2> QED
    BY <1>6, <2>1, <2>2
<1> QED
  BY <1>2, <1>7, <1>8, <1>9, SlotStays DEF at

\* The child takes over the completion of its slot.
LEMMA OverridesStays ==
    ASSUME TypeOK, Lineage, TypeOK', Lineage', SlotsUnique, ShownOnce, Fresh,
           NEW c \in Clients, Overrides(c)
    PROVE  Stays
<1> DEFINE i == req[c].ask.task  slot == req[c].ask.slot  at == <<i, slot>>  row == req[c].row
<1>1. PICK id \in Ids, child \in Row :
         /\ tasks' = Saved(id, child) /\ ~child.deleted /\ child.parent = i /\ child.slot = slot
         /\ exceptions[at] # NoException /\ exceptions[at].done => child.done
         /\ \/ NewAt(i, slot, id, child) /\ slot \in Generated(row, Effective(row))
            \/ FoundAt(i, slot, id, child)
  BY DEF Overrides
<1>2. i \in Ids /\ i # 0 /\ slot \in Days /\ Live(i) /\ SameButGroup(row, tasks[i])
      /\ row.grouped = tasks[i].grouped
  BY RequestType, SeriesConstants DEF Overrides, Ids, Fresh, ReadsFresh
<1>3. Touches(at)
  BY OverridesTouches
<1> HIDE DEF i, slot, row
<1>4. tasks'[id] = child /\ child # NoTask /\ \A k \in Ids \ {id} : tasks'[k] = tasks[k]
  BY <1>1, SeriesConstants DEF Saved, TypeOK
<1>5. ASSUME NEW j \in Ids, j # id, ChildIn(tasks', j), tasks'[j].parent = i, tasks'[j].slot = slot
      PROVE  FALSE
  <2>1. ChildIn(tasks, j) /\ tasks[j].parent = i /\ tasks[j].slot = slot
    BY <1>4, <1>5 DEF ChildIn
  <2>2. CASE NewAt(i, slot, id, child)
    BY <2>1, <2>2 DEF NewAt, Children, ChildIn, Live
  <2>3. CASE FoundAt(i, slot, id, child)
    BY <1>5, <2>1, <2>3 DEF FoundAt, SlotsUnique, OneLiveChildPerSlot, ChildIn, Live
  <2> QED
    BY <1>1, <2>2, <2>3
<1>6. Hides(tasks', at)
  BY <1>1, <1>2, <1>4 DEF Hides, ChildIn
<1>7. ASSUME NEW f, BySingle(tasks, groupRule, i, slot, f) PROVE FALSE
  <2>1. ~Hides(tasks, at) /\ EffectiveIn(tasks[i], groupRule) = NoRule
    BY <1>7 DEF BySingle, ShowsSingle
  <2>2. CASE FoundAt(i, slot, id, child)
    BY <1>2, <2>1, <2>2 DEF FoundAt, Hides, ChildIn, Live
  <2>3. CASE slot \in Generated(row, Effective(row))
    <3>1. Effective(row) = EffectiveIn(tasks[i], groupRule)
      BY <1>2 DEF Effective, EffectiveIn, SameButGroup
    <3> QED
      BY <2>1, <2>3, <3>1 DEF Generated
  <2> QED
    BY <1>1, <2>2, <2>3
<1>8. ASSUME NEW f, ByChild(tasks, i, slot, f), f.done PROVE child.done
  <2>1. PICK j \in Ids : /\ ChildIn(tasks, j) /\ tasks[j].parent = i /\ tasks[j].slot = slot
                         /\ f.done = tasks[j].done
    BY <1>8 DEF ByChild
  <2>2. ~NewAt(i, slot, id, child)
    BY <2>1 DEF NewAt, Children, ChildIn, Live
  <2>3. FoundAt(i, slot, id, child) /\ id = j
    BY <1>1, <2>1, <2>2 DEF FoundAt, SlotsUnique, OneLiveChildPerSlot, ChildIn, Live
  <2> QED
    BY <1>8, <2>1, <2>3 DEF FoundAt
<1>9. ASSUME NEW f, BySeries(tasks, exceptions, groupRule, i, slot, f), f.done PROVE child.done
  BY <1>1, <1>9 DEF BySeries
<1>10. ASSUME NEW e, \/ ByChild(tasks', i, slot, e) \/ BySingle(tasks', groupRule', i, slot, e)
                     \/ BySeries(tasks', exceptions', groupRule', i, slot, e)
       PROVE  e.done = child.done
  <2>1. /\ ~BySingle(tasks', groupRule', i, slot, e)
        /\ ~BySeries(tasks', exceptions', groupRule', i, slot, e)
    BY <1>6 DEF BySingle, BySeries, ShowsSingle, ShowsSeries
  <2>2. ByChild(tasks', i, slot, e)
    BY <1>10, <2>1
  <2> QED
    BY <1>4, <1>5, <2>2 DEF ByChild
<1> QED
  BY <1>3, <1>7, <1>8, <1>9, <1>10, SlotStays DEF at

\* The slot of a removed child is skipped, or generated with the child's completion.
LEMMA RemovesChildStays ==
    ASSUME TypeOK, Lineage, TypeOK', Lineage', SlotsUnique, ShownOnce, Fresh,
           NEW c \in Clients, RemovesChild(c)
    PROVE  Stays
<1>1. PICK i \in Ids, row \in Row, revert \in BOOLEAN :
         Copy(c, i, row) /\ row.parent # 0 /\ RemoveChild(c, i, row, revert)
  BY DEF RemovesChild
<1> DEFINE p == row.parent  s == row.slot  at == <<p, s>>  new == [row EXCEPT !.deleted = TRUE]
           x == IF ~revert THEN [ExceptionAt(at) EXCEPT !.skip = TRUE]
                ELSE IF row.done THEN [ExceptionAt(at) EXCEPT !.done = TRUE]
                ELSE exceptions[at]
<1>2. Live(i) /\ SameButGroup(row, tasks[i])
  BY <1>1, CopyFresh
<1>3. Touches(at)
  BY <1>1, <1>2, RemoveChildTouches
<1>4. tasks' = Saved(i, new) /\ exceptions' = [exceptions EXCEPT ![at] = x]
  BY <1>1 DEF RemoveChild, CommitException
<1>5. new.deleted /\ p \in Ids /\ s \in Days /\ at \in Ids \X Days
  BY <1>1, SeriesConstants DEF Row, Ids
<1> HIDE DEF p, s, new
<1>6. tasks'[i] = new /\ \A k \in Ids \ {i} : tasks'[k] = tasks[k]
  BY <1>4 DEF Saved, TypeOK
<1>7. ChildIn(tasks, i) /\ tasks[i].parent = p /\ tasks[i].slot = s /\ tasks[i].done = row.done
  BY <1>1, <1>2 DEF ChildIn, Live, SameButGroup, p, s
<1>8. ASSUME NEW j \in Ids, ChildIn(tasks, j), tasks[j].parent = p, tasks[j].slot = s
      PROVE  j = i
  BY <1>7, <1>8 DEF SlotsUnique, OneLiveChildPerSlot, ChildIn
<1>9. \A e : ~ByChild(tasks', p, s, e)
  <2> SUFFICES ASSUME NEW j \in Ids, ChildIn(tasks', j), tasks'[j].parent = p, tasks'[j].slot = s
               PROVE  FALSE
    BY DEF ByChild
  <2>1. j # i
    BY <1>5, <1>6 DEF ChildIn
  <2> QED
    BY <1>6, <1>8, <2>1 DEF ChildIn
<1>10. ASSUME NEW f, f.done,
              \/ ByChild(tasks, p, s, f) \/ BySingle(tasks, groupRule, p, s, f)
              \/ BySeries(tasks, exceptions, groupRule, p, s, f)
       PROVE  row.done
  <2>1. Hides(tasks, at)
    BY <1>7 DEF Hides
  <2>2. ByChild(tasks, p, s, f)
    BY <1>10, <2>1 DEF BySingle, BySeries, ShowsSingle, ShowsSeries
  <2> QED
    BY <1>7, <1>8, <1>10, <2>2 DEF ByChild
<1>11. ASSUME NEW e, BySingle(tasks', groupRule', p, s, e), e.of = <<p, s>> PROVE Uncovered(e)
  <2>1. /\ e.task = p /\ LiveIn(tasks', p) /\ tasks'[p].parent = 0
        /\ EffectiveIn(tasks'[p], groupRule') = NoRule
    BY <1>11 DEF BySingle, ShowsSingle
  <2>2. tasks'[p].rule = NoRule /\ ~(tasks'[p].grouped /\ groupRule' # NoRule)
    BY <2>1 DEF EffectiveIn
  <2>3. p \notin Anchors'
    BY <2>2 DEF Anchors
  <2>4. e.of \in SuppressedSlots
    BY <1>7, <1>11, HidesIs DEF Hides
  <2> QED
    BY <1>11, <2>1, <2>3, <2>4 DEF Uncovered
<1>12. ASSUME NEW e, BySeries(tasks', exceptions', groupRule', p, s, e), row.done PROVE e.done
  <2>1. exceptions'[at] = x
    BY <1>4, <1>5 DEF TypeOK
  <2>2. ExceptionAt(at) \in Exception
    BY <1>5, ExceptionType
  <2>3. CASE ~revert
    <3>1. x = [ExceptionAt(at) EXCEPT !.skip = TRUE]
      BY <2>3
    <3>2. x \in Exception /\ x.skip
      BY <2>2, <3>1 DEF Exception
    <3> QED
      BY <1>12, <2>1, <3>2, SeriesConstants DEF BySeries, ShowsSeries
  <2>4. CASE revert
    <3>1. x = [ExceptionAt(at) EXCEPT !.done = TRUE]
      BY <1>12, <2>4
    <3>2. x \in Exception /\ x.done
      BY <2>2, <3>1 DEF Exception
    <3> QED
      BY <1>12, <2>1, <3>2, SeriesConstants DEF BySeries
  <2> QED
    BY <2>3, <2>4
<1> QED
  BY <1>3, <1>9, <1>10, <1>11, <1>12, SlotStays DEF at

\* While requests come one at a time: a request about an occurrence of a series with a rule
\* of its own changes no other, and what was completed does not come back as open.
THEOREM OneOccurrenceOnlyHolds == ASSUME OneClient PROVE Spec => OneOccurrenceOnly
<1> DEFINE ask(c) == req[c].ask  row(c) == req[c].row
           slot(c) == IF ask(c).kind = "remove" THEN <<row(c).parent, row(c).slot>>
                      ELSE <<ask(c).task, ask(c).slot>>
           changes(c) == \/ CreateOrUpdateOverride(c) \/ SkipOccurrence(c)
                         \/ MoveOccurrence(c) /\ row(c).rule # NoRule
           touching(c) == \/ (SetOccurrenceCompleted(c) \/ changes(c)) /\ row(c).rule # NoRule
                          \/ Remove(c) /\ row(c).parent # 0
           staying(c) == \/ changes(c) \/ Remove(c)
                         \/ EndSeriesAt(c) /\ row(c).rule # NoRule
           A(c) == /\ touching(c) => {e \in Shown : e.of # slot(c)} = {e \in Shown' : e.of # slot(c)}
                   /\ staying(c) => \A e \in Shown' : e.of \in DoneSlots => e.done \/ Uncovered(e)
<1>1. ASSUME TypeOK, Lineage, TypeOK', Lineage', SlotsUnique, ShownOnce, Fresh, NEW c \in Clients
      PROVE  A(c)
  <2>1. ASSUME touching(c)
        PROVE  {e \in Shown : e.of # slot(c)} = {e \in Shown' : e.of # slot(c)}
    <3>1. CASE (SetOccurrenceCompleted(c) \/ changes(c)) /\ row(c).rule # NoRule
      <4>1. ask(c).kind # "remove"
        BY <3>1 DEF SetOccurrenceCompleted, CreateOrUpdateOverride, SkipOccurrence, MoveOccurrence
      <4>2. Touches(<<ask(c).task, ask(c).slot>>)
        BY <1>1, <3>1, OccurrenceTouches
      <4> QED
        BY <1>1, <4>1, <4>2, TouchesOne
    <3>2. CASE Remove(c) /\ row(c).parent # 0
      <4>1. ask(c).kind = "remove" /\ ask(c).task \in Ids /\ row(c) \in Row
        BY <1>1, <3>2, RequestType DEF Remove
      <4>2. SameButGroup(row(c), tasks[ask(c).task])
        BY <1>1, <4>1 DEF Fresh, ReadsFresh
      <4>3. RemoveChild(c, ask(c).task, row(c), ask(c).flag)
        BY <3>2 DEF Remove, RemoveRow
      <4>4. Touches(<<row(c).parent, row(c).slot>>)
        BY <1>1, <3>2, <4>1, <4>2, <4>3, RemoveChildTouches
      <4> QED
        BY <1>1, <4>1, <4>4, TouchesOne
    <3> QED
      BY <2>1, <3>1, <3>2
  <2>2. ASSUME staying(c) PROVE Stays
    <3>1. Fail(c) => Stays
      BY <1>1, SameStays DEF Fail
    <3>2. RemovesSeries(c) \/ RemovesChild(c) \/ Ends(c) \/ Overrides(c) => Stays
      BY <1>1, RemovesSeriesStays, RemovesChildStays, EndsStays, OverridesStays
    <3>3. CASE CreateOrUpdateOverride(c)
      BY <1>1, <3>1, <3>2, <3>3, OverrideEffect
    <3>4. CASE SkipOccurrence(c)
      <4>1. ask(c).kind # "completeOccurrence"
        BY <3>4 DEF SkipOccurrence
      <4> QED
        BY <1>1, <3>1, <3>2, <3>4, <4>1, SkipEffect, WritesExceptionStays
    <3>5. CASE MoveOccurrence(c) /\ row(c).rule # NoRule
      <4>1. ask(c).kind # "completeOccurrence"
        BY <3>5 DEF MoveOccurrence
      <4> QED
        BY <1>1, <3>1, <3>5, <4>1, MoveOwnEffect, WritesExceptionStays
    <3>6. CASE Remove(c)
      BY <1>1, <3>2, <3>6, RemoveEffect
    <3>7. CASE EndSeriesAt(c)
      BY <1>1, <3>1, <3>2, <3>7, EndEffect
    <3> QED
      BY <2>2, <3>3, <3>4, <3>5, <3>6, <3>7
  <2>3. Stays => \A e \in Shown' : e.of \in DoneSlots => e.done \/ Uncovered(e)
    BY DEF Stays, DoneSlots
  <2> QED
    BY <2>1, <2>2, <2>3
<1> DEFINE Kept == \A c \in Clients : A(c)
<1>2. /\ TypeOK /\ Lineage /\ SlotsUnique /\ ShownOnce /\ Fresh
      /\ TypeOK' /\ Lineage'
      => [Kept]_vars
  BY <1>1
<1> QED
  BY <1>2, TypeCorrect, LineageHolds, SlotsUniqueHolds, ShownOnceHolds, FreshHolds, PTL
     DEF OneOccurrenceOnly
-----------------------------------------------------------------------------
(* The conflict gate, over the same tables.                                 *)

\* A turn and its devices do to the tables what the clients of the task service do.
LEMMA GateSteps == ASSUME [GateNext]_gateVars PROVE [Next]_vars
<1>1. Told => UNCHANGED vars
  BY DEF Told
<1>2. ASSUME NEW confirm, NEW checked, NEW hits, NEW does, NEW ask,
             Gate(confirm, checked, hits, does, ask)
      PROVE  UNCHANGED vars
  BY <1>1, <1>2 DEF Gate, Refuse, Proceed
<1>3. \/ ListTasks \/ CheckAvailability \/ AttemptCreate \/ StaleTarget \/ UpdateOneOff
      \/ AskEditScope \/ OccurrenceMove \/ UpdateFollowing \/ UpdateAll
      => UNCHANGED vars
  <2>1. ListTasks \/ CheckAvailability \/ StaleTarget \/ AskEditScope => UNCHANGED vars
    BY <1>1 DEF ListTasks, CheckAvailability, StaleTarget, AskEditScope, Refuse
  <2>2. AttemptCreate => UNCHANGED vars
    BY <1>2 DEF AttemptCreate
  <2>3. UpdateOneOff \/ OccurrenceMove => UNCHANGED vars
    BY <1>2 DEF UpdateOneOff, OccurrenceMove
  <2>4. UpdateFollowing \/ UpdateAll => UNCHANGED vars
    BY <1>2 DEF UpdateFollowing, UpdateAll, GateSeries
  <2> QED
    BY <2>1, <2>2, <2>3, <2>4
<1>4. CompleteTaskTool \/ DeleteTaskTool => UNCHANGED vars
  BY DEF CompleteTaskTool, DeleteTaskTool, Proceed
<1>5. \A c \in Clients : Load(c) \/ Serve(c) => Next
  BY DEF Serve, Next
<1>6. UpdateGroup \/ CommitCreate => Next
  BY DEF UpdateGroup, CommitCreate, Next
<1>7. Request \/ CommitRequest => [Next]_vars
  BY <1>5, GateConstants DEF Request, CommitRequest
<1>8. DeviceRequest => Next
  BY <1>5 DEF DeviceRequest, Next
<1>9. UNCHANGED gateVars => UNCHANGED vars
  BY DEF gateVars
<1> QED
  BY <1>3, <1>4, <1>6, <1>7, <1>8, <1>9 DEF GateNext

\* So all that holds of the rows whatever the clients ask holds with a turn among them.
THEOREM GateRefines == GateSpec => Spec
<1>1. GateInit => Init
  BY DEF GateInit
<1>2. [GateNext]_gateVars => [Next]_vars
  BY GateSteps
<1> QED
  BY <1>1, <1>2, PTL DEF GateSpec, Spec

\* What the calendar shows in a window is found there, but for what an exception put there.
LEMMA ShownIsFound ==
    ASSUME TypeOK, Lineage, NEW from, NEW to, NEW o \in Shown, ~o.done,
           Meets(o.at, o.length, from, to)
    PROVE  o.task \in FindOverlapping(from, to, 0) \/ Moved(o.of)
<1>1. PICK i \in Ids :
         \/ ShowsChild(tasks, i, o) \/ ShowsSingle(tasks, groupRule, i, o)
         \/ \E g \in Days : ShowsSeries(tasks, exceptions, groupRule, i, g, o)
  BY ShownIs DEF ShownIsShows, Shows
<1>2. i # 0
  BY SeriesConstants DEF Ids
<1>3. ASSUME Live(i), tasks[i].rule = NoRule, o.task = i, o.done = tasks[i].done,
             o.at = tasks[i].start, o.length = tasks[i].length
      PROVE  o.task \in FindOverlapping(from, to, 0)
  BY <1>2, <1>3 DEF FindOverlapping
<1>4. CASE ShowsChild(tasks, i, o)
  <2>1. tasks[i].rule = NoRule
    BY <1>4, ParentOf DEF ShowsChild
  <2> QED
    BY <1>3, <1>4, <2>1 DEF ShowsChild, OneOff, ChildIn, Live
<1>5. CASE ShowsSingle(tasks, groupRule, i, o)
  <2>1. tasks[i].rule = NoRule
    BY <1>5 DEF ShowsSingle, EffectiveIn
  <2> QED
    BY <1>3, <1>5, <2>1 DEF ShowsSingle, OneOff, LiveIn, Live
<1>6. ASSUME NEW g \in Days, ShowsSeries(tasks, exceptions, groupRule, i, g, o), ~Moved(<<i, g>>)
      PROVE  o.task \in FindOverlapping(from, to, 0)
  <2>1. /\ Live(i) /\ tasks[i].parent = 0 /\ g \in Generated(tasks[i], Effective(tasks[i]))
        /\ exceptions[<<i, g>>] # NoException => ~exceptions[<<i, g>>].skip
        /\ ~Hides(tasks, <<i, g>>) /\ o = Occurrence(i, g)
    BY <1>6, EffectiveIs DEF ShowsSeries, LiveIn, Live, Occurrence, OccurrenceIn
  <2>2. Effective(tasks[i]) # NoRule
    BY <2>1 DEF Generated
  <2>3. i \in Anchors
    BY <2>1, <2>2, AnchorIs
  <2>4. /\ o.task = i /\ o.of = <<i, g>> /\ o.of[2] = g /\ o.at = g
        /\ o.length = tasks[i].length
    BY <1>6, <2>1 DEF Occurrence, Moved
  <2>5. o \in ExpandedIn(i, from, to)
    BY <2>1, <2>4 DEF ExpandedIn, Expanded
  <2>6. o.of \notin SuppressedIn(from, to)
    BY <2>1, <2>4, HidesIs DEF SuppressedIn
  <2>7. i \in FindClashingRecurringAnchors(from, to, 0)
    BY <1>2, <2>3, <2>5, <2>6 DEF FindClashingRecurringAnchors
  <2> QED
    BY <2>4, <2>7 DEF FindOverlapping
<1>7. ASSUME NEW g \in Days, ShowsSeries(tasks, exceptions, groupRule, i, g, o)
      PROVE  o.of = <<i, g>>
  BY <1>7 DEF ShowsSeries, OccurrenceIn
<1> QED
  BY <1>1, <1>4, <1>5, <1>6, <1>7

\* What the gate may find beside what is shown.
Phantom(i, from, to) ==
    \/ \E d \in Days : /\ Meets(d, tasks[i].length, from, to)
                       /\ Moved(<<i, d>>) \/ (d < from /\ <<i, d>> \in SuppressedSlots)
    \/ InheritsGroupRecurrence(i) /\ Meets(tasks[i].start, tasks[i].length, from, to)
    \/ tasks[i].rule = NoRule /\ <<i, tasks[i].start>> \in SuppressedSlots

\* And what is found in a window is shown there, but for the exceptions of GateAgrees.
LEMMA FoundIsShown ==
    ASSUME TypeOK, Lineage, NEW from \in Days, NEW to \in Int,
           NEW i \in FindOverlapping(from, to, 0)
    PROVE  \/ \E o \in Shown : ~o.done /\ Meets(o.at, o.length, from, to) /\ o.task = i
           \/ Phantom(i, from, to)
<1>1. CASE i \in Ids /\ Live(i) /\ tasks[i].rule = NoRule /\ ~tasks[i].done
           /\ Meets(tasks[i].start, tasks[i].length, from, to)
  <2>1. CASE tasks[i].parent # 0
    <3> DEFINE o == OneOff(tasks, i, <<tasks[i].parent, tasks[i].slot>>)
    <3>1. ShowsChild(tasks, i, o)
      BY <1>1, <2>1 DEF ShowsChild, ChildIn, Live
    <3>2. o \in Shown
      BY <1>1, <3>1, ShownIs DEF ShownIsShows, Shows
    <3>3. /\ o.task = i /\ o.at = tasks[i].start /\ o.length = tasks[i].length
          /\ o.done = tasks[i].done
      BY <1>1 DEF OneOff
    <3> QED
      BY <1>1, <3>2, <3>3
  <2>2. CASE /\ tasks[i].parent = 0 /\ ~InheritsGroupRecurrence(i)
             /\ <<i, tasks[i].start>> \notin SuppressedSlots
    <3> DEFINE o == OneOff(tasks, i, <<i, tasks[i].start>>)
    <3>1. ShowsSingle(tasks, groupRule, i, o)
      BY <1>1, <2>2, AnchorIs, EffectiveIs, HidesIs DEF ShowsSingle, LiveIn, Live
    <3>2. o \in Shown
      BY <1>1, <3>1, ShownIs DEF ShownIsShows, Shows
    <3>3. /\ o.task = i /\ o.at = tasks[i].start /\ o.length = tasks[i].length
          /\ o.done = tasks[i].done
      BY <1>1 DEF OneOff
    <3> QED
      BY <1>1, <3>2, <3>3
  <2> QED
    BY <1>1, <2>1, <2>2 DEF Phantom
<1>2. CASE i \in FindClashingRecurringAnchors(from, to, 0)
  <2>1. PICK o \in ExpandedIn(i, from, to) : ~o.done /\ o.of \notin SuppressedIn(from, to)
    BY <1>2 DEF FindClashingRecurringAnchors
  <2>2. i \in Anchors /\ i \in Ids
    BY <1>2 DEF FindClashingRecurringAnchors, Anchors
  <2>3. PICK g \in Generated(tasks[i], Effective(tasks[i])) :
           /\ exceptions[<<i, g>>] # NoException => ~exceptions[<<i, g>>].skip
           /\ o = Occurrence(i, g)
    BY <2>1 DEF ExpandedIn, Expanded
  <2>4. /\ o.task = i /\ o.of = <<i, g>> /\ o.of[2] = g /\ g \in Days
        /\ Moved(<<i, g>>) \/ (o.at = g /\ o.length = tasks[i].length)
    BY <2>3 DEF Occurrence, Moved, Generated
  <2>5. Meets(g, tasks[i].length, from, to)
    BY <2>1, <2>4 DEF ExpandedIn
  <2>6. CASE Moved(<<i, g>>)
    BY <2>4, <2>5, <2>6 DEF Phantom
  <2>7. CASE <<i, g>> \in SuppressedSlots
    <3>1. ~(from <= g /\ g < to)
      BY <2>1, <2>4, <2>7 DEF SuppressedIn
    <3>2. g < from
      BY <2>4, <2>5, <3>1, SeriesConstants DEF Meets, Days
    <3> QED
      BY <2>4, <2>5, <2>7, <3>2 DEF Phantom
  <2>8. CASE ~Moved(<<i, g>>) /\ <<i, g>> \notin SuppressedSlots
    <3>1. ~Hides(tasks, <<i, g>>)
      BY <2>8, HidesIs
    <3>2. ShowsSeries(tasks, exceptions, groupRule, i, g, o)
      BY <2>2, <2>3, <3>1, EffectiveIs
         DEF ShowsSeries, Anchors, LiveIn, Live, Occurrence, OccurrenceIn
    <3>3. o \in Shown
      BY <2>2, <2>4, <3>2, ShownIs DEF ShownIsShows, Shows
    <3> QED
      BY <2>1, <2>4, <2>5, <2>8, <3>3
  <2> QED
    BY <2>6, <2>7, <2>8
<1> QED
  BY <1>1, <1>2 DEF FindOverlapping

\* The gate sees what the calendar shows in every window, in every state a turn and its
\* devices can reach.
THEOREM GateAgreesHolds == GateSpec => []GateAgrees
<1>1. ASSUME TypeOK, Lineage PROVE GateAgrees
  <2> SUFFICES ASSUME NEW from \in Days, NEW to \in (from + 1)..(Horizon + 1)
               PROVE  LET shown == {o \in Open : Meets(o.at, o.length, from, to)}
                          found == FindOverlapping(from, to, 0)
                      IN  /\ \A o \in shown : o.task \in found \/ Moved(o.of)
                          /\ \A i \in found \ {o.task : o \in shown} : Phantom(i, from, to)
    BY DEF GateAgrees, Phantom
  <2> DEFINE shown == {o \in Open : Meets(o.at, o.length, from, to)}
  <2>1. \A o : o \in shown <=> o \in Shown /\ ~o.done /\ Meets(o.at, o.length, from, to)
    BY DEF Open
  <2>2. to \in Int
    BY SeriesConstants DEF Days
  <2> HIDE DEF shown
  <2>3. \A o \in shown : o.task \in FindOverlapping(from, to, 0) \/ Moved(o.of)
    BY <1>1, <2>1, ShownIsFound
  <2>4. ASSUME NEW i \in FindOverlapping(from, to, 0) \ {o.task : o \in shown}
        PROVE  Phantom(i, from, to)
    BY <1>1, <2>1, <2>2, <2>4, FoundIsShown
  <2> QED
    BY <2>3, <2>4 DEF shown
<1>2. TypeOK /\ Lineage => GateAgrees
  BY <1>1
<1> QED
  BY <1>2, GateRefines, TypeCorrect, LineageHolds, PTL
-----------------------------------------------------------------------------
(* A booking of the turn, told from the tables the gate looked at.          *)

MovedIn(excs, k) == excs[k] # NoException /\ excs[k].at # NoDay

\* Nothing open but row `except` is shown in a window, unless an exception put it there.
Free(table, excs, group, from, to, except) ==
    \A e : Shows(table, excs, group, e) /\ ~e.done /\ Meets(e.at, e.length, from, to)
           => e.task = except \/ MovedIn(excs, e.of)

FreeSeries(table, excs, group, start, length, rule, except) ==
    \A d \in Previewed(start, rule) : Free(table, excs, group, d, d + length, except)

\* Two tables with the same exceptions that show the same of every row but those of R.
Apart(table, excs, after, excsAfter, R) ==
    /\ \A j \in Ids \ R :
          /\ LiveIn(after, j) <=> LiveIn(table, j)
          /\ LiveIn(table, j) =>
                /\ after[j].start = table[j].start /\ after[j].length = table[j].length
                /\ after[j].rule = table[j].rule
                /\ after[j].grouped = table[j].grouped /\ after[j].done = table[j].done
                /\ after[j].parent = table[j].parent /\ after[j].slot = table[j].slot
          /\ \A d \in Days : excsAfter[<<j, d>>] = excs[<<j, d>>]
    /\ \A j \in Ids :
          /\ ChildIn(after, j) <=> ChildIn(table, j)
          /\ ChildIn(table, j) => /\ after[j].parent = table[j].parent
                                  /\ after[j].slot = table[j].slot

\* What the gate finds to be free on the tables it reads.
LEMMA FoundNone ==
    ASSUME TypeOK, Lineage, NEW from, NEW to, NEW except, FindOverlapping(from, to, except) = {}
    PROVE  Free(tasks, exceptions, groupRule, from, to, except)
<1> SUFFICES ASSUME NEW e, Shows(tasks, exceptions, groupRule, e), ~e.done,
                    Meets(e.at, e.length, from, to), e.task # except
             PROVE  MovedIn(exceptions, e.of)
  BY DEF Free
<1>1. e \in Shown
  BY ShownIs DEF ShownIsShows
<1>2. e.task \in FindOverlapping(from, to, 0) \/ Moved(e.of)
  BY <1>1, ShownIsFound
<1>3. FindOverlapping(from, to, 0) \ {except} \subseteq FindOverlapping(from, to, except)
  BY DEF FindOverlapping, FindClashingRecurringAnchors
<1> QED
  BY <1>2, <1>3 DEF Moved, MovedIn

LEMMA FoundNoneOfSeries ==
    ASSUME TypeOK, Lineage, NEW start, NEW length, NEW rule, NEW except,
           FindRecurringSeriesConflicts(start, length, rule, except) = {}
    PROVE  FreeSeries(tasks, exceptions, groupRule, start, length, rule, except)
<1>1. ASSUME NEW d \in Previewed(start, rule) PROVE FindOverlapping(d, d + length, except) = {}
  BY DEF FindRecurringSeriesConflicts
<1> QED
  BY <1>1, FoundNone DEF FreeSeries

\* What shows an occurrence: its row.
LEMMA ShownBy ==
    ASSUME NEW table, NEW excs, NEW group, NEW e, Shows(table, excs, group, e)
    PROVE  \E j \in Ids : /\ e.task = j /\ LiveIn(table, j)
                          /\ \/ ShowsChild(table, j, e) \/ ShowsSingle(table, group, j, e)
                             \/ \E d \in Days : ShowsSeries(table, excs, group, j, d, e)
<1>1. ASSUME NEW j \in Ids, ShowsChild(table, j, e) PROVE e.task = j /\ LiveIn(table, j)
  BY <1>1 DEF ShowsChild, OneOff, ChildIn, LiveIn
<1>2. ASSUME NEW j \in Ids, ShowsSingle(table, group, j, e) PROVE e.task = j /\ LiveIn(table, j)
  BY <1>2 DEF ShowsSingle, OneOff
<1>3. ASSUME NEW j \in Ids, NEW d \in Days, ShowsSeries(table, excs, group, j, d, e)
      PROVE  e.task = j /\ LiveIn(table, j)
  BY <1>3 DEF ShowsSeries, OccurrenceIn
<1> QED
  BY <1>1, <1>2, <1>3 DEF Shows

LEMMA ApartHides ==
    ASSUME NEW table, NEW excs, NEW after, NEW excsAfter, NEW R,
           Apart(table, excs, after, excsAfter, R), NEW k
    PROVE  Hides(after, k) <=> Hides(table, k)
BY DEF Apart, Hides

LEMMA ApartShows ==
    ASSUME NEW table, NEW excs, NEW after, NEW excsAfter, NEW R, NEW group,
           Apart(table, excs, after, excsAfter, R),
           NEW e, e.task \notin R, Shows(after, excsAfter, group, e)
    PROVE  Shows(table, excs, group, e)
<1>1. PICK j \in Ids :
         /\ e.task = j /\ LiveIn(after, j)
         /\ \/ ShowsChild(after, j, e) \/ ShowsSingle(after, group, j, e)
            \/ \E d \in Days : ShowsSeries(after, excsAfter, group, j, d, e)
  BY ShownBy
<1>2. e.task = j
  BY <1>1
<1>3. /\ LiveIn(after, j) <=> LiveIn(table, j)
      /\ LiveIn(table, j) =>
            /\ after[j].start = table[j].start /\ after[j].length = table[j].length
            /\ after[j].rule = table[j].rule
            /\ after[j].grouped = table[j].grouped /\ after[j].done = table[j].done
            /\ after[j].parent = table[j].parent /\ after[j].slot = table[j].slot
      /\ \A d \in Days : excsAfter[<<j, d>>] = excs[<<j, d>>]
  BY <1>1, <1>2 DEF Apart
<1>4. CASE ShowsChild(after, j, e)
  <2>1. ChildIn(table, j)
    BY <1>4 DEF ShowsChild, Apart
  <2>2. ShowsChild(table, j, e)
    BY <1>3, <1>4, <2>1 DEF ShowsChild, ChildIn, LiveIn, OneOff
  <2> QED
    BY <2>2 DEF Shows
<1>5. CASE ShowsSingle(after, group, j, e)
  <2>1. ~Hides(table, <<j, after[j].start>>)
    BY <1>5, ApartHides DEF ShowsSingle
  <2>2. ShowsSingle(table, group, j, e)
    BY <1>3, <1>5, <2>1 DEF ShowsSingle, EffectiveIn, OneOff
  <2> QED
    BY <2>2 DEF Shows
<1>6. ASSUME NEW d \in Days, ShowsSeries(after, excsAfter, group, j, d, e)
      PROVE  ShowsSeries(table, excs, group, j, d, e)
  <2>1. ~Hides(table, <<j, d>>)
    BY <1>6, ApartHides DEF ShowsSeries
  <2>2. LiveIn(table, j) /\ table[j].parent = 0 /\ after[j].start = table[j].start
    BY <1>3, <1>6 DEF ShowsSeries
  <2>3. EffectiveIn(after[j], group) = EffectiveIn(table[j], group)
    BY <1>3, <2>2 DEF EffectiveIn
  <2>4. Generated(after[j], EffectiveIn(after[j], group))
        = Generated(table[j], EffectiveIn(table[j], group))
    BY <2>2, <2>3, GeneratedByStart
  <2>5. excsAfter[<<j, d>>] = excs[<<j, d>>]
    BY <1>3
  <2>6. OccurrenceIn(after, excsAfter, j, d) = OccurrenceIn(table, excs, j, d)
    BY <1>3, <2>2, <2>5 DEF OccurrenceIn
  <2> QED
    BY <1>6, <2>1, <2>2, <2>4, <2>5, <2>6 DEF ShowsSeries
<1> QED
  BY <1>1, <1>4, <1>5, <1>6 DEF Shows

\* The row of an occurrence tells which series it is one of.
LEMMA ShownOf ==
    ASSUME NEW table \in Table, NEW excs, NEW group, NEW e, Shows(table, excs, group, e)
    PROVE  /\ e.task \in Ids /\ LiveIn(table, e.task) /\ e.of \in Ids \X Days
           /\ e.of[1] = IF table[e.task].parent = 0 THEN e.task ELSE table[e.task].parent
<1>1. PICK j \in Ids :
         /\ e.task = j /\ LiveIn(table, j)
         /\ \/ ShowsChild(table, j, e) \/ ShowsSingle(table, group, j, e)
            \/ \E d \in Days : ShowsSeries(table, excs, group, j, d, e)
  BY ShownBy
<1>2. table[j] \in Row
  BY <1>1 DEF LiveIn, Table
<1>3. table[j].start \in Days /\ table[j].slot \in Days /\ table[j].parent \in 0..MaxTask
  BY <1>2 DEF Row
<1>4. CASE ShowsChild(table, j, e)
  <2>1. table[j].parent # 0 /\ e.of = <<table[j].parent, table[j].slot>>
    BY <1>4 DEF ShowsChild, ChildIn, OneOff
  <2>2. table[j].parent \in Ids
    BY <1>3, <2>1, SeriesConstants DEF Ids
  <2> QED
    BY <1>1, <1>3, <2>1, <2>2
<1>5. CASE ShowsSingle(table, group, j, e)
  BY <1>1, <1>3, <1>5 DEF ShowsSingle, OneOff
<1>6. CASE \E d \in Days : ShowsSeries(table, excs, group, j, d, e)
  BY <1>1, <1>6 DEF ShowsSeries, OccurrenceIn
<1> QED
  BY <1>1, <1>4, <1>5, <1>6

\* The reasons OverlapsExplained allows for two occurrences that overlap.
Explained(a, b) ==
    LET written == {i \in Ids : tasks'[i] # tasks[i] \/ i = call.ask.task}
        single == call.ask.kind = "move" /\ tasks[call.ask.task].rule # NoRule
    IN  \/ Moved(a)' /\ ~(single /\ a[1] \in written)
        \/ Moved(b)' /\ ~(single /\ b[1] \in written)
        \/ BeyondPreview(a, written) \/ BeyondPreview(b, written)
        \/ {a[1], b[1]} \subseteq written
        \/ SplitsPastTheEnd /\ call.ask.task \in {a[1], b[1]}
        \/ /\ call.checked = "window" /\ ~single
           /\ \E i \in written : Effective(tasks[i])' # NoRule

\* Two open occurrences of different series that overlap after the step, the first of which
\* was not shown before it.
Books(e, f) ==
    /\ Shows(tasks', exceptions', groupRule', e) /\ Shows(tasks', exceptions', groupRule', f)
    /\ ~e.done /\ ~f.done /\ Overlap(e, f) /\ e.of[1] # f.of[1]
    /\ ~Shows(tasks, exceptions, groupRule, e)

BookingsExplained == \A e, f : Books(e, f) => Explained(e.of, f.of)

LEMMA OverlapBoth == ASSUME NEW e, NEW f, Overlap(e, f) PROVE Overlap(f, e)
BY DEF Overlap, Meets

\* It is enough to look at the occurrence that is new.
LEMMA ClashesExplained ==
    ASSUME TypeOK, Lineage, TypeOK', Lineage', BookingsExplained, NEW p \in Clashes' \ Clashes
    PROVE  Explained(p[1], p[2])
<1>1. \A e : e \in Shown <=> Shows(tasks, exceptions, groupRule, e)
  BY ShownIs DEF ShownIsShows
<1>2. \A e : e \in Shown' <=> Shows(tasks', exceptions', groupRule', e)
  BY ShownIsNext DEF ShownIsShows
<1>3. PICK q \in Open' \X Open' :
         Overlap(q[1], q[2]) /\ q[1].of[1] # q[2].of[1] /\ p = <<q[1].of, q[2].of>>
  BY DEF Clashes
<1> DEFINE e == q[1]  f == q[2]
<1>4. /\ e \in Shown' /\ f \in Shown' /\ ~e.done /\ ~f.done
      /\ Overlap(e, f) /\ Overlap(f, e) /\ e.of[1] # f.of[1] /\ p[1] = e.of /\ p[2] = f.of
  BY <1>3, OverlapBoth DEF Open
<1>5. ~(e \in Shown /\ f \in Shown)
  <2> SUFFICES ASSUME e \in Shown, f \in Shown PROVE FALSE
    OBVIOUS
  <2>1. <<e, f>> \in Open \X Open
    BY <1>4 DEF Open
  <2>2. <<e.of, f.of>> \in Clashes
    BY <1>4, <2>1 DEF Clashes
  <2> QED
    BY <1>3, <2>2
<1> HIDE DEF e, f
<1>6. CASE e \notin Shown
  BY <1>1, <1>2, <1>4, <1>6 DEF BookingsExplained, Books
<1>7. CASE f \notin Shown
  <2>1. Books(f, e)
    BY <1>1, <1>2, <1>4, <1>7 DEF Books
  <2>2. Explained(f.of, e.of)
    BY <2>1 DEF BookingsExplained
  <2>3. Explained(e.of, f.of)
    BY <2>2 DEF Explained
  <2> QED
    BY <1>4, <2>3
<1> QED
  BY <1>5, <1>6, <1>7

LEMMA SameBooksNothing ==
    ASSUME tasks' = tasks, exceptions' = exceptions, groupRule' = groupRule
    PROVE  BookingsExplained
BY DEF BookingsExplained, Books

LEMMA MovedNext == ASSUME NEW k PROVE Moved(k)' <=> MovedIn(exceptions', k)
BY DEF Moved, MovedIn

\* A booked window that was free: an exception put there what else is there.
LEMMA TakenByMoved ==
    ASSUME NEW except, NEW e, NEW f, Shows(tasks, exceptions, groupRule, f), ~f.done,
           Overlap(e, f), Free(tasks, exceptions, groupRule, e.at, e.at + e.length, except),
           f.task # except, exceptions'[f.of] = exceptions[f.of]
    PROVE  Moved(f.of)'
<1>1. Meets(f.at, f.length, e.at, e.at + e.length)
  BY OverlapBoth DEF Overlap
<1> QED
  BY <1>1, MovedNext DEF Free, MovedIn

\* One row is saved, on days the gate found free of all but that row.
LEMMA RowBooks ==
    ASSUME TypeOK, Lineage, TypeOK', Lineage', NEW i \in Ids, NEW except \in {0, i},
           exceptions' = exceptions, groupRule' = groupRule,
           Apart(tasks, exceptions, tasks', exceptions', {i}), call.ask.kind # "move",
           tasks'[i] # tasks[i] \/ i = call.ask.task,
           \/ /\ call.checked = "window"
              /\ Free(tasks, exceptions, groupRule, tasks'[i].start,
                      tasks'[i].start + tasks'[i].length, except)
           \/ /\ call.checked = "series" /\ tasks'[i].parent = 0 /\ tasks'[i].rule # NoRule
              /\ FreeSeries(tasks, exceptions, groupRule, tasks'[i].start, tasks'[i].length,
                            tasks'[i].rule, except)
    PROVE  BookingsExplained
<1> SUFFICES ASSUME NEW e, NEW f, Books(e, f) PROVE Explained(e.of, f.of)
  BY DEF BookingsExplained
<1>1. tasks' \in Table /\ groupRule' \in Rule \cup {NoRule}
  BY DEF TypeOK, Table
<1>2. e.task = i
  BY ApartShows DEF Books
<1>3. f.task # i
  BY <1>1, <1>2, ShownOf DEF Books
<1>4. Shows(tasks, exceptions, groupRule, f)
  BY <1>3, ApartShows DEF Books
<1>5. f.task # except
  <2>1. tasks \in Table
    BY DEF TypeOK, Table
  <2>2. f.task # 0
    BY <1>4, <2>1, ShownOf, SeriesConstants DEF Ids
  <2> QED
    BY <1>3, <2>2
<1>6. Free(tasks, exceptions, groupRule, e.at, e.at + e.length, except)
      => Explained(e.of, f.of)
  BY <1>4, <1>5, TakenByMoved DEF Books, Explained
<1>7. Moved(e.of)' => Explained(e.of, f.of)
  BY DEF Explained
<1>8. \/ ShowsChild(tasks', i, e) \/ ShowsSingle(tasks', groupRule', i, e)
      \/ \E d \in Days : ShowsSeries(tasks', exceptions', groupRule', i, d, e)
  BY <1>2, ShownBy DEF Books
<1>9. Effective(tasks[i])' = EffectiveIn(tasks'[i], groupRule')
  BY DEF Effective, EffectiveIn
<1>10. CASE /\ call.checked = "window"
            /\ Free(tasks, exceptions, groupRule, tasks'[i].start,
                    tasks'[i].start + tasks'[i].length, except)
  <2>1. CASE EffectiveIn(tasks'[i], groupRule') # NoRule
    BY <1>9, <1>10, <2>1 DEF Explained
  <2>2. CASE EffectiveIn(tasks'[i], groupRule') = NoRule
    <3>1. \A d \in Days : ~ShowsSeries(tasks', exceptions', groupRule', i, d, e)
      BY <2>2 DEF ShowsSeries, Generated
    <3>2. e.at = tasks'[i].start /\ e.length = tasks'[i].length
      BY <1>8, <3>1 DEF ShowsChild, ShowsSingle, OneOff
    <3> QED
      BY <1>6, <1>10, <3>2
  <2> QED
    BY <2>1, <2>2
<1>11. CASE /\ call.checked = "series" /\ tasks'[i].parent = 0 /\ tasks'[i].rule # NoRule
            /\ FreeSeries(tasks, exceptions, groupRule, tasks'[i].start, tasks'[i].length,
                          tasks'[i].rule, except)
  <2>1. EffectiveIn(tasks'[i], groupRule') = tasks'[i].rule
    BY <1>11 DEF EffectiveIn
  <2>2. ~ShowsChild(tasks', i, e) /\ ~ShowsSingle(tasks', groupRule', i, e)
    BY <1>11, <2>1 DEF ShowsChild, ShowsSingle, ChildIn
  <2>3. PICK d \in Days : ShowsSeries(tasks', exceptions', groupRule', i, d, e)
    BY <1>8, <2>2
  <2>4. /\ d \in Generated(tasks'[i], tasks'[i].rule) /\ e.of = <<i, d>>
        /\ e = OccurrenceIn(tasks', exceptions', i, d)
    BY <2>1, <2>3 DEF ShowsSeries, OccurrenceIn
  <2>5. (e.at = d /\ e.length = tasks'[i].length) \/ Moved(e.of)'
    BY <2>4, MovedNext DEF OccurrenceIn, MovedIn
  <2>6. d \in Generated([start |-> tasks'[i].start], tasks'[i].rule)
    BY <2>4 DEF Generated
  <2>7. CASE d < tasks'[i].start + PreviewDays
    <3>1. Free(tasks, exceptions, groupRule, d, d + tasks'[i].length, except)
      BY <1>11, <2>6, <2>7 DEF FreeSeries, Previewed
    <3> QED
      BY <1>6, <1>7, <2>5, <3>1
  <2>8. CASE d >= tasks'[i].start + PreviewDays
    <3>1. BeyondPreview(e.of, {j \in Ids : tasks'[j] # tasks[j] \/ j = call.ask.task})
      BY <1>11, <2>4, <2>8 DEF BeyondPreview
    <3> QED
      BY <3>1 DEF Explained
  <2>9. d \in Int /\ tasks'[i].start + PreviewDays \in Int
    <3>1. tasks'[i] \in Row
      BY <1>1, <2>3 DEF ShowsSeries, LiveIn, Table
    <3> QED
      BY <3>1, SeriesConstants, GateConstants DEF Row, Days
  <2> QED
    BY <2>7, <2>8, <2>9
<1> QED
  BY <1>10, <1>11

\* One occurrence of a series is moved to a day that was free of all but the series.
LEMMA MoveBooks ==
    ASSUME TypeOK, Lineage, TypeOK', Lineage', NEW i \in Ids, NEW slot \in Days, NEW day \in Days,
           NEW length \in Nat,
           call.ask.task = i, tasks[i].parent = 0, tasks' = tasks, groupRule' = groupRule,
           exceptions' = [exceptions EXCEPT ![<<i, slot>>] =
                            [ExceptionAt(<<i, slot>>) EXCEPT !.at = day, !.length = length]],
           Free(tasks, exceptions, groupRule, day, day + length, i)
    PROVE  BookingsExplained
<1> SUFFICES ASSUME NEW e, NEW f, Books(e, f) PROVE Explained(e.of, f.of)
  BY DEF BookingsExplained
<1> DEFINE k == <<i, slot>>
           x == [ExceptionAt(k) EXCEPT !.at = day, !.length = length]
<1>1. /\ exceptions'[k] = x /\ x \in Exception /\ x.at = day /\ x.length = length
      /\ \A o \in Ids \X Days : o # k => exceptions'[o] = exceptions[o]
  <2>1. ExceptionAt(k) \in Exception
    BY ExceptionType
  <2>2. x \in Exception /\ x.at = day /\ x.length = length
    BY <2>1 DEF Exception
  <2> HIDE DEF x
  <2> QED
    BY <2>2 DEF TypeOK, x
<1> HIDE DEF x
<1>2. Touches(k)
  BY <1>1 DEF Touches, Alike
<1>3. \A o : o.of # k /\ Shows(tasks', exceptions', groupRule', o)
             => Shows(tasks, exceptions, groupRule, o)
  <2>1. Alike(tasks', exceptions', tasks, exceptions, k)
    BY <1>2 DEF Touches, Alike
  <2> QED
    BY <2>1, AlikeShows
<1>4. e.of = k
  BY <1>3 DEF Books
<1>5. f.of # k /\ Shows(tasks, exceptions, groupRule, f)
  BY <1>3, <1>4 DEF Books
<1>6. e.at = day /\ e.length = length
  <2>1. PICK j \in Ids :
           \/ ShowsChild(tasks', j, e) \/ ShowsSingle(tasks', groupRule', j, e)
           \/ \E d \in Days : ShowsSeries(tasks', exceptions', groupRule', j, d, e)
    BY DEF Books, Shows
  <2>2. ~ShowsChild(tasks', j, e) /\ ~ShowsSingle(tasks', groupRule', j, e)
    BY DEF Books, Shows
  <2>3. PICK d \in Days : ShowsSeries(tasks', exceptions', groupRule', j, d, e)
    BY <2>1, <2>2
  <2>4. e = OccurrenceIn(tasks', exceptions', j, d) /\ <<j, d>> = k
    BY <1>4, <2>3 DEF ShowsSeries, OccurrenceIn
  <2> QED
    BY <1>1, <2>4, SeriesConstants DEF OccurrenceIn
<1>7. tasks \in Table
  BY DEF TypeOK, Table
<1>8. f.of[1] # i /\ f.of \in Ids \X Days /\ f.task # i
  BY <1>4, <1>5, <1>7, ShownOf DEF Books
<1>9. Moved(f.of)'
  BY <1>1, <1>5, <1>6, <1>8, TakenByMoved DEF Books
<1> QED
  BY <1>8, <1>9 DEF Explained

\* What an edit of a row as it stands leaves.
LEMMA EditLeaves ==
    ASSUME TypeOK, Lineage, NEW c, NEW i \in Ids, Live(i), NEW ask \in Ask,
           UpdateRow(c, i, tasks[i], ask)
    PROVE  LET next == Edited(tasks[i], ask)
           IN  /\ exceptions' = exceptions /\ groupRule' = groupRule
               /\ tasks' # tasks =>
                     /\ Apart(tasks, exceptions, tasks', exceptions', {i})
                     /\ tasks'[i].parent = next.parent /\ tasks'[i].start = next.start
                     /\ tasks'[i].length = next.length
                     /\ tasks'[i].rule = next.rule /\ tasks'[i].grouped = next.grouped
<1> DEFINE row == tasks[i]  next == Edited(row, ask)
           ruleInputsChanged ==
               /\ row.parent = 0
               /\ \/ next.start # row.start \/ next.rule # row.rule \/ next.grouped # row.grouped
                  \/ ask.field = "rule" /\ ask.rule # NoRule
           saves == next # row \/ ruleInputsChanged \/ ask.field = "title"
           new == Saved(i, next)
           table == IF ruleInputsChanged THEN Swept(new, i) ELSE IF saves THEN new ELSE tasks
<1>1. row \in Row
  BY LiveType
<1>2. /\ next \in Row /\ next.parent = row.parent /\ next.slot = row.slot
      /\ next.deleted = row.deleted
  BY <1>1 DEF Edited, Row, Ask
<1>3. /\ exceptions' = exceptions /\ groupRule' = groupRule
      /\ tasks' = tasks \/ tasks' = table
  BY DEF UpdateRow, Commit, Fail
<1>4. new \in Table /\ new[i] = next /\ \A j \in Ids \ {i} : new[j] = tasks[j]
  BY <1>2, SavedType DEF Saved, TypeOK
<1> HIDE DEF next, new
<1>5. ASSUME tasks' # tasks PROVE tasks' = new \/ tasks' = Swept(new, i)
  BY <1>3, <1>5
<1>6. ASSUME NEW j \in Ids, tasks' # tasks
      PROVE  /\ tasks'[j] # NoTask <=> new[j] # NoTask
             /\ new[j] # NoTask =>
                   /\ tasks'[j].deleted = new[j].deleted /\ tasks'[j].start = new[j].start
                   /\ tasks'[j].rule = new[j].rule /\ tasks'[j].grouped = new[j].grouped
                   /\ tasks'[j].length = new[j].length /\ tasks'[j].done = new[j].done
                   /\ tasks'[j].parent = new[j].parent /\ tasks'[j].slot = new[j].slot
  BY <1>4, <1>5, <1>6, SweptRow
<1>7. row # NoTask /\ ~row.deleted /\ next # NoTask
  BY <1>2, SeriesConstants DEF Live
<1>8. ASSUME tasks' # tasks PROVE Apart(tasks, exceptions, tasks', exceptions', {i})
  <2>1. ASSUME NEW j \in Ids \ {i}
        PROVE  /\ LiveIn(tasks', j) <=> LiveIn(tasks, j)
               /\ LiveIn(tasks, j) =>
                     /\ tasks'[j].start = tasks[j].start /\ tasks'[j].rule = tasks[j].rule
                     /\ tasks'[j].length = tasks[j].length
                     /\ tasks'[j].grouped = tasks[j].grouped /\ tasks'[j].done = tasks[j].done
                     /\ tasks'[j].parent = tasks[j].parent /\ tasks'[j].slot = tasks[j].slot
               /\ ChildIn(tasks', j) <=> ChildIn(tasks, j)
    BY <1>4, <1>6, <1>8 DEF LiveIn, ChildIn
  <2>2. /\ ChildIn(tasks', i) <=> ChildIn(tasks, i)
        /\ tasks'[i].parent = tasks[i].parent /\ tasks'[i].slot = tasks[i].slot
    BY <1>2, <1>4, <1>6, <1>7, <1>8 DEF ChildIn
  <2> QED
    BY <1>3, <2>1, <2>2 DEF Apart, ChildIn, LiveIn
<1>9. ASSUME tasks' # tasks
      PROVE  /\ tasks'[i].parent = next.parent /\ tasks'[i].start = next.start
             /\ tasks'[i].length = next.length
             /\ tasks'[i].rule = next.rule /\ tasks'[i].grouped = next.grouped
  BY <1>4, <1>6, <1>7, <1>9
<1> QED
  BY <1>3, <1>8, <1>9 DEF next

\* The later half of a counted rule recurs no more often than the whole.
LEMMA SplitRuleWithin ==
    ASSUME NEW row \in Row, row.rule # NoRule, NEW slot \in Days, NEW start \in Days
    PROVE  Generated([start |-> start], SplitRule(row, slot))
           \subseteq Generated([start |-> start], row.rule)
<1> DEFINE later == SplitRule(row, slot)  rule == row.rule  r == [start |-> start]
<1>1. rule \in Rule /\ later \in Rule
  BY RuleType DEF Row
<1>2. CASE rule.end # "count"
  BY <1>2 DEF SplitRule
<1>3. CASE rule.end = "count"
  <2> DEFINE left == rule.limit - CountBefore(row, slot)
             limit == IF left > 0 THEN left ELSE 0
  <2>1. later = [rule EXCEPT !.limit = limit]
    BY <1>3 DEF SplitRule
  <2>2. CountBefore(row, slot) \in Nat /\ rule.limit \in Int /\ rule.every \in Nat \ {0}
    <3>1. IsFiniteSet(Days)
      BY FS_Interval, SeriesConstants DEF Days
    <3>2. {d \in Generated(row, row.rule) : d < slot} \subseteq Days
      BY DEF Generated
    <3>3. CountBefore(row, slot) \in Nat
      BY <3>1, <3>2, FS_Subset, FS_CardinalityType DEF CountBefore
    <3> QED
      BY <1>1, <3>3, SeriesConstants DEF Rule
  <2>3. limit \in Int /\ (limit <= rule.limit \/ limit = 0)
    BY <2>2
  <2> HIDE DEF limit
  <2>4. later.every = rule.every /\ later.end = "count" /\ later.limit = limit
    BY <1>1, <1>3, <2>1 DEF Rule
  <2> HIDE DEF later, rule
  <2>5. ASSUME NEW d \in Generated(r, later) PROVE d \in Generated(r, rule)
    <3>1. /\ d \in Days /\ d >= r.start /\ (d - r.start) % rule.every = 0
          /\ (d - r.start) \div rule.every < limit
      BY <1>1, <2>4, <2>5, GeneratedMember
    <3>2. d \in Nat /\ start \in Nat /\ r.start = start
      BY <3>1, SeriesConstants DEF Days
    <3>3. (d - start) \div rule.every \in Nat
      BY <2>2, <3>1, <3>2 DEF rule
    <3>4. (d - start) \div rule.every < rule.limit
      BY <2>2, <2>3, <3>1, <3>2, <3>3 DEF rule
    <3> QED
      BY <1>1, <1>3, <3>1, <3>2, <3>4, GeneratedMember DEF rule
  <2> QED
    BY <2>5 DEF later, rule
<1> QED
  BY <1>2, <1>3

\* A cut leaves a part of what was generated, unless it lies behind all of that.
LEMMA CutWithin ==
    ASSUME NEW row \in Row, NEW rule \in Rule, NEW slot \in Days,
           \/ rule.end = "never"
           \/ ~(\A d \in Generated(row, rule) : d < slot)
    PROVE  Generated(row, Until(rule, slot)) \subseteq Generated(row, rule)
<1> SUFFICES ASSUME NEW d \in Generated(row, Until(rule, slot)) PROVE d \in Generated(row, rule)
  OBVIOUS
<1>1. /\ Until(rule, slot) \in Rule /\ Until(rule, slot).end = "until"
      /\ Until(rule, slot).every = rule.every /\ Until(rule, slot).limit = slot - 1
  <2>1. slot - 1 \in Int
    BY SeriesConstants DEF Days
  <2>2. Until(rule, slot) \in Rule
    BY <2>1, LimitType, Zenon DEF Until
  <2>3. /\ Until(rule, slot).end = "until" /\ Until(rule, slot).every = rule.every
        /\ Until(rule, slot).limit = slot - 1
    BY DEF Until, Rule
  <2> QED
    BY <2>2, <2>3
<1>2. /\ d \in Days /\ d >= row.start /\ (d - row.start) % rule.every = 0
      /\ d <= slot - 1
  BY <1>1, GeneratedMember
<1>3. CASE rule.end = "never"
  BY <1>2, <1>3, GeneratedMember
<1>4. CASE ~(\A g \in Generated(row, rule) : g < slot)
  <2>1. PICK g \in Generated(row, rule) : ~(g < slot)
    BY <1>4
  <2>2. d < g /\ g \in Generated(row, rule)
    BY <1>2, <2>1, GeneratedMember, SeriesConstants DEF Days
  <2> QED
    BY <1>2, <2>2, GeneratedBefore
<1> QED
  BY <1>3, <1>4

\* A series is cut, and its later half goes to days the gate found free of all but the series.
LEMMA SplitBooks ==
    ASSUME TypeOK, Lineage, SlotsUnique, TypeOK', Lineage', NEW c \in Clients, Splits(c),
           call.ask = req[c].ask, call.ask.flag, tasks[call.ask.task] = req[c].row,
           Live(call.ask.task),
           call.checked = "series",
           FreeSeries(tasks, exceptions, groupRule, call.ask.day, call.ask.length,
                      req[c].row.rule, call.ask.task)
    PROVE  BookingsExplained
<1> SUFFICES ASSUME NEW e, NEW f, Books(e, f) PROVE Explained(e.of, f.of)
  BY DEF BookingsExplained
<1> DEFINE ask == call.ask  i == ask.task  row == tasks[i]  new == FreeId
           table == SplitTable(i, row, ask)
<1>1. ask.kind = "split" /\ row.rule # NoRule /\ HasFreeId
  BY DEF Splits
<1>2. /\ ask \in Ask /\ i \in Ids /\ ask.slot \in Days /\ ask.day \in Days
      /\ ask.length \in Nat /\ row \in Row
  BY <1>1, RequestType
<1>3. Proper(i, row) /\ tasks[i] # NoTask /\ ~row.deleted
  BY <1>2 DEF Lineage, Live
<1>4. /\ exceptions' = Copied(i, new, ask.slot) /\ groupRule' = groupRule
      /\ tasks' = Swept(table, i)
      /\ tasks'[i].start = row.start /\ tasks'[i].rule = Until(row.rule, ask.slot)
      /\ tasks'[i].length = row.length /\ tasks'[new].length = ask.length
      /\ tasks'[new].start = ask.day /\ tasks'[new].rule = SplitRule(row, ask.slot)
  <2>1. exceptions' = Copied(i, new, ask.slot) /\ groupRule' = groupRule
    BY DEF Splits
  <2> QED
    BY <2>1, SplitLeaves
<1> HIDE DEF ask, i, row
<1>5. /\ new \in Ids /\ tasks[new] = NoTask /\ new # i
      /\ table \in Table /\ table[i] = Ended(row, ask.slot)
      /\ table[new] = NewSeries(ask, row) /\ NewSeries(ask, row) \in Row
      /\ NewSeries(ask, row).parent = 0
      /\ \A k \in Ids \ {i, new} : table[k] = tasks[k]
  BY <1>1, <1>2, <1>3, SplitRows DEF table
<1>6. /\ Ended(row, ask.slot) \in Row /\ row.parent = 0 /\ Ended(row, ask.slot).parent = 0
      /\ ~Ended(row, ask.slot).deleted
  BY <1>1, <1>2, <1>3, UntilProper
<1> HIDE DEF new, table
<1>7. ASSUME NEW j \in Ids
      PROVE  /\ tasks'[j] # NoTask <=> table[j] # NoTask
             /\ table[j] # NoTask =>
                   /\ tasks'[j].deleted = table[j].deleted /\ tasks'[j].start = table[j].start
                   /\ tasks'[j].rule = table[j].rule /\ tasks'[j].grouped = table[j].grouped
                   /\ tasks'[j].length = table[j].length /\ tasks'[j].done = table[j].done
                   /\ tasks'[j].parent = table[j].parent /\ tasks'[j].slot = table[j].slot
  BY <1>4, <1>5, SweptRow
<1>8. \A j \in Ids \ {new}, d \in Days : exceptions'[<<j, d>>] = exceptions[<<j, d>>]
  BY <1>4, <1>5 DEF Copied
<1>9. tasks'[i].parent = 0 /\ tasks'[new].parent = 0 /\ tasks'[new] # NoTask
  BY <1>2, <1>5, <1>6, <1>7, SeriesConstants
<1>10. Apart(tasks, exceptions, tasks', exceptions', {i, new})
  <2>1. \A j \in Ids \ {i, new} :
            /\ tasks'[j] # NoTask <=> tasks[j] # NoTask
            /\ tasks[j] # NoTask =>
                  /\ tasks'[j].deleted = tasks[j].deleted /\ tasks'[j].start = tasks[j].start
                  /\ tasks'[j].rule = tasks[j].rule /\ tasks'[j].grouped = tasks[j].grouped
                  /\ tasks'[j].length = tasks[j].length /\ tasks'[j].done = tasks[j].done
                  /\ tasks'[j].parent = tasks[j].parent /\ tasks'[j].slot = tasks[j].slot
    BY <1>5, <1>7
  <2>2. ~ChildIn(tasks', i) /\ ~ChildIn(tasks, i) /\ ~ChildIn(tasks', new) /\ ~ChildIn(tasks, new)
    BY <1>5, <1>6, <1>9 DEF ChildIn, row
  <2> QED
    BY <1>8, <2>1, <2>2 DEF Apart, ChildIn, LiveIn
<1>11. tasks' \in Table /\ tasks \in Table
  BY DEF TypeOK, Table
<1>12. ASSUME NEW o, Shows(tasks', exceptions', groupRule', o), o.task = i, ~SplitsPastTheEnd
       PROVE  Shows(tasks, exceptions, groupRule, o)
  <2>1. Until(row.rule, ask.slot) # NoRule
    BY <1>1, <1>2, RuleType, SeriesConstants
  <2>2. EffectiveIn(tasks'[i], groupRule') = Until(row.rule, ask.slot)
        /\ EffectiveIn(tasks[i], groupRule) = row.rule
    BY <1>1, <1>4, <1>6, <1>9, <2>1 DEF EffectiveIn, row
  <2>3. PICK d \in Days : ShowsSeries(tasks', exceptions', groupRule', i, d, o)
    BY <1>9, <1>12, <2>1, <2>2, ShownBy DEF ShowsChild, ShowsSingle, ChildIn
  <2>4. d \in Generated(row, row.rule)
    <3>1. d \in Generated(tasks'[i], Until(row.rule, ask.slot))
      BY <2>2, <2>3 DEF ShowsSeries
    <3>2. d \in Generated(row, Until(row.rule, ask.slot))
      BY <1>4, <3>1, GeneratedByStart
    <3>3. \/ row.rule.end = "never"
          \/ ~(\A g \in Generated(row, row.rule) : g < ask.slot)
      BY <1>1, <1>12 DEF SplitsPastTheEnd, row, i, ask
    <3>4. row.rule \in Rule
      BY <1>1, <1>2 DEF Row
    <3> QED
      BY <1>2, <3>2, <3>3, <3>4, CutWithin
  <2>5. exceptions'[<<i, d>>] = exceptions[<<i, d>>]
    BY <1>2, <1>5, <1>8
  <2>6. ~Hides(tasks, <<i, d>>)
    BY <1>10, <2>3, ApartHides DEF ShowsSeries
  <2>7. OccurrenceIn(tasks', exceptions', i, d) = OccurrenceIn(tasks, exceptions, i, d)
    BY <1>4, <2>5 DEF OccurrenceIn, row
  <2>8. ShowsSeries(tasks, exceptions, groupRule, i, d, o)
    BY <1>3, <1>6, <2>2, <2>3, <2>4, <2>5, <2>6, <2>7 DEF ShowsSeries, LiveIn, row
  <2> QED
    BY <1>2, <2>8 DEF Shows
<1>13. ASSUME NEW o, Shows(tasks', exceptions', groupRule', o), o.task \notin {i, new}
       PROVE  Shows(tasks, exceptions, groupRule, o)
  <2>1. Shows(tasks', exceptions', groupRule, o)
    BY <1>4, <1>13
  <2> QED
    BY <1>10, <1>13, <2>1, ApartShows
<1>14. /\ Shows(tasks', exceptions', groupRule', e) /\ Shows(tasks', exceptions', groupRule', f)
       /\ ~Shows(tasks, exceptions, groupRule, e)
       /\ ~e.done /\ ~f.done /\ Overlap(e, f) /\ e.of[1] # f.of[1]
  BY DEF Books
<1>15. e.task \in {i, new}
  BY <1>13, <1>14
<1>16. f.task \in {i, new} => f.of[1] = f.task
  BY <1>9, <1>11, <1>14, ShownOf
<1>17. e.of[1] = e.task
  BY <1>9, <1>11, <1>14, <1>15, ShownOf
<1>18. CASE f.task \in {i, new}
  BY <1>2, <1>5, <1>9, <1>15, <1>16, <1>17, <1>18 DEF Explained, i, ask
<1>19. CASE e.task = i
  <2>1. SplitsPastTheEnd
    BY <1>12, <1>14, <1>19
  <2> QED
    BY <1>17, <1>19, <2>1 DEF Explained, i, ask
<1>20. CASE e.task = new /\ f.task \notin {i, new}
  <2>1. Shows(tasks, exceptions, groupRule, f)
    BY <1>13, <1>14, <1>20
  <2>2. f.of[1] # new /\ f.of \in Ids \X Days
    BY <1>11, <1>14, <1>17, <1>20, <2>1, ShownOf
  <2>3. exceptions'[f.of] = exceptions[f.of]
    BY <1>8, <2>2
  <2>4. SplitRule(row, ask.slot) # NoRule
    BY <1>1, <1>2, RuleType, SeriesConstants
  <2>5. EffectiveIn(tasks'[new], groupRule') = SplitRule(row, ask.slot)
    BY <1>4, <1>9, <2>4 DEF EffectiveIn
  <2>6. PICK d \in Days : ShowsSeries(tasks', exceptions', groupRule', new, d, e)
    BY <1>9, <1>14, <1>20, <2>4, <2>5, ShownBy DEF ShowsChild, ShowsSingle, ChildIn
  <2>7. d \in Generated([start |-> ask.day], row.rule)
    <3>1. d \in Generated(tasks'[new], SplitRule(row, ask.slot))
      BY <2>5, <2>6 DEF ShowsSeries
    <3>2. d \in Generated([start |-> ask.day], SplitRule(row, ask.slot))
      BY <1>4, <3>1, GeneratedByStart
    <3> QED
      BY <1>1, <1>2, <3>2, SplitRuleWithin
  <2>8. e.of = <<new, d>> /\ ((e.at = d /\ e.length = ask.length) \/ Moved(e.of)')
    BY <1>4, <2>6, MovedNext DEF ShowsSeries, OccurrenceIn, MovedIn
  <2>9. CASE e.at = d /\ e.length = ask.length /\ d < ask.day + PreviewDays
    <3>1. f.task # i
      BY <1>20
    <3>2. Free(tasks, exceptions, groupRule, e.at, e.at + e.length, i)
      BY <2>7, <2>9 DEF FreeSeries, Previewed, ask, i, row
    <3>3. Moved(f.of)'
      BY <1>14, <2>1, <2>3, <3>1, <3>2, TakenByMoved
    <3> QED
      BY <1>1, <3>3 DEF Explained, ask
  <2>10. CASE d >= ask.day + PreviewDays
    <3>1. BeyondPreview(e.of, {j \in Ids : tasks'[j] # tasks[j] \/ j = call.ask.task})
      BY <1>4, <1>5, <1>9, <2>8, <2>10 DEF BeyondPreview
    <3> QED
      BY <3>1 DEF Explained
  <2>11. CASE Moved(e.of)'
    BY <1>1, <2>11 DEF Explained, ask
  <2>12. d \in Int /\ ask.day + PreviewDays \in Int
    BY <1>2, SeriesConstants, GateConstants DEF Days
  <2> QED
    BY <2>8, <2>9, <2>10, <2>11, <2>12
<1> QED
  BY <1>15, <1>18, <1>19, <1>20
-----------------------------------------------------------------------------
(* What a tool call decides, and on which grounds.                          *)

Record(does, ask, checked, confirm) ==
    [does |-> does, ask |-> ask, checked |-> checked, confirm |-> confirm]

Denied(k, turn) == turn.policy # "allow" /\ (k.confirm => turn.policy = "deny")

\* The time, or the times of the series as far as they are previewed, that call k is about
\* to book are free of all but the row it is about, by the tables it was checked against.
ClearCreate(k, table, excs, group) ==
    /\ k.does = "create" /\ k.ask.kind = "idle"
    /\ IF k.ask.rule = NoRule
       THEN /\ k.checked = "window"
            /\ Free(table, excs, group, k.ask.day, k.ask.day + k.ask.length, 0)
       ELSE /\ k.checked = "series"
            /\ FreeSeries(table, excs, group, k.ask.day, k.ask.length, k.ask.rule, 0)

ClearEdit(k, table, excs, group) ==
    LET i == k.ask.task  next == Edited(table[i], k.ask)
    IN  /\ k.does = "request" /\ k.ask.kind = "update" /\ i \in Ids /\ LiveIn(table, i)
        /\ \/ /\ k.checked = "window"
              /\ Free(table, excs, group, next.start, next.start + next.length, i)
           \/ /\ k.checked = "series" /\ table[i].parent = 0 /\ next.rule # NoRule
              /\ FreeSeries(table, excs, group, next.start, next.length, next.rule, i)

ClearMove(k, table, excs, group) ==
    LET i == k.ask.task
    IN  /\ k.does = "request" /\ k.ask.kind = "move" /\ i \in Ids /\ LiveIn(table, i)
        /\ k.checked = "window" /\ EffectiveIn(table[i], group) # NoRule
        /\ Free(table, excs, group, k.ask.day, k.ask.day + k.ask.length, i)

ClearSplit(k, table, excs, group) ==
    LET i == k.ask.task
    IN  /\ k.does = "request" /\ k.ask.kind = "split" /\ k.ask.flag
        /\ k.checked = "series"
        /\ i \in Ids /\ LiveIn(table, i) /\ table[i].parent = 0 /\ table[i].rule # NoRule
        /\ FreeSeries(table, excs, group, k.ask.day, k.ask.length, table[i].rule, i)

Clear(k, table, excs, group) ==
    \/ ClearCreate(k, table, excs, group) \/ ClearEdit(k, table, excs, group)
    \/ ClearMove(k, table, excs, group) \/ ClearSplit(k, table, excs, group)

Decided(k) ==
    /\ k \in Calls
    /\ k.checked # "nothing" /\ Denied(k, ctx) => Clear(k, tasks, exceptions, groupRule)

Decides ==
    /\ UNCHANGED <<vars, ctx>> /\ calls' = calls + 1
    /\ \/ call' = call /\ raced' = raced
       \/ Decided(call') /\ raced' = FALSE

LEMMA CallType ==
    ASSUME NEW does \in {"create", "request"}, NEW ask \in Ask,
           NEW checked \in {"nothing", "window", "series"}, NEW confirm \in BOOLEAN
    PROVE  Record(does, ask, checked, confirm) \in Calls
BY DEF Record, Calls

LEMMA RefuseDecides == ASSUME Refuse PROVE Decides
BY DEF Refuse, Called, Told, Decides

\* A gate that lets a call pass which the user did not allow has found nothing.
LEMMA GateDecides ==
    ASSUME NEW does \in {"create", "request"}, NEW ask \in Ask,
           NEW checked \in {"nothing", "window", "series"}, NEW confirm \in BOOLEAN, NEW hits,
           Gate(confirm, checked, hits, does, ask),
           hits = {} /\ checked # "nothing"
               => Clear(Record(does, ask, checked, confirm), tasks, exceptions, groupRule)
    PROVE  Decides
<1>1. CASE Refuse
  BY <1>1, RefuseDecides
<1>2. CASE Proceed(does, ask, checked, confirm) /\ (IsOverlapAuthorized(confirm) \/ hits = {})
  <2> DEFINE k == Record(does, ask, checked, confirm)
  <2>1. /\ UNCHANGED <<vars, ctx>> /\ calls' = calls + 1 /\ call' = k /\ raced' = FALSE
    BY <1>2 DEF Proceed, Called, Record
  <2>2. k \in Calls
    BY CallType
  <2>3. k.confirm = confirm /\ k.checked = checked
    BY DEF Record
  <2>4. k.checked # "nothing" /\ Denied(k, ctx) => Clear(k, tasks, exceptions, groupRule)
    BY <1>2, <2>3 DEF Denied, IsOverlapAuthorized
  <2> HIDE DEF k
  <2> QED
    BY <2>1, <2>2, <2>4 DEF Decides, Decided
<1> QED
  BY <1>1, <1>2 DEF Gate

\* A call that is not checked.
LEMMA ProceedDecides ==
    ASSUME NEW ask \in Ask, Proceed("request", ask, "nothing", FALSE)
    PROVE  Decides
<1> DEFINE k == Record("request", ask, "nothing", FALSE)
<1>1. /\ UNCHANGED <<vars, ctx>> /\ calls' = calls + 1 /\ call' = k /\ raced' = FALSE
  BY DEF Proceed, Called, Record
<1>2. k \in Calls /\ k.checked = "nothing"
  BY CallType DEF Record
<1> HIDE DEF k
<1> QED
  BY <1>1, <1>2 DEF Decides, Decided

LEMMA HandleType ==
    ASSUME GateTypeOK, NEW h, Handle(h)
    PROVE  /\ h.task \in Ids /\ Live(h.task) /\ tasks[h.task] \in Row
           /\ IsRecurringInstance(h) =>
                 h.slot \in Days /\ tasks[h.task].parent = 0 /\ Effective(tasks[h.task]) # NoRule
<1>1. h \in Handles /\ Live(h.task) /\ TypeOK
  BY DEF Handle, GateTypeOK
<1>2. h.task \in Ids /\ h.slot \in Days \cup {NoDay}
  BY <1>1 DEF Handles
<1> QED
  BY <1>1, <1>2, LiveType DEF IsRecurringInstance, Effective

LEMMA EditType ==
    ASSUME TypeOK, NEW i \in Ids, Live(i), NEW ask \in EditsOf(i)
    PROVE  /\ ask \in Ask /\ ask.kind = "update" /\ ask.task = i
           /\ Edited(tasks[i], ask).start
                = (IF ask.field = "start" THEN ask.day ELSE tasks[i].start)
           /\ Edited(tasks[i], ask).start \in Days
           /\ Edited(tasks[i], ask).length
                = (IF ask.field = "start" THEN ask.length ELSE tasks[i].length)
           /\ Edited(tasks[i], ask).rule
                = (IF ask.field = "rule" THEN ask.rule ELSE tasks[i].rule)
<1>1. ask \in Ask
  BY AskType DEF Asks
<1>2. ask.kind = "update" /\ ask.task = i
  <2>1. On("update", i).kind = "update" /\ On("update", i).task = i
    BY DEF On, Blank
  <2>2. CASE ask \in WithTime([On("update", i) EXCEPT !.field = "start"])
    <3>1. /\ [On("update", i) EXCEPT !.field = "start"] \in Ask
          /\ [On("update", i) EXCEPT !.field = "start"].kind = "update"
          /\ [On("update", i) EXCEPT !.field = "start"].task = i
      BY OnType, <2>1, SeriesConstants DEF Kinds, Ids, Ask, Fields
    <3> QED
      BY <2>2, <3>1, WithTimeIs
  <2>3. CASE ask \notin WithTime([On("update", i) EXCEPT !.field = "start"])
    BY <2>3 DEF EditsOf, On, Blank
  <2> QED
    BY <2>2, <2>3
<1>3. tasks[i] \in Row /\ ask.day \in Days /\ ask.length \in Nat
  BY <1>1, LiveType DEF Ask
<1>4. /\ Edited(tasks[i], ask).start
            = (IF ask.field = "start" THEN ask.day ELSE tasks[i].start)
      /\ Edited(tasks[i], ask).length
            = (IF ask.field = "start" THEN ask.length ELSE tasks[i].length)
      /\ Edited(tasks[i], ask).rule
            = (IF ask.field = "rule" THEN ask.rule ELSE tasks[i].rule)
  BY <1>3 DEF Edited, Row
<1> QED
  BY <1>1, <1>2, <1>3, <1>4 DEF Row

LEMMA ConfirmType == Confirms \subseteq BOOLEAN
BY DEF Confirms

LEMMA CreateDecides == ASSUME TypeOK, Lineage, AttemptCreate PROVE Decides
<1>1. PICK at \in Targets, length \in Lengths, rule \in UserRules \cup {NoRule},
           grouped \in BOOLEAN, confirm \in Confirms :
         LET ask == [Blank EXCEPT !.day = at, !.length = length, !.rule = rule, !.flag = grouped]
         IN  IF rule = NoRule
             THEN Gate(confirm, "window", FindOverlapping(at, at + length, 0), "create", ask)
             ELSE Gate(confirm, "series", FindRecurringSeriesConflicts(at, length, rule, 0),
                       "create", ask)
  BY DEF AttemptCreate
<1> DEFINE ask == [Blank EXCEPT !.day = at, !.length = length, !.rule = rule, !.flag = grouped]
<1>2. at \in Days /\ length \in Nat /\ rule \in Rule \cup {NoRule} /\ confirm \in BOOLEAN
  BY SeriesConstants, ConfirmType
<1>3. ask \in Ask /\ ask.kind = "idle" /\ ask.day = at /\ ask.length = length /\ ask.rule = rule
  <2>1. Blank.kind = "idle"
    BY DEF Blank
  <2> QED
    BY <1>2, <2>1, BlankType DEF Ask
<1>4. /\ rule = NoRule => Gate(confirm, "window", FindOverlapping(at, at + length, 0), "create", ask)
      /\ rule # NoRule =>
            Gate(confirm, "series", FindRecurringSeriesConflicts(at, length, rule, 0),
                 "create", ask)
  BY <1>1
<1> HIDE DEF ask
<1>5. CASE rule = NoRule
  <2> DEFINE k == Record("create", ask, "window", confirm)
  <2>1. k.does = "create" /\ k.ask = ask /\ k.checked = "window"
    BY DEF Record
  <2> HIDE DEF k
  <2>2. FindOverlapping(at, at + length, 0) = {} => Clear(k, tasks, exceptions, groupRule)
    BY <1>2, <1>3, <1>5, <2>1, FoundNone DEF Clear, ClearCreate
  <2> QED
    BY <1>2, <1>3, <1>4, <1>5, <2>2, GateDecides DEF k
<1>6. CASE rule # NoRule
  <2> DEFINE k == Record("create", ask, "series", confirm)
  <2>1. k.does = "create" /\ k.ask = ask /\ k.checked = "series"
    BY DEF Record
  <2> HIDE DEF k
  <2>2. FindRecurringSeriesConflicts(at, length, rule, 0) = {}
        => Clear(k, tasks, exceptions, groupRule)
    BY <1>3, <1>6, <2>1, FoundNoneOfSeries DEF Clear, ClearCreate
  <2> QED
    BY <1>2, <1>3, <1>4, <1>6, <2>2, GateDecides DEF k
<1> QED
  BY <1>5, <1>6

LEMMA OneOffDecides == ASSUME GateTypeOK, Lineage, UpdateOneOff PROVE Decides
<1> DEFINE Checked(h, confirm, ask) ==
               LET row == Edited(tasks[h.task], ask)
               IN  Gate(confirm, "window",
                        FindOverlapping(row.start, row.start + row.length, h.task),
                        "request", ask)
<1>0. PICK h \in ctx.handles, confirm \in Confirms :
         Handle(h) /\ \E ask \in EditsOf(h.task) : Checked(h, confirm, ask)
  BY DEF UpdateOneOff
<1>1. PICK ask \in EditsOf(h.task) : Handle(h) /\ Checked(h, confirm, ask)
  BY <1>0
<1> DEFINE i == h.task  next == Edited(tasks[i], ask)
           k == Record("request", ask, "window", confirm)
<1>2. TypeOK /\ i \in Ids /\ Live(i)
  BY <1>1, HandleType DEF GateTypeOK
<1>3. ask \in Ask /\ ask.kind = "update" /\ ask.task = i
  BY <1>2, EditType
<1>4. Gate(confirm, "window", FindOverlapping(next.start, next.start + next.length, i),
           "request", ask)
  BY <1>1
<1> HIDE DEF i, next
<1>5. k.does = "request" /\ k.ask = ask /\ k.checked = "window"
  BY DEF Record
<1> HIDE DEF k
<1>6. FindOverlapping(next.start, next.start + next.length, i) = {}
      => Clear(k, tasks, exceptions, groupRule)
  <2>1. FindOverlapping(next.start, next.start + next.length, i) = {}
        => Free(tasks, exceptions, groupRule, next.start, next.start + next.length, i)
    BY <1>2, FoundNone
  <2> QED
    BY <1>2, <1>3, <1>5, <2>1 DEF Clear, ClearEdit, next, Live, LiveIn
<1> QED
  BY <1>3, <1>4, <1>6, ConfirmType, GateDecides DEF k

LEMMA MoveDecides == ASSUME GateTypeOK, Lineage, OccurrenceMove PROVE Decides
<1>1. PICK h \in ctx.handles, day \in Targets, length \in Lengths, confirm \in Confirms :
         /\ Handle(h) /\ IsRecurringInstance(h)
         /\ Gate(confirm, "window", FindOverlapping(day, day + length, h.task), "request",
                 [At("move", h.task, h.slot) EXCEPT !.day = day, !.length = length,
                                                    !.flag = TRUE])
  BY DEF OccurrenceMove
<1> DEFINE i == h.task
           ask == [At("move", h.task, h.slot) EXCEPT !.day = day, !.length = length,
                                                     !.flag = TRUE]
           k == Record("request", ask, "window", confirm)
<1>2. /\ TypeOK /\ i \in Ids /\ Live(i) /\ h.slot \in Days /\ day \in Days
      /\ length \in Nat
      /\ Effective(tasks[i]) # NoRule
  BY <1>1, HandleType, SeriesConstants DEF GateTypeOK
<1>3. ask \in Ask /\ ask.kind = "move" /\ ask.task = i /\ ask.day = day /\ ask.length = length
  <2>1. /\ At("move", h.task, h.slot) \in Ask /\ At("move", h.task, h.slot).task = i
        /\ At("move", h.task, h.slot).kind = "move"
    BY <1>2, AtType DEF Kinds
  <2> QED
    BY <1>2, <2>1 DEF Ask
<1>4. k.does = "request" /\ k.ask = ask /\ k.checked = "window"
  BY DEF Record
<1> HIDE DEF i, ask, k
<1>5. FindOverlapping(day, day + length, i) = {} => Clear(k, tasks, exceptions, groupRule)
  <2>1. FindOverlapping(day, day + length, i) = {}
        => Free(tasks, exceptions, groupRule, day, day + length, i)
    BY <1>2, FoundNone
  <2> QED
    BY <1>2, <1>3, <1>4, <2>1, EffectiveIs DEF Clear, ClearMove, Live, LiveIn
<1> QED
  BY <1>1, <1>3, <1>5, ConfirmType, GateDecides DEF k, ask, i

LEMMA FollowingDecides == ASSUME GateTypeOK, Lineage, UpdateFollowing PROVE Decides
<1>1. PICK h \in ctx.handles, confirm \in Confirms :
         /\ Handle(h) /\ IsRecurringInstance(h)
         /\ LET split == At("split", h.task, h.slot)
            IN  \/ GateSeries(h.task, confirm, "title", 0, 0, NoRule, split)
                \/ \E day \in Targets, length \in Lengths :
                      GateSeries(h.task, confirm, "start", day, length, NoRule,
                                 [split EXCEPT !.day = day, !.length = length, !.flag = TRUE])
  BY DEF UpdateFollowing
<1> DEFINE i == h.task  split == At("split", h.task, h.slot)
<1>2. /\ TypeOK /\ i \in Ids /\ Live(i) /\ h.slot \in Days /\ confirm \in BOOLEAN
      /\ tasks[i].parent = 0
  BY <1>1, HandleType, ConfirmType DEF GateTypeOK
<1>3. split \in Ask /\ split.kind = "split" /\ split.task = i
  BY <1>2, AtType DEF Kinds
<1>4. CASE GateSeries(i, confirm, "title", 0, 0, NoRule, split)
  <2>2. SeriesToCheck(tasks[i], "title", NoRule) = NoRule
    BY DEF SeriesToCheck
  <2>3. Gate(confirm, "nothing",
             FindRecurringEditConflicts(i, tasks[i], "title", 0, 0, NoRule), "request", split)
    BY <1>4, <2>2 DEF GateSeries
  <2> QED
    BY <1>2, <1>3, <2>3, GateDecides
<1>5. ASSUME NEW day \in Targets, NEW length \in Lengths,
             GateSeries(i, confirm, "start", day, length, NoRule,
                        [split EXCEPT !.day = day, !.length = length, !.flag = TRUE])
      PROVE  Decides
  <2> DEFINE ask == [split EXCEPT !.day = day, !.length = length, !.flag = TRUE]
             checked == IF tasks[i].rule = NoRule THEN "nothing" ELSE "series"
             hits == FindRecurringSeriesConflicts(day, length, tasks[i].rule, i)
             k == Record("request", ask, checked, confirm)
  <2>1. /\ ask \in Ask /\ ask.kind = "split" /\ ask.task = i /\ ask.day = day
        /\ ask.length = length /\ ask.flag
    BY <1>3, SeriesConstants DEF Ask
  <2>2. Gate(confirm, checked, hits, "request", ask)
    BY <1>5 DEF GateSeries, FindRecurringEditConflicts, SeriesToCheck
  <2>3. k.does = "request" /\ k.ask = ask /\ k.checked = checked
    BY DEF Record
  <2>4. checked \in {"nothing", "series"} /\ (checked # "nothing" => tasks[i].rule # NoRule)
    OBVIOUS
  <2>5. hits = {} => FreeSeries(tasks, exceptions, groupRule, day, length, tasks[i].rule, i)
    BY <1>2, FoundNoneOfSeries
  <2> HIDE DEF ask, k, checked, hits, i
  <2>6. hits = {} /\ checked # "nothing" => Clear(k, tasks, exceptions, groupRule)
    BY <1>2, <2>1, <2>3, <2>4, <2>5 DEF Clear, ClearSplit, Live, LiveIn
  <2> QED
    BY <1>2, <2>1, <2>2, <2>4, <2>6, GateDecides DEF k
<1> QED
  BY <1>1, <1>4, <1>5

LEMMA AllDecides == ASSUME GateTypeOK, Lineage, UpdateAll PROVE Decides
<1>0. PICK h \in ctx.handles, confirm \in Confirms :
         /\ Handle(h) /\ IsRecurringInstance(h)
         /\ \E ask \in EditsOf(h.task) :
               GateSeries(h.task, confirm, ask.field, ask.day, ask.length, ask.rule, ask)
  BY DEF UpdateAll
<1>1. PICK ask \in EditsOf(h.task) :
         /\ Handle(h) /\ IsRecurringInstance(h)
         /\ GateSeries(h.task, confirm, ask.field, ask.day, ask.length, ask.rule, ask)
  BY <1>0
<1> DEFINE i == h.task  row == tasks[i]  next == Edited(row, ask)
           rule == SeriesToCheck(row, ask.field, ask.rule)
           checked == IF rule = NoRule THEN "nothing" ELSE "series"
           hits == FindRecurringSeriesConflicts(next.start, next.length, rule, i)
           k == Record("request", ask, checked, confirm)
<1>2. TypeOK /\ i \in Ids /\ Live(i) /\ confirm \in BOOLEAN /\ row.parent = 0
  BY <1>1, HandleType, ConfirmType DEF GateTypeOK
<1>3. /\ ask \in Ask /\ ask.kind = "update" /\ ask.task = i
      /\ next.start = (IF ask.field = "start" THEN ask.day ELSE row.start)
      /\ next.length = (IF ask.field = "start" THEN ask.length ELSE row.length)
      /\ next.rule = (IF ask.field = "rule" THEN ask.rule ELSE row.rule)
  BY <1>2, EditType
<1>4. rule # NoRule => next.rule = rule
  BY <1>3 DEF SeriesToCheck
<1>5. Gate(confirm, checked, hits, "request", ask)
  BY <1>1, <1>3 DEF GateSeries, FindRecurringEditConflicts
<1>6. k.does = "request" /\ k.ask = ask /\ k.checked = checked
  BY DEF Record
<1>7. checked \in {"nothing", "series"} /\ (checked # "nothing" => rule # NoRule)
  OBVIOUS
<1>8. hits = {} => FreeSeries(tasks, exceptions, groupRule, next.start, next.length, rule, i)
  BY <1>2, FoundNoneOfSeries
<1> HIDE DEF i, next, rule, checked, hits, k
<1>9. hits = {} /\ checked # "nothing" => Clear(k, tasks, exceptions, groupRule)
  BY <1>2, <1>3, <1>4, <1>6, <1>7, <1>8 DEF Clear, ClearEdit, Live, LiveIn, next
<1> QED
  BY <1>2, <1>3, <1>5, <1>7, <1>9, GateDecides DEF k

LEMMA CompleteDecides == ASSUME GateTypeOK, CompleteTaskTool PROVE Decides
<1>1. PICK h \in ctx.handles, done \in BOOLEAN :
         /\ Handle(h)
         /\ Proceed("request",
                    [IF IsRecurringInstance(h) THEN At("completeOccurrence", h.task, h.slot)
                     ELSE On("complete", h.task) EXCEPT !.flag = done], "nothing", FALSE)
  BY DEF CompleteTaskTool
<1>2. h.task \in Ids /\ (IsRecurringInstance(h) => h.slot \in Days)
  BY <1>1, HandleType
<1>3. IsRecurringInstance(h) =>
         [At("completeOccurrence", h.task, h.slot) EXCEPT !.flag = done] \in Ask
  <2>1. IsRecurringInstance(h) => At("completeOccurrence", h.task, h.slot) \in Ask
    BY <1>2, AtType DEF Kinds
  <2> QED
    BY <2>1 DEF Ask
<1>4. [On("complete", h.task) EXCEPT !.flag = done] \in Ask
  <2>1. On("complete", h.task) \in Ask
    BY <1>2, OnType, SeriesConstants DEF Kinds, Ids
  <2> QED
    BY <2>1 DEF Ask
<1> QED
  BY <1>1, <1>3, <1>4, ProceedDecides

LEMMA DeleteDecides == ASSUME GateTypeOK, DeleteTaskTool PROVE Decides
<1>1. PICK h \in ctx.handles, scope \in {"this", "following", "all"} :
         /\ Handle(h)
         /\ Proceed("request",
               IF IsRecurringInstance(h) /\ scope = "this"
               THEN IF ChildAt(h.task, h.slot) # 0 THEN On("remove", ChildAt(h.task, h.slot))
                    ELSE At("skip", h.task, h.slot)
               ELSE IF IsRecurringInstance(h) /\ scope = "following"
               THEN At("end", h.task, h.slot)
               ELSE On("remove", h.task), "nothing", FALSE)
  BY DEF DeleteTaskTool
<1>2. h.task \in Ids /\ (IsRecurringInstance(h) => h.slot \in Days)
  BY <1>1, HandleType
<1>3. \A i \in 0..MaxTask : On("remove", i) \in Ask
  BY OnType DEF Kinds
<1>4. \A i \in Ids, d \in Days : At("skip", i, d) \in Ask /\ At("end", i, d) \in Ask
  BY AtType DEF Kinds
<1>5. TypeOK /\ h.task \in 0..MaxTask
  BY <1>2, SeriesConstants DEF GateTypeOK, Ids
<1>6. ChildAt(h.task, h.slot) \in 0..MaxTask
  BY <1>5, ChildType
<1> DEFINE ask == IF IsRecurringInstance(h) /\ scope = "this"
                  THEN IF ChildAt(h.task, h.slot) # 0 THEN On("remove", ChildAt(h.task, h.slot))
                       ELSE At("skip", h.task, h.slot)
                  ELSE IF IsRecurringInstance(h) /\ scope = "following"
                  THEN At("end", h.task, h.slot)
                  ELSE On("remove", h.task)
<1>7. ask \in Ask
  BY <1>2, <1>3, <1>4, <1>5, <1>6
<1>8. Proceed("request", ask, "nothing", FALSE)
  BY <1>1
<1> HIDE DEF ask
<1> QED
  BY <1>7, <1>8, ProceedDecides

\* The calls that may lead to a write.
LEMMA ToolDecides ==
    ASSUME GateTypeOK, Lineage,
           \/ AttemptCreate \/ StaleTarget \/ UpdateOneOff \/ AskEditScope \/ OccurrenceMove
           \/ UpdateFollowing \/ UpdateAll \/ CompleteTaskTool \/ DeleteTaskTool
    PROVE  MayCall /\ Decides
<1>1. MayCall
  BY DEF AttemptCreate, StaleTarget, UpdateOneOff, AskEditScope, OccurrenceMove,
         UpdateFollowing, UpdateAll, CompleteTaskTool, DeleteTaskTool
<1>2. AttemptCreate => Decides
  BY CreateDecides DEF GateTypeOK
<1>3. StaleTarget \/ AskEditScope => Decides
  BY RefuseDecides DEF StaleTarget, AskEditScope
<1>4. UpdateOneOff \/ OccurrenceMove => Decides
  BY OneOffDecides, MoveDecides
<1>5. UpdateFollowing \/ UpdateAll => Decides
  BY FollowingDecides, AllDecides
<1>6. CompleteTaskTool \/ DeleteTaskTool => Decides
  BY CompleteDecides, DeleteDecides
<1> QED
  BY <1>1, <1>2, <1>3, <1>4, <1>5, <1>6

\* A handle of what a read returned names a task and a day.
LEMMA HandlesType ==
    ASSUME TypeOK, NEW from, NEW to
    PROVE  HandlesOf(OccurrencesInRange(from, to)) \subseteq Handles
<1> SUFFICES ASSUME NEW o \in OccurrencesInRange(from, to)
             PROVE  [task |-> o.task, slot |-> IF o.of[1] = o.task THEN o.of[2] ELSE o.at] \in Handles
  BY DEF HandlesOf
<1>1. o \in OneOffs \/ \E i \in Anchors : o \in ExpandedIn(i, from, to)
  BY DEF OccurrencesInRange, ShownIn, OneOffsIn
<1>2. CASE o \in OneOffs
  <2>1. PICK i \in Ids :
           /\ Live(i) /\ o.task = i /\ o.at = tasks[i].start
           /\ o.of = IF tasks[i].parent = 0 THEN <<i, tasks[i].start>>
                     ELSE <<tasks[i].parent, tasks[i].slot>>
    BY <1>2 DEF OneOffs
  <2>2. tasks[i].start \in Days /\ tasks[i].slot \in Days
    BY <2>1, LiveType DEF Row
  <2> QED
    BY <2>1, <2>2 DEF Handles
<1>3. CASE \E i \in Anchors : o \in ExpandedIn(i, from, to)
  <2>1. PICK i \in Ids, d \in Days : o = Occurrence(i, d)
    BY <1>3 DEF ExpandedIn, Expanded, Generated, Anchors
  <2> QED
    BY <2>1 DEF Occurrence, Handles
<1> QED
  BY <1>1, <1>2, <1>3

LEMMA NoCallType == NoCall \in Calls /\ NoCall.does = "nothing" /\ NoCall.checked = "nothing"
BY BlankType DEF NoCall, Calls

\* The two tools that only read.
LEMMA ReadsType ==
    ASSUME GateTypeOK, ListTasks \/ CheckAvailability
    PROVE  /\ ctx' \in [policy: Policies, handles: SUBSET Handles] /\ ctx'.policy = ctx.policy
           /\ UNCHANGED <<vars, call, raced>> /\ calls' = calls + 1 /\ MayCall
<1>1. /\ UNCHANGED <<vars, call, raced>> /\ calls' = calls + 1 /\ MayCall /\ TypeOK
      /\ ctx \in [policy: Policies, handles: SUBSET Handles]
  BY DEF ListTasks, CheckAvailability, Told, Called, GateTypeOK
<1>2. PICK more \in SUBSET Handles : ctx' = [ctx EXCEPT !.handles = @ \cup more]
  <2>1. CASE ListTasks
    BY <1>1, <2>1, HandlesType DEF ListTasks
  <2>2. CASE CheckAvailability
    <3>1. PICK day \in Targets, length \in Lengths :
             ctx' = [ctx EXCEPT !.handles =
                        @ \cup {[task |-> i, slot |-> NoDay] :
                                  i \in FindOverlapping(day, day + length, 0)}]
      BY <2>2 DEF CheckAvailability
    <3>2. FindOverlapping(day, day + length, 0) \subseteq Ids
      BY DEF FindOverlapping, FindClashingRecurringAnchors, Anchors
    <3>3. {[task |-> i, slot |-> NoDay] : i \in FindOverlapping(day, day + length, 0)}
             \subseteq Handles
      BY <3>2 DEF Handles
    <3> QED
      BY <3>1, <3>3
  <2> QED
    BY <2>1, <2>2
<1> QED
  BY <1>1, <1>2

LEMMA GateInitType == GateInit => GateTypeOK
<1> SUFFICES ASSUME GateInit PROVE GateTypeOK
  OBVIOUS
<1>1. TypeOK
  BY InitType DEF GateInit
<1>2. ctx \in [policy: Policies, handles: SUBSET Handles]
  BY <1>1, HandlesType DEF GateInit
<1>3. call \in Calls
  BY NoCallType DEF GateInit
<1>4. raced \in BOOLEAN /\ calls \in 0..MaxCalls
  <2>1. calls = 0 /\ MaxCalls \in Nat
    BY GateConstants DEF GateInit
  <2>2. raced \in BOOLEAN
    BY Zenon DEF GateInit
  <2> QED
    BY <2>1, <2>2
<1> QED
  BY <1>1, <1>2, <1>3, <1>4 DEF GateTypeOK

\* What a step of the turn or its devices does beside the tables.
LEMMA GateNextKeepsType ==
    ASSUME GateTypeOK, Lineage, TypeOK', [GateNext]_gateVars PROVE GateTypeOK'
<1>1. /\ ctx \in [policy: Policies, handles: SUBSET Handles] /\ call \in Calls
      /\ raced \in BOOLEAN /\ calls \in 0..MaxCalls /\ MaxCalls \in Nat
  BY GateConstants DEF GateTypeOK
<1>2. MayCall /\ calls' = calls + 1 => calls' \in 0..MaxCalls
  BY <1>1 DEF MayCall
<1>3. ASSUME \/ AttemptCreate \/ StaleTarget \/ UpdateOneOff \/ AskEditScope \/ OccurrenceMove
             \/ UpdateFollowing \/ UpdateAll \/ CompleteTaskTool \/ DeleteTaskTool
      PROVE  GateTypeOK'
  <2>1. MayCall /\ Decides
    BY <1>3, ToolDecides
  <2>2. ctx' = ctx /\ calls' \in 0..MaxCalls
    BY <1>2, <2>1 DEF Decides
  <2>3. call' \in Calls
    BY <1>1, <2>1 DEF Decides, Decided
  <2>4. raced' \in BOOLEAN
    BY <1>1, <2>1, Zenon DEF Decides
  <2> QED
    BY <1>1, <2>2, <2>3, <2>4 DEF GateTypeOK
<1>4. CASE ListTasks \/ CheckAvailability
  BY <1>1, <1>2, <1>4, ReadsType DEF GateTypeOK
<1>5. CASE UpdateGroup
  <2>1. UNCHANGED <<ctx, call, raced>> /\ calls' = calls + 1 /\ MayCall
    BY <1>5 DEF UpdateGroup, Called
  <2> QED
    BY <1>1, <1>2, <2>1 DEF GateTypeOK
<1>6. CASE CommitCreate \/ Request \/ CommitRequest
  <2>1. (call' = call \/ call' = NoCall) /\ UNCHANGED <<ctx, raced, calls>>
    BY <1>6 DEF CommitCreate, Request, CommitRequest, gate
  <2> QED
    BY <1>1, <2>1, NoCallType DEF GateTypeOK
<1>7. CASE DeviceRequest
  <2>1. UNCHANGED <<ctx, call, calls>> /\ raced' = (raced \/ (call # NoCall /\ tables' # tables))
    BY <1>7 DEF DeviceRequest
  <2>2. raced' \in BOOLEAN
    BY <2>1, Zenon
  <2> QED
    BY <1>1, <2>1, <2>2 DEF GateTypeOK
<1>8. CASE UNCHANGED gateVars
  BY <1>1, <1>8 DEF gateVars, gate, GateTypeOK
<1> QED
  BY <1>3, <1>4, <1>5, <1>6, <1>7, <1>8 DEF GateNext

\* The turn's handles name tasks and days, and its call is one of those the gate may pass:
\* also with devices that write between its steps.
THEOREM GateTypeCorrect == GateSpec => []GateTypeOK
<1>1. GateTypeOK /\ Lineage /\ TypeOK' /\ [GateNext]_gateVars => GateTypeOK'
  BY GateNextKeepsType
<1> QED
  BY <1>1, GateInitType, GateRefines, TypeCorrect, LineageHolds, PTL DEF GateSpec
-----------------------------------------------------------------------------
(* The grounds of a call stand until it writes, or a device has raced it.   *)

\* The request under way is the one the call decided on, about the row as it stands.
CallFits ==
    req[Assistant] # Idle =>
        /\ call.does = "request" /\ req[Assistant].ask = call.ask
        /\ ~raced => req[Assistant].row = tasks[call.ask.task]

Cleared ==
    call.checked # "nothing" /\ ~raced /\ NotAllowed
        => Clear(call, tasks, exceptions, groupRule)

LEMMA NotAllowedIs == NotAllowed <=> Denied(call, ctx)
BY DEF NotAllowed, Denied

LEMMA NotAllowedNext == NotAllowed' <=> Denied(call', ctx')
BY DEF NotAllowed, Denied

\* The tables stay, and with them the grounds of the call.
LEMMA SameCleared ==
    ASSUME Cleared, tasks' = tasks, exceptions' = exceptions, groupRule' = groupRule,
           call' = call, ctx'.policy = ctx.policy, ~raced' => ~raced
    PROVE  Cleared'
BY NotAllowedIs, NotAllowedNext
   DEF Cleared, Clear, ClearCreate, ClearEdit, ClearMove, ClearSplit, Denied

LEMMA NoCallCleared == ASSUME call' = NoCall PROVE Cleared'
BY NoCallType DEF Cleared

LEMMA DecidedCleared ==
    ASSUME Decides, Cleared PROVE Cleared'
<1>1. /\ UNCHANGED <<tasks, exceptions, groupRule, ctx>>
      /\ \/ call' = call /\ raced' = raced
         \/ Decided(call')
  BY DEF Decides, vars
<1>2. CASE call' = call /\ raced' = raced
  BY <1>1, <1>2, SameCleared
<1>3. CASE Decided(call')
  <2>1. call'.checked # "nothing" /\ Denied(call', ctx)
        => Clear(call', tasks, exceptions, groupRule)
    BY <1>3 DEF Decided
  <2> QED
    BY <1>1, <2>1, NotAllowedNext DEF Cleared
<1> QED
  BY <1>1, <1>2, <1>3

LEMMA ServeReplies ==
    ASSUME TypeOK, NEW c \in Clients, Serve(c)
    PROVE  /\ req[c] # Idle /\ req' = [req EXCEPT ![c] = Idle]
<1>1. req[c].ask.kind # "idle"
  BY DEF Serve, Update, SetCompleted, SetOccurrenceCompleted, SkipOccurrence, MoveOccurrence,
         CreateOrUpdateOverride, Remove, SplitSeries, EndSeriesAt
<1>2. Reply(c)
  <2>1. Effect(c)
    BY ServeEffect
  <2> QED
    <3>1. \A table : Commit(c, table) => Reply(c)
      BY DEF Commit
    <3>2. \A k, e : CommitException(c, k, e) => Reply(c)
      BY DEF CommitException
    <3>3. Fail(c) => Reply(c)
      BY DEF Fail
    <3>4. Edits(c) => Reply(c)
      BY <3>1, <3>3 DEF Edits, UpdateRow
    <3>5. Completes(c) \/ RemovesSeries(c) \/ Ends(c) \/ Splits(c) => Reply(c)
      BY <3>1 DEF Completes, CompleteRow, RemovesSeries, RemoveSeries, Ends, Splits
    <3>6. RemovesChild(c) \/ WritesException(c) \/ Overrides(c) => Reply(c)
      BY <3>2 DEF RemovesChild, RemoveChild, WritesException, Overrides
    <3> QED
      BY <2>1, <3>3, <3>4, <3>5, <3>6 DEF Effect
<1> QED
  BY <1>1, <1>2 DEF Reply, Idle, Blank

\* A device's step leaves the request of the turn alone.
LEMMA DeviceLeaves ==
    ASSUME TypeOK, DeviceRequest
    PROVE  /\ req'[Assistant] = req[Assistant] /\ UNCHANGED <<ctx, call, calls>>
           /\ ~raced' => ~raced /\ (call = NoCall \/ tables' = tables)
<1>1. /\ UNCHANGED <<ctx, call, calls>>
      /\ raced' = (raced \/ (call # NoCall /\ tables' # tables))
  BY DEF DeviceRequest
<1>2. ~raced' => ~raced /\ (call = NoCall \/ tables' = tables)
  BY <1>1
<1>3. req'[Assistant] = req[Assistant]
  <2>1. CASE Create \/ SetGroupRule \/ RemoveGroup
    BY <2>1 DEF Create, SetGroupRule, RemoveGroup
  <2>2. ASSUME NEW c \in Clients \ {Assistant}, Load(c) \/ Serve(c)
        PROVE  req'[Assistant] = req[Assistant]
    <3>1. \E x : req' = [req EXCEPT ![c] = x]
      BY <2>2, ServeReplies DEF Load
    <3> QED
      BY <3>1, GateConstants DEF TypeOK
  <2> QED
    BY <2>1, <2>2 DEF DeviceRequest
<1> QED
  BY <1>1, <1>2, <1>3

LEMMA NextCleared ==
    ASSUME GateTypeOK, Lineage, CallFits, Cleared, [GateNext]_gateVars
    PROVE  CallFits' /\ Cleared'
<1>1. TypeOK /\ Assistant \in Clients
  BY GateConstants DEF GateTypeOK
<1>2. ASSUME MayCall, req' = req PROVE CallFits'
  BY <1>2 DEF MayCall, CallFits
<1>3. ASSUME call' = NoCall, req'[Assistant] = Idle PROVE CallFits' /\ Cleared'
  BY <1>3, NoCallCleared DEF CallFits
<1>4. CASE \/ AttemptCreate \/ StaleTarget \/ UpdateOneOff \/ AskEditScope \/ OccurrenceMove
           \/ UpdateFollowing \/ UpdateAll \/ CompleteTaskTool \/ DeleteTaskTool
  <2>1. MayCall /\ Decides
    BY <1>4, ToolDecides
  <2>2. req' = req
    BY <2>1 DEF Decides, vars
  <2> QED
    BY <1>2, <2>1, <2>2, DecidedCleared
<1>5. CASE ListTasks \/ CheckAvailability
  <2>1. /\ MayCall /\ UNCHANGED <<vars, call, raced>> /\ ctx'.policy = ctx.policy
    BY <1>5, ReadsType
  <2> QED
    BY <1>2, <2>1, SameCleared DEF vars
<1>6. CASE UpdateGroup
  <2>1. MayCall /\ req' = req /\ call' = NoCall
    BY <1>6 DEF UpdateGroup, SetGroupRule, MayCall
  <2> QED
    BY <1>2, <2>1, NoCallCleared
<1>7. CASE CommitCreate
  <2>1. call.does = "create" /\ call' = NoCall /\ req' = req
    BY <1>7 DEF CommitCreate, Create
  <2> QED
    BY <1>3, <2>1 DEF CallFits
<1>8. CASE Request
  <2>1. CASE Load(Assistant) /\ req'[Assistant].ask = call.ask /\ UNCHANGED gate
    <3>1. PICK a \in Asks :
             req' = [req EXCEPT ![Assistant] =
                        [ask |-> a, row |-> tasks[a.task],
                         child |-> IF a.kind \in {"completeOccurrence", "skip", "move"}
                                   THEN ChildAt(a.task, a.slot) ELSE 0]]
      BY <2>1 DEF Load
    <3>2. req'[Assistant].ask = a /\ req'[Assistant].row = tasks[a.task]
      BY <1>1, <3>1 DEF TypeOK
    <3>3. /\ UNCHANGED <<tasks, exceptions, groupRule, call, ctx, raced>>
          /\ call.does = "request"
      BY <1>8, <2>1 DEF Load, Request, gate
    <3>4. CallFits'
      BY <2>1, <3>2, <3>3 DEF CallFits
    <3> QED
      BY <3>3, <3>4, SameCleared
  <2>2. CASE call' = NoCall /\ UNCHANGED vars
    BY <1>3, <1>8, <2>2 DEF Request, vars
  <2> QED
    BY <1>8, <2>1, <2>2 DEF Request
<1>9. CASE CommitRequest
  <2>1. call' = NoCall /\ req'[Assistant] = Idle
    BY <1>1, <1>9, ServeReplies DEF CommitRequest, TypeOK
  <2> QED
    BY <1>3, <2>1
<1>10. CASE DeviceRequest
  <2>1. /\ req'[Assistant] = req[Assistant] /\ ctx' = ctx /\ call' = call
        /\ ~raced' => ~raced /\ (call = NoCall \/ tables' = tables)
    BY <1>1, <1>10, DeviceLeaves
  <2>2. CASE call = NoCall
    BY <1>3, <2>1, <2>2, NoCallType DEF CallFits
  <2>3. CASE call # NoCall
    <3>1. ~raced' => /\ ~raced /\ tasks' = tasks /\ exceptions' = exceptions
                     /\ groupRule' = groupRule
      BY <2>1, <2>3 DEF tables
    <3>2. CallFits'
      BY <2>1, <3>1 DEF CallFits
    <3>3. raced' => Cleared'
      BY Zenon DEF Cleared
    <3>4. ASSUME ~raced' PROVE Cleared'
      <4>1. /\ tasks' = tasks /\ exceptions' = exceptions /\ groupRule' = groupRule
            /\ ~raced /\ call' = call /\ ctx' = ctx
        BY <2>1, <3>1, <3>4
      <4> QED
        BY <4>1, SameCleared
    <3> QED
      BY <3>2, <3>3, <3>4
  <2> QED
    BY <2>2, <2>3
<1>11. CASE UNCHANGED gateVars
  <2>1. UNCHANGED <<req, tasks, exceptions, groupRule, ctx, call, raced>>
    BY <1>11 DEF gateVars, gate, vars
  <2> QED
    BY <2>1, SameCleared DEF CallFits
<1> QED
  BY <1>4, <1>5, <1>6, <1>7, <1>8, <1>9, <1>10, <1>11 DEF GateNext

LEMMA ClearedHolds == GateSpec => [](CallFits /\ Cleared)
<1>1. GateInit => CallFits /\ Cleared
  <2> SUFFICES ASSUME GateInit PROVE CallFits /\ Cleared
    OBVIOUS
  <2>1. call = NoCall /\ req[Assistant] = Idle
    BY GateConstants DEF GateInit, Init
  <2> QED
    BY <2>1, NoCallType DEF CallFits, Cleared
<1>2. GateTypeOK /\ Lineage /\ CallFits /\ Cleared /\ [GateNext]_gateVars
      => CallFits' /\ Cleared'
  BY NextCleared
<1> QED
  BY <1>1, <1>2, GateTypeCorrect, GateRefines, LineageHolds, PTL DEF GateSpec

-----------------------------------------------------------------------------
(* The write books what the gate found to be free, or what is explained.    *)

LEMMA CreateBooks ==
    ASSUME TypeOK, Lineage, TypeOK', Lineage', CommitCreate,
           ClearCreate(call, tasks, exceptions, groupRule)
    PROVE  BookingsExplained
<1> DEFINE new == FreeId
           row == Task(call.ask.day, call.ask.length, call.ask.rule, call.ask.flag)
<1>1. /\ tasks' = Saved(new, row) /\ exceptions' = exceptions /\ groupRule' = groupRule
      /\ new \in Ids /\ tasks[new] = NoTask
  BY DEF CommitCreate, Create, HasFreeId, FreeId
<1>2. /\ row.parent = 0 /\ row.start = call.ask.day /\ row.rule = call.ask.rule
      /\ row.length = call.ask.length /\ ~row.deleted
  BY DEF Task
<1> HIDE DEF new, row
<1>3. tasks'[new] = row /\ \A j \in Ids \ {new} : tasks'[j] = tasks[j]
  BY <1>1 DEF Saved, TypeOK
<1>4. tasks'[new] # tasks[new]
  <2>1. row # NoTask
    <3>1. \E start \in Targets, length \in Lengths, rule \in UserRules \cup {NoRule},
             grouped \in BOOLEAN :
             tasks' = Saved(new, Task(start, length, rule, grouped))
      BY DEF CommitCreate, Create, new
    <3>2. PICK start \in Targets, length \in Lengths, rule \in UserRules \cup {NoRule},
               grouped \in BOOLEAN :
             tasks'[new] = Task(start, length, rule, grouped)
      BY <1>1, <3>1 DEF Saved, TypeOK
    <3> QED
      BY <1>3, <3>2, TaskType, SeriesConstants
  <2> QED
    BY <1>1, <1>3, <2>1
<1>5. Apart(tasks, exceptions, tasks', exceptions', {new})
  <2>1. ~ChildIn(tasks', new) /\ ~ChildIn(tasks, new)
    BY <1>1, <1>2, <1>3 DEF ChildIn
  <2> QED
    BY <1>1, <1>3, <2>1 DEF Apart, ChildIn, LiveIn
<1>6. call.ask.kind # "move"
  BY DEF ClearCreate
<1>7. \/ /\ call.checked = "window"
         /\ Free(tasks, exceptions, groupRule, tasks'[new].start,
                 tasks'[new].start + tasks'[new].length, 0)
      \/ /\ call.checked = "series" /\ tasks'[new].parent = 0 /\ tasks'[new].rule # NoRule
         /\ FreeSeries(tasks, exceptions, groupRule, tasks'[new].start, tasks'[new].length,
                       tasks'[new].rule, 0)
  BY <1>2, <1>3 DEF ClearCreate
<1> QED
  BY <1>1, <1>4, <1>5, <1>6, <1>7, RowBooks

\* An edit of a row that is free on the days it is going to have.
LEMMA EditBooks ==
    ASSUME TypeOK, Lineage, TypeOK', Lineage', NEW c, NEW i \in Ids, Live(i), NEW ask \in Ask,
           UpdateRow(c, i, tasks[i], ask), i = call.ask.task, call.ask.kind # "move",
           \/ /\ call.checked = "window"
              /\ Free(tasks, exceptions, groupRule, Edited(tasks[i], ask).start,
                      Edited(tasks[i], ask).start + Edited(tasks[i], ask).length, i)
           \/ /\ call.checked = "series" /\ tasks[i].parent = 0
              /\ Edited(tasks[i], ask).rule # NoRule
              /\ FreeSeries(tasks, exceptions, groupRule, Edited(tasks[i], ask).start,
                            Edited(tasks[i], ask).length, Edited(tasks[i], ask).rule, i)
    PROVE  BookingsExplained
<1> DEFINE next == Edited(tasks[i], ask)
<1>1. next.parent = tasks[i].parent
  BY LiveType DEF Edited, Row
<1>2. /\ exceptions' = exceptions /\ groupRule' = groupRule
      /\ tasks' # tasks =>
            /\ Apart(tasks, exceptions, tasks', exceptions', {i})
            /\ tasks'[i].parent = next.parent /\ tasks'[i].start = next.start
            /\ tasks'[i].rule = next.rule /\ tasks'[i].length = next.length
  BY EditLeaves
<1> HIDE DEF next
<1>3. CASE tasks' = tasks
  BY <1>2, <1>3, SameBooksNothing
<1>4. CASE tasks' # tasks
  <2>1. \/ /\ call.checked = "window"
           /\ Free(tasks, exceptions, groupRule, tasks'[i].start,
                   tasks'[i].start + tasks'[i].length, i)
        \/ /\ call.checked = "series" /\ tasks'[i].parent = 0 /\ tasks'[i].rule # NoRule
           /\ FreeSeries(tasks, exceptions, groupRule, tasks'[i].start, tasks'[i].length,
                         tasks'[i].rule, i)
    BY <1>1, <1>2, <1>4 DEF next
  <2> QED
    BY <1>2, <1>4, <2>1, RowBooks
<1> QED
  BY <1>3, <1>4

\* A move of what recurs by its group changes the row; the window was not all of it.
LEMMA GroupMoveBooks ==
    ASSUME TypeOK, Lineage, TypeOK', Lineage', NEW c, NEW i \in Ids, Live(i), NEW ask \in Ask,
           ask.field = "start", UpdateRow(c, i, tasks[i], ask), i = call.ask.task,
           tasks[i].rule = NoRule, EffectiveIn(tasks[i], groupRule) # NoRule,
           call.checked = "window"
    PROVE  BookingsExplained
<1> DEFINE next == Edited(tasks[i], ask)
<1>1. next.parent = tasks[i].parent /\ next.rule = tasks[i].rule /\ next.grouped = tasks[i].grouped
  BY LiveType DEF Edited, Row
<1>2. /\ exceptions' = exceptions /\ groupRule' = groupRule
      /\ tasks' # tasks => /\ tasks'[i].parent = next.parent /\ tasks'[i].rule = next.rule
                           /\ tasks'[i].grouped = next.grouped
  BY EditLeaves
<1> HIDE DEF next
<1>3. EffectiveIn(tasks'[i], groupRule') = EffectiveIn(tasks[i], groupRule)
  BY <1>1, <1>2 DEF EffectiveIn
<1>4. Effective(tasks[i])' # NoRule
  BY <1>3 DEF Effective, EffectiveIn
<1>5. ~(call.ask.kind = "move" /\ tasks[call.ask.task].rule # NoRule)
  OBVIOUS
<1> QED
  BY <1>4, <1>5 DEF BookingsExplained, Explained

\* The request of a call that passed the gate, over the tables the gate looked at.
LEMMA RequestBooks ==
    ASSUME TypeOK, Lineage, SlotsUnique, TypeOK', Lineage', NEW c \in Clients, Serve(c),
           call.does = "request", req[c].ask = call.ask, req[c].row = tasks[call.ask.task],
           Clear(call, tasks, exceptions, groupRule)
    PROVE  BookingsExplained
<1> DEFINE ask == call.ask  i == ask.task
<1>1. \/ ClearEdit(call, tasks, exceptions, groupRule)
      \/ ClearMove(call, tasks, exceptions, groupRule)
      \/ ClearSplit(call, tasks, exceptions, groupRule)
  BY DEF Clear, ClearCreate
<1>2. i \in Ids /\ Live(i) /\ ask.kind \in {"update", "move", "split"}
  BY <1>1 DEF ClearEdit, ClearMove, ClearSplit, Live, LiveIn
<1>3. ask \in Ask /\ ask.slot \in Days /\ ask.day \in Days /\ ask.length \in Nat
  BY <1>2, RequestType
<1>4. CASE ClearEdit(call, tasks, exceptions, groupRule)
  <2>1. ask.kind = "update"
    BY <1>4 DEF ClearEdit
  <2>2. UpdateRow(c, i, tasks[i], ask)
    BY <2>1 DEF Serve, Update, SetCompleted, SetOccurrenceCompleted, SkipOccurrence,
                MoveOccurrence, CreateOrUpdateOverride, Remove, SplitSeries, EndSeriesAt
  <2>3. \/ /\ call.checked = "window"
           /\ Free(tasks, exceptions, groupRule, Edited(tasks[i], ask).start,
                   Edited(tasks[i], ask).start + Edited(tasks[i], ask).length, i)
        \/ /\ call.checked = "series" /\ tasks[i].parent = 0
           /\ Edited(tasks[i], ask).rule # NoRule
           /\ FreeSeries(tasks, exceptions, groupRule, Edited(tasks[i], ask).start,
                         Edited(tasks[i], ask).length, Edited(tasks[i], ask).rule, i)
    BY <1>4 DEF ClearEdit
  <2> HIDE DEF ask
  <2> QED
    BY <1>2, <1>3, <2>1, <2>2, <2>3, EditBooks DEF ask
<1>5. CASE ClearMove(call, tasks, exceptions, groupRule)
  <2> DEFINE edit == [ask EXCEPT !.field = "start"]
  <2>1. /\ ask.kind = "move" /\ call.checked = "window"
        /\ EffectiveIn(tasks[i], groupRule) # NoRule
        /\ Free(tasks, exceptions, groupRule, ask.day, ask.day + ask.length, i)
    BY <1>5 DEF ClearMove
  <2>2. MoveOccurrence(c)
    BY <2>1 DEF Serve, Update, SetCompleted, SetOccurrenceCompleted, SkipOccurrence,
                CreateOrUpdateOverride, Remove, SplitSeries, EndSeriesAt
  <2>3. edit \in Ask /\ edit.field = "start"
    BY <1>3 DEF Ask, Fields
  <2>4. CASE tasks[i].rule = NoRule
    <3>1. UpdateRow(c, i, tasks[i], edit)
      BY <1>2, <2>2, <2>4 DEF MoveOccurrence
    <3> HIDE DEF edit
    <3> QED
      BY <1>2, <2>1, <2>3, <2>4, <3>1, GroupMoveBooks
  <2>5. CASE tasks[i].rule # NoRule
    <3>1. tasks[i].parent = 0
      BY <2>1 DEF EffectiveIn
    <3>2. \/ Fail(c)
          \/ /\ CommitException(c, <<i, ask.slot>>,
                                [ExceptionAt(<<i, ask.slot>>) EXCEPT !.at = ask.day,
                                                                     !.length = ask.length])
             /\ UNCHANGED <<tasks, groupRule, served, gone, asked>>
      BY <2>2, <2>5 DEF MoveOccurrence
    <3>3. CASE Fail(c)
      BY <3>3, SameBooksNothing DEF Fail
    <3>4. CASE /\ CommitException(c, <<i, ask.slot>>,
                                  [ExceptionAt(<<i, ask.slot>>) EXCEPT !.at = ask.day,
                                                                     !.length = ask.length])
               /\ UNCHANGED <<tasks, groupRule, served, gone, asked>>
      <4>1. /\ tasks' = tasks /\ groupRule' = groupRule
            /\ exceptions' = [exceptions EXCEPT ![<<i, ask.slot>>] =
                                 [ExceptionAt(<<i, ask.slot>>) EXCEPT !.at = ask.day,
                                                                      !.length = ask.length]]
        BY <3>4 DEF CommitException
      <4> QED
        BY <1>2, <1>3, <2>1, <3>1, <4>1, MoveBooks
    <3> QED
      BY <3>2, <3>3, <3>4
  <2> QED
    BY <2>4, <2>5
<1>6. CASE ClearSplit(call, tasks, exceptions, groupRule)
  <2> DEFINE edit == [ask EXCEPT !.field = IF ask.flag THEN "start" ELSE "title"]
  <2>1. /\ ask.kind = "split" /\ ask.flag /\ tasks[i].rule # NoRule /\ tasks[i].parent = 0
        /\ call.checked = "series"
        /\ FreeSeries(tasks, exceptions, groupRule, ask.day, ask.length, tasks[i].rule, i)
    BY <1>6 DEF ClearSplit
  <2>2. SplitSeries(c)
    BY <2>1 DEF Serve, Update, SetCompleted, SetOccurrenceCompleted, SkipOccurrence,
                MoveOccurrence, CreateOrUpdateOverride, Remove, EndSeriesAt
  <2>3. CASE tasks[i].start = ask.slot
    <3>1. UpdateRow(c, i, tasks[i], edit)
      BY <1>2, <2>2, <2>3 DEF SplitSeries
    <3>2. edit \in Ask /\ edit.field = "start" /\ edit.day = ask.day /\ edit.length = ask.length
      BY <1>3, <2>1 DEF Ask, Fields
    <3> HIDE DEF edit
    <3>3. /\ Edited(tasks[i], edit).start = ask.day
          /\ Edited(tasks[i], edit).length = ask.length
          /\ Edited(tasks[i], edit).rule = tasks[i].rule
      BY <1>2, <3>2, LiveType DEF Edited, Row
    <3> QED
      BY <1>2, <2>1, <3>1, <3>2, <3>3, EditBooks
  <2>4. CASE tasks[i].start # ask.slot
    <3>1. Splits(c)
      BY <2>1, <2>2, <2>4 DEF SplitSeries, Splits, Ended, NewSeries
    <3> QED
      BY <1>2, <2>1, <3>1, SplitBooks
  <2> QED
    BY <2>3, <2>4
<1> QED
  BY <1>1, <1>4, <1>5, <1>6

\* However a turn and its devices interleave: what a write of the turn books over, the user
\* allowed, a device has changed since, or is one of the overlaps that are named.
THEOREM OverlapsExplainedHolds == GateSpec => OverlapsExplained
<1> DEFINE A == (CommitCreate \/ CommitRequest) /\ call.checked # "nothing" /\ ~raced /\ NotAllowed
                => \A p \in Clashes' \ Clashes : Explained(p[1], p[2])
<1>1. ASSUME TypeOK, Lineage, SlotsUnique, TypeOK', Lineage', CallFits, Cleared PROVE A
  <2> SUFFICES ASSUME CommitCreate \/ CommitRequest,
                      call.checked # "nothing", ~raced, NotAllowed
               PROVE  \A p \in Clashes' \ Clashes : Explained(p[1], p[2])
    OBVIOUS
  <2>1. Clear(call, tasks, exceptions, groupRule)
    BY <1>1 DEF Cleared
  <2>2. CASE CommitCreate
    <3>1. ClearCreate(call, tasks, exceptions, groupRule)
      BY <2>1, <2>2 DEF CommitCreate, Clear, ClearEdit, ClearMove, ClearSplit
    <3> QED
      BY <1>1, <2>2, <3>1, CreateBooks, ClashesExplained
  <2>3. CASE CommitRequest
    <3>1. Serve(Assistant) /\ Assistant \in Clients
      BY <2>3, GateConstants DEF CommitRequest
    <3>2. req[Assistant] # Idle
      BY <1>1, <3>1, ServeReplies
    <3>3. /\ call.does = "request" /\ req[Assistant].ask = call.ask
          /\ req[Assistant].row = tasks[call.ask.task]
      BY <1>1, <3>2 DEF CallFits
    <3> QED
      BY <1>1, <2>1, <3>1, <3>3, RequestBooks, ClashesExplained
  <2> QED
    BY <2>2, <2>3
<1>2. TypeOK /\ Lineage /\ SlotsUnique /\ TypeOK' /\ Lineage' /\ CallFits /\ Cleared => [A]_gateVars
  BY <1>1
<1> QED
  BY <1>2, GateRefines, TypeCorrect, LineageHolds, SlotsUniqueHolds, ClearedHolds, PTL
     DEF OverlapsExplained, Explained
=============================================================================
