----------------------------- MODULE SyncProofs -----------------------------
(***************************************************************************)
(* Theorems about Sync, for any clients, lag, clock and bounds: the types, *)
(* what a device at rest may have missed, and who meets in a deadlock.     *)
(***************************************************************************)
EXTENDS Sync, SequenceTheorems, FiniteSetTheorems, TLAPS

-----------------------------------------------------------------------------
(* The statements of a request                                              *)

Statements == [op: Ops, on: Lockable]

\* What may be locked are three different rows.
LEMMA Distinct == Series # Child /\ Series # Revision /\ Child # Revision
<1>2. ASSUME NEW a, NEW b, Lockable \subseteq {a, b} PROVE FALSE
  <2>1. IsFiniteSet({a}) /\ Cardinality({a}) = 1
    BY FS_Singleton
  <2>2. IsFiniteSet({a} \cup {b}) /\ Cardinality({a} \cup {b}) <= 2
    BY <2>1, FS_AddElement
  <2>3. Cardinality(Lockable) <= Cardinality({a} \cup {b})
    BY <1>2, <2>2, FS_Subset
  <2>4. Cardinality(Lockable) = 3
    BY SyncConstants
  <2>5. Cardinality({a} \cup {b}) \in Nat
    BY <2>2, FS_CardinalityType
  <2> QED
    BY <2>2, <2>3, <2>4, <2>5
<1> QED
  BY <1>2 DEF Lockable, Rows

\* Which rows a statement is about.
Addressed(s) ==
    /\ s.op = "bump" <=> s.on = Revision
    /\ s.op \in {"find", "children"} => s.on = Child
    /\ s.op \in {"lock", "touch"} => s.on = Series

\* The statement before a write has compared, the one before that has loaded the row; the
\* series is locked before its child is looked for.
Prepared(before, s) ==
    /\ s.op = "write" => before.op \in {"compare", "bury"} /\ before.on = s.on
    /\ s.op \in {"compare", "bury"} =>
           before.op \in {"load", "find", "children"} /\ before.on = s.on
    /\ s.op = "find" => before = Do("lock", Series)

\* The loop over the children is a save, the last statement about a child.
Swept(left, i) ==
    /\ i + 2 <= Len(left)
    /\ left[i + 1].on = Child /\ left[i + 2] = Do("write", Child)
    /\ \A j \in 1..Len(left) : j > i + 2 => left[j].on # Child

Shape(left) ==
    /\ left \in Seq(Statements)
    /\ \A i \in 1..Len(left) : Addressed(left[i])
    /\ \A i \in 2..Len(left) : Prepared(left[i - 1], left[i])
    /\ \A i \in 1..Len(left) : left[i].op = "children" => Swept(left, i)

HasBump(left) == \E i \in 1..Len(left) : left[i].op = "bump"

\* How a request begins.
Request(left) ==
    /\ Shape(left) /\ HasBump(left)
    /\ Len(left) > 0 /\ left[1].op \in {"load", "lock"}

LocksChild(s) == s.op \in {"find", "write"} /\ s.on = Child

WaitsSeries(s) == s.op \in {"lock", "write", "touch"} /\ s.on = Series

BumpsLast(left) ==
    \A i, j \in 1..Len(left) : i < j /\ left[i].op = "bump" => left[j].op = "bump"

\* Who locks the child before the series has asked for the lock of the series first.
SeriesFirst(left) ==
    \A i, j \in 1..Len(left) :
        i < j /\ LocksChild(left[i]) /\ WaitsSeries(left[j]) =>
            \E k \in 1..Len(left) : k < i /\ left[k] = Do("lock", Series)

\* The order in which all requests but two lock.
InOrder(left) == BumpsLast(left) /\ SeriesFirst(left)

LEMMA EditShape == ASSUME NEW r \in Rows PROVE Request(Edit(r)) /\ InOrder(Edit(r))
<1>1. /\ Edit(r) \in Seq(Statements) /\ Len(Edit(r)) = 4 /\ Edit(r)[1] = Do("load", r)
      /\ Edit(r)[2] = Do("compare", r) /\ Edit(r)[3] = Do("write", r)
      /\ Edit(r)[4] = Do("bump", Revision)
  BY DEF Edit, Save, Bump, Do, Statements, Lockable, Rows, Ops
<1> HIDE DEF Edit
<1>2. \A i \in 1..4 : Addressed(Edit(r)[i])
  BY <1>1, Distinct DEF Addressed, Do, Rows
<1>3. \A i \in 2..4 : Prepared(Edit(r)[i - 1], Edit(r)[i])
  BY <1>1, Distinct DEF Prepared, Do
<1>4. \A i \in 1..4 : Edit(r)[i].op = "children" => Swept(Edit(r), i)
  BY <1>1, Distinct DEF Swept, Do
<1>5. HasBump(Edit(r)) /\ Len(Edit(r)) > 0 /\ Edit(r)[1].op \in {"load", "lock"}
  BY <1>1 DEF HasBump, Do
<1>6. /\ \A i, j \in 1..4 : i < j /\ Edit(r)[i].op = "bump" => Edit(r)[j].op = "bump"
      /\ \A i, j \in 1..4 :
             i < j /\ LocksChild(Edit(r)[i]) /\ WaitsSeries(Edit(r)[j]) =>
                 \E k \in 1..4 : k < i /\ Edit(r)[k] = Do("lock", Series)
  BY <1>1, Distinct DEF LocksChild, WaitsSeries, Do
<1> QED
  BY <1>1, <1>2, <1>3, <1>4, <1>5, <1>6 DEF Request, Shape, InOrder, BumpsLast, SeriesFirst

LEMMA RemindShape == Request(Remind) /\ InOrder(Remind)
<1>1. /\ Remind \in Seq(Statements) /\ Len(Remind) = 3 /\ Remind[1] = Do("load", Series)
      /\ Remind[2] = Do("touch", Series) /\ Remind[3] = Do("bump", Revision)
  BY DEF Remind, Bump, Do, Statements, Lockable, Rows, Ops
<1> HIDE DEF Remind
<1>2. \A i \in 1..3 : Addressed(Remind[i])
  BY <1>1, Distinct DEF Addressed, Do
<1>3. \A i \in 2..3 : Prepared(Remind[i - 1], Remind[i])
  BY <1>1, Distinct DEF Prepared, Do
<1>4. \A i \in 1..3 : Remind[i].op = "children" => Swept(Remind, i)
  BY <1>1, Distinct DEF Swept, Do
<1>5. HasBump(Remind) /\ Len(Remind) > 0 /\ Remind[1].op \in {"load", "lock"}
  BY <1>1 DEF HasBump, Do
<1>6. /\ \A i, j \in 1..3 : i < j /\ Remind[i].op = "bump" => Remind[j].op = "bump"
      /\ \A i, j \in 1..3 :
             i < j /\ LocksChild(Remind[i]) /\ WaitsSeries(Remind[j]) =>
                 \E k \in 1..3 : k < i /\ Remind[k] = Do("lock", Series)
  BY <1>1, Distinct DEF LocksChild, WaitsSeries, Do
<1> QED
  BY <1>1, <1>2, <1>3, <1>4, <1>5, <1>6 DEF Request, Shape, InOrder, BumpsLast, SeriesFirst

LEMMA RekeyShape == Request(Rekey)
<1>1. /\ Rekey \in Seq(Statements) /\ Len(Rekey) = 7 /\ Rekey[1] = Do("load", Series)
      /\ Rekey[2] = Do("compare", Series) /\ Rekey[3] = Do("write", Series)
      /\ Rekey[4] = Do("bump", Revision) /\ Rekey[5] = Do("children", Child)
      /\ Rekey[6] = Do("compare", Child) /\ Rekey[7] = Do("write", Child)
  BY DEF Rekey, Sweep, Save, Bump, Do, Statements, Lockable, Rows, Ops
<1> HIDE DEF Rekey
<1>2. \A i \in 1..7 : Addressed(Rekey[i])
  BY <1>1, Distinct DEF Addressed, Do
<1>3. \A i \in 2..7 : Prepared(Rekey[i - 1], Rekey[i])
  BY <1>1, Distinct DEF Prepared, Do
<1>4. \A i \in 1..7 : Rekey[i].op = "children" => Swept(Rekey, i)
  BY <1>1, Distinct DEF Swept, Do
<1>5. HasBump(Rekey) /\ Len(Rekey) > 0 /\ Rekey[1].op \in {"load", "lock"}
  BY <1>1 DEF HasBump, Do
<1> QED
  BY <1>1, <1>2, <1>3, <1>4, <1>5 DEF Request, Shape

LEMMA CutShape == Request(Cut) /\ InOrder(Cut)
<1>1. /\ Cut \in Seq(Statements) /\ Len(Cut) = 7 /\ Cut[1] = Do("load", Series)
      /\ Cut[2] = Do("compare", Series) /\ Cut[3] = Do("write", Series)
      /\ Cut[4] = Do("children", Child) /\ Cut[5] = Do("compare", Child)
      /\ Cut[6] = Do("write", Child) /\ Cut[7] = Do("bump", Revision)
  BY DEF Cut, Sweep, Save, Bump, Do, Statements, Lockable, Rows, Ops
<1> HIDE DEF Cut
<1>2. \A i \in 1..7 : Addressed(Cut[i])
  BY <1>1, Distinct DEF Addressed, Do
<1>3. \A i \in 2..7 : Prepared(Cut[i - 1], Cut[i])
  BY <1>1, Distinct DEF Prepared, Do
<1>4. \A i \in 1..7 : Cut[i].op = "children" => Swept(Cut, i)
  BY <1>1, Distinct DEF Swept, Do
<1>5. HasBump(Cut) /\ Len(Cut) > 0 /\ Cut[1].op \in {"load", "lock"}
  BY <1>1 DEF HasBump, Do
<1>6. /\ \A i, j \in 1..7 : i < j /\ Cut[i].op = "bump" => Cut[j].op = "bump"
      /\ \A i, j \in 1..7 :
             i < j /\ LocksChild(Cut[i]) /\ WaitsSeries(Cut[j]) =>
                 \E k \in 1..7 : k < i /\ Cut[k] = Do("lock", Series)
  BY <1>1, Distinct DEF LocksChild, WaitsSeries, Do
<1> QED
  BY <1>1, <1>2, <1>3, <1>4, <1>5, <1>6 DEF Request, Shape, InOrder, BumpsLast, SeriesFirst

LEMMA OverrideShape == Request(Override) /\ InOrder(Override)
<1>1. /\ Override \in Seq(Statements) /\ Len(Override) = 8 /\ Override[1] = Do("lock", Series)
      /\ Override[2] = Do("find", Child) /\ Override[3] = Do("touch", Series)
      /\ Override[4] = Do("load", Child) /\ Override[5] = Do("compare", Child)
      /\ Override[6] = Do("write", Child) /\ Override[7] = Do("bump", Revision)
      /\ Override[8] = Do("bump", Revision)
  BY DEF Override, Edit, Save, Bump, Do, Statements, Lockable, Rows, Ops
<1> HIDE DEF Override
<1>2. \A i \in 1..8 : Addressed(Override[i])
  BY <1>1, Distinct DEF Addressed, Do
<1>3. \A i \in 2..8 : Prepared(Override[i - 1], Override[i])
  BY <1>1, Distinct DEF Prepared, Do
<1>4. \A i \in 1..8 : Override[i].op = "children" => Swept(Override, i)
  BY <1>1, Distinct DEF Swept, Do
<1>5. HasBump(Override) /\ Len(Override) > 0 /\ Override[1].op \in {"load", "lock"}
  BY <1>1 DEF HasBump, Do
<1>6. /\ \A i, j \in 1..8 : i < j /\ Override[i].op = "bump" => Override[j].op = "bump"
      /\ \A i, j \in 1..8 :
             i < j /\ LocksChild(Override[i]) /\ WaitsSeries(Override[j]) =>
                 \E k \in 1..8 : k < i /\ Override[k] = Do("lock", Series)
  BY <1>1, Distinct DEF LocksChild, WaitsSeries, Do
<1> QED
  BY <1>1, <1>2, <1>3, <1>4, <1>5, <1>6 DEF Request, Shape, InOrder, BumpsLast, SeriesFirst

LEMMA AbsorbShape == Request(Absorb) /\ InOrder(Absorb)
<1>1. /\ Absorb \in Seq(Statements) /\ Len(Absorb) = 10 /\ Absorb[1] = Do("lock", Series)
      /\ Absorb[2] = Do("find", Child) /\ Absorb[3] = Do("compare", Child)
      /\ Absorb[4] = Do("write", Child) /\ Absorb[5] = Do("touch", Series)
      /\ Absorb[6] = Do("load", Child) /\ Absorb[7] = Do("compare", Child)
      /\ Absorb[8] = Do("write", Child) /\ Absorb[9] = Do("bump", Revision)
      /\ Absorb[10] = Do("bump", Revision)
  BY DEF Absorb, Edit, Save, Bump, Do, Statements, Lockable, Rows, Ops
<1> HIDE DEF Absorb
<1>2. \A i \in 1..10 : Addressed(Absorb[i])
  BY <1>1, Distinct DEF Addressed, Do
<1>3. \A i \in 2..10 : Prepared(Absorb[i - 1], Absorb[i])
  BY <1>1, Distinct DEF Prepared, Do
<1>4. \A i \in 1..10 : Absorb[i].op = "children" => Swept(Absorb, i)
  BY <1>1, Distinct DEF Swept, Do
<1>5. HasBump(Absorb) /\ Len(Absorb) > 0 /\ Absorb[1].op \in {"load", "lock"}
  BY <1>1 DEF HasBump, Do
<1>6. /\ \A i, j \in 1..10 : i < j /\ Absorb[i].op = "bump" => Absorb[j].op = "bump"
      /\ \A i, j \in 1..10 :
             i < j /\ LocksChild(Absorb[i]) /\ WaitsSeries(Absorb[j]) =>
                 \E k \in 1..10 : k < i /\ Absorb[k] = Do("lock", Series)
  BY <1>1, Distinct DEF LocksChild, WaitsSeries, Do
<1> QED
  BY <1>1, <1>2, <1>3, <1>4, <1>5, <1>6 DEF Request, Shape, InOrder, BumpsLast, SeriesFirst

LEMMA RemoveChildShape == Request(RemoveChild)
<1>1. /\ RemoveChild \in Seq(Statements) /\ Len(RemoveChild) = 5
      /\ RemoveChild[1] = Do("load", Child) /\ RemoveChild[2] = Do("bury", Child)
      /\ RemoveChild[3] = Do("write", Child) /\ RemoveChild[4] = Do("touch", Series)
      /\ RemoveChild[5] = Do("bump", Revision)
  BY DEF RemoveChild, Bury, Bump, Do, Statements, Lockable, Rows, Ops
<1> HIDE DEF RemoveChild
<1>2. \A i \in 1..5 : Addressed(RemoveChild[i])
  BY <1>1, Distinct DEF Addressed, Do
<1>3. \A i \in 2..5 : Prepared(RemoveChild[i - 1], RemoveChild[i])
  BY <1>1, Distinct DEF Prepared, Do
<1>4. \A i \in 1..5 : RemoveChild[i].op = "children" => Swept(RemoveChild, i)
  BY <1>1, Distinct DEF Swept, Do
<1>5. HasBump(RemoveChild) /\ Len(RemoveChild) > 0 /\ RemoveChild[1].op \in {"load", "lock"}
  BY <1>1 DEF HasBump, Do
<1> QED
  BY <1>1, <1>2, <1>3, <1>4, <1>5 DEF Request, Shape

LEMMA RemoveSeriesShape == Request(RemoveSeries) /\ InOrder(RemoveSeries)
<1>1. /\ RemoveSeries \in Seq(Statements) /\ Len(RemoveSeries) = 7
      /\ RemoveSeries[1] = Do("load", Series) /\ RemoveSeries[2] = Do("bury", Series)
      /\ RemoveSeries[3] = Do("write", Series) /\ RemoveSeries[4] = Do("children", Child)
      /\ RemoveSeries[5] = Do("bury", Child) /\ RemoveSeries[6] = Do("write", Child)
      /\ RemoveSeries[7] = Do("bump", Revision)
  BY DEF RemoveSeries, Bury, Bump, Do, Statements, Lockable, Rows, Ops
<1> HIDE DEF RemoveSeries
<1>2. \A i \in 1..7 : Addressed(RemoveSeries[i])
  BY <1>1, Distinct DEF Addressed, Do
<1>3. \A i \in 2..7 : Prepared(RemoveSeries[i - 1], RemoveSeries[i])
  BY <1>1, Distinct DEF Prepared, Do
<1>4. \A i \in 1..7 : RemoveSeries[i].op = "children" => Swept(RemoveSeries, i)
  BY <1>1, Distinct DEF Swept, Do
<1>5. HasBump(RemoveSeries) /\ Len(RemoveSeries) > 0 /\ RemoveSeries[1].op \in {"load", "lock"}
  BY <1>1 DEF HasBump, Do
<1>6. /\ \A i, j \in 1..7 : i < j /\ RemoveSeries[i].op = "bump" => RemoveSeries[j].op = "bump"
      /\ \A i, j \in 1..7 :
             i < j /\ LocksChild(RemoveSeries[i]) /\ WaitsSeries(RemoveSeries[j]) =>
                 \E k \in 1..7 : k < i /\ RemoveSeries[k] = Do("lock", Series)
  BY <1>1, Distinct DEF LocksChild, WaitsSeries, Do
<1> QED
  BY <1>1, <1>2, <1>3, <1>4, <1>5, <1>6 DEF Request, Shape, InOrder, BumpsLast, SeriesFirst

LEMMA RequestsShaped ==
    ASSUME NEW q \in Requests 
    PROVE  /\ q[1] \in Kinds \ {"idle"} /\ Request(q[2])
           /\ q[1] \notin {"rekey", "removeChild"} => InOrder(q[2])
BY EditShape, RemindShape, RekeyShape, CutShape, OverrideShape, AbsorbShape, RemoveChildShape,
   RemoveSeriesShape DEF Requests, Kinds

\* What is left after n statements.
LEMMA RestOf ==
    ASSUME NEW S, NEW left \in Seq(S), NEW n \in 1..Len(left)
    PROVE  /\ SubSeq(left, n + 1, Len(left)) \in Seq(S)
           /\ Len(SubSeq(left, n + 1, Len(left))) = Len(left) - n
           /\ \A i \in 1..Len(left) - n : SubSeq(left, n + 1, Len(left))[i] = left[i + n]
<1>1. Len(left) \in Nat /\ n + 1 \in Int /\ \A i \in n + 1..Len(left) : left[i] \in S
  BY ElementOfSeq, LenProperties
<1>2. /\ SubSeq(left, n + 1, Len(left)) \in Seq(S)
      /\ Len(SubSeq(left, n + 1, Len(left))) = IF n + 1 <= Len(left) THEN Len(left) - (n + 1) + 1 ELSE 0
      /\ \A i \in 1..Len(left) - (n + 1) + 1 :
             SubSeq(left, n + 1, Len(left))[i] = left[n + 1 + i - 1]
  BY <1>1, SubSeqProperties
<1> QED
  BY <1>1, <1>2

LEMMA ShapeRest ==
    ASSUME NEW left, Shape(left), NEW n \in 1..Len(left)
    PROVE  Shape(SubSeq(left, n + 1, Len(left)))
<1> DEFINE rest == SubSeq(left, n + 1, Len(left))
           m == Len(rest)
           k == Len(left)
<1>1. /\ rest \in Seq(Statements) /\ m = k - n /\ k \in Nat
      /\ \A i \in 1..k - n : rest[i] = left[i + n]
  BY RestOf, LenProperties DEF Shape
<1>2. n \in 1..k /\ m \in Nat
  BY <1>1, LenProperties
<1>3. /\ \A i \in 1..k : Addressed(left[i])
      /\ \A i \in 2..k : Prepared(left[i - 1], left[i])
      /\ \A i \in 1..k : left[i].op = "children" => Swept(left, i)
  BY DEF Shape
<1> HIDE DEF rest, m, k
<1>4. \A i \in 1..m : Addressed(rest[i])
  BY <1>1, <1>2, <1>3
<1>5. ASSUME NEW i \in 2..m PROVE Prepared(rest[i - 1], rest[i])
  <2>1. i + n \in 2..k /\ rest[i] = left[i + n] /\ rest[i - 1] = left[(i + n) - 1]
    BY <1>1, <1>2
  <2> QED
    BY <2>1, <1>3
<1>6. ASSUME NEW i \in 1..m, rest[i].op = "children" PROVE Swept(rest, i)
  <2>1. i + n \in 1..k /\ rest[i] = left[i + n]
    BY <1>1, <1>2
  <2>2. Swept(left, i + n)
    BY <1>6, <2>1, <1>3
  <2>3. /\ i + n + 2 <= k
        /\ left[i + n + 1].on = Child /\ left[i + n + 2] = Do("write", Child)
        /\ \A j \in 1..k : j > i + n + 2 => left[j].on # Child
    BY <2>2 DEF Swept, k
  <2>4. i + 2 <= m
    BY <1>1, <1>2, <2>3
  <2>5. rest[i + 1].on = Child /\ rest[i + 2] = Do("write", Child)
    BY <1>1, <1>2, <2>3
  <2>6. ASSUME NEW j \in 1..m, j > i + 2 PROVE rest[j].on # Child
    <3>1. j + n \in 1..k /\ j + n > i + n + 2 /\ rest[j] = left[j + n]
      BY <1>1, <1>2, <2>6
    <3> QED
      BY <2>3, <3>1
  <2> QED
    BY <2>4, <2>5, <2>6 DEF Swept, m
<1> QED
  BY <1>1, <1>4, <1>5, <1>6 DEF Shape, rest, m

\* The rest of a request bumps unless its bump is behind it.
LEMMA BumpRest ==
    ASSUME NEW left \in Seq(Statements), NEW n \in 1..Len(left), HasBump(left),
           \A i \in 1..n : left[i].op # "bump"
    PROVE  HasBump(SubSeq(left, n + 1, Len(left)))
<1> DEFINE rest == SubSeq(left, n + 1, Len(left))
<1>1. /\ Len(rest) = Len(left) - n /\ Len(left) \in Nat
      /\ \A i \in 1..Len(rest) : rest[i] = left[i + n]
  BY RestOf, LenProperties
<1> HIDE DEF rest
<1>2. PICK i \in 1..Len(left) : left[i].op = "bump"
  BY DEF HasBump
<1>3. i - n \in 1..Len(rest) /\ rest[i - n] = left[i]
  BY <1>1, <1>2
<1> QED
  BY <1>2, <1>3 DEF HasBump, rest

-----------------------------------------------------------------------------
(* What holds of a transaction between its statements                       *)

\* What a transaction has written of a row: stamped since it began, unless its updatedAt
\* is an old copy's; deleted since then, or as it was.
Written(x, r) ==
    LET w == x.out[r]
    IN  w # None =>
            /\ w.stale \/ w.updatedAt >= x.began
            /\ \/ w.deletedAt = 0 \/ w.deletedAt >= x.began
               \/ w.deletedAt = row[r].is.deletedAt

\* What a statement needs of the transaction that issues it.
Owed(x, s) ==
    /\ s.op = "write" =>
           /\ x.copy[s.on] # None /\ x.seen[s.on] # None
           /\ x.copy[s.on].deletedAt = 0 \/ x.copy[s.on].deletedAt >= x.began
    /\ s.op \in {"compare", "bury"} => x.copy[s.on] # None /\ x.copy[s.on].deletedAt = 0

Ready(t) ==
    txn[t].left # <<>> =>
        /\ Owed(txn[t], Head(txn[t].left))
        /\ Head(txn[t].left).op = "find" => lock[Series] = t

\* A row that does not exist is loaded by nobody but its inserter.
Found(x) == x.copy[Child] # None /\ row[Child].ver = 0 => x.out[Child] # None

TxnInv(t) ==
    Active(t) =>
        /\ Shape(txn[t].left)
        /\ txn[t].bumped \/ HasBump(txn[t].left)
        /\ txn[t].began <= txn[t].at /\ txn[t].at <= now /\ now - txn[t].began <= Span
        /\ \A r \in Rows : Written(txn[t], r)
        /\ Ready(t) /\ Found(txn[t])

\* Who inserts the child holds the series.
Inserts == \A t \in Clients : lock[Child] = t /\ row[Child].ver = 0 => lock[Series] = t

Acting == {t \in Clients : Active(t)}

\* Each transaction adds at most one to the revision and to the version of a row.
Counted ==
    /\ IsFiniteSet(Acting)
    /\ rev + Cardinality(Acting) <= served
    /\ \A r \in Rows : row[r].ver + Cardinality(Acting) <= served + 1

CoreInv == TypeOK /\ Counted /\ Inserts /\ \A t \in Clients : TxnInv(t)

\* The first statement, and what is left after it.
LEMMA Statement1 ==
    ASSUME NEW left, Shape(left), left # <<>>
    PROVE  /\ Len(left) \in Nat /\ 1 \in 1..Len(left) /\ Head(left) = left[1]
           /\ Head(left) \in Statements /\ Addressed(Head(left))
<1>1. left \in Seq(Statements)
  BY DEF Shape
<1>2. Len(left) \in Nat /\ Len(left) # 0
  BY <1>1, EmptySeq, LenProperties
<1>3. Head(left) = left[1] /\ Head(left) \in Statements
  BY <1>1, HeadTailProperties, ElementOfSeq, <1>2
<1> QED
  BY <1>2, <1>3 DEF Shape

LEMMA NextPrepared ==
    ASSUME NEW left, Shape(left), NEW n \in 1..Len(left),
           SubSeq(left, n + 1, Len(left)) # <<>>
    PROVE  /\ n + 1 \in 1..Len(left)
           /\ Head(SubSeq(left, n + 1, Len(left))) = left[n + 1]
           /\ Prepared(left[n], left[n + 1])
<1> DEFINE rest == SubSeq(left, n + 1, Len(left))
<1>1. /\ rest \in Seq(Statements) /\ Len(rest) = Len(left) - n /\ Len(left) \in Nat
      /\ \A i \in 1..Len(left) - n : rest[i] = left[i + n]
  BY RestOf, LenProperties DEF Shape
<1>2. Len(rest) \in Nat /\ Len(rest) # 0
  BY <1>1, EmptySeq, LenProperties
<1>3. Head(rest) = rest[1]
  BY <1>1, <1>2, HeadTailProperties
<1>4. n + 1 \in 2..Len(left) /\ n = (n + 1) - 1
  BY <1>1, <1>2
<1>5. rest[1] = left[n + 1]
  BY <1>1, <1>4
<1>6. Prepared(left[(n + 1) - 1], left[n + 1])
  BY <1>4 DEF Shape
<1> QED
  BY <1>3, <1>4, <1>5, <1>6

\* A statement of t changes the transaction of t only.
LEMMA AdvanceEffect ==
    ASSUME TypeOK, NEW t \in Clients, NEW new \in Txn, new.left = txn[t].left,
           NEW n \in 1..Len(new.left), Advance(t, n, new)
    PROVE  /\ txn' \in [Clients -> Txn]
           /\ \A u \in Clients : u # t => txn'[u] = txn[u]
           /\ txn'[t].kind = new.kind /\ txn'[t].began = new.began /\ txn'[t].at = now
           /\ txn'[t].left = SubSeq(new.left, n + 1, Len(new.left))
           /\ txn'[t].copy = new.copy /\ txn'[t].seen = new.seen
           /\ txn'[t].out = new.out /\ txn'[t].bumped = new.bumped
<1> DEFINE rest == SubSeq(new.left, n + 1, Len(new.left))
<1>1. new.left \in Seq(Statements)
  BY DEF Txn, Statements
<1>2. rest \in Seq(Statements)
  BY <1>1, RestOf
<1>3. now \in Times
  BY SyncConstants DEF TypeOK, Times, Start
<1>4. txn' = [txn EXCEPT ![t] = [new EXCEPT !.left = rest, !.at = now]]
  BY DEF Advance
<1> HIDE DEF rest
<1>5. [new EXCEPT !.left = rest, !.at = now] \in Txn
  BY <1>2, <1>3 DEF Txn, Statements
<1>6. txn \in [Clients -> Txn]
  BY DEF TypeOK
<1>7. /\ txn' \in [Clients -> Txn] /\ \A u \in Clients : u # t => txn'[u] = txn[u]
      /\ txn'[t] = [new EXCEPT !.left = rest, !.at = now]
  BY <1>4, <1>5, <1>6
<1> QED
  BY <1>7 DEF Txn, rest

\* Other transactions keep what they hold; the clock and the rows stand.
LEMMA OthersKeep ==
    ASSUME NEW u \in Clients, TxnInv(u), txn'[u] = txn[u], now' = now, row' = row,
           lock[Series] = u => lock'[Series] = u
    PROVE  TxnInv(u)'
BY DEF TxnInv, Active, Written, Ready, Found, Shape, HasBump, Swept

\* A statement that keeps its part keeps the whole.
LEMMA StatementStep ==
    ASSUME CoreInv, NEW t \in Clients, Active(t),
           NEW new \in Txn, new.left = txn[t].left, new.kind = txn[t].kind,
           new.began = txn[t].began,
           NEW n \in 1..Len(new.left), Advance(t, n, new),
           UNCHANGED <<now, row, rev, app, served, faults>>,
           lock' \in [Lockable -> Clients \cup {None}],
           \A l \in Lockable : lock'[l] = lock[l] \/ (CanLock(t, l) /\ lock'[l] = t),
           \A r \in Rows : (new.out[r] # None => lock'[r] = t) /\ Written(new, r),
           new.bumped => lock'[Revision] = t,
           new.bumped \/ HasBump(SubSeq(new.left, n + 1, Len(new.left))),
           SubSeq(new.left, n + 1, Len(new.left)) # <<>> =>
               /\ Owed(new, new.left[n + 1])
               /\ new.left[n + 1].op = "find" => lock'[Series] = t,
           Found(new),
           lock'[Child] = t /\ row[Child].ver = 0 => lock'[Series] = t
    PROVE  CoreInv'
<1> DEFINE rest == SubSeq(new.left, n + 1, Len(new.left))
<1>1. TypeOK /\ Counted /\ Inserts /\ TxnInv(t) /\ \A u \in Clients : TxnInv(u)
  BY DEF CoreInv
<1>2. /\ txn' \in [Clients -> Txn]
      /\ \A u \in Clients : u # t => txn'[u] = txn[u]
      /\ txn'[t].kind = new.kind /\ txn'[t].began = new.began /\ txn'[t].at = now
      /\ txn'[t].left = rest
      /\ txn'[t].copy = new.copy /\ txn'[t].seen = new.seen
      /\ txn'[t].out = new.out /\ txn'[t].bumped = new.bumped
  BY <1>1, AdvanceEffect
<1>3. Shape(new.left) /\ Shape(rest)
  BY <1>1, ShapeRest DEF TxnInv
<1>4. rest # <<>> => Head(rest) = new.left[n + 1]
  BY <1>3, NextPrepared
<1>5. \A u \in Clients : Active(u)' <=> Active(u)
  BY <1>2 DEF Active
<1>6. \A l \in Lockable, u \in Clients : u # t => (lock'[l] = u <=> lock[l] = u)
  BY SyncConstants DEF CanLock
<1>7. Series \in Lockable /\ Child \in Lockable /\ Revision \in Lockable /\ Child \in Rows
  BY DEF Lockable, Rows
<1>8. TypeOK'
  <2>1. (\A l \in Lockable : lock[l] # None => Active(lock[l]))'
    <3> SUFFICES ASSUME NEW l \in Lockable, lock'[l] # None
                 PROVE  txn'[lock'[l]].kind # "idle"
      BY DEF Active
    <3>1. PICK h \in Clients : h = lock'[l]
      OBVIOUS
    <3>2. txn[h].kind # "idle"
      BY <1>1, <3>1 DEF Active, TypeOK
    <3> QED
      BY <1>2, <3>1, <3>2
  <2>2. \A u \in Clients : /\ \A r \in Rows : txn'[u].out[r] # None => lock'[r] = u
                           /\ txn'[u].bumped => lock'[Revision] = u
    BY <1>1, <1>2, <1>6, <1>7 DEF TypeOK, Lockable
  <2>3. /\ now' \in Start..MaxTime /\ row' \in [Rows -> Row] /\ rev' \in 0..MaxRequests
        /\ app' \in App /\ served' \in 0..MaxRequests /\ faults' \in 0..MaxFaults
    BY <1>1 DEF TypeOK
  <2> QED
    BY <1>2, <2>1, <2>2, <2>3 DEF TypeOK
<1>9. Counted'
  <2>1. Acting' = Acting
    BY <1>5 DEF Acting
  <2> QED
    BY <1>1, <2>1 DEF Counted
<1>10. Inserts'
  BY <1>1, <1>6, <1>7 DEF Inserts
<1>11. TxnInv(t)'
  <2>1. now \in Int /\ txn[t].began <= now /\ now - txn[t].began <= Span
    BY <1>1, SyncConstants DEF TxnInv, TypeOK, Start, Txn, Times
  <2>2. \A r \in Rows : Written(txn[t], r)'
    BY <1>2 DEF Written
  <2>3. Ready(t)'
    <3> HIDE DEF rest
    <3>1. CASE rest # <<>>
      <4>1. Owed(new, Head(rest)) /\ (Head(rest).op = "find" => lock'[Series] = t)
        BY <1>4, <3>1 DEF rest
      <4>2. Owed(txn'[t], Head(rest))
        BY <4>1, <1>2 DEF Owed
      <4> QED
        BY <1>2, <4>1, <4>2 DEF Ready, Owed
    <3> QED
      BY <1>2, <3>1 DEF Ready
  <2>4. Found(txn[t])'
    BY <1>2 DEF Found
  <2>5. Shape(txn[t].left)' /\ (txn[t].bumped \/ HasBump(txn[t].left))'
    BY <1>2, <1>3
  <2> QED
    BY <1>2, <2>1, <2>2, <2>3, <2>4, <2>5 DEF TxnInv
<1>12. ASSUME NEW u \in Clients, u # t PROVE TxnInv(u)'
  BY <1>1, <1>2, <1>6, <1>7, <1>12, OthersKeep
<1> QED
  BY <1>8, <1>9, <1>10, <1>11, <1>12 DEF CoreInv

LEMMA IdleOK == Idle \in Txn
<1>1. <<>> \in Seq(Statements)
  OBVIOUS
<1>2. Nothing \in [Rows -> Stamps \cup {None}]
  BY DEF Nothing
<1>3. 0 \in Times
  BY SyncConstants DEF Times, Start
<1> QED
  BY <1>1, <1>2, <1>3 DEF Idle, Txn, Kinds, Statements

\* A transaction that ends leaves the others and their locks.
LEMMA EndEffect ==
    ASSUME TypeOK, NEW t \in Clients, Ended(t)
    PROVE  /\ txn' \in [Clients -> Txn] /\ txn'[t] = Idle
           /\ \A u \in Clients : u # t => txn'[u] = txn[u]
           /\ lock' \in [Lockable -> Clients \cup {None}]
           /\ \A l \in Lockable : lock'[l] # t
           /\ \A l \in Lockable, u \in Clients : u # t => (lock'[l] = u <=> lock[l] = u)
           /\ (\A l \in Lockable : lock[l] # None => Active(lock[l]))'
           /\ (\A u \in Clients :
                  /\ \A r \in Rows : txn[u].out[r] # None => lock[r] = u
                  /\ txn[u].bumped => lock[Revision] = u)'
           /\ Acting' = Acting \ {t}
<1>1. txn' \in [Clients -> Txn] /\ txn'[t] = Idle /\ \A u \in Clients : u # t => txn'[u] = txn[u]
  BY IdleOK DEF Ended, TypeOK
<1>2. lock' \in [Lockable -> Clients \cup {None}]
  BY DEF Ended, TypeOK
<1>3. /\ \A l \in Lockable : lock'[l] # t
      /\ \A l \in Lockable, u \in Clients : u # t => (lock'[l] = u <=> lock[l] = u)
  BY SyncConstants DEF Ended, TypeOK
<1>4. (\A l \in Lockable : lock[l] # None => Active(lock[l]))'
  <2> SUFFICES ASSUME NEW l \in Lockable, lock'[l] # None
               PROVE  txn'[lock'[l]].kind # "idle"
    BY DEF Active
  <2>1. PICK h \in Clients : h = lock'[l] /\ h # t
    BY <1>2, <1>3
  <2>2. txn[h].kind # "idle"
    BY <1>3, <2>1, SyncConstants DEF Active, TypeOK
  <2> QED
    BY <1>1, <2>1, <2>2
<1>5. ASSUME NEW u \in Clients
      PROVE  /\ \A r \in Rows : txn'[u].out[r] # None => lock'[r] = u
             /\ txn'[u].bumped => lock'[Revision] = u
  <2>1. CASE u = t
    BY <1>1, <2>1 DEF Idle, Nothing
  <2>2. CASE u # t
    BY <1>1, <1>3, <2>2 DEF TypeOK, Lockable
  <2> QED
    BY <2>1, <2>2
<1>6. Acting' = Acting \ {t}
  BY <1>1 DEF Acting, Active, Idle
<1> QED
  BY <1>1, <1>2, <1>3, <1>4, <1>5, <1>6

\* One transaction fewer.
LEMMA OneFewer ==
    ASSUME IsFiniteSet(Acting), NEW t \in Clients, Active(t), Acting' = Acting \ {t}
    PROVE  /\ IsFiniteSet(Acting') /\ Cardinality(Acting) \in Nat
           /\ Cardinality(Acting') = Cardinality(Acting) - 1
<1>1. t \in Acting
  BY DEF Acting
<1> HIDE DEF Acting
<1>2. /\ IsFiniteSet(Acting \ {t})
      /\ Cardinality(Acting \ {t}) = IF t \in Acting THEN Cardinality(Acting) - 1
                                     ELSE Cardinality(Acting)
  BY FS_RemoveElement
<1>3. Cardinality(Acting) \in Nat
  BY FS_CardinalityType
<1> QED
  BY <1>1, <1>2, <1>3

LEMMA RollsBack ==
    ASSUME CoreInv, NEW t \in Clients, Active(t), RolledBack(t), faults' \in 0..MaxFaults
    PROVE  CoreInv'
<1>1. TypeOK /\ Counted /\ Inserts /\ \A u \in Clients : TxnInv(u)
  BY DEF CoreInv
<1>2. UNCHANGED <<now, row, rev, app, served>> /\ Ended(t)
  BY DEF RolledBack
<1>3. /\ txn' \in [Clients -> Txn] /\ txn'[t] = Idle
      /\ \A u \in Clients : u # t => txn'[u] = txn[u]
      /\ lock' \in [Lockable -> Clients \cup {None}]
      /\ \A l \in Lockable : lock'[l] # t
      /\ \A l \in Lockable, u \in Clients : u # t => (lock'[l] = u <=> lock[l] = u)
      /\ (\A l \in Lockable : lock[l] # None => Active(lock[l]))'
      /\ (\A u \in Clients :
             /\ \A r \in Rows : txn[u].out[r] # None => lock[r] = u
             /\ txn[u].bumped => lock[Revision] = u)'
      /\ Acting' = Acting \ {t}
  BY <1>1, <1>2, EndEffect
<1>4. TypeOK'
  <2>1. /\ now' \in Start..MaxTime /\ row' \in [Rows -> Row] /\ rev' \in 0..MaxRequests
        /\ app' \in App /\ served' \in 0..MaxRequests
    BY <1>1, <1>2 DEF TypeOK
  <2> QED
    BY <1>3, <2>1 DEF TypeOK
<1>5. Counted'
  <2>1. /\ IsFiniteSet(Acting') /\ Cardinality(Acting) \in Nat
        /\ Cardinality(Acting') = Cardinality(Acting) - 1
    BY <1>1, <1>3, OneFewer DEF Counted
  <2>2. rev \in Nat /\ served \in Nat /\ \A r \in Rows : row[r].ver \in Nat
    BY <1>1 DEF TypeOK, Row
  <2> QED
    BY <1>1, <1>2, <2>1, <2>2 DEF Counted
<1>6. Series \in Lockable /\ Child \in Lockable
  BY DEF Lockable, Rows
<1>7. Inserts'
  BY <1>1, <1>2, <1>3, <1>6 DEF Inserts
<1>8. ASSUME NEW u \in Clients PROVE TxnInv(u)'
  <2>1. CASE u = t
    BY <1>3, <2>1 DEF TxnInv, Active, Idle
  <2>2. CASE u # t
    BY <1>1, <1>2, <1>3, <1>6, <2>2, OthersKeep
  <2> QED
    BY <2>1, <2>2
<1> QED
  BY <1>4, <1>5, <1>7, <1>8 DEF CoreInv

\* What is known of a transaction that has a statement to issue.
LEMMA Issues ==
    ASSUME CoreInv, NEW t \in Clients, Active(t), txn[t].left # <<>>
    PROVE  /\ txn[t] \in Txn /\ now \in Times /\ txn[t].at \in 0..now
           /\ txn[t].began \in 0..now /\ txn[t].began <= txn[t].at
           /\ Shape(txn[t].left) /\ Len(txn[t].left) \in Nat /\ 1 \in 1..Len(txn[t].left)
           /\ Head(txn[t].left) = txn[t].left[1] /\ Head(txn[t].left) \in Statements
           /\ Addressed(Head(txn[t].left)) /\ Owed(txn[t], Head(txn[t].left))
           /\ Head(txn[t].left).op = "find" => lock[Series] = t
           /\ \A r \in Rows : Written(txn[t], r) /\ Visible(t, r) \in Stamps
           /\ Found(txn[t])
           /\ txn[t].bumped \/ HasBump(txn[t].left)
<1>1. TypeOK /\ TxnInv(t) /\ txn[t] \in Txn
  BY DEF CoreInv, TypeOK
<1>2. Shape(txn[t].left)
  BY <1>1 DEF TxnInv
<1>3. /\ Len(txn[t].left) \in Nat /\ 1 \in 1..Len(txn[t].left)
      /\ Head(txn[t].left) = txn[t].left[1] /\ Head(txn[t].left) \in Statements
      /\ Addressed(Head(txn[t].left))
  BY <1>2, Statement1
<1>4. /\ Owed(txn[t], Head(txn[t].left))
      /\ Head(txn[t].left).op = "find" => lock[Series] = t
  BY <1>1 DEF TxnInv, Ready
<1>5. now \in Times /\ txn[t].at \in 0..now /\ txn[t].began \in 0..now /\ txn[t].began <= txn[t].at
  BY <1>1, SyncConstants DEF TypeOK, TxnInv, Txn, Times, Start
<1>6. \A r \in Rows : Visible(t, r) \in Stamps
  BY <1>1 DEF TypeOK, Txn, Row, Visible
<1> QED
  BY <1>1, <1>2, <1>3, <1>4, <1>5, <1>6 DEF TxnInv

\* One statement, from what it leaves to the next.
LEMMA OneStatement ==
    ASSUME CoreInv, NEW t \in Clients, Active(t), txn[t].left # <<>>,
           NEW new \in Txn, new.left = txn[t].left, new.kind = txn[t].kind,
           new.began = txn[t].began, Advance(t, 1, new),
           UNCHANGED <<now, row, rev, app, served, faults>>,
           lock' \in [Lockable -> Clients \cup {None}],
           \A l \in Lockable : lock'[l] = lock[l] \/ (CanLock(t, l) /\ lock'[l] = t),
           \A r \in Rows : (new.out[r] # None => lock'[r] = t) /\ Written(new, r),
           new.bumped => lock'[Revision] = t,
           new.bumped \/ (~txn[t].bumped /\ Head(txn[t].left).op # "bump"),
           \A s \in Statements :
               Prepared(Head(txn[t].left), s) =>
                   Owed(new, s) /\ (s.op = "find" => lock'[Series] = t),
           Found(new),
           lock'[Child] = t /\ row[Child].ver = 0 => lock'[Series] = t
    PROVE  CoreInv'
<1> DEFINE left == txn[t].left
           rest == SubSeq(new.left, 1 + 1, Len(new.left))
<1>1. /\ Shape(left) /\ 1 \in 1..Len(left) /\ Head(left) = left[1]
      /\ txn[t].bumped \/ HasBump(left)
  BY Issues
<1>2. new.bumped \/ HasBump(rest)
  <2>1. CASE new.bumped
    BY <2>1
  <2>2. CASE HasBump(left) /\ Head(left).op # "bump"
    <3>1. left \in Seq(Statements) /\ \A i \in 1..1 : left[i].op # "bump"
      BY <1>1, <2>2 DEF Shape
    <3> QED
      BY <1>1, <2>2, <3>1, BumpRest
  <2> QED
    BY <1>1, <2>1, <2>2
<1>3. rest # <<>> => /\ Owed(new, new.left[1 + 1])
                     /\ new.left[1 + 1].op = "find" => lock'[Series] = t
  <2> SUFFICES ASSUME rest # <<>>
               PROVE  Owed(new, left[2]) /\ (left[2].op = "find" => lock'[Series] = t)
    OBVIOUS
  <2>1. 1 + 1 \in 1..Len(left) /\ Prepared(left[1], left[1 + 1])
    BY <1>1, NextPrepared
  <2>2. left[2] \in Statements
    BY <1>1, <2>1, ElementOfSeq DEF Shape
  <2> QED
    BY <1>1, <2>1, <2>2
<1> QED
  BY <1>1, <1>2, <1>3, StatementStep

-----------------------------------------------------------------------------
(* Each action keeps the invariant                                          *)

LEMMA LoadRowKeeps ==
    ASSUME CoreInv, NEW t \in Clients, LoadRow(t) PROVE CoreInv'
<1> DEFINE r == Target(t)
           s == Head(txn[t].left)
           new == [txn[t] EXCEPT !.copy[r] = Visible(t, r)]
<1>1. Active(t) /\ txn[t].left # <<>> /\ s.op = "load"
  BY DEF LoadRow, Next1
<1>2. /\ txn[t] \in Txn /\ s \in Statements /\ Addressed(s)
      /\ \A q \in Rows : Written(txn[t], q) /\ Visible(t, q) \in Stamps
      /\ Found(txn[t])
  BY <1>1, Issues
<1>3. r = s.on /\ r \in Rows
  BY <1>1, <1>2 DEF Target, Addressed, Statements, Lockable
<1>4. TypeOK /\ Inserts
  BY DEF CoreInv
<1>5. CASE ~Live(t, r)
  BY <1>1, <1>4, <1>5, RollsBack DEF LoadRow, TypeOK
<1>6. CASE Live(t, r)
  <2>1. Advance(t, 1, new) /\ UNCHANGED <<now, row, rev, lock, app, served, faults>>
    BY <1>6 DEF LoadRow
  <2>2. /\ new \in Txn /\ new.left = txn[t].left /\ new.kind = txn[t].kind
        /\ new.began = txn[t].began /\ new.bumped = txn[t].bumped /\ new.out = txn[t].out
        /\ new.copy[r] = Visible(t, r)
        /\ \A q \in Rows : q # r => new.copy[q] = txn[t].copy[q]
    BY <1>2, <1>3 DEF Txn
  <2>3. \A q \in Rows : Written(new, q)
    BY <1>2, <2>2 DEF Written
  <2>4. Found(new)
    BY <1>2, <1>4, <1>6, <2>2 DEF Found, Live, Exists, TypeOK, Row
  <2>5. ASSUME NEW s2 \in Statements, Prepared(s, s2)
        PROVE  Owed(new, s2) /\ s2.op # "find"
    BY <1>1, <1>2, <1>3, <1>6, <2>2, <2>5, SyncConstants DEF Prepared, Owed, Live, Do
  <2> HIDE DEF new, r, s
  <2> QED
    BY <1>1, <1>4, <2>1, <2>2, <2>3, <2>4, <2>5, OneStatement DEF TypeOK, Inserts, s
<1> QED
  BY <1>5, <1>6

LEMMA LockRowKeeps ==
    ASSUME CoreInv, NEW t \in Clients, LockRow(t) PROVE CoreInv'
<1> DEFINE r == Target(t)
           s == Head(txn[t].left)
           new == [txn[t] EXCEPT !.copy[r] = Visible(t, r)]
<1>1. Active(t) /\ txn[t].left # <<>> /\ s.op = "lock" /\ CanLock(t, r)
  BY DEF LockRow, Next1
<1>2. /\ txn[t] \in Txn /\ s \in Statements /\ Addressed(s)
      /\ \A q \in Rows : Written(txn[t], q) /\ Visible(t, q) \in Stamps
      /\ Found(txn[t])
  BY <1>1, Issues
<1>3. r = Series /\ r \in Rows /\ r \in Lockable /\ s.on = Series /\ Child # Series
  BY <1>1, <1>2, Distinct DEF Target, Addressed, Lockable, Rows
<1>4. TypeOK /\ Inserts
  BY DEF CoreInv
<1>5. CASE ~Live(t, r)
  BY <1>1, <1>4, <1>5, RollsBack DEF LockRow, TypeOK
<1>6. CASE Live(t, r)
  <2>1. /\ Advance(t, 1, new) /\ UNCHANGED <<now, row, rev, app, served, faults>>
        /\ lock' = [lock EXCEPT ![r] = t]
    BY <1>6 DEF LockRow
  <2>2. /\ new \in Txn /\ new.left = txn[t].left /\ new.kind = txn[t].kind
        /\ new.began = txn[t].began /\ new.bumped = txn[t].bumped /\ new.out = txn[t].out
        /\ new.copy[r] = Visible(t, r)
        /\ \A q \in Rows : q # r => new.copy[q] = txn[t].copy[q]
    BY <1>2, <1>3 DEF Txn
  <2>3. \A q \in Rows : Written(new, q)
    BY <1>2, <2>2 DEF Written
  <2>4. Found(new)
    BY <1>2, <1>3, <2>2 DEF Found, Rows
  <2>5. ASSUME NEW s2 \in Statements, Prepared(s, s2) PROVE Owed(new, s2)
    BY <1>1, <2>5 DEF Prepared, Owed
  <2>6. /\ lock' \in [Lockable -> Clients \cup {None}] /\ lock'[Series] = t
        /\ \A l \in Lockable : lock'[l] = lock[l] \/ (CanLock(t, l) /\ lock'[l] = t)
    BY <1>1, <1>3, <1>4, <2>1 DEF TypeOK
  <2>7. /\ \A q \in Rows : txn[t].out[q] # None => lock'[q] = t
        /\ txn[t].bumped => lock'[Revision] = t
    BY <1>4, <1>3, <2>1, <2>6, Distinct DEF TypeOK, Lockable
  <2> HIDE DEF new, r, s
  <2> QED
    BY <1>1, <2>1, <2>2, <2>3, <2>4, <2>5, <2>6, <2>7, OneStatement DEF s
<1> QED
  BY <1>5, <1>6

\* The insert of the child waits for nobody.
LEMMA InsertLock ==
    ASSUME CoreInv, NEW t \in Clients, lock[Series] = t, ~Exists(t, Child)
    PROVE  CanLock(t, Child)
<1>1. TypeOK /\ Inserts /\ Child \in Rows /\ Child \in Lockable
  BY DEF CoreInv, Lockable, Rows
<1>2. row[Child].ver = 0
  BY <1>1 DEF Exists, TypeOK, Row
<1>3. \A u \in Clients : lock[Child] = u => u = t
  BY <1>1, <1>2 DEF Inserts
<1> QED
  BY <1>1, <1>3 DEF CanLock, TypeOK

LEMMA FindChildKeeps ==
    ASSUME CoreInv, NEW t \in Clients, FindChild(t) PROVE CoreInv'
<1> DEFINE r == Target(t)
           s == Head(txn[t].left)
           made == [updatedAt |-> txn[t].began, deletedAt |-> 0, stale |-> FALSE]
<1>1. Active(t) /\ txn[t].left # <<>> /\ s.op = "find"
  BY DEF FindChild, Next1
<1>2. /\ txn[t] \in Txn /\ s \in Statements /\ Addressed(s) /\ lock[Series] = t
      /\ \A q \in Rows : Written(txn[t], q) /\ Visible(t, q) \in Stamps
      /\ Found(txn[t])
  BY <1>1, Issues
<1>3. r = Child /\ r \in Rows /\ r \in Lockable /\ s.on = Child /\ Child # Series
  BY <1>1, <1>2, Distinct DEF Target, Addressed, Lockable, Rows
<1>4. TypeOK /\ Inserts
  BY DEF CoreInv
<1>5. CASE Exists(t, r) /\ ~Live(t, r) /\ RolledBack(t) /\ UNCHANGED faults
  BY <1>1, <1>4, <1>5, RollsBack DEF TypeOK
<1>6. CASE /\ Live(t, r) /\ Advance(t, 1, [txn[t] EXCEPT !.copy[r] = Visible(t, r)])
           /\ UNCHANGED <<now, row, rev, lock, app, served, faults>>
  <2> DEFINE new == [txn[t] EXCEPT !.copy[r] = Visible(t, r)]
  <2>2. /\ new \in Txn /\ new.left = txn[t].left /\ new.kind = txn[t].kind
        /\ new.began = txn[t].began /\ new.bumped = txn[t].bumped /\ new.out = txn[t].out
        /\ new.copy[r] = Visible(t, r)
        /\ \A q \in Rows : q # r => new.copy[q] = txn[t].copy[q]
    BY <1>2, <1>3 DEF Txn
  <2>3. \A q \in Rows : Written(new, q)
    BY <1>2, <2>2 DEF Written
  <2>4. Found(new)
    BY <1>2, <1>3, <1>4, <1>6, <2>2 DEF Found, Live, Exists, TypeOK, Row
  <2>5. ASSUME NEW s2 \in Statements, Prepared(s, s2)
        PROVE  Owed(new, s2) /\ s2.op # "find"
    BY <1>1, <1>2, <1>3, <1>6, <2>2, <2>5, SyncConstants DEF Prepared, Owed, Live, Do
  <2>6. Advance(t, 1, new) /\ UNCHANGED <<now, row, rev, lock, app, served, faults>>
    BY <1>6
  <2> HIDE DEF new, r, s
  <2> QED
    BY <1>1, <1>4, <2>2, <2>3, <2>4, <2>5, <2>6, OneStatement DEF TypeOK, Inserts, s
<1>7. CASE /\ ~Exists(t, r)
           /\ Advance(t, 1, [txn[t] EXCEPT !.copy[r] = made, !.out[r] = made])
           /\ lock' = [lock EXCEPT ![r] = t]
           /\ UNCHANGED <<now, row, rev, app, served, faults>>
  <2> DEFINE new == [txn[t] EXCEPT !.copy[r] = made, !.out[r] = made]
  <2>0. txn[t].began \in Times /\ 0 \in Times
    BY <1>2, SyncConstants DEF Txn, Times, Start
  <2>1. made \in Stamps /\ made # None
    <3>1. made \in Stamps
      BY <2>0 DEF Stamps
    <3> QED
      BY <3>1, SyncConstants
  <2>2. /\ new \in Txn /\ new.left = txn[t].left /\ new.kind = txn[t].kind
        /\ new.began = txn[t].began /\ new.bumped = txn[t].bumped
        /\ new.copy[r] = made /\ new.out[r] = made
        /\ \A q \in Rows : q # r => /\ new.copy[q] = txn[t].copy[q]
                                    /\ new.out[q] = txn[t].out[q]
    BY <1>2, <1>3, <2>1 DEF Txn
  <2>3. \A q \in Rows : Written(new, q)
    <3>1. Written(new, r)
      BY <1>2, <2>2 DEF Written, Txn, Times
    <3>2. \A q \in Rows : q # r => Written(new, q)
      BY <1>2, <2>2 DEF Written
    <3> QED
      BY <3>1, <3>2
  <2>4. Found(new)
    BY <1>3, <2>1, <2>2 DEF Found
  <2>5. ASSUME NEW s2 \in Statements, Prepared(s, s2) PROVE Owed(new, s2) /\ s2.op # "find"
    BY <1>1, <1>2, <1>3, <2>1, <2>2, <2>5 DEF Prepared, Owed, Do
  <2>6. CanLock(t, Child)
    BY <1>1, <1>2, <1>3, <1>7, InsertLock
  <2>7. /\ lock' \in [Lockable -> Clients \cup {None}] /\ lock'[Series] = t
        /\ \A l \in Lockable : lock'[l] = lock[l] \/ (CanLock(t, l) /\ lock'[l] = t)
    BY <1>2, <1>3, <1>4, <1>7, <2>6 DEF TypeOK, Lockable, Rows
  <2>8. /\ \A q \in Rows : new.out[q] # None => lock'[q] = t
        /\ new.bumped => lock'[Revision] = t
    BY <1>2, <1>3, <1>4, <1>7, <2>2, Distinct DEF TypeOK, Lockable
  <2>9. Advance(t, 1, new) /\ UNCHANGED <<now, row, rev, app, served, faults>>
    BY <1>7
  <2> HIDE DEF new, r, s
  <2> QED
    BY <1>1, <2>2, <2>3, <2>4, <2>5, <2>7, <2>8, <2>9, OneStatement DEF s
<1> QED
  BY <1>5, <1>6, <1>7 DEF FindChild

\* Without a live child, the save of it is passed over.
LEMMA SkipsSave ==
    ASSUME NEW left, Shape(left), left # <<>>, Head(left).op = "children"
    PROVE  /\ 3 \in 1..Len(left) /\ left[1].on = Child /\ left[2].on = Child
           /\ left[3] = Do("write", Child)
           /\ Cardinality({i \in 1..Len(left) : left[i].on = Child}) = 3
<1>1. /\ Len(left) \in Nat /\ 1 \in 1..Len(left) /\ Head(left) = left[1]
      /\ Addressed(Head(left)) /\ Swept(left, 1)
  BY Statement1 DEF Shape
<1>2. /\ 3 \in 1..Len(left) /\ left[1].on = Child /\ left[2].on = Child
      /\ left[3] = Do("write", Child) /\ left[3].on = Child
      /\ \A j \in 1..Len(left) : j > 3 => left[j].on # Child
  BY <1>1 DEF Addressed, Swept, Do
<1>3. {i \in 1..Len(left) : left[i].on = Child} = 1..3
  BY <1>1, <1>2
<1>4. Cardinality(1..3) = 3
  <2>1. 1 \in Int /\ 3 \in Int
    OBVIOUS
  <2>2. Cardinality(1..3) = IF 1 > 3 THEN 0 ELSE 3 - 1 + 1
    BY <2>1, FS_Interval, Zenon
  <2> QED
    BY <2>2
<1> QED
  BY <1>2, <1>3, <1>4

LEMMA LoadChildrenKeeps ==
    ASSUME CoreInv, NEW t \in Clients, LoadChildren(t) PROVE CoreInv'
<1> DEFINE r == Target(t)
           left == txn[t].left
           s == Head(left)
           mine == Cardinality({i \in 1..Len(left) : left[i].on = r})
           new == [txn[t] EXCEPT !.copy[r] = Visible(t, r)]
<1>1. /\ Active(t) /\ left # <<>> /\ s.op = "children"
      /\ UNCHANGED <<now, row, rev, lock, app, served, faults>>
  BY DEF LoadChildren, Next1
<1>2. /\ txn[t] \in Txn /\ s \in Statements /\ Addressed(s) /\ Shape(left)
      /\ \A q \in Rows : Written(txn[t], q) /\ Visible(t, q) \in Stamps
      /\ Found(txn[t]) /\ (txn[t].bumped \/ HasBump(left))
  BY <1>1, Issues
<1>3. r = Child /\ r \in Rows /\ s.on = Child
  BY <1>1, <1>2 DEF Target, Addressed, Lockable, Rows
<1>4. TypeOK /\ Inserts
  BY DEF CoreInv
<1>5. CASE Live(t, r)
  <2>1. Advance(t, 1, new)
    BY <1>5 DEF LoadChildren
  <2>2. /\ new \in Txn /\ new.left = txn[t].left /\ new.kind = txn[t].kind
        /\ new.began = txn[t].began /\ new.bumped = txn[t].bumped /\ new.out = txn[t].out
        /\ new.copy[r] = Visible(t, r)
        /\ \A q \in Rows : q # r => new.copy[q] = txn[t].copy[q]
    BY <1>2, <1>3 DEF Txn
  <2>3. \A q \in Rows : Written(new, q)
    BY <1>2, <2>2 DEF Written
  <2>4. Found(new)
    BY <1>2, <1>3, <1>4, <1>5, <2>2 DEF Found, Live, Exists, TypeOK, Row
  <2>5. ASSUME NEW s2 \in Statements, Prepared(s, s2)
        PROVE  Owed(new, s2) /\ s2.op # "find"
    BY <1>1, <1>2, <1>3, <1>5, <2>2, <2>5, SyncConstants DEF Prepared, Owed, Live, Do
  <2> HIDE DEF new, r, s
  <2> QED
    BY <1>1, <1>4, <2>1, <2>2, <2>3, <2>4, <2>5, OneStatement DEF TypeOK, Inserts, s
<1>6. CASE ~Live(t, r)
  <2>1. /\ 3 \in 1..Len(left) /\ left[1].on = Child /\ left[2].on = Child
        /\ left[3] = Do("write", Child) /\ mine = 3
    BY <1>1, <1>2, <1>3, SkipsSave
  <2>2. Advance(t, 3, txn[t])
    BY <1>6, <2>1 DEF LoadChildren
  <2>3. txn[t].bumped \/ HasBump(SubSeq(left, 3 + 1, Len(left)))
    <3>1. \A i \in 1..3 : left[i].op # "bump"
      <4>1. left \in Seq(Statements) /\ \A i \in 1..Len(left) : Addressed(left[i])
        BY <1>2 DEF Shape
      <4>2. \A i \in 1..3 : i \in 1..Len(left) /\ left[i].on = Child
        BY <2>1, <4>1, LenProperties DEF Do
      <4> QED
        BY <4>1, <4>2, Distinct DEF Addressed
    <3> QED
      BY <1>2, <2>1, <3>1, BumpRest DEF Shape
  <2>4. SubSeq(left, 3 + 1, Len(left)) # <<>> =>
            Owed(txn[t], left[3 + 1]) /\ left[3 + 1].op # "find"
    <3> SUFFICES ASSUME SubSeq(left, 3 + 1, Len(left)) # <<>>
                 PROVE  Owed(txn[t], left[3 + 1]) /\ left[3 + 1].op # "find"
      OBVIOUS
    <3>1. Prepared(left[3], left[3 + 1])
      BY <1>2, <2>1, NextPrepared
    <3> QED
      BY <2>1, <3>1 DEF Prepared, Owed, Do
  <2> HIDE DEF r, s
  <2> QED
    BY <1>1, <1>2, <1>4, <2>1, <2>2, <2>3, <2>4, StatementStep DEF TypeOK, Inserts
<1> QED
  BY <1>5, <1>6

LEMMA CompareKeeps ==
    ASSUME CoreInv, NEW t \in Clients, Compare(t) PROVE CoreInv'
<1> DEFINE r == Target(t)
           s == Head(txn[t].left)
           new == [txn[t] EXCEPT !.seen[r] = Visible(t, r)]
<1>1. /\ Active(t) /\ txn[t].left # <<>> /\ s.op = "compare" /\ Advance(t, 1, new)
      /\ UNCHANGED <<now, row, rev, lock, app, served, faults>>
  BY DEF Compare, Next1
<1>2. /\ txn[t] \in Txn /\ s \in Statements /\ Addressed(s) /\ Owed(txn[t], s)
      /\ \A q \in Rows : Written(txn[t], q) /\ Visible(t, q) \in Stamps
      /\ Found(txn[t])
  BY <1>1, Issues
<1>3. r = s.on /\ r \in Rows
  BY <1>1, <1>2 DEF Target, Addressed, Statements, Lockable
<1>4. TypeOK /\ Inserts
  BY DEF CoreInv
<1>5. /\ new \in Txn /\ new.left = txn[t].left /\ new.kind = txn[t].kind
      /\ new.began = txn[t].began /\ new.bumped = txn[t].bumped /\ new.out = txn[t].out
      /\ new.copy = txn[t].copy /\ new.seen[r] = Visible(t, r)
  BY <1>2, <1>3 DEF Txn
<1>6. Found(new) /\ \A q \in Rows : Written(new, q)
  BY <1>2, <1>5 DEF Written, Found
<1>7. ASSUME NEW s2 \in Statements, Prepared(s, s2)
      PROVE  Owed(new, s2) /\ s2.op # "find"
  BY <1>1, <1>2, <1>3, <1>5, <1>7, SyncConstants DEF Prepared, Owed, Do
<1> HIDE DEF new, r, s
<1> QED
  BY <1>1, <1>4, <1>5, <1>6, <1>7, OneStatement DEF TypeOK, Inserts, s

LEMMA CompareDeletedKeeps ==
    ASSUME CoreInv, NEW t \in Clients, CompareDeleted(t) PROVE CoreInv'
<1> DEFINE r == Target(t)
           s == Head(txn[t].left)
<1>1. PICK d \in txn[t].at..now :
          /\ Active(t) /\ txn[t].left # <<>> /\ s.op = "bury"
          /\ Advance(t, 1, [txn[t] EXCEPT !.copy[r].deletedAt = d, !.seen[r] = Visible(t, r)])
          /\ UNCHANGED <<now, row, rev, lock, app, served, faults>>
  BY DEF CompareDeleted, Next1
<1> DEFINE new == [txn[t] EXCEPT !.copy[r].deletedAt = d, !.seen[r] = Visible(t, r)]
<1>2. /\ txn[t] \in Txn /\ s \in Statements /\ Addressed(s) /\ Owed(txn[t], s)
      /\ \A q \in Rows : Written(txn[t], q) /\ Visible(t, q) \in Stamps
      /\ Found(txn[t]) /\ now \in Times /\ txn[t].at \in 0..now
      /\ txn[t].began \in 0..now /\ txn[t].began <= txn[t].at
  BY <1>1, Issues
<1>3. r = s.on /\ r \in Rows
  BY <1>1, <1>2 DEF Target, Addressed, Statements, Lockable
<1>4. TypeOK /\ Inserts
  BY DEF CoreInv
<1>5. d \in Times /\ d >= txn[t].began
  BY <1>2, SyncConstants DEF Times
<1>6. txn[t].copy[r] \in Stamps
  BY <1>1, <1>2, <1>3 DEF Owed, Txn
<1>7. PICK c \in Stamps : c = [txn[t].copy[r] EXCEPT !.deletedAt = d] /\ c.deletedAt = d
  <2> DEFINE c0 == [txn[t].copy[r] EXCEPT !.deletedAt = d]
  <2>1. c0 \in Stamps /\ c0.deletedAt = d
    BY <1>5, <1>6 DEF Stamps
  <2> HIDE DEF c0
  <2> QED
    BY <2>1 DEF c0
<1>8. /\ new \in Txn /\ new.left = txn[t].left /\ new.kind = txn[t].kind
      /\ new.began = txn[t].began /\ new.bumped = txn[t].bumped /\ new.out = txn[t].out
      /\ new.copy[r] = c
      /\ new.seen[r] = Visible(t, r)
      /\ \A q \in Rows : q # r => new.copy[q] = txn[t].copy[q]
  BY <1>2, <1>3, <1>7 DEF Txn
<1>12. Advance(t, 1, new)
  BY <1>1
<1> HIDE DEF new
<1>9. \A q \in Rows : Written(new, q)
  BY <1>2, <1>8 DEF Written
<1>10. Found(new)
  <2>1. txn[t].copy[r] # None
    BY <1>1, <1>2, <1>3 DEF Owed
  <2>2. CASE r = Child
    BY <1>2, <1>8, <2>1, <2>2 DEF Found
  <2>3. CASE r # Child
    BY <1>2, <1>8, <2>3 DEF Found, Rows
  <2> QED
    BY <2>2, <2>3
<1>11. ASSUME NEW s2 \in Statements, Prepared(s, s2)
       PROVE  Owed(new, s2) /\ s2.op # "find"
  <2>1. new.copy[r] # None /\ new.seen[r] # None
    BY <1>2, <1>3, <1>8, SyncConstants
  <2>2. new.copy[r].deletedAt >= new.began
    BY <1>5, <1>7, <1>8
  <2>3. s2.op \notin {"compare", "bury", "find"} /\ (s2.op = "write" => s2.on = r)
    BY <1>1, <1>3, <1>11 DEF Prepared, Do
  <2> QED
    BY <2>1, <2>2, <2>3 DEF Owed
<1> HIDE DEF r, s
<1> QED
  BY <1>1, <1>4, <1>8, <1>9, <1>10, <1>11, <1>12, OneStatement DEF TypeOK, Inserts, s

\* A deletion that t sees is its own, or committed.
LEMMA VisibleDeletion ==
    ASSUME NEW t, NEW r, Written(txn[t], r)
    PROVE  \/ Visible(t, r).deletedAt = 0 \/ Visible(t, r).deletedAt >= txn[t].began
           \/ Visible(t, r).deletedAt = row[r].is.deletedAt
BY DEF Written, Visible

\* What an UPDATE leaves: a stamp of its own unless it is stale; a deletion of the copy or
\* of the row.
LEMMA UpdatedStamps ==
    ASSUME NEW t, NEW r \in Rows, txn[t].began \in Times, Visible(t, r) \in Stamps,
           txn[t].copy[r] \in Stamps, txn[t].seen[r] \in Stamps
    PROVE  /\ Updated(t, r) \in Stamps
           /\ Updated(t, r).stale \/ Updated(t, r).updatedAt = txn[t].began
           /\ Updated(t, r).deletedAt \in {txn[t].copy[r].deletedAt, Visible(t, r).deletedAt}
<1> DEFINE copy == txn[t].copy[r]
           seen == txn[t].seen[r]
           stale == copy.updatedAt # seen.updatedAt
           at == IF stale THEN copy.updatedAt ELSE txn[t].began
           gone == IF copy.deletedAt # seen.deletedAt THEN copy.deletedAt
                   ELSE Visible(t, r).deletedAt
<1>1. Updated(t, r) = [updatedAt |-> at, deletedAt |-> gone, stale |-> stale]
  BY DEF Updated
<1>2. at \in Times /\ gone \in Times /\ stale \in BOOLEAN /\ (stale \/ at = txn[t].began)
  BY DEF Stamps
<1>3. gone \in {copy.deletedAt, Visible(t, r).deletedAt}
  OBVIOUS
<1> HIDE DEF at, gone, stale
<1> QED
  BY <1>1, <1>2, <1>3 DEF Stamps

LEMMA WriteKeeps ==
    ASSUME CoreInv, NEW t \in Clients, Write(t) PROVE CoreInv'
<1> DEFINE r == Target(t)
           s == Head(txn[t].left)
           u == Updated(t, r)
           new == [txn[t] EXCEPT !.out[r] = u, !.copy[r] = u]
<1>1. /\ Active(t) /\ txn[t].left # <<>> /\ s.op = "write" /\ CanLock(t, r)
      /\ Advance(t, 1, new) /\ lock' = [lock EXCEPT ![r] = t]
      /\ UNCHANGED <<now, row, rev, app, served, faults>>
  BY DEF Write, Next1
<1>2. /\ txn[t] \in Txn /\ s \in Statements /\ Addressed(s) /\ Owed(txn[t], s)
      /\ \A q \in Rows : Written(txn[t], q) /\ Visible(t, q) \in Stamps
      /\ Found(txn[t]) /\ txn[t].began \in 0..now /\ now \in Times
  BY <1>1, Issues
<1>3. r = s.on /\ r \in Rows /\ r \in Lockable
  BY <1>1, <1>2 DEF Target, Addressed, Statements, Lockable
<1>4. TypeOK /\ Inserts
  BY DEF CoreInv
<1>5. /\ txn[t].copy[r] \in Stamps /\ txn[t].seen[r] \in Stamps
      /\ txn[t].copy[r].deletedAt = 0 \/ txn[t].copy[r].deletedAt >= txn[t].began
  BY <1>1, <1>2, <1>3 DEF Owed, Txn
<1>6. /\ u \in Stamps /\ (u.stale \/ u.updatedAt = txn[t].began)
      /\ u.deletedAt \in {txn[t].copy[r].deletedAt, Visible(t, r).deletedAt}
  <2>1. txn[t].began \in Times
    BY <1>2 DEF Txn
  <2> QED
    BY <1>2, <1>3, <1>5, <2>1, UpdatedStamps
<1>7. u # None
  BY <1>6, SyncConstants
<1> HIDE DEF u
<1>8. /\ new \in Txn /\ new.left = txn[t].left /\ new.kind = txn[t].kind
      /\ new.began = txn[t].began /\ new.bumped = txn[t].bumped
      /\ new.out[r] = u /\ new.copy[r] = u
      /\ \A q \in Rows : q # r => new.copy[q] = txn[t].copy[q] /\ new.out[q] = txn[t].out[q]
  BY <1>2, <1>3, <1>6 DEF Txn
<1> HIDE DEF new
<1>9. \A q \in Rows : Written(new, q)
  <2>1. Written(new, r)
    <3>1. \/ u.deletedAt = 0 \/ u.deletedAt >= txn[t].began
          \/ u.deletedAt = row[r].is.deletedAt
      BY <1>2, <1>3, <1>5, <1>6, VisibleDeletion
    <3>2. u.stale \/ u.updatedAt >= txn[t].began
      BY <1>2, <1>6
    <3> QED
      BY <1>8, <3>1, <3>2 DEF Written
  <2>2. \A q \in Rows : q # r => Written(new, q)
    BY <1>2, <1>8 DEF Written
  <2> QED
    BY <2>1, <2>2
<1>10. Found(new)
  <2>1. CASE r = Child
    BY <1>7, <1>8, <2>1 DEF Found
  <2>2. CASE r # Child
    BY <1>2, <1>8, <2>2 DEF Found, Rows
  <2> QED
    BY <2>1, <2>2
<1>11. ASSUME NEW s2 \in Statements, Prepared(s, s2) PROVE Owed(new, s2) /\ s2.op # "find"
  BY <1>1, <1>11 DEF Prepared, Owed, Do
<1>12. /\ lock' \in [Lockable -> Clients \cup {None}] /\ lock'[r] = t
       /\ \A l \in Lockable : lock'[l] = lock[l] \/ (CanLock(t, l) /\ lock'[l] = t)
       /\ \A l \in Lockable : lock[l] = t => lock'[l] = t
  BY <1>1, <1>3, <1>4 DEF TypeOK
<1>13. /\ \A q \in Rows : new.out[q] # None => lock'[q] = t
       /\ new.bumped => lock'[Revision] = t
  BY <1>4, <1>8, <1>12 DEF TypeOK, Lockable
<1>14. lock'[Child] = t /\ row[Child].ver = 0 => lock'[Series] = t
  <2> SUFFICES ASSUME lock'[Child] = t, row[Child].ver = 0 PROVE lock'[Series] = t
    OBVIOUS
  <2>1. Child \in Rows /\ Series \in Lockable /\ Child \in Lockable
    BY DEF Lockable, Rows
  <2>2. CASE r = Child
    <3>1. txn[t].out[Child] # None
      BY <1>1, <1>2, <1>3, <2>2 DEF Owed, Found
    <3> QED
      BY <1>4, <1>12, <2>1, <3>1 DEF TypeOK, Inserts
  <2>3. CASE r # Child
    BY <1>1, <1>3, <1>4, <1>12, <2>1, <2>3 DEF Inserts, TypeOK
  <2> QED
    BY <2>2, <2>3
<1> HIDE DEF r, s
<1> QED
  BY <1>1, <1>8, <1>9, <1>10, <1>11, <1>12, <1>13, <1>14, OneStatement DEF s

LEMMA TouchKeeps ==
    ASSUME CoreInv, NEW t \in Clients, Touch(t) PROVE CoreInv'
<1> DEFINE r == Target(t)
           s == Head(txn[t].left)
<1>1. PICK c \in txn[t].at..now :
          /\ Active(t) /\ txn[t].left # <<>> /\ s.op = "touch" /\ CanLock(t, r)
          /\ Advance(t, 1, [txn[t] EXCEPT !.out[r] = Touched(Visible(t, r), c)])
          /\ lock' = [lock EXCEPT ![r] = t]
          /\ UNCHANGED <<now, row, rev, app, served, faults>>
  BY DEF Touch, Next1
<1> DEFINE u == Touched(Visible(t, r), c)
           new == [txn[t] EXCEPT !.out[r] = u]
<1>2. /\ txn[t] \in Txn /\ s \in Statements /\ Addressed(s)
      /\ \A q \in Rows : Written(txn[t], q) /\ Visible(t, q) \in Stamps
      /\ Found(txn[t]) /\ now \in Times /\ txn[t].at \in 0..now
      /\ txn[t].began \in 0..now /\ txn[t].began <= txn[t].at
  BY <1>1, Issues
<1>3. r = Series /\ r \in Rows /\ r \in Lockable /\ Child # Series
  BY <1>1, <1>2, Distinct DEF Target, Addressed, Lockable, Rows
<1>4. TypeOK /\ Inserts
  BY DEF CoreInv
<1>5. c \in Times /\ c >= txn[t].began
  BY <1>2, SyncConstants DEF Times
<1>6. /\ u \in Stamps /\ u.updatedAt = c /\ u.deletedAt = Visible(t, r).deletedAt
  BY <1>2, <1>3, <1>5 DEF Touched, Stamps
<1>7. u # None
  BY <1>6, SyncConstants
<1>8. Advance(t, 1, new)
  BY <1>1
<1> HIDE DEF u
<1>9. /\ new \in Txn /\ new.left = txn[t].left /\ new.kind = txn[t].kind
      /\ new.began = txn[t].began /\ new.bumped = txn[t].bumped
      /\ new.out[r] = u /\ new.copy = txn[t].copy
      /\ \A q \in Rows : q # r => new.out[q] = txn[t].out[q]
  BY <1>2, <1>3, <1>6 DEF Txn
<1> HIDE DEF new
<1>10. \A q \in Rows : Written(new, q)
  <2>1. Written(new, r)
    BY <1>2, <1>3, <1>5, <1>6, <1>9, VisibleDeletion DEF Written
  <2>2. \A q \in Rows : q # r => Written(new, q)
    BY <1>2, <1>9 DEF Written
  <2> QED
    BY <2>1, <2>2
<1>11. Found(new)
  BY <1>2, <1>3, <1>9 DEF Found, Rows
<1>12. ASSUME NEW s2 \in Statements, Prepared(s, s2) PROVE Owed(new, s2) /\ s2.op # "find"
  BY <1>1, <1>12 DEF Prepared, Owed, Do
<1>13. /\ lock' \in [Lockable -> Clients \cup {None}] /\ lock'[r] = t
       /\ \A l \in Lockable : lock'[l] = lock[l] \/ (CanLock(t, l) /\ lock'[l] = t)
       /\ \A l \in Lockable : lock[l] = t => lock'[l] = t
  BY <1>1, <1>3, <1>4 DEF TypeOK
<1>14. /\ \A q \in Rows : new.out[q] # None => lock'[q] = t
       /\ new.bumped => lock'[Revision] = t
  BY <1>4, <1>9, <1>13 DEF TypeOK, Lockable
<1>15. lock'[Series] = t
  BY <1>3, <1>13
<1> HIDE DEF r, s
<1> QED
  BY <1>1, <1>8, <1>9, <1>10, <1>11, <1>12, <1>13, <1>14, <1>15, OneStatement DEF s

LEMMA BumpRevisionKeeps ==
    ASSUME CoreInv, NEW t \in Clients, BumpRevision(t) PROVE CoreInv'
<1> DEFINE s == Head(txn[t].left)
           new == [txn[t] EXCEPT !.bumped = TRUE]
<1>1. /\ Active(t) /\ txn[t].left # <<>> /\ s.op = "bump" /\ CanLock(t, Revision)
      /\ Advance(t, 1, new) /\ lock' = [lock EXCEPT ![Revision] = t]
      /\ UNCHANGED <<now, row, rev, app, served, faults>>
  BY DEF BumpRevision, Next1
<1>2. /\ txn[t] \in Txn /\ s \in Statements /\ Found(txn[t])
      /\ \A q \in Rows : Written(txn[t], q)
  BY <1>1, Issues
<1>3. Revision \in Lockable /\ Child # Revision /\ Series # Revision
  BY Distinct DEF Lockable
<1>4. TypeOK /\ Inserts
  BY DEF CoreInv
<1>5. /\ new \in Txn /\ new.left = txn[t].left /\ new.kind = txn[t].kind
      /\ new.began = txn[t].began /\ new.bumped
      /\ new.out = txn[t].out /\ new.copy = txn[t].copy
  BY <1>2 DEF Txn
<1>6. Found(new) /\ \A q \in Rows : Written(new, q)
  BY <1>2, <1>5 DEF Written, Found
<1>7. ASSUME NEW s2 \in Statements, Prepared(s, s2) PROVE Owed(new, s2) /\ s2.op # "find"
  BY <1>1, <1>7 DEF Prepared, Owed, Do
<1>8. /\ lock' \in [Lockable -> Clients \cup {None}] /\ lock'[Revision] = t
      /\ \A l \in Lockable : lock'[l] = lock[l] \/ (CanLock(t, l) /\ lock'[l] = t)
      /\ \A q \in Rows : lock'[q] = lock[q]
  BY <1>1, <1>3, <1>4 DEF TypeOK, Lockable, Rows
<1>9. \A q \in Rows : new.out[q] # None => lock'[q] = t
  BY <1>4, <1>5, <1>8 DEF TypeOK
<1>10. lock'[Child] = t /\ row[Child].ver = 0 => lock'[Series] = t
  BY <1>4, <1>8 DEF Inserts, Rows
<1> HIDE DEF new, s
<1> QED
  BY <1>1, <1>5, <1>6, <1>7, <1>8, <1>9, <1>10, OneStatement DEF s

LEMMA BeginKeeps ==
    ASSUME CoreInv, NEW t \in Clients, Begin(t) PROVE CoreInv'
<1>1. PICK q \in Requests :
          txn' = [txn EXCEPT ![t] = [Idle EXCEPT !.kind = q[1], !.left = q[2],
                                                 !.began = now, !.at = now]]
  BY DEF Begin
<1> DEFINE new == [Idle EXCEPT !.kind = q[1], !.left = q[2], !.began = now, !.at = now]
<1>2. /\ ~Active(t) /\ served < MaxRequests /\ served' = served + 1
      /\ UNCHANGED <<now, row, rev, lock, app, faults>>
  BY DEF Begin
<1>3. TypeOK /\ Counted /\ Inserts /\ \A u \in Clients : TxnInv(u)
  BY DEF CoreInv
<1>4. q[1] \in Kinds /\ q[1] # "idle" /\ Request(q[2]) /\ q[2] \in Seq(Statements)
  BY RequestsShaped DEF Request, Shape
<1>5. now \in Times /\ now \in Nat
  BY <1>3, SyncConstants DEF TypeOK, Times, Start
<1>6. new \in Txn
  BY <1>4, <1>5, IdleOK DEF Txn, Statements
<1>7. /\ new.kind = q[1] /\ new.left = q[2] /\ new.began = now /\ new.at = now
      /\ new.copy = Nothing /\ new.seen = Nothing /\ new.out = Nothing /\ ~new.bumped
  BY DEF Idle
<1> HIDE DEF new
<1>8. /\ txn' \in [Clients -> Txn] /\ txn'[t] = new
      /\ \A u \in Clients : u # t => txn'[u] = txn[u]
  BY <1>1, <1>3, <1>6 DEF TypeOK, new
<1>9. \A l \in Lockable : lock[l] # t
  BY <1>2, <1>3, SyncConstants DEF TypeOK
<1>10. TypeOK'
  <2>1. (\A l \in Lockable : lock[l] # None => Active(lock[l]))'
    <3> SUFFICES ASSUME NEW l \in Lockable, lock'[l] # None
                 PROVE  txn'[lock'[l]].kind # "idle"
      BY DEF Active
    <3>1. PICK h \in Clients : h = lock[l] /\ h # t
      BY <1>2, <1>3, <1>9 DEF TypeOK
    <3>2. txn[h].kind # "idle" /\ lock'[l] = h
      BY <1>2, <1>3, <3>1 DEF Active, TypeOK
    <3> QED
      BY <1>8, <3>1, <3>2
  <2>2. ASSUME NEW u \in Clients
        PROVE  /\ \A r \in Rows : txn'[u].out[r] # None => lock'[r] = u
               /\ txn'[u].bumped => lock'[Revision] = u
    <3>1. CASE u = t
      BY <1>7, <1>8, <3>1 DEF Nothing
    <3>2. CASE u # t
      BY <1>2, <1>3, <1>8, <3>2 DEF TypeOK
    <3> QED
      BY <3>1, <3>2
  <2>3. /\ now' \in Start..MaxTime /\ row' \in [Rows -> Row] /\ rev' \in 0..MaxRequests
        /\ lock' \in [Lockable -> Clients \cup {None}]
        /\ app' \in App /\ served' \in 0..MaxRequests /\ faults' \in 0..MaxFaults
    BY <1>2, <1>3, SyncConstants DEF TypeOK
  <2> QED
    BY <1>8, <2>1, <2>2, <2>3 DEF TypeOK
<1>11. Counted'
  <2>1. Acting' = Acting \cup {t} /\ t \notin Acting
    BY <1>2, <1>4, <1>7, <1>8 DEF Acting, Active
  <2>2. IsFiniteSet(Acting) /\ Cardinality(Acting) \in Nat
    BY <1>3, FS_CardinalityType DEF Counted
  <2>3. IsFiniteSet(Acting') /\ Cardinality(Acting') = Cardinality(Acting) + 1
    BY <2>1, <2>2, FS_AddElement
  <2>4. rev \in Nat /\ served \in Nat /\ \A r \in Rows : row[r].ver \in Nat
    BY <1>3 DEF TypeOK, Row
  <2> QED
    BY <1>2, <1>3, <2>2, <2>3, <2>4 DEF Counted
<1>12. Inserts'
  BY <1>2, <1>3 DEF Inserts
<1>13. TxnInv(t)'
  <2>1. Shape(txn'[t].left) /\ HasBump(txn'[t].left)
    BY <1>4, <1>7, <1>8 DEF Request
  <2>2. (\A r \in Rows : Written(txn[t], r))' /\ Found(txn[t])'
    BY <1>7, <1>8 DEF Written, Found, Nothing, Rows
  <2>3. Head(q[2]).op \in {"load", "lock"}
    <3>1. Len(q[2]) > 0 /\ q[2][1].op \in {"load", "lock"}
      BY <1>4 DEF Request
    <3> QED
      BY <1>4, <3>1, HeadTailProperties
  <2>4. Ready(t)'
    BY <1>7, <1>8, <2>3 DEF Ready, Owed
  <2>5. now' - txn'[t].began <= Span /\ txn'[t].began <= txn'[t].at /\ txn'[t].at <= now'
    BY <1>2, <1>5, <1>7, <1>8, SyncConstants
  <2> QED
    BY <2>1, <2>2, <2>4, <2>5 DEF TxnInv
<1>14. ASSUME NEW u \in Clients, u # t PROVE TxnInv(u)'
  BY <1>2, <1>3, <1>8, <1>14, OthersKeep
<1> QED
  BY <1>10, <1>11, <1>12, <1>13, <1>14 DEF CoreInv

\* What a commit does to the revision and to each row: nothing; a change that devices show,
\* marked by the time the transaction began; or a new deletion of a deleted row.
LEMMA CommitEffect ==
    ASSUME CoreInv, NEW t \in Clients, Commit(t)
    PROVE  /\ rev' = rev + 1 /\ row' \in [Rows -> [ver: Nat, is: Stamps]]
           /\ \A r \in Rows :
                  /\ \/ /\ row'[r] = row[r]
                     \/ /\ row'[r].ver = row[r].ver + 1
                        /\ IF row'[r].is.deletedAt > 0
                           THEN row'[r].is.deletedAt >= txn[t].began
                           ELSE row'[r].is.stale \/ row'[r].is.updatedAt >= txn[t].began
                     \/ /\ row'[r].ver = row[r].ver
                        /\ row[r].is.deletedAt > 0 /\ row'[r].is.deletedAt > 0
                        /\ \/ row'[r].is.deletedAt = row[r].is.deletedAt
                           \/ row'[r].is.deletedAt >= txn[t].began
                  /\ lock[r] # t => row'[r] = row[r]
<1>1. TypeOK /\ TxnInv(t) /\ Active(t) /\ txn[t].left = <<>> /\ txn[t] \in Txn
  BY DEF CoreInv, Commit, TypeOK
<1>2. rev' = rev + 1
  <2>1. Len(<<>>) = 0
    OBVIOUS
  <2>2. txn[t].bumped
    BY <1>1, <2>1 DEF TxnInv, HasBump
  <2> QED
    BY <2>2 DEF Commit, Committed
<1>3. row' = [r \in Rows |-> [ver |-> IF Shows(t, r) THEN row[r].ver + 1 ELSE row[r].ver,
                              is |-> Visible(t, r)]]
  BY DEF Commit
<1>4. ASSUME NEW r \in Rows
      PROVE  /\ row[r] \in [ver: Nat, is: Stamps] /\ Visible(t, r) \in Stamps
             /\ row'[r].ver = IF Shows(t, r) THEN row[r].ver + 1 ELSE row[r].ver
             /\ row'[r].is = Visible(t, r)
             /\ row'[r] \in [ver: Nat, is: Stamps]
             /\ row'[r] = [ver |-> row'[r].ver, is |-> row'[r].is]
             /\ row[r] = [ver |-> row[r].ver, is |-> row[r].is]
  <2>1. row[r] \in [ver: Nat, is: Stamps] /\ Visible(t, r) \in Stamps
    BY <1>1, SyncConstants DEF TypeOK, Row, Txn, Visible
  <2> DEFINE ver == IF Shows(t, r) THEN row[r].ver + 1 ELSE row[r].ver
  <2>2. ver \in Nat
    BY <2>1
  <2>3. row'[r] = [ver |-> ver, is |-> Visible(t, r)]
    BY <1>3
  <2> HIDE DEF ver
  <2> QED
    BY <2>1, <2>2, <2>3 DEF ver
<1>5. ASSUME NEW r \in Rows, txn[t].out[r] = None PROVE row'[r] = row[r]
  BY <1>4, <1>5 DEF Shows, Visible
<1>6. ASSUME NEW r \in Rows, txn[t].out[r] # None
      PROVE  /\ \/ /\ row'[r].ver = row[r].ver + 1
                   /\ IF row'[r].is.deletedAt > 0
                      THEN row'[r].is.deletedAt >= txn[t].began
                      ELSE row'[r].is.stale \/ row'[r].is.updatedAt >= txn[t].began
                \/ /\ row'[r].ver = row[r].ver
                   /\ row[r].is.deletedAt > 0 /\ row'[r].is.deletedAt > 0
                   /\ \/ row'[r].is.deletedAt = row[r].is.deletedAt
                      \/ row'[r].is.deletedAt >= txn[t].began
             /\ lock[r] = t
  <2>1. /\ row'[r].is = txn[t].out[r] /\ Written(txn[t], r) /\ lock[r] = t
        /\ row[r].is \in Stamps /\ txn[t].out[r] \in Stamps
    BY <1>1, <1>4, <1>6 DEF Visible, TxnInv, TypeOK
  <2>2. /\ txn[t].out[r].stale \/ txn[t].out[r].updatedAt >= txn[t].began
        /\ \/ txn[t].out[r].deletedAt = 0 \/ txn[t].out[r].deletedAt >= txn[t].began
           \/ txn[t].out[r].deletedAt = row[r].is.deletedAt
    BY <1>6, <2>1 DEF Written
  <2>3. row[r].is.deletedAt \in Nat /\ txn[t].out[r].deletedAt \in Nat
    BY <2>1, SyncConstants DEF Stamps, Times
  <2>4. row'[r].ver = IF row[r].is.deletedAt > 0 /\ txn[t].out[r].deletedAt > 0
                      THEN row[r].ver ELSE row[r].ver + 1
    BY <1>4, <1>6 DEF Shows
  <2> QED
    BY <2>1, <2>2, <2>3, <2>4
<1>7. row' \in [Rows -> [ver: Nat, is: Stamps]]
  BY <1>3, <1>4
<1> QED
  BY <1>2, <1>5, <1>6, <1>7

LEMMA CommitKeeps ==
    ASSUME CoreInv, NEW t \in Clients, Commit(t) PROVE CoreInv'
<1>1. TypeOK /\ Counted /\ Inserts /\ \A u \in Clients : TxnInv(u)
  BY DEF CoreInv
<1>2. Active(t) /\ Ended(t) /\ UNCHANGED <<now, app, served, faults>>
  BY DEF Commit
<1>3. /\ rev' = rev + 1 /\ row' \in [Rows -> [ver: Nat, is: Stamps]]
      /\ \A r \in Rows : /\ row'[r].ver \in {row[r].ver, row[r].ver + 1}
                         /\ lock[r] # t => row'[r] = row[r]
  BY CommitEffect
<1>4. /\ txn' \in [Clients -> Txn] /\ txn'[t] = Idle
      /\ \A u \in Clients : u # t => txn'[u] = txn[u]
      /\ lock' \in [Lockable -> Clients \cup {None}]
      /\ \A l \in Lockable : lock'[l] # t
      /\ \A l \in Lockable, u \in Clients : u # t => (lock'[l] = u <=> lock[l] = u)
      /\ (\A l \in Lockable : lock[l] # None => Active(lock[l]))'
      /\ (\A u \in Clients :
             /\ \A r \in Rows : txn[u].out[r] # None => lock[r] = u
             /\ txn[u].bumped => lock[Revision] = u)'
      /\ Acting' = Acting \ {t}
  BY <1>1, <1>2, EndEffect
<1>5. Series \in Lockable /\ Child \in Lockable /\ Child \in Rows
  BY DEF Lockable, Rows
<1>6. Counted'
  <2>1. /\ IsFiniteSet(Acting') /\ Cardinality(Acting) \in Nat
        /\ Cardinality(Acting') = Cardinality(Acting) - 1
    BY <1>1, <1>2, <1>4, OneFewer DEF Counted
  <2>2. rev \in Nat /\ served \in Nat /\ \A r \in Rows : row[r].ver \in Nat
    BY <1>1 DEF TypeOK, Row
  <2>3. ASSUME NEW r \in Rows PROVE row'[r].ver + Cardinality(Acting') <= served' + 1
    BY <1>1, <1>2, <1>3, <2>1, <2>2 DEF Counted
  <2> QED
    BY <1>1, <1>2, <1>3, <2>1, <2>2, <2>3 DEF Counted
<1>7. TypeOK'
  <2>1. Cardinality(Acting') \in Nat
    BY <1>6, FS_CardinalityType DEF Counted
  <2>2. rev \in Nat /\ served \in 0..MaxRequests
    BY <1>1 DEF TypeOK
  <2>3. rev' \in 0..MaxRequests
    BY <1>2, <1>3, <1>6, <2>1, <2>2, SyncConstants DEF Counted
  <2>4. row' \in [Rows -> Row]
    <3>1. ASSUME NEW r \in Rows PROVE row'[r] \in Row
      <4>1. row'[r].ver \in 0..MaxRequests + 1 /\ row'[r] \in [ver: Nat, is: Stamps]
        BY <1>2, <1>3, <1>6, <2>1, <2>2, SyncConstants DEF Counted
      <4> QED
        BY <4>1 DEF Row
    <3> QED
      BY <1>3, <3>1
  <2>5. /\ now' \in Start..MaxTime /\ app' \in App
        /\ served' \in 0..MaxRequests /\ faults' \in 0..MaxFaults
    BY <1>1, <1>2 DEF TypeOK
  <2> QED
    BY <1>4, <2>3, <2>4, <2>5 DEF TypeOK
<1>8. row[Child].ver \in Nat /\ (row'[Child].ver = 0 => row[Child].ver = 0)
  BY <1>1, <1>3, <1>5 DEF TypeOK, Row
<1>9. Inserts'
  BY <1>1, <1>4, <1>5, <1>8 DEF Inserts
<1>10. ASSUME NEW u \in Clients, Active(u)' PROVE TxnInv(u)'
  <2>1. u # t /\ txn'[u] = txn[u] /\ Active(u) /\ TxnInv(u)
    BY <1>1, <1>4, <1>10 DEF Active, Idle
  <2>2. ASSUME NEW r \in Rows PROVE Written(txn[u], r)'
    <3>1. CASE txn[u].out[r] = None
      BY <2>1, <3>1 DEF Written
    <3>2. CASE txn[u].out[r] # None
      <4>1. row'[r] = row[r] /\ Written(txn[u], r)
        BY <1>1, <1>3, <2>1, <3>2 DEF TypeOK, TxnInv
      <4> QED
        BY <2>1, <4>1 DEF Written
    <3> QED
      BY <3>1, <3>2
  <2>3. Ready(u)'
    BY <1>4, <1>5, <2>1 DEF Ready, Owed, TxnInv
  <2>4. Found(txn[u])'
    BY <1>8, <2>1 DEF Found, TxnInv
  <2>5. Shape(txn'[u].left) /\ (txn'[u].bumped \/ HasBump(txn'[u].left))
    BY <2>1 DEF TxnInv
  <2> QED
    BY <1>2, <2>1, <2>2, <2>3, <2>4, <2>5 DEF TxnInv
<1>11. \A u \in Clients : TxnInv(u)'
  BY <1>10 DEF TxnInv
<1> QED
  BY <1>6, <1>7, <1>9, <1>11 DEF CoreInv

LEMMA ThrowKeeps ==
    ASSUME CoreInv, NEW t \in Clients, Throw(t) PROVE CoreInv'
<1>1. Active(t) /\ RolledBack(t) /\ faults < MaxFaults /\ faults' = faults + 1
  BY DEF Throw
<1>2. faults \in 0..MaxFaults
  BY DEF CoreInv, TypeOK
<1> QED
  BY <1>1, <1>2, SyncConstants, RollsBack

LEMMA BreakDeadlockKeeps ==
    ASSUME CoreInv, NEW t \in Clients, BreakDeadlock(t) PROVE CoreInv'
<1>1. RolledBack(t) /\ UNCHANGED faults
  BY DEF BreakDeadlock
<1>2. PICK set \in SUBSET Clients : t \in set /\ WaitsFor(t) \in set
  BY DEF BreakDeadlock, Deadlocked
<1>3. Active(t)
  BY <1>2, SyncConstants DEF WaitsFor
<1> QED
  BY <1>1, <1>3, RollsBack DEF CoreInv, TypeOK

LEMMA TickKeeps == ASSUME CoreInv, Tick PROVE CoreInv'
<1>1. TypeOK /\ Counted /\ Inserts /\ \A u \in Clients : TxnInv(u)
  BY DEF CoreInv
<1>2. /\ now < MaxTime /\ now' = now + 1
      /\ \A t \in Clients : Active(t) => now - txn[t].began < Span
      /\ UNCHANGED <<row, rev, lock, txn, app, served, faults>>
  BY DEF Tick
<1>3. now \in Start..MaxTime /\ now' \in Start..MaxTime
  BY <1>1, <1>2, SyncConstants DEF TypeOK, Start
<1>4. TypeOK'
  BY <1>1, <1>2, <1>3 DEF TypeOK, Active
<1>5. Counted' /\ Inserts'
  BY <1>1, <1>2 DEF Counted, Inserts, Acting, Active
<1>6. ASSUME NEW t \in Clients, Active(t) PROVE TxnInv(t)'
  <2>1. txn[t].began \in Int /\ txn[t].at \in Int /\ now \in Int /\ Span \in Int
    BY <1>1, <1>3, SyncConstants DEF TypeOK, Txn, Times, Start
  <2>2. now' - txn[t].began <= Span /\ txn[t].began <= txn[t].at /\ txn[t].at <= now'
    BY <1>1, <1>2, <1>6, <2>1 DEF TxnInv
  <2>3. /\ Shape(txn[t].left) /\ (txn[t].bumped \/ HasBump(txn[t].left))
        /\ (\A r \in Rows : Written(txn[t], r))' /\ Ready(t)' /\ Found(txn[t])'
    BY <1>1, <1>2, <1>6 DEF TxnInv, Written, Ready, Found
  <2> QED
    BY <1>2, <2>2, <2>3 DEF TxnInv
<1>7. \A t \in Clients : TxnInv(t)'
  BY <1>2, <1>6 DEF TxnInv, Active
<1> QED
  BY <1>4, <1>5, <1>7 DEF CoreInv

\* The device leaves the transactions and the rows alone.
LEMMA DeviceKeeps ==
    ASSUME CoreInv, UNCHANGED <<now, row, rev, lock, txn, served>>,
           app' \in App, faults' \in 0..MaxFaults
    PROVE  CoreInv'
<1>1. TypeOK /\ Counted /\ Inserts /\ \A u \in Clients : TxnInv(u)
  BY DEF CoreInv
<1>2. TypeOK'
  BY <1>1 DEF TypeOK, Active
<1>3. Counted' /\ Inserts'
  BY <1>1 DEF Counted, Inserts, Acting, Active
<1>4. \A t \in Clients : TxnInv(t)'
  BY <1>1 DEF TxnInv, Active, Written, Ready, Found
<1> QED
  BY <1>2, <1>3, <1>4 DEF CoreInv

LEMMA CoreStep == ASSUME CoreInv, [Next]_vars PROVE CoreInv'
<1>1. /\ rev \in 0..MaxRequests /\ now \in Times /\ app \in App /\ faults \in 0..MaxFaults
      /\ \A r \in Rows : row[r].ver \in 0..MaxRequests + 1
  BY SyncConstants DEF CoreInv, TypeOK, Times, Start, Row
<1>2. CASE Tick
  BY <1>2, TickKeeps
<1>3. ASSUME NEW t \in Clients, Begin(t) \/ BreakDeadlock(t) \/ Throw(t) PROVE CoreInv'
  BY <1>3, BeginKeeps, BreakDeadlockKeeps, ThrowKeeps
<1>4. ASSUME NEW t \in Clients, Statement(t) PROVE CoreInv'
  BY <1>4, LoadRowKeeps, LockRowKeeps, FindChildKeeps, LoadChildrenKeeps, CompareKeeps,
     CompareDeletedKeeps, WriteKeeps, TouchKeeps, BumpRevisionKeeps, CommitKeeps DEF Statement
<1>5. CASE GetState
  <2>1. app' \in App
    BY <1>1, <1>5 DEF GetState, App
  <2> QED
    BY <1>1, <1>5, <2>1, DeviceKeeps DEF GetState
<1>6. CASE CaptureTime
  <2>1. app' \in App
    BY <1>1, <1>6 DEF CaptureTime, App
  <2> QED
    BY <1>1, <1>6, <2>1, DeviceKeeps DEF CaptureTime
<1>7. CASE ReadTasks
  <2>1. app' \in App
    BY <1>1, <1>7 DEF ReadTasks, App
  <2> QED
    BY <1>1, <1>7, <2>1, DeviceKeeps DEF ReadTasks
<1>8. CASE ReadDeleted
  <2>1. app' \in App
    BY <1>1, <1>8 DEF ReadDeleted, App
  <2> QED
    BY <1>1, <1>8, <2>1, DeviceKeeps DEF ReadDeleted
<1>9. CASE Apply
  <2>1. app' \in App
    BY <1>1, <1>9 DEF Apply, App
  <2> QED
    BY <1>1, <1>9, <2>1, DeviceKeeps DEF Apply
<1>10. CASE LoseDelta
  <2>1. app' \in App /\ faults' \in 0..MaxFaults
    BY <1>1, <1>10, SyncConstants DEF LoseDelta, App
  <2> QED
    BY <1>10, <2>1, DeviceKeeps DEF LoseDelta
<1>11. CASE UNCHANGED vars
  BY <1>1, <1>11, DeviceKeeps DEF vars
<1> QED
  BY <1>2, <1>3, <1>4, <1>5, <1>6, <1>7, <1>8, <1>9, <1>10, <1>11 DEF Next, Read

LEMMA CoreInit == Init => CoreInv
<1> SUFFICES ASSUME Init PROVE CoreInv
  OBVIOUS
<1>1. PICK ver \in {0, 1} :
          LET vers == [r \in Rows |-> IF r = Series THEN 1 ELSE ver]
          IN  /\ row = [r \in Rows |-> [ver |-> vers[r], is |-> Old]]
              /\ app = [phase |-> "idle", seen |-> 0, polled |-> 0, cursor |-> Start,
                        serverTime |-> Start, got |-> vers, known |-> vers]
  BY DEF Init
<1>2. 0 \in Times /\ Start \in Times /\ Start \in Start..MaxTime
  BY SyncConstants DEF Times, Start
<1>3. Old \in Stamps
  BY <1>2 DEF Old, Stamps
<1> DEFINE vers == [r \in Rows |-> IF r = Series THEN 1 ELSE ver]
<1>4. vers \in [Rows -> 0..1]
  OBVIOUS
<1>5. row = [r \in Rows |-> [ver |-> vers[r], is |-> Old]]
  BY <1>1
<1>6. app = [phase |-> "idle", seen |-> 0, polled |-> 0, cursor |-> Start,
             serverTime |-> Start, got |-> vers, known |-> vers]
  BY <1>1
<1> HIDE DEF vers
<1>7. 0..1 \subseteq 0..MaxRequests + 1
  BY SyncConstants
<1>8. row \in [Rows -> Row]
  BY <1>3, <1>4, <1>5, <1>7 DEF Row
<1>9. app \in App
  BY <1>2, <1>4, <1>6, <1>7, SyncConstants DEF App
<1>10. \A t \in Clients : txn[t] = Idle /\ ~Active(t)
  BY DEF Init, Idle, Active
<1>11. TypeOK
  <2>1. txn \in [Clients -> Txn]
    BY IdleOK DEF Init
  <2>2. \A t \in Clients : (\A r \in Rows : txn[t].out[r] = None) /\ ~txn[t].bumped
    BY <1>10 DEF Idle, Nothing
  <2> QED
    BY <1>2, <1>8, <1>9, <2>1, <2>2, SyncConstants DEF Init, TypeOK
<1>12. Counted
  <2>1. Acting = {}
    BY <1>10 DEF Acting
  <2>2. \A r \in Rows : row[r].ver <= 1 /\ row[r].ver \in Nat
    BY <1>4, <1>5
  <2> QED
    BY <2>1, <2>2, FS_EmptySet DEF Counted, Init
<1>13. Inserts
  BY SyncConstants DEF Inserts, Init, Lockable, Rows
<1> QED
  BY <1>10, <1>11, <1>12, <1>13 DEF CoreInv, TxnInv

LEMMA CoreInvariant == Spec => []CoreInv
BY CoreInit, CoreStep, PTL DEF Spec

\* The types hold, and with them the two rules of the database: a lock has one holder, which
\* runs, and what a transaction has written it has locked. The insert of a child, which waits
\* for no lock, keeps them because its transaction locked the series before (findOne with
\* pessimistic_write in createOrUpdateOverride).
THEOREM TypeCorrect == Spec => []TypeOK
BY CoreInvariant, PTL DEF CoreInv

-----------------------------------------------------------------------------
(* What a delta may leave out                                               *)

\* A delta with this cursor reports the row, or it is one that none reports.
Marks(r, cursor) ==
    IF row[r].is.deletedAt > 0 THEN row[r].is.deletedAt > cursor - Lag
    ELSE row[r].is.stale \/ row[r].is.updatedAt > cursor - Lag

Excused(r) == row[r].is.stale /\ row[r].is.deletedAt = 0

\* Changed since the device polled: the next delta reports it.
Later(r) == rev > app.polled /\ Marks(r, app.serverTime)

Got(r) == app.got[r] = row[r].ver

\* Reported by the second read of the delta.
Buried(r) == row[r].is.deletedAt > 0 /\ row[r].is.deletedAt > app.cursor - Lag

DeltaRow(r) ==
    /\ row[r].ver = 0 => app.known[r] = 0 /\ app.got[r] = 0
    /\ Stale(r) => Marks(r, app.cursor)
    /\ app.seen = rev /\ Stale(r) => Excused(r)
    /\ app.phase = "deleted" /\ ~Got(r) => Buried(r) \/ Excused(r) \/ Later(r)
    /\ app.phase = "apply" /\ ~Got(r) => Excused(r) \/ Later(r)

DeltaInv ==
    /\ app.cursor <= now /\ app.serverTime <= now
    /\ app.polled <= rev /\ app.seen <= rev
    /\ \A r \in Rows : DeltaRow(r)

\* The types of what the device holds.
LEMMA DeviceTypes ==
    ASSUME TypeOK
    PROVE  /\ now \in Int /\ rev \in Int /\ Lag \in Int /\ app \in App
           /\ app.cursor \in Int /\ app.serverTime \in Int
           /\ app.polled \in Int /\ app.seen \in Int
           /\ \A r \in Rows : /\ app.known[r] \in Nat /\ app.got[r] \in Nat
                              /\ row[r].ver \in Nat /\ row[r].is \in Stamps
                              /\ row[r].is.deletedAt \in Nat /\ row[r].is.updatedAt \in Nat
BY SyncConstants DEF TypeOK, App, Row, Stamps, Times, Start

\* A row that changes at a commit is marked for whoever read before it.
LEMMA CommitMarks ==
    ASSUME CoreInv, NEW t \in Clients, Commit(t), NEW r \in Rows, NEW cursor \in Int,
           cursor <= now, row'[r].ver # row[r].ver \/ Marks(r, cursor)
    PROVE  Marks(r, cursor)'
<1>1. /\ \/ row'[r] = row[r]
         \/ /\ row'[r].ver = row[r].ver + 1
            /\ IF row'[r].is.deletedAt > 0
               THEN row'[r].is.deletedAt >= txn[t].began
               ELSE row'[r].is.stale \/ row'[r].is.updatedAt >= txn[t].began
         \/ /\ row'[r].ver = row[r].ver
            /\ row[r].is.deletedAt > 0 /\ row'[r].is.deletedAt > 0
            /\ \/ row'[r].is.deletedAt = row[r].is.deletedAt
               \/ row'[r].is.deletedAt >= txn[t].began
      /\ row'[r].is \in Stamps
  BY CommitEffect
<1>2. TypeOK /\ TxnInv(t) /\ Active(t)
  BY DEF CoreInv, Commit
<1>3. txn[t].began \in Int /\ now \in Int /\ now - txn[t].began <= Span
  BY <1>2, DeviceTypes DEF TypeOK, TxnInv, Txn, Times
<1>4. /\ row[r].ver \in Nat /\ row[r].is.deletedAt \in Nat /\ row[r].is.updatedAt \in Nat
      /\ row'[r].is.deletedAt \in Nat /\ row'[r].is.updatedAt \in Nat
  BY <1>1, <1>2, DeviceTypes DEF Stamps, Times
<1>5. txn[t].began > cursor - Lag
  BY <1>3, SyncConstants
<1>6. CASE row'[r] = row[r]
  BY <1>6 DEF Marks
<1>7. CASE row'[r].ver = row[r].ver + 1
  BY <1>1, <1>3, <1>4, <1>5, <1>7, SyncConstants DEF Marks
<1>8. CASE /\ row'[r].ver = row[r].ver
           /\ row[r].is.deletedAt > 0 /\ row'[r].is.deletedAt > 0
           /\ \/ row'[r].is.deletedAt = row[r].is.deletedAt
              \/ row'[r].is.deletedAt >= txn[t].began
  BY <1>3, <1>4, <1>5, <1>8, SyncConstants DEF Marks
<1> QED
  BY <1>1, <1>6, <1>7, <1>8

LEMMA DeltaCommit == ASSUME CoreInv, DeltaInv, NEW t \in Clients, Commit(t) PROVE DeltaInv'
<1>1. rev' = rev + 1 /\ UNCHANGED <<now, app>>
  BY CommitEffect DEF Commit
<1>2. /\ now \in Int /\ rev \in Int /\ Lag \in Int
      /\ app.cursor \in Int /\ app.serverTime \in Int
      /\ app.polled \in Int /\ app.seen \in Int
  BY DeviceTypes DEF CoreInv
<1>3. /\ app.cursor <= now /\ app.serverTime <= now /\ app.polled <= rev /\ app.seen <= rev
  BY DEF DeltaInv
<1>4. /\ app'.cursor <= now' /\ app'.serverTime <= now'
      /\ app'.polled <= rev' /\ app'.seen <= rev' /\ app'.seen # rev' /\ rev' > app'.polled
  BY <1>1, <1>2, <1>3
<1> SUFFICES ASSUME NEW r \in Rows PROVE DeltaRow(r)'
  BY <1>2, <1>4 DEF DeltaInv
<1>5. /\ \/ row'[r] = row[r]
         \/ row'[r].ver = row[r].ver + 1
         \/ /\ row'[r].ver = row[r].ver
            /\ row[r].is.deletedAt > 0 /\ row'[r].is.deletedAt > 0
            /\ \/ row'[r].is.deletedAt = row[r].is.deletedAt
               \/ row'[r].is.deletedAt >= txn[t].began
      /\ row'[r].is \in Stamps
  BY CommitEffect
<1>6. /\ row[r].ver \in Nat /\ row[r].is.deletedAt \in Nat
      /\ app.known[r] \in Nat /\ app.got[r] \in Nat
  BY DeviceTypes DEF CoreInv
<1>7. DeltaRow(r)
  BY DEF DeltaInv
<1>8. row'[r].ver # row[r].ver => Marks(r, app.cursor)' /\ Marks(r, app.serverTime)'
  <2>1. ASSUME row'[r].ver # row[r].ver, NEW c \in Int, c <= now PROVE Marks(r, c)'
    BY <2>1, CommitMarks
  <2> QED
    BY <1>1, <1>2, <1>3, <2>1 DEF Marks
<1>9. Marks(r, app.cursor) => Marks(r, app.cursor)'
  <2>1. ASSUME NEW c \in Int, c <= now, Marks(r, c) PROVE Marks(r, c)'
    BY <2>1, CommitMarks
  <2> QED
    BY <1>1, <1>2, <1>3, <2>1 DEF Marks
<1>10. Marks(r, app.serverTime) => Marks(r, app.serverTime)'
  <2>1. ASSUME NEW c \in Int, c <= now, Marks(r, c) PROVE Marks(r, c)'
    BY <2>1, CommitMarks
  <2> QED
    BY <1>1, <1>2, <1>3, <2>1 DEF Marks
<1>11. row'[r].ver = 0 => app'.known[r] = 0 /\ app'.got[r] = 0
  BY <1>1, <1>5, <1>6, <1>7 DEF DeltaRow
<1>12. Stale(r)' => Marks(r, app.cursor)'
  BY <1>1, <1>7, <1>8, <1>9 DEF Stale, DeltaRow
<1>13. CASE row'[r].ver # row[r].ver
  <2>1. Later(r)'
    BY <1>1, <1>4, <1>8, <1>13 DEF Later, Marks
  <2> QED
    BY <1>4, <1>11, <1>12, <2>1, <1>1, <1>2 DEF DeltaRow
<1>14. CASE row'[r].ver = row[r].ver
  <2>1. Got(r)' <=> Got(r)
    BY <1>1, <1>14 DEF Got
  <2>2. Later(r) => Later(r)'
    BY <1>1, <1>4, <1>10 DEF Later, Marks
  <2>3. Excused(r) => Excused(r)'
    BY <1>5, <1>6, <1>14 DEF Excused
  <2>4. ASSUME Buried(r) PROVE Buried(r)'
    <3>1. Marks(r, app.cursor)'
      BY <1>9, <2>4 DEF Marks, Buried
    <3> QED
      BY <1>1, <1>5, <1>6, <1>14, <2>4, <3>1 DEF Marks, Buried
  <2> QED
    BY <1>1, <1>2, <1>4, <1>7, <1>11, <1>12, <2>1, <2>2, <2>3, <2>4 DEF DeltaRow
<1> QED
  BY <1>13, <1>14

\* The reads of a delta.
LEMMA DeltaRead ==
    ASSUME CoreInv, DeltaInv, GetState \/ Read \/ LoseDelta
    PROVE  DeltaInv'
<1>1. /\ now \in Int /\ rev \in Int /\ Lag \in Int /\ app \in App
      /\ app.cursor \in Int /\ app.serverTime \in Int
      /\ app.polled \in Int /\ app.seen \in Int
      /\ \A r \in Rows : /\ app.known[r] \in Nat /\ app.got[r] \in Nat
                         /\ row[r].ver \in Nat /\ row[r].is \in Stamps
                         /\ row[r].is.deletedAt \in Nat /\ row[r].is.updatedAt \in Nat
  BY DeviceTypes DEF CoreInv
<1>2. /\ app.cursor <= now /\ app.serverTime <= now
      /\ app.polled <= rev /\ app.seen <= rev
      /\ \A r \in Rows : DeltaRow(r)
  BY DEF DeltaInv
<1>3. UNCHANGED <<now, row, rev>>
  BY DEF GetState, Read, CaptureTime, ReadTasks, ReadDeleted, Apply, LoseDelta
<1>4. CASE GetState
  <2>1. app' = [app EXCEPT !.phase = "polled", !.polled = rev]
    BY <1>4 DEF GetState
  <2>2. /\ app'.phase = "polled" /\ app'.polled = rev /\ app'.seen = app.seen
        /\ app'.cursor = app.cursor /\ app'.serverTime = app.serverTime
        /\ app'.known = app.known /\ app'.got = app.got
    BY <1>1, <2>1 DEF App
  <2>3. \A r \in Rows : DeltaRow(r)'
    BY <1>2, <1>3, <2>2 DEF DeltaRow, Stale, Marks, Excused
  <2> QED
    BY <1>1, <1>2, <1>3, <2>2, <2>3 DEF DeltaInv
<1>5. CASE CaptureTime
  <2>1. app' = [app EXCEPT !.phase = "tasks", !.serverTime = now]
    BY <1>5 DEF CaptureTime
  <2>2. /\ app'.phase = "tasks" /\ app'.polled = app.polled /\ app'.seen = app.seen
        /\ app'.cursor = app.cursor /\ app'.serverTime = now
        /\ app'.known = app.known /\ app'.got = app.got
    BY <1>1, <2>1 DEF App
  <2>3. \A r \in Rows : DeltaRow(r)'
    BY <1>2, <1>3, <2>2 DEF DeltaRow, Stale, Marks, Excused
  <2> QED
    BY <1>1, <1>2, <1>3, <2>2, <2>3 DEF DeltaInv
<1>6. CASE LoseDelta
  <2>1. app' = [app EXCEPT !.phase = "idle"]
    BY <1>6 DEF LoseDelta
  <2>2. /\ app'.phase = "idle" /\ app'.polled = app.polled /\ app'.seen = app.seen
        /\ app'.cursor = app.cursor /\ app'.serverTime = app.serverTime
        /\ app'.known = app.known /\ app'.got = app.got
    BY <1>1, <2>1 DEF App
  <2>3. \A r \in Rows : DeltaRow(r)'
    BY <1>2, <1>3, <2>2 DEF DeltaRow, Stale, Marks, Excused
  <2> QED
    BY <1>1, <1>2, <1>3, <2>2, <2>3 DEF DeltaInv
<1>7. CASE ReadTasks
  <2> DEFINE got == [r \in Rows |->
                        IF /\ row[r].ver > 0 /\ row[r].is.deletedAt = 0
                           /\ row[r].is.updatedAt > EffectiveSince
                        THEN row[r].ver ELSE app.known[r]]
  <2>1. app.phase = "tasks" /\ app' = [app EXCEPT !.phase = "deleted", !.got = got]
    BY <1>7 DEF ReadTasks
  <2>2. \A r \in Rows :
            got[r] = IF /\ row[r].ver > 0 /\ row[r].is.deletedAt = 0
                        /\ row[r].is.updatedAt > app.cursor - Lag
                     THEN row[r].ver ELSE app.known[r]
    BY DEF EffectiveSince
  <2> HIDE DEF got
  <2>3. /\ app'.phase = "deleted" /\ app'.polled = app.polled /\ app'.seen = app.seen
        /\ app'.cursor = app.cursor /\ app'.serverTime = app.serverTime
        /\ app'.known = app.known /\ app'.got = got
    BY <1>1, <2>1 DEF App
  <2>4. ASSUME NEW r \in Rows PROVE DeltaRow(r)'
    <3>1. DeltaRow(r) /\ row[r].ver \in Nat /\ row[r].is.deletedAt \in Nat
      BY <1>1, <1>2
    <3>2. row[r].ver = 0 => got[r] = 0 /\ app.known[r] = 0
      BY <2>2, <3>1 DEF DeltaRow
    <3>3. ASSUME got[r] # row[r].ver PROVE Buried(r) \/ Excused(r)
      <4>1. Stale(r) /\ Marks(r, app.cursor)
        BY <2>2, <3>1, <3>3 DEF DeltaRow, Stale
      <4>2. row[r].ver > 0
        BY <3>1, <3>2, <3>3
      <4> QED
        BY <2>2, <3>1, <3>3, <4>1, <4>2 DEF Marks, Buried, Excused
    <3> QED
      BY <1>3, <2>3, <3>1, <3>2, <3>3
         DEF DeltaRow, Stale, Marks, Excused, Buried, Got
  <2> QED
    BY <1>1, <1>2, <1>3, <2>3, <2>4 DEF DeltaInv
<1>8. CASE ReadDeleted
  <2> DEFINE got == [r \in Rows |->
                        IF row[r].is.deletedAt > 0 /\ row[r].is.deletedAt > EffectiveSince
                        THEN row[r].ver ELSE app.got[r]]
  <2>1. app.phase = "deleted" /\ app' = [app EXCEPT !.phase = "apply", !.got = got]
    BY <1>8 DEF ReadDeleted
  <2>2. \A r \in Rows : got[r] = IF Buried(r) THEN row[r].ver ELSE app.got[r]
    BY DEF EffectiveSince, Buried
  <2> HIDE DEF got
  <2>3. /\ app'.phase = "apply" /\ app'.polled = app.polled /\ app'.seen = app.seen
        /\ app'.cursor = app.cursor /\ app'.serverTime = app.serverTime
        /\ app'.known = app.known /\ app'.got = got
    BY <1>1, <2>1 DEF App
  <2>4. ASSUME NEW r \in Rows PROVE DeltaRow(r)'
    <3>1. DeltaRow(r)
      BY <1>2
    <3>2. got[r] # row[r].ver => Excused(r) \/ Later(r)
      BY <2>1, <2>2, <3>1 DEF DeltaRow, Got
    <3>3. row[r].ver = 0 => got[r] = 0 /\ app.known[r] = 0
      BY <2>2, <3>1 DEF DeltaRow
    <3> QED
      BY <1>3, <2>3, <3>1, <3>2, <3>3
         DEF DeltaRow, Stale, Marks, Excused, Later, Got
  <2> QED
    BY <1>1, <1>2, <1>3, <2>3, <2>4 DEF DeltaInv
<1>9. CASE Apply
  <2>1. /\ app.phase = "apply"
        /\ app' = [app EXCEPT !.phase = "idle", !.known = app.got, !.seen = app.polled,
                              !.cursor = app.serverTime]
    BY <1>9 DEF Apply
  <2>2. /\ app'.phase = "idle" /\ app'.polled = app.polled /\ app'.seen = app.polled
        /\ app'.cursor = app.serverTime /\ app'.serverTime = app.serverTime
        /\ app'.known = app.got /\ app'.got = app.got
    BY <1>1, <2>1 DEF App
  <2>3. ASSUME NEW r \in Rows PROVE DeltaRow(r)'
    <3>1. DeltaRow(r)
      BY <1>2
    <3>2. ~Got(r) => Excused(r) \/ Later(r)
      BY <2>1, <3>1 DEF DeltaRow
    <3>3. ~Got(r) => Marks(r, app.serverTime)
      BY <3>2 DEF Excused, Later, Marks
    <3>4. ~Got(r) /\ app.polled = rev => Excused(r)
      BY <1>1, <3>2 DEF Later
    <3> QED
      BY <1>3, <2>2, <3>1, <3>3, <3>4 DEF DeltaRow, Stale, Marks, Excused, Got
  <2> QED
    BY <1>1, <1>2, <1>3, <2>2, <2>3 DEF DeltaInv
<1> QED
  BY <1>4, <1>5, <1>6, <1>7, <1>8, <1>9 DEF Read

\* Anything else leaves the rows and the device; the clock only advances.
LEMMA DeltaStands ==
    ASSUME CoreInv, DeltaInv, UNCHANGED <<row, rev, app>>, now' \in Int, now' >= now
    PROVE  DeltaInv'
<1>1. now \in Int /\ app.cursor \in Int /\ app.serverTime \in Int
  BY DeviceTypes DEF CoreInv
<1>2. \A r \in Rows : DeltaRow(r)'
  BY DEF DeltaInv, DeltaRow, Stale, Marks, Excused, Later, Got, Buried
<1> QED
  BY <1>1, <1>2 DEF DeltaInv

LEMMA DeltaStep == ASSUME CoreInv, DeltaInv, [Next]_vars PROVE DeltaInv'
<1>1. now \in Int
  BY DeviceTypes DEF CoreInv
<1>2. CASE Tick \/ UNCHANGED vars
  BY <1>1, <1>2, DeltaStands DEF Tick, vars
<1>3. ASSUME NEW t \in Clients, Begin(t) \/ BreakDeadlock(t) \/ Throw(t) PROVE DeltaInv'
  <2>1. UNCHANGED <<now, row, rev, app>>
    BY <1>3 DEF Begin, BreakDeadlock, Throw, RolledBack
  <2> QED
    BY <1>1, <2>1, DeltaStands
<1>4. ASSUME NEW t \in Clients, Statement(t) PROVE DeltaInv'
  <2>1. CASE Commit(t)
    BY <2>1, DeltaCommit
  <2>2. CASE LoadRow(t) \/ LockRow(t) \/ FindChild(t)
    BY <1>1, <2>2, DeltaStands DEF LoadRow, LockRow, FindChild, RolledBack
  <2>3. CASE LoadChildren(t) \/ Compare(t) \/ CompareDeleted(t) \/ Write(t) \/ Touch(t)
                \/ BumpRevision(t)
    <3>1. UNCHANGED <<now, row, rev, app>>
      BY <2>3 DEF LoadChildren, Compare, CompareDeleted, Write, Touch, BumpRevision
    <3> QED
      BY <1>1, <3>1, DeltaStands
  <2> QED
    BY <1>4, <2>1, <2>2, <2>3 DEF Statement
<1>5. CASE GetState \/ Read \/ LoseDelta
  BY <1>5, DeltaRead
<1> QED
  BY <1>2, <1>3, <1>4, <1>5 DEF Next

LEMMA DeltaInit == Init => DeltaInv
<1> SUFFICES ASSUME Init PROVE DeltaInv
  OBVIOUS
<1>1. CoreInv
  BY CoreInit
<1>2. PICK ver \in {0, 1} :
          LET vers == [r \in Rows |-> IF r = Series THEN 1 ELSE ver]
          IN  /\ row = [r \in Rows |-> [ver |-> vers[r], is |-> Old]]
              /\ app = [phase |-> "idle", seen |-> 0, polled |-> 0, cursor |-> Start,
                        serverTime |-> Start, got |-> vers, known |-> vers]
  BY DEF Init
<1>3. /\ app.phase = "idle" /\ app.seen = 0 /\ app.polled = 0
      /\ app.cursor = Start /\ app.serverTime = Start
      /\ \A r \in Rows : app.got[r] = row[r].ver /\ app.known[r] = row[r].ver
  BY <1>2
<1>4. now = Start /\ rev = 0 /\ Start \in Int
  BY SyncConstants DEF Init, Start
<1> QED
  BY <1>3, <1>4 DEF DeltaInv, DeltaRow, Stale

LEMMA DeltaInvariant == Spec => [](CoreInv /\ DeltaInv)
<1>1. Init => CoreInv /\ DeltaInv
  BY CoreInit, DeltaInit
<1>2. CoreInv /\ DeltaInv /\ [Next]_vars => (CoreInv /\ DeltaInv)'
  BY CoreStep, DeltaStep
<1> QED
  BY <1>1, <1>2, PTL DEF Spec

\* A device at rest that has seen the current revision shows what is committed, except live
\* rows whose updatedAt was written back stale (findChangedSince with DELTA_OVERLAP_LAG_MS
\* against transactions no longer than it; bump in the transaction of the change).
THEOREM DeltaCompleteHolds == Spec => []DeltaComplete
<1>1. DeltaInv => DeltaComplete
  BY DEF DeltaInv, DeltaRow, DeltaComplete, Quiet, Excused
<1> QED
  BY <1>1, DeltaInvariant, PTL

-----------------------------------------------------------------------------
(* Who meets in a deadlock                                                  *)

OutOfOrder == {"rekey", "removeChild"}

\* What the order of its statements has left a transaction of the other kinds with: nothing
\* to lock above the revision, and the series not to be asked for from below.
Orderly(t) ==
    Active(t) /\ txn[t].kind \notin OutOfOrder =>
        /\ BumpsLast(txn[t].left)
        /\ SeriesFirst(txn[t].left) \/ lock[Series] = t
        /\ lock[Revision] = t =>
               \A i \in 1..Len(txn[t].left) : txn[t].left[i].op = "bump"
        /\ lock[Child] = t /\ (\E i \in 1..Len(txn[t].left) : WaitsSeries(txn[t].left[i])) =>
               lock[Series] = t

LEMMA InOrderRest ==
    ASSUME NEW left \in Seq(Statements), NEW n \in 1..Len(left)
    PROVE  LET rest == SubSeq(left, n + 1, Len(left))
           IN  /\ BumpsLast(left) => BumpsLast(rest)
               /\ SeriesFirst(left) /\ (\A k \in 1..n : left[k] # Do("lock", Series)) =>
                      SeriesFirst(rest)
               /\ \A i \in 1..Len(rest) : i + n \in 1..Len(left) /\ rest[i] = left[i + n]
<1> DEFINE rest == SubSeq(left, n + 1, Len(left))
           m == Len(rest)
           k == Len(left)
<1>1. m = k - n /\ k \in Nat /\ m \in Nat /\ \A i \in 1..k - n : rest[i] = left[i + n]
  BY RestOf, LenProperties
<1>2. n \in 1..k
  OBVIOUS
<1> HIDE DEF rest, m, k
<1>3. \A i \in 1..m : i + n \in 1..k /\ rest[i] = left[i + n]
  BY <1>1, <1>2
<1>4. ASSUME BumpsLast(left) PROVE BumpsLast(rest)
  <2> SUFFICES ASSUME NEW i \in 1..m, NEW j \in 1..m, i < j, rest[i].op = "bump"
               PROVE  rest[j].op = "bump"
    BY DEF BumpsLast, m
  <2>1. i + n < j + n /\ left[i + n].op = "bump"
    BY <1>2, <1>3
  <2> QED
    BY <1>3, <1>4, <2>1 DEF BumpsLast, k
<1>5. ASSUME SeriesFirst(left), \A h \in 1..n : left[h] # Do("lock", Series)
      PROVE  SeriesFirst(rest)
  <2> SUFFICES ASSUME NEW i \in 1..m, NEW j \in 1..m, i < j,
                      LocksChild(rest[i]), WaitsSeries(rest[j])
               PROVE  \E h \in 1..m : h < i /\ rest[h] = Do("lock", Series)
    BY DEF SeriesFirst, m
  <2>1. /\ i + n \in 1..k /\ j + n \in 1..k /\ i + n < j + n
        /\ LocksChild(left[i + n]) /\ WaitsSeries(left[j + n])
    BY <1>2, <1>3
  <2>2. PICK h \in 1..k : h < i + n /\ left[h] = Do("lock", Series)
    BY <1>5, <2>1 DEF SeriesFirst, k
  <2>3. h > n
    BY <1>2, <1>5, <2>2
  <2>4. h - n \in 1..m /\ h - n < i /\ (h - n) + n = h
    BY <1>1, <1>2, <2>2, <2>3
  <2>5. rest[h - n] = left[(h - n) + n]
    BY <1>3, <2>4
  <2> QED
    BY <2>2, <2>4, <2>5
<1> QED
  BY <1>3, <1>4, <1>5 DEF rest, m, k

\* A statement that leaves its transaction running: what is left, and what it locks.
LEMMA Runs ==
    ASSUME CoreInv, NEW t \in Clients, ~RolledBack(t),
           \/ LoadRow(t) \/ LockRow(t) \/ FindChild(t) \/ LoadChildren(t) \/ Compare(t)
           \/ CompareDeleted(t) \/ Write(t) \/ Touch(t) \/ BumpRevision(t)
    PROVE  /\ Active(t) /\ txn[t].left # <<>> /\ txn'[t].kind = txn[t].kind
           /\ \E n \in 1..Len(txn[t].left) :
                  /\ txn'[t].left = SubSeq(txn[t].left, n + 1, Len(txn[t].left))
                  /\ \A k \in 1..n : txn[t].left[k] = Do("lock", Series) => lock'[Series] = t
           /\ \A u \in Clients : u # t => txn'[u] = txn[u]
           /\ \A l \in Lockable :
                  \/ lock'[l] = lock[l]
                  \/ /\ lock'[l] = t /\ CanLock(t, l) /\ l = Head(txn[t].left).on
                     /\ Head(txn[t].left).op \in {"lock", "find", "write", "touch", "bump"}
<1>1. TypeOK
  BY DEF CoreInv
<1>2. Active(t) /\ txn[t].left # <<>>
  BY DEF LoadRow, LockRow, FindChild, LoadChildren, Compare, CompareDeleted, Write, Touch,
         BumpRevision, Next1
<1>3. /\ txn[t] \in Txn /\ txn \in [Clients -> Txn] /\ Shape(txn[t].left)
      /\ lock \in [Lockable -> Clients \cup {None}]
      /\ 1 \in 1..Len(txn[t].left) /\ Head(txn[t].left) = txn[t].left[1]
      /\ Head(txn[t].left) \in Statements /\ Addressed(Head(txn[t].left))
  BY <1>1, <1>2, Issues DEF TypeOK
<1> DEFINE r == Target(t)
           rest == SubSeq(txn[t].left, 1 + 1, Len(txn[t].left))
<1>5. CASE /\ txn'[t].kind = txn[t].kind /\ txn'[t].left = rest
           /\ \A u \in Clients : u # t => txn'[u] = txn[u]
           /\ \/ lock' = lock /\ Head(txn[t].left).op # "lock"
              \/ /\ lock' = [lock EXCEPT ![r] = t] /\ CanLock(t, r)
                 /\ Head(txn[t].left).op \in {"lock", "find", "write", "touch", "bump"}
  <2>1. \A k \in 1..1 : txn[t].left[k] = Do("lock", Series) => lock'[Series] = t
    BY <1>3, <1>5 DEF Do, Target, Lockable, Rows
  <2>2. \A l \in Lockable :
            \/ lock'[l] = lock[l]
            \/ /\ lock'[l] = t /\ CanLock(t, l) /\ l = Head(txn[t].left).on
               /\ Head(txn[t].left).op \in {"lock", "find", "write", "touch", "bump"}
    BY <1>3, <1>5 DEF Target
  <2> QED
    BY <1>2, <1>3, <1>5, <2>1, <2>2
<1>6. CASE LoadRow(t)
  BY <1>3, <1>5, <1>6 DEF LoadRow, Next1, Advance, Txn
<1>7. CASE LockRow(t)
  <2>1. /\ Advance(t, 1, [txn[t] EXCEPT !.copy[r] = Visible(t, r)])
        /\ lock' = [lock EXCEPT ![r] = t] /\ CanLock(t, r)
        /\ Head(txn[t].left).op = "lock"
    BY <1>7 DEF LockRow, Next1
  <2> HIDE DEF r
  <2>2. /\ txn'[t].kind = txn[t].kind /\ txn'[t].left = rest
        /\ \A u \in Clients : u # t => txn'[u] = txn[u]
    BY <1>3, <2>1 DEF Advance, Txn
  <2> QED
    BY <1>5, <2>1, <2>2
<1>8. CASE FindChild(t)
  <2> DEFINE made == [updatedAt |-> txn[t].began, deletedAt |-> 0, stale |-> FALSE]
             found == [txn[t] EXCEPT !.copy[r] = Visible(t, r)]
             inserted == [txn[t] EXCEPT !.copy[r] = made, !.out[r] = made]
  <2>0. Head(txn[t].left).op = "find" /\ r = Child /\ lock[Series] = t
    BY <1>2, <1>3, <1>8, Issues DEF FindChild, Next1, Addressed, Target
  <2>1. \/ Advance(t, 1, found) /\ lock' = lock
        \/ Advance(t, 1, inserted) /\ lock' = [lock EXCEPT ![r] = t] /\ CanLock(t, r)
    BY <1>8, <2>0, InsertLock DEF FindChild
  <2>2. \A new \in {found, inserted} : Advance(t, 1, new) =>
            /\ txn'[t].kind = txn[t].kind /\ txn'[t].left = rest
            /\ \A u \in Clients : u # t => txn'[u] = txn[u]
    <3> HIDE DEF r, made
    <3>1. ASSUME Advance(t, 1, found)
          PROVE  /\ txn'[t].kind = txn[t].kind /\ txn'[t].left = rest
                 /\ \A u \in Clients : u # t => txn'[u] = txn[u]
      BY <1>3, <3>1 DEF Advance, Txn
    <3>2. ASSUME Advance(t, 1, inserted)
          PROVE  /\ txn'[t].kind = txn[t].kind /\ txn'[t].left = rest
                 /\ \A u \in Clients : u # t => txn'[u] = txn[u]
      BY <1>3, <3>2 DEF Advance, Txn
    <3> HIDE DEF found, inserted
    <3> QED
      BY <3>1, <3>2
  <2> HIDE DEF r, found, inserted
  <2> QED
    BY <1>5, <2>0, <2>1, <2>2
<1>9. CASE Compare(t)
  BY <1>3, <1>5, <1>9 DEF Compare, Next1, Advance, Txn
<1>10. CASE CompareDeleted(t)
  <2>1. PICK d \in txn[t].at..now :
            Advance(t, 1, [txn[t] EXCEPT !.copy[r].deletedAt = d, !.seen[r] = Visible(t, r)])
    BY <1>10 DEF CompareDeleted
  <2>2. lock' = lock /\ Head(txn[t].left).op = "bury"
    BY <1>10 DEF CompareDeleted, Next1
  <2> HIDE DEF r
  <2>3. /\ txn'[t].kind = txn[t].kind /\ txn'[t].left = rest
        /\ \A u \in Clients : u # t => txn'[u] = txn[u]
    BY <1>3, <2>1 DEF Advance, Txn
  <2> QED
    BY <1>5, <2>2, <2>3
<1>11. CASE Write(t)
  BY <1>3, <1>5, <1>11 DEF Write, Next1, Advance, Txn
<1>12. CASE Touch(t)
  BY <1>3, <1>5, <1>12 DEF Touch, Next1, Advance, Txn
<1>13. CASE BumpRevision(t)
  BY <1>3, <1>5, <1>13 DEF BumpRevision, Next1, Advance, Txn, Target, Addressed
<1>14. CASE LoadChildren(t) /\ Live(t, r)
  BY <1>3, <1>5, <1>14 DEF LoadChildren, Next1, Advance, Txn
<1>15. CASE LoadChildren(t) /\ ~Live(t, r)
  <2>1. Head(txn[t].left).op = "children" /\ lock' = lock /\ r = Child
    BY <1>3, <1>15 DEF LoadChildren, Next1, Addressed, Target
  <2>2. /\ 3 \in 1..Len(txn[t].left) /\ txn[t].left[1].on = Child /\ txn[t].left[2].on = Child
        /\ txn[t].left[3] = Do("write", Child)
        /\ Cardinality({i \in 1..Len(txn[t].left) : txn[t].left[i].on = r}) = 3
    BY <1>2, <1>3, <2>1, SkipsSave
  <2>3. Advance(t, 3, txn[t])
    BY <1>15, <2>2 DEF LoadChildren
  <2>4. /\ txn'[t].kind = txn[t].kind
        /\ txn'[t].left = SubSeq(txn[t].left, 3 + 1, Len(txn[t].left))
        /\ \A u \in Clients : u # t => txn'[u] = txn[u]
    BY <1>3, <2>3 DEF Advance, Txn
  <2>5. \A k \in 1..3 : txn[t].left[k] # Do("lock", Series)
    BY <2>2, Distinct DEF Do
  <2> QED
    BY <1>2, <2>1, <2>2, <2>4, <2>5
<1> QED
  BY <1>6, <1>7, <1>8, <1>9, <1>10, <1>11, <1>12, <1>13, <1>14, <1>15

LEMMA OrderlyStands ==
    ASSUME NEW u, Orderly(u), txn'[u] = txn[u],
           \A l \in Lockable : lock'[l] = u <=> lock[l] = u
    PROVE  Orderly(u)'
<1>1. Series \in Lockable /\ Child \in Lockable /\ Revision \in Lockable
  BY DEF Lockable, Rows
<1> QED
  BY <1>1 DEF Orderly, Active, BumpsLast, SeriesFirst

LEMMA OrderlyRuns ==
    ASSUME CoreInv, \A u \in Clients : Orderly(u), NEW t \in Clients, ~RolledBack(t),
           \/ LoadRow(t) \/ LockRow(t) \/ FindChild(t) \/ LoadChildren(t) \/ Compare(t)
           \/ CompareDeleted(t) \/ Write(t) \/ Touch(t) \/ BumpRevision(t)
    PROVE  Orderly(t)'
<1> DEFINE left == txn[t].left
           s == Head(left)
<1>1. PICK n \in 1..Len(left) :
          /\ Active(t) /\ left # <<>> /\ txn'[t].kind = txn[t].kind
          /\ txn'[t].left = SubSeq(left, n + 1, Len(left))
          /\ \A k \in 1..n : left[k] = Do("lock", Series) => lock'[Series] = t
          /\ \A l \in Lockable :
                 \/ lock'[l] = lock[l]
                 \/ /\ lock'[l] = t /\ l = s.on
                    /\ s.op \in {"lock", "find", "write", "touch", "bump"}
  BY Runs
<1>2. /\ left \in Seq(Statements) /\ Len(left) \in Nat /\ 1 \in 1..Len(left) /\ s = left[1]
      /\ s \in Statements /\ Addressed(s)
  BY <1>1, Issues DEF Shape
<1> DEFINE rest == SubSeq(left, n + 1, Len(left))
<1>3. /\ BumpsLast(left) => BumpsLast(rest)
      /\ SeriesFirst(left) /\ (\A k \in 1..n : left[k] # Do("lock", Series)) =>
             SeriesFirst(rest)
      /\ \A i \in 1..Len(rest) : i + n \in 1..Len(left) /\ rest[i] = left[i + n]
      /\ Len(rest) \in Nat
  BY <1>2, InOrderRest, RestOf, LenProperties
<1>4. /\ Series \in Lockable /\ Child \in Lockable /\ Revision \in Lockable
      /\ Child # Series /\ Child # Revision /\ Series # Revision
  BY Distinct DEF Lockable, Rows
<1>10. txn'[t].left = rest /\ txn'[t].kind = txn[t].kind
  BY <1>1
<1> HIDE DEF left, s, rest
<1> SUFFICES ASSUME txn[t].kind \notin OutOfOrder
             PROVE  /\ BumpsLast(rest) /\ (SeriesFirst(rest) \/ lock'[Series] = t)
                    /\ lock'[Revision] = t => \A i \in 1..Len(rest) : rest[i].op = "bump"
                    /\ lock'[Child] = t /\ (\E i \in 1..Len(rest) : WaitsSeries(rest[i])) =>
                           lock'[Series] = t
  BY <1>10 DEF Orderly
<1>5. /\ BumpsLast(left) /\ (SeriesFirst(left) \/ lock[Series] = t)
      /\ lock[Revision] = t => \A i \in 1..Len(left) : left[i].op = "bump"
      /\ lock[Child] = t /\ (\E i \in 1..Len(left) : WaitsSeries(left[i])) => lock[Series] = t
  BY <1>1 DEF Orderly, left
<1>6. lock[Series] = t => lock'[Series] = t
  BY <1>1, <1>4
<1>7. SeriesFirst(rest) \/ lock'[Series] = t
  BY <1>1, <1>3, <1>5, <1>6
<1>8. ASSUME lock'[Revision] = t, NEW i \in 1..Len(rest) PROVE rest[i].op = "bump"
  <2>1. i + n \in 1..Len(left) /\ i + n > 1 /\ rest[i] = left[i + n]
    BY <1>3
  <2>2. CASE lock[Revision] = t
    BY <1>5, <2>1, <2>2
  <2>3. CASE lock[Revision] # t
    <3>1. s.op = "bump"
      BY <1>1, <1>2, <1>4, <1>8, <2>3 DEF Addressed
    <3> QED
      BY <1>2, <1>5, <2>1, <3>1 DEF BumpsLast
  <2> QED
    BY <2>2, <2>3
<1>9. ASSUME lock'[Child] = t, NEW i \in 1..Len(rest), WaitsSeries(rest[i])
      PROVE  lock'[Series] = t
  <2>1. i + n \in 1..Len(left) /\ 1 < i + n /\ WaitsSeries(left[i + n])
    BY <1>3, <1>9
  <2>2. CASE lock[Child] = t
    BY <1>5, <1>6, <2>1, <2>2
  <2>3. CASE lock[Child] # t
    <3>1. LocksChild(left[1])
      BY <1>1, <1>2, <1>4, <1>9, <2>3 DEF Addressed, LocksChild
    <3>2. ~SeriesFirst(left)
      BY <1>2, <2>1, <3>1 DEF SeriesFirst
    <3> QED
      BY <1>5, <1>6, <3>2
  <2> QED
    BY <2>2, <2>3
<1> QED
  BY <1>3, <1>5, <1>7, <1>8, <1>9

LEMMA OrderlyStep ==
    ASSUME CoreInv, \A u \in Clients : Orderly(u), [Next]_vars, NEW u \in Clients
    PROVE  Orderly(u)'
<1>1. TypeOK
  BY DEF CoreInv
<1>2. CASE Tick \/ GetState \/ Read \/ LoseDelta \/ UNCHANGED vars
  <2>1. UNCHANGED <<txn, lock>>
    BY <1>2 DEF Tick, GetState, Read, CaptureTime, ReadTasks, ReadDeleted, Apply, LoseDelta,
                vars
  <2> QED
    BY <2>1, OrderlyStands
<1>3. ASSUME NEW t \in Clients, Ended(t) PROVE Orderly(u)'
  <2>1. /\ txn'[t] = Idle /\ (u # t => txn'[u] = txn[u])
        /\ \A l \in Lockable : u # t => (lock'[l] = u <=> lock[l] = u)
    BY <1>1, <1>3, EndEffect
  <2>2. CASE u = t
    BY <2>1, <2>2 DEF Orderly, Active, Idle
  <2>3. CASE u # t
    BY <2>1, <2>3, OrderlyStands
  <2> QED
    BY <2>2, <2>3
<1>4. ASSUME NEW t \in Clients, Begin(t) PROVE Orderly(u)'
  <2>1. PICK q \in Requests :
            txn' = [txn EXCEPT ![t] = [Idle EXCEPT !.kind = q[1], !.left = q[2],
                                                   !.began = now, !.at = now]]
    BY <1>4 DEF Begin
  <2>2. ~Active(t) /\ lock' = lock
    BY <1>4 DEF Begin
  <2>3. /\ txn'[t].kind = q[1] /\ txn'[t].left = q[2]
        /\ \A v \in Clients : v # t => txn'[v] = txn[v]
    BY <1>1, <2>1 DEF TypeOK, Idle
  <2>4. CASE u = t
    <3>1. \A l \in Lockable : lock'[l] # t
      BY <1>1, <2>2, SyncConstants DEF TypeOK
    <3>2. q[1] \notin OutOfOrder => BumpsLast(q[2]) /\ SeriesFirst(q[2])
      BY RequestsShaped DEF OutOfOrder, InOrder
    <3> QED
      BY <2>3, <2>4, <3>1, <3>2 DEF Orderly, BumpsLast, SeriesFirst, Lockable, Rows
  <2>5. CASE u # t
    BY <2>2, <2>3, <2>5, OrderlyStands
  <2> QED
    BY <2>4, <2>5
<1>5. ASSUME NEW t \in Clients,
             \/ LoadRow(t) \/ LockRow(t) \/ FindChild(t) \/ LoadChildren(t) \/ Compare(t)
             \/ CompareDeleted(t) \/ Write(t) \/ Touch(t) \/ BumpRevision(t)
      PROVE  Orderly(u)'
  <2>1. CASE RolledBack(t)
    BY <1>3, <2>1 DEF RolledBack
  <2>2. CASE ~RolledBack(t)
    <3>1. CASE u = t
      BY <1>5, <2>2, <3>1, OrderlyRuns
    <3>2. CASE u # t
      <4>1. /\ txn'[u] = txn[u]
            /\ \A l \in Lockable : lock'[l] = lock[l] \/ (lock'[l] = t /\ CanLock(t, l))
        BY <1>5, <2>2, <3>2, Runs
      <4>2. \A l \in Lockable : lock'[l] = u <=> lock[l] = u
        BY <3>2, <4>1, SyncConstants DEF CanLock
      <4> QED
        BY <4>1, <4>2, OrderlyStands
    <3> QED
      BY <3>1, <3>2
  <2> QED
    BY <2>1, <2>2
<1> QED
  BY <1>2, <1>3, <1>4, <1>5
     DEF Next, Statement, Commit, BreakDeadlock, Throw, RolledBack

\* A transaction of the other kinds waits for what comes after all it holds.
Rank(l) == IF l = Series THEN 1 ELSE IF l = Child THEN 2 ELSE 3

LEMMA Climbs ==
    ASSUME CoreInv, NEW t \in Clients, Orderly(t), txn[t].kind \notin OutOfOrder,
           WaitsFor(t) # None, NEW l \in Lockable, lock[l] = t
    PROVE  /\ Target(t) \in Lockable /\ lock[Target(t)] = WaitsFor(t)
           /\ Rank(l) < Rank(Target(t))
<1> DEFINE s == Head(txn[t].left)
<1>1. /\ Active(t) /\ txn[t].left # <<>> /\ s.op \in {"lock", "write", "touch", "bump"}
      /\ ~CanLock(t, s.on) /\ lock[s.on] = WaitsFor(t)
  BY DEF WaitsFor, Target
<1>2. /\ s = txn[t].left[1] /\ 1 \in 1..Len(txn[t].left)
      /\ s \in Statements /\ Addressed(s) /\ lock[s.on] # t
  BY <1>1, Issues DEF CanLock
<1>3. l # s.on /\ s.on \in Lockable
  BY <1>2 DEF Statements
<1>4. /\ Series \in Lockable /\ Child \in Lockable /\ Revision \in Lockable
      /\ Child # Series /\ Child # Revision /\ Series # Revision
  BY Distinct DEF Lockable, Rows
<1>5. CASE s.on = Revision
  BY <1>3, <1>4, <1>1, <1>5 DEF Rank, Target, Lockable, Rows
<1>6. CASE s.on # Revision
  <2>1. s.op # "bump"
    BY <1>2, <1>6 DEF Addressed
  <2>2. lock[Revision] # t
    BY <1>1, <1>2, <2>1 DEF Orderly
  <2>3. CASE s.on = Child
    BY <1>1, <1>3, <1>4, <2>2, <2>3 DEF Rank, Target, Lockable, Rows
  <2>4. CASE s.on = Series
    <3>1. WaitsSeries(txn[t].left[1])
      BY <1>1, <1>2, <2>1, <2>4 DEF WaitsSeries
    <3>2. lock[Child] # t
      BY <1>1, <1>2, <2>4, <3>1 DEF Orderly
    <3> QED
      BY <1>3, <2>2, <2>4, <3>2 DEF Lockable, Rows
  <2> QED
    BY <1>3, <1>6, <2>3, <2>4 DEF Lockable, Rows
<1> QED
  BY <1>5, <1>6

\* Whom a member of a deadlock waits for waits for a later lock.
LEMMA Chain ==
    ASSUME CoreInv, \A u \in Clients : Orderly(u), NEW set \in SUBSET Clients,
           Deadlocked(set), \A u \in set : txn[u].kind \notin OutOfOrder,
           NEW t \in set
    PROVE  /\ WaitsFor(t) \in set
           /\ Rank(Target(t)) < Rank(Target(WaitsFor(t)))
<1>1. /\ t \in Clients /\ WaitsFor(t) \in set /\ WaitsFor(t) \in Clients
      /\ WaitsFor(WaitsFor(t)) \in Clients
  BY DEF Deadlocked
<1>2. WaitsFor(t) # None /\ WaitsFor(WaitsFor(t)) # None
  BY <1>1, SyncConstants
<1>3. Active(t) /\ txn[t].left # <<>> /\ lock[Target(t)] = WaitsFor(t)
  BY <1>2 DEF WaitsFor
<1>4. Target(t) \in Lockable
  BY <1>1, <1>3, Issues DEF Target, Statements
<1> QED
  BY <1>1, <1>2, <1>3, <1>4, Climbs

LEMMA OrderlyInvariant == Spec => [](CoreInv /\ \A u \in Clients : Orderly(u))
<1>1. Init => CoreInv /\ \A u \in Clients : Orderly(u)
  <2>1. Init => \A u \in Clients : Orderly(u)
    BY DEF Init, Orderly, Active, Idle
  <2> QED
    BY <2>1, CoreInit
<1>2. CoreInv /\ (\A u \in Clients : Orderly(u)) /\ [Next]_vars =>
          (CoreInv /\ \A u \in Clients : Orderly(u))'
  BY CoreStep, OrderlyStep
<1> QED
  BY <1>1, <1>2, PTL DEF Spec

\* Every deadlock has an update that sweeps after its bump in it, or the removal of a child:
\* all other requests lock the series, then its child, then the revision, and four locks do
\* not climb three ranks.
THEOREM DeadlockExplainedHolds == Spec => []DeadlockExplained
<1>1. ASSUME CoreInv, \A u \in Clients : Orderly(u), NEW set \in SUBSET Clients,
             Deadlocked(set), \A u \in set : txn[u].kind \notin OutOfOrder
      PROVE  FALSE
  <2>1. \A l : Rank(l) \in 1..3
    BY DEF Rank
  <2>2. PICK t \in set : TRUE
    BY <1>1 DEF Deadlocked
  <2> DEFINE u == WaitsFor(t)
             v == WaitsFor(u)
  <2>3. u \in set /\ Rank(Target(t)) < Rank(Target(u))
    BY <1>1, Chain
  <2> HIDE DEF u
  <2>4. v \in set /\ Rank(Target(u)) < Rank(Target(v))
    BY <1>1, <2>3, Chain
  <2> HIDE DEF v
  <2>5. Rank(Target(v)) < Rank(Target(WaitsFor(v)))
    BY <1>1, <2>4, Chain
  <2> QED
    BY <2>1, <2>3, <2>4, <2>5
<1>2. CoreInv /\ (\A u \in Clients : Orderly(u)) => DeadlockExplained
  BY <1>1 DEF DeadlockExplained, OutOfOrder
<1> QED
  BY <1>2, OrderlyInvariant, PTL
=============================================================================
