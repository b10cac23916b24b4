---------------------------- MODULE WrapperProofs ----------------------------
(***************************************************************************)
(* Theorems about the wrapper and its log, for any number of connections,  *)
(* savepoints and statements.  Names are opened once at a time ("reuse"    *)
(* \notin Env) but for types and LoggedOnce: the run WrapperReuse shows    *)
(* what happens otherwise.                                                 *)
(***************************************************************************)
EXTENDS WrapperLog, SequenceTheorems, NumberInduction, TLAPS

NamesOnce == "reuse" \notin Env

-----------------------------------------------------------------------------
(* Layer 1.  What a wrapper w and its SQLite connection s agree on at any  *)
(* time.                                                                   *)
Open(s) == s.tx # "none"
Phases(s, w) ==
  /\ w.pc = "idle" <=> w.writing = <<>>
  /\ w.pc = "logRows" => w.txId # 0
  /\ w.pc # "idle" => ~Open(s)
  /\ Open(s) => w.inTx
  /\ ~Open(s) => s = NoTx
  /\ ~w.inTx => w.buffer = <<>>

(* A savepoint stack over len entries.                                     *)
Stacked(saves, len) ==
  \A i \in DOMAIN saves : /\ saves[i].at <= len
                          /\ \A j \in DOMAIN saves : i <= j => saves[i].at <= saves[j].at

Shape(s, w) == /\ s \in SqlStates /\ w \in WrapStates /\ Phases(s, w)
               /\ Stacked(s.saves, Len(s.work)) /\ Stacked(w.saves, Len(w.buffer))
Shaped == /\ TypeOK /\ setting \in Settings /\ used \subseteq Conns
          /\ \A c \in Conns : Shape(sql[c], wrap[c])

-----------------------------------------------------------------------------
(* Layer 2.  SQLite's work is the end of the buffer, and SQLite's stack    *)
(* lies within the wrapper's: f[i] is where the wrapper has savepoint i,   *)
(* its last one of that name.  The wrapper may have more of both: entries  *)
(* of a transaction ended behind its back, and savepoints RELEASE left.    *)
Before(s, w) == Len(w.buffer) - Len(s.work)

StackInside(f, s, w) ==
  /\ f \in [DOMAIN s.saves -> DOMAIN w.saves]
  /\ \A i \in DOMAIN s.saves :
       /\ w.saves[f[i]].name = s.saves[i].name
       /\ w.saves[f[i]].at = Before(s, w) + s.saves[i].at
       /\ \A j \in DOMAIN w.saves : f[i] < j => w.saves[j].name # s.saves[i].name
       /\ \A j \in DOMAIN s.saves : i < j => f[i] < f[j]

Mirror(s, w) ==
  Open(s) => /\ Len(s.work) <= Len(w.buffer)
             /\ \A i \in DOMAIN s.work : w.buffer[Before(s, w) + i] = s.work[i]
             /\ \E f : StackInside(f, s, w)
Mirrored == \A c \in Conns : Mirror(sql[c], wrap[c])

-----------------------------------------------------------------------------
(* Layer 3.  Statements are numbered: what is committed (cs), what is not, *)
(* and what each connection has buffered, is writing and has logged.       *)
Has(entries, id) == \E i \in DOMAIN entries : entries[i].id = id
Known(cs, id) == \E k \in DOMAIN cs : Has(cs[k].stmts, id)
RaisedId(cs, id) == \E k \in DOMAIN cs : cs[k].raised /\ Has(cs[k].stmts, id)

Numbered ==
  /\ \A id \in Nat : Known(committed, id) => id <= dmlCount
  /\ \A c \in Conns, id \in Nat : Has(sql[c].work, id) =>
       /\ id <= dmlCount /\ ~Known(committed, id)
       /\ \A d \in Conns : Has(sql[d].work, id) => c = d

(* An entry whose statement is committed, and marked if one with it raised.*)
Permanent(cs, e) == Known(cs, e.id) /\ (RaisedId(cs, e.id) => ~e.safe)

Account(cs, s, w) ==
  /\ Open(s) /\ s.raised => w.failed
  /\ \A i \in DOMAIN w.buffer :
       /\ Known(cs, w.buffer[i].id) \/ (Open(s) /\ Before(s, w) < i)
       /\ RaisedId(cs, w.buffer[i].id) => w.failed \/ ~w.buffer[i].safe
  /\ \A i \in DOMAIN w.writing : Permanent(cs, w.writing[i])
Accounted ==
  /\ \A i \in DOMAIN logTable : Permanent(committed, logTable[i])
  /\ \A c \in Conns : Account(committed, sql[c], wrap[c])

-----------------------------------------------------------------------------
(* Layer 4.  Without crashes, lock timeouts and END the wrapper is in a    *)
(* transaction exactly when SQLite is.                                     *)
Abreast(s, w) == /\ Open(s) => Before(s, w) = 0
                 /\ w.pc = "idle" /\ ~Open(s) => ~w.inTx
InStep == Undisturbed => \A c \in Conns : Abreast(sql[c], wrap[c])

-----------------------------------------------------------------------------
(* What stacks of savepoints do: grow with the entries under them, take a  *)
(* savepoint, lose the top, and be cut at one of their savepoints.         *)
LEMMA StackGrows ==
  ASSUME NEW saves \in Seq(Savepoints), NEW len \in Nat, NEW more \in Nat,
         len <= more, Stacked(saves, len)
  PROVE  Stacked(saves, more)
<1>1. \A i \in DOMAIN saves : saves[i] \in Savepoints
  OBVIOUS
<1>2. \A i \in DOMAIN saves : saves[i].at \in Nat
  BY <1>1 DEF Savepoints
<1> QED
  BY <1>2 DEF Stacked

(* A savepoint taken over a stack is its top.                              *)
LEMMA StackTakes ==
  ASSUME NEW saves \in Seq(Savepoints), NEW len \in Nat, Stacked(saves, len),
         NEW n \in Names
  PROVE  /\ Append(saves, Savepoint(n, len)) \in Seq(Savepoints)
         /\ Stacked(Append(saves, Savepoint(n, len)), len)
<1>1. Savepoint(n, len) \in Savepoints /\ Savepoint(n, len).at = len
  BY DEF Savepoint, Savepoints
<1> DEFINE top == Savepoint(n, len)
<1> HIDE DEF top
<1>2. /\ Append(saves, top) \in Seq(Savepoints)
      /\ DOMAIN Append(saves, top) = 1..(Len(saves) + 1)
      /\ \A i \in 1..Len(saves) : Append(saves, top)[i] = saves[i]
      /\ Append(saves, top)[Len(saves) + 1] = top
  BY <1>1 DEF top
<1>3. \A i \in 1..Len(saves) : saves[i] \in Savepoints
  OBVIOUS
<1>4. \A i \in 1..Len(saves) : saves[i].at \in Nat /\ saves[i].at <= len
  BY <1>3 DEF Stacked, Savepoints
<1> QED
  BY <1>1, <1>2, <1>4 DEF Stacked, top

(* A stack cut at one of its savepoints is a stack over the entries left.  *)
LEMMA StackCut ==
  ASSUME NEW saves \in Seq(Savepoints), NEW len \in Nat, Stacked(saves, len),
         NEW k \in 0..Len(saves)
  PROVE  /\ SubSeq(saves, 1, k) \in Seq(Savepoints)
         /\ DOMAIN SubSeq(saves, 1, k) = 1..k
         /\ \A i \in 1..k : SubSeq(saves, 1, k)[i] = saves[i]
         /\ Stacked(SubSeq(saves, 1, k), len)
         /\ k > 0 => /\ saves[k].at \in 0..len
                     /\ Stacked(SubSeq(saves, 1, k), saves[k].at)
<1>1. \A i \in 1..k : saves[i] \in Savepoints
  OBVIOUS
<1>2. /\ SubSeq(saves, 1, k) \in Seq(Savepoints)
      /\ DOMAIN SubSeq(saves, 1, k) = 1..k
      /\ \A i \in 1..k : SubSeq(saves, 1, k)[i] = saves[i]
  BY <1>1, SubSeqProperties
<1> DEFINE cut == SubSeq(saves, 1, k)
<1> HIDE DEF cut
<1>3. Stacked(cut, len)
  BY <1>2 DEF Stacked, cut
<1>4. k > 0 => saves[k].at \in 0..len /\ Stacked(cut, saves[k].at)
  <2>1. \A i \in DOMAIN saves : /\ saves[i].at <= len
                               /\ \A j \in DOMAIN saves : i <= j => saves[i].at <= saves[j].at
    BY DEF Stacked
  <2>2. \A i \in 1..k : i \in DOMAIN saves /\ saves[i].at \in Nat
    BY <1>1 DEF Savepoints
  <2>3. DOMAIN cut = 1..k /\ \A i \in 1..k : cut[i] = saves[i]
    BY <1>2 DEF cut
  <2> SUFFICES ASSUME k > 0 PROVE saves[k].at \in 0..len /\ Stacked(cut, saves[k].at)
    OBVIOUS
  <2>4. k \in 1..k /\ \A i \in 1..k : i <= k
    OBVIOUS
  <2>5. saves[k].at \in 0..len
    BY <2>1, <2>2, <2>4
  <2>6. \A i \in 1..k : /\ saves[i].at <= saves[k].at
                        /\ \A j \in 1..k : i <= j => saves[i].at <= saves[j].at
    BY <2>1, <2>2, <2>4
  <2> QED
    BY <2>3, <2>5, <2>6 DEF Stacked
<1> QED
  BY <1>2, <1>3, <1>4 DEF cut

(* LastNamed finds the last entry of a name whenever there is one.         *)
LEMMA LastNamedIs ==
  ASSUME NEW saves \in Seq(Savepoints), NEW n, Named(saves, n)
  PROVE  /\ LastNamed(saves, n) \in DOMAIN saves
         /\ saves[LastNamed(saves, n)].name = n
         /\ \A j \in DOMAIN saves : LastNamed(saves, n) < j => saves[j].name # n
<1> DEFINE T == {i \in 0..Len(saves) : i \in DOMAIN saves /\ saves[i].name = n}
<1>1. T # {}
  BY DEF Named
<1>2. T \in SUBSET (0..Len(saves)) /\ Len(saves) \in Nat
  OBVIOUS
<1>3. PICK i \in T : \A m \in T : m <= i
  <2> HIDE DEF T
  <2> QED
    BY <1>1, <1>2, GreatestNumber
<1>4. /\ i \in DOMAIN saves /\ saves[i].name = n
      /\ \A j \in DOMAIN saves : j > i => saves[j].name # n
  BY <1>3
<1> QED
  BY <1>4 DEF LastNamed

(* What the wrapper does to itself, whatever SQLite did.                   *)
LEMMA EmptyStack ==
  ASSUME NEW len \in Nat
  PROVE  Stacked(<<>>, len) /\ <<>> \in Seq(Savepoints) /\ <<>> \in Seq(Entries)
BY DEF Stacked

(* _discard leaves a wrapper with nothing.                                 *)
LEMMA DiscardedShape ==
  ASSUME NEW w \in WrapStates
  PROVE  /\ Discarded(w) \in WrapStates
         /\ Discarded(w).pc = w.pc /\ Discarded(w).writing = w.writing
         /\ Discarded(w).txId = w.txId
         /\ ~Discarded(w).inTx /\ Discarded(w).buffer = <<>> /\ Discarded(w).saves = <<>>
         /\ ~Discarded(w).failed
<1>1. <<>> \in Seq(Savepoints) /\ <<>> \in Seq(Entries)
  BY EmptyStack
<1> QED
  BY <1>1 DEF Discarded, WrapStates

(* _begin starts one with an empty buffer and no savepoint.                *)
LEMMA BegunShape ==
  ASSUME NEW w \in WrapStates
  PROVE  /\ Begun(w) \in WrapStates
         /\ Begun(w).pc = w.pc /\ Begun(w).writing = w.writing /\ Begun(w).txId = w.txId
         /\ Begun(w).inTx /\ Begun(w).buffer = <<>> /\ Begun(w).saves = <<>>
         /\ ~Begun(w).failed
<1>1. <<>> \in Seq(Savepoints) /\ <<>> \in Seq(Entries)
  BY EmptyStack
<1> QED
  BY <1>1 DEF Begun, WrapStates

(* _flush keeps the entries and their order; it only marks them.           *)
LEMMA MarkedIs ==
  ASSUME NEW w \in WrapStates
  PROVE  /\ Marked(w) \in Seq(Entries)
         /\ Len(Marked(w)) = Len(w.buffer)
         /\ \A i \in DOMAIN w.buffer :
              /\ Marked(w)[i].id = w.buffer[i].id
              /\ Marked(w)[i].safe <=> w.buffer[i].safe /\ ~w.failed
<1>1. w.buffer \in Seq(Entries) /\ w.failed \in BOOLEAN
  BY DEF WrapStates
<1>2. CASE ~w.failed
  BY <1>1, <1>2 DEF Marked, Entries
<1>3. CASE w.failed
  <2> DEFINE Unsafe(i) == [w.buffer[i] EXCEPT !.safe = FALSE]
  <2>1. \A i \in 1..Len(w.buffer) : w.buffer[i] \in Entries
    BY <1>1
  <2>2. \A i \in 1..Len(w.buffer) :
           Unsafe(i) \in Entries /\ Unsafe(i).id = w.buffer[i].id /\ Unsafe(i).safe = FALSE
    BY <2>1 DEF Entries
  <2>3. Marked(w) = [i \in 1..Len(w.buffer) |-> Unsafe(i)]
    BY <1>1, <1>3 DEF Marked
  <2> HIDE DEF Unsafe
  <2> QED
    BY <1>1, <1>3, <2>2, <2>3
<1> QED
  BY <1>1, <1>2, <1>3

(* _flush discards an empty buffer and writes another, marked.             *)
LEMMA FlushedShape ==
  ASSUME NEW w \in WrapStates, w.pc = "idle", w.writing = <<>>,
         Stacked(w.saves, Len(w.buffer)), w.buffer # <<>> => w.inTx
  PROVE  /\ Flushed(w) \in WrapStates
         /\ w.buffer = <<>> => Flushed(w) = Discarded(w)
         /\ w.buffer # <<>> =>
              Flushed(w) = [w EXCEPT !.buffer = Marked(w), !.pc = "txRow", !.writing = Marked(w)]
         /\ Phases(NoTx, Flushed(w))
         /\ Stacked(Flushed(w).saves, Len(Flushed(w).buffer))
<1>1. CASE w.buffer = <<>>
  <2>1. Flushed(w) = Discarded(w)
    BY <1>1 DEF Flushed
  <2>2. Phases(NoTx, Discarded(w))
    BY DiscardedShape DEF Phases, NoTx, Open
  <2>3. Stacked(Discarded(w).saves, Len(Discarded(w).buffer))
    BY DiscardedShape, EmptyStack
  <2> QED
    BY <1>1, <2>1, <2>2, <2>3, DiscardedShape
<1>2. CASE w.buffer # <<>>
  <2>1. Flushed(w) = [w EXCEPT !.buffer = Marked(w), !.pc = "txRow", !.writing = Marked(w)]
    BY <1>2 DEF Flushed, Written, WrapStates
  <2>2. Marked(w) \in Seq(Entries) /\ Len(Marked(w)) = Len(w.buffer)
    BY MarkedIs
  <2>3. Marked(w) # <<>>
    BY <1>2, <2>2 DEF WrapStates
  <2>4. /\ Flushed(w) \in WrapStates
        /\ Flushed(w).saves = w.saves /\ Flushed(w).buffer = Marked(w)
        /\ Flushed(w).pc = "txRow" /\ Flushed(w).writing = Marked(w)
        /\ Flushed(w).inTx = w.inTx
    BY <2>1, <2>2 DEF WrapStates
  <2>5. Phases(NoTx, Flushed(w))
    BY <1>2, <2>3, <2>4 DEF Phases, NoTx, Open
  <2> QED
    BY <1>2, <2>1, <2>2, <2>4, <2>5
<1> QED
  BY <1>1, <1>2

-----------------------------------------------------------------------------
(* What each operation makes of a connection: the next s and w of the      *)
(* actions that leave SQLite's transaction open or write the log.          *)
SqlBegun(s) == [s EXCEPT !.tx = "begin"]
SqlSaved(s, n) == [s EXCEPT !.tx = IF @ = "none" THEN "savepoint" ELSE @,
                            !.saves = Append(@, Savepoint(n, Len(s.work)))]
WrapSaved(w, n) == LET v == IF w.inTx THEN w ELSE Begun(w)
                   IN  [v EXCEPT !.saves = Append(@, Savepoint(n, Len(v.buffer)))]
SqlReleased(s, n) == [s EXCEPT !.saves = SubSeq(@, 1, LastNamed(s.saves, n) - 1)]
Popped(w) == [w EXCEPT !.saves = IF @ = <<>> THEN @ ELSE Front(@)]
SqlRolledBackTo(s, n) ==
  LET at == LastNamed(s.saves, n)
  IN  [s EXCEPT !.work = SubSeq(@, 1, s.saves[at].at), !.saves = SubSeq(@, 1, at)]
WrapRolledBackTo(w, n) ==
  LET to == LastNamed(w.saves, n)
  IN  IF Named(w.saves, n)
      THEN [w EXCEPT !.buffer = SubSeq(@, 1, w.saves[to].at), !.saves = SubSeq(@, 1, to)]
      ELSE w
SqlChanged(s, e, raises) == [s EXCEPT !.work = Append(@, e), !.raised = @ \/ raises]
WrapChanged(w, e, raises) == [w EXCEPT !.buffer = Append(@, e), !.failed = @ \/ raises]
RowTaken(w) == LET rest == [w EXCEPT !.writing = Tail(@)]
               IN  IF rest.writing # <<>> THEN rest
                   ELSE Discarded([rest EXCEPT !.pc = "idle", !.txId = 0])
Unwritten(w) == [w EXCEPT !.pc = "idle", !.writing = <<>>, !.txId = 0]

(* Outside a transaction SQLite's side of a connection is as at the start. *)
LEMMA NoTxShape ==
  NoTx \in SqlStates /\ ~Open(NoTx) /\ Stacked(NoTx.saves, Len(NoTx.work))
<1>1. <<>> \in Seq(Savepoints) /\ <<>> \in Seq(Entries) /\ Stacked(<<>>, 0)
  BY EmptyStack
<1> QED
  BY <1>1 DEF NoTx, SqlStates, Open

(* BEGIN keeps the shape of a connection.                                  *)
LEMMA ShapeBegin ==
  ASSUME NEW s, NEW w, Shape(s, w), w.pc = "idle", ~Open(s)
  PROVE  Shape(SqlBegun(s), Begun(w))
<1>1. s = NoTx /\ w \in WrapStates
  BY DEF Shape, Phases
<1>2. /\ SqlBegun(s) \in SqlStates /\ Stacked(SqlBegun(s).saves, Len(SqlBegun(s).work))
      /\ Open(SqlBegun(s))
  BY <1>1, NoTxShape DEF SqlBegun, SqlStates, Open
<1>3. Phases(SqlBegun(s), Begun(w))
  BY <1>1, <1>2, BegunShape DEF Shape, Phases
<1> QED
  BY <1>1, <1>2, <1>3, BegunShape, EmptyStack DEF Shape

(* So do the ways to end a transaction: COMMIT, END, ROLLBACK, close().    *)
LEMMA ShapeCommit ==
  ASSUME NEW s, NEW w, Shape(s, w), w.pc = "idle"
  PROVE  Shape(NoTx, Flushed(w)) /\ Shape(NoTx, w) /\ Shape(NoTx, Discarded(w))
<1>1. w \in WrapStates /\ w.writing = <<>> /\ (w.buffer # <<>> => w.inTx)
      /\ Stacked(w.saves, Len(w.buffer))
  BY DEF Shape, Phases
<1>2. Shape(NoTx, Flushed(w))
  BY <1>1, FlushedShape, NoTxShape DEF Shape
<1>3. Shape(NoTx, w)
  BY <1>1, NoTxShape DEF Shape, Phases
<1>4. Phases(NoTx, Discarded(w))
  BY <1>1, NoTxShape, DiscardedShape DEF Phases
<1>5. Shape(NoTx, Discarded(w))
  BY <1>1, <1>4, NoTxShape, DiscardedShape, EmptyStack DEF Shape
<1> QED
  BY <1>2, <1>3, <1>5

(* So does SAVEPOINT, inside a transaction or starting one.                *)
LEMMA ShapeSavepoint ==
  ASSUME NEW s, NEW w, Shape(s, w), w.pc = "idle", NEW n \in Names
  PROVE  Shape(SqlSaved(s, n), WrapSaved(w, n))
<1> DEFINE v == IF w.inTx THEN w ELSE Begun(w)
<1>1. /\ v \in WrapStates /\ v.pc = "idle" /\ v.writing = <<>> /\ v.inTx
      /\ Stacked(v.saves, Len(v.buffer)) /\ Len(v.buffer) \in Nat /\ v.saves \in Seq(Savepoints)
  <2>1. w \in WrapStates /\ w.writing = <<>> /\ Stacked(w.saves, Len(w.buffer))
    BY DEF Shape, Phases
  <2>2. CASE w.inTx
    BY <2>1, <2>2 DEF WrapStates
  <2>3. CASE ~w.inTx
    <3>1. v = Begun(w)
      BY <2>3
    <3>2. Stacked(<<>>, Len(<<>>)) /\ Len(<<>>) \in Nat /\ <<>> \in Seq(Savepoints)
      BY EmptyStack
    <3> HIDE DEF v
    <3> QED
      BY <2>1, <3>1, <3>2, BegunShape
  <2> QED
    BY <2>2, <2>3
<1>2. WrapSaved(w, n) = [v EXCEPT !.saves = Append(@, Savepoint(n, Len(v.buffer)))]
  BY DEF WrapSaved
<1> HIDE DEF v
<1>3. /\ WrapSaved(w, n) \in WrapStates /\ WrapSaved(w, n).pc = "idle"
      /\ WrapSaved(w, n).writing = <<>> /\ WrapSaved(w, n).inTx
      /\ Stacked(WrapSaved(w, n).saves, Len(WrapSaved(w, n).buffer))
  <2>1. /\ Append(v.saves, Savepoint(n, Len(v.buffer))) \in Seq(Savepoints)
        /\ Stacked(Append(v.saves, Savepoint(n, Len(v.buffer))), Len(v.buffer))
    BY <1>1, StackTakes
  <2> QED
    BY <1>1, <1>2, <2>1 DEF WrapStates
<1>4. s \in SqlStates /\ Len(s.work) \in Nat /\ s.saves \in Seq(Savepoints)
      /\ Stacked(s.saves, Len(s.work))
  BY DEF Shape, SqlStates
<1>5. /\ Append(s.saves, Savepoint(n, Len(s.work))) \in Seq(Savepoints)
      /\ Stacked(Append(s.saves, Savepoint(n, Len(s.work))), Len(s.work))
  BY <1>4, StackTakes
<1>6. /\ SqlSaved(s, n) \in SqlStates /\ Open(SqlSaved(s, n))
      /\ Stacked(SqlSaved(s, n).saves, Len(SqlSaved(s, n).work))
  BY <1>4, <1>5 DEF SqlSaved, SqlStates, Open
<1>7. Phases(SqlSaved(s, n), WrapSaved(w, n))
  BY <1>3, <1>6 DEF Phases
<1> QED
  BY <1>3, <1>6, <1>7 DEF Shape

(* So does RELEASE, of a nested savepoint or of the outermost.             *)
LEMMA ShapeRelease ==
  ASSUME NEW s, NEW w, Shape(s, w), w.pc = "idle", NEW n, Named(s.saves, n)
  PROVE  /\ Shape(SqlReleased(s, n), Popped(w)) /\ Shape(NoTx, Popped(w))
         /\ Popped(w).inTx = w.inTx
<1> DEFINE at == LastNamed(s.saves, n)
<1>1. /\ s \in SqlStates /\ s.saves \in Seq(Savepoints) /\ Stacked(s.saves, Len(s.work))
      /\ Len(s.work) \in Nat
      /\ w \in WrapStates /\ w.saves \in Seq(Savepoints) /\ Stacked(w.saves, Len(w.buffer))
      /\ Len(w.buffer) \in Nat
  BY DEF Shape, SqlStates, WrapStates
<1>2. at - 1 \in 0..Len(s.saves)
  BY <1>1, LastNamedIs
<1>3. /\ SubSeq(s.saves, 1, at - 1) \in Seq(Savepoints)
      /\ Stacked(SubSeq(s.saves, 1, at - 1), Len(s.work))
  BY <1>1, <1>2, StackCut
<1>4. /\ SqlReleased(s, n) \in SqlStates
      /\ Stacked(SqlReleased(s, n).saves, Len(SqlReleased(s, n).work))
      /\ SqlReleased(s, n).tx = s.tx
  BY <1>1, <1>3 DEF SqlReleased, SqlStates
<1>5. /\ Popped(w) \in WrapStates /\ Stacked(Popped(w).saves, Len(Popped(w).buffer))
      /\ Popped(w).pc = w.pc /\ Popped(w).inTx = w.inTx /\ Popped(w).buffer = w.buffer
      /\ Popped(w).writing = w.writing /\ Popped(w).txId = w.txId
  <2>1. CASE w.saves = <<>>
    <3>1. Popped(w) = w
      BY <1>1, <2>1 DEF Popped, WrapStates
    <3> QED
      BY <1>1, <3>1
  <2>2. CASE w.saves # <<>>
    <3>1. Len(w.saves) - 1 \in 0..Len(w.saves)
      BY <1>1, <2>2
    <3>2. Front(w.saves) \in Seq(Savepoints) /\ Stacked(Front(w.saves), Len(w.buffer))
      BY <1>1, <3>1, StackCut DEF Front
    <3> QED
      BY <1>1, <2>2, <3>2 DEF Popped, WrapStates
  <2> QED
    BY <2>1, <2>2
<1>6. Open(s) => SqlReleased(s, n) # NoTx /\ Open(SqlReleased(s, n))
  BY <1>4 DEF Open, NoTx
<1>7. Open(s)
  <2>1. s.saves # <<>>
    BY DEF Named
  <2> QED
    BY <2>1 DEF Shape, Phases, NoTx
<1>8. Phases(SqlReleased(s, n), Popped(w)) /\ Phases(NoTx, Popped(w))
  BY <1>5, <1>6, <1>7, NoTxShape DEF Shape, Phases
<1> QED
  BY <1>4, <1>5, <1>8, NoTxShape DEF Shape

(* So does ROLLBACK TO, which cuts work, buffer and both stacks.           *)
LEMMA ShapeRollbackTo ==
  ASSUME NEW s, NEW w, Shape(s, w), w.pc = "idle", NEW n, Named(s.saves, n)
  PROVE  Shape(SqlRolledBackTo(s, n), WrapRolledBackTo(w, n))
<1> DEFINE at == LastNamed(s.saves, n)
           to == LastNamed(w.saves, n)
<1>1. /\ s \in SqlStates /\ s.saves \in Seq(Savepoints) /\ Stacked(s.saves, Len(s.work))
      /\ s.work \in Seq(Entries) /\ Len(s.work) \in Nat
      /\ w \in WrapStates /\ w.saves \in Seq(Savepoints) /\ Stacked(w.saves, Len(w.buffer))
      /\ w.buffer \in Seq(Entries) /\ Len(w.buffer) \in Nat
  BY DEF Shape, SqlStates, WrapStates
<1>2. at \in 1..Len(s.saves)
  BY <1>1, LastNamedIs
<1>3. /\ s.saves[at].at \in 0..Len(s.work)
      /\ SubSeq(s.saves, 1, at) \in Seq(Savepoints)
      /\ Stacked(SubSeq(s.saves, 1, at), s.saves[at].at)
  BY <1>1, <1>2, StackCut
<1>4. /\ SubSeq(s.work, 1, s.saves[at].at) \in Seq(Entries)
      /\ Len(SubSeq(s.work, 1, s.saves[at].at)) = s.saves[at].at
  BY <1>1, <1>3, SubSeqProperties
<1>5. /\ SqlRolledBackTo(s, n) \in SqlStates /\ SqlRolledBackTo(s, n).tx = s.tx
      /\ Stacked(SqlRolledBackTo(s, n).saves, Len(SqlRolledBackTo(s, n).work))
  BY <1>1, <1>3, <1>4 DEF SqlRolledBackTo, SqlStates
<1>6. CASE Named(w.saves, n)
  <2>1. to \in 1..Len(w.saves)
    BY <1>1, <1>6, LastNamedIs
  <2>2. /\ w.saves[to].at \in 0..Len(w.buffer)
        /\ SubSeq(w.saves, 1, to) \in Seq(Savepoints)
        /\ Stacked(SubSeq(w.saves, 1, to), w.saves[to].at)
    BY <1>1, <2>1, StackCut
  <2>3. /\ SubSeq(w.buffer, 1, w.saves[to].at) \in Seq(Entries)
        /\ Len(SubSeq(w.buffer, 1, w.saves[to].at)) = w.saves[to].at
    BY <1>1, <2>2, SubSeqProperties
  <2>4. WrapRolledBackTo(w, n) =
          [w EXCEPT !.buffer = SubSeq(w.buffer, 1, w.saves[to].at),
                    !.saves = SubSeq(w.saves, 1, to)]
    BY <1>6 DEF WrapRolledBackTo
  <2> DEFINE kept == SubSeq(w.buffer, 1, w.saves[to].at)
             left == SubSeq(w.saves, 1, to)
  <2> HIDE DEF kept, left
  <2>5. /\ WrapRolledBackTo(w, n) \in WrapStates
        /\ WrapRolledBackTo(w, n).pc = w.pc /\ WrapRolledBackTo(w, n).inTx = w.inTx
        /\ WrapRolledBackTo(w, n).writing = w.writing
        /\ WrapRolledBackTo(w, n).buffer = kept /\ WrapRolledBackTo(w, n).saves = left
    BY <1>1, <2>2, <2>3, <2>4 DEF WrapStates, kept, left
  <2>6. Stacked(WrapRolledBackTo(w, n).saves, Len(WrapRolledBackTo(w, n).buffer))
    BY <2>2, <2>3, <2>5 DEF kept, left
  <2>7. w.inTx
    BY DEF Shape, Phases, NoTx, Named
  <2>8. Phases(SqlRolledBackTo(s, n), WrapRolledBackTo(w, n))
    BY <1>5, <2>5, <2>7 DEF Shape, Phases, Open, Named, NoTx
  <2> QED
    BY <1>5, <2>5, <2>6, <2>8 DEF Shape
<1>7. CASE ~Named(w.saves, n)
  <2>1. WrapRolledBackTo(w, n) = w
    BY <1>7 DEF WrapRolledBackTo
  <2>2. Phases(SqlRolledBackTo(s, n), w)
    BY <1>5 DEF Shape, Phases, Open, Named, NoTx
  <2> QED
    BY <1>1, <1>5, <2>1, <2>2 DEF Shape
<1> QED
  BY <1>6, <1>7

(* So does a DML statement, buffered or committed at once.                 *)
LEMMA ShapeDml ==
  ASSUME NEW s, NEW w, Shape(s, w), w.pc = "idle",
         NEW e \in Entries, NEW raises \in BOOLEAN
  PROVE  /\ Open(s) => Shape(SqlChanged(s, e, raises), WrapChanged(w, e, raises))
         /\ ~Open(s) /\ w.inTx => Shape(s, WrapChanged(w, e, raises))
         /\ ~w.inTx => Shape(s, Written(w, <<e>>))
<1>1. /\ s \in SqlStates /\ s.saves \in Seq(Savepoints) /\ Stacked(s.saves, Len(s.work))
      /\ s.work \in Seq(Entries) /\ Len(s.work) \in Nat
      /\ w \in WrapStates /\ w.saves \in Seq(Savepoints) /\ Stacked(w.saves, Len(w.buffer))
      /\ w.buffer \in Seq(Entries) /\ Len(w.buffer) \in Nat /\ w.failed \in BOOLEAN
      /\ s.raised \in BOOLEAN
  BY DEF Shape, SqlStates, WrapStates
<1>2. Append(s.work, e) \in Seq(Entries) /\ Len(Append(s.work, e)) = Len(s.work) + 1
  BY <1>1
<1>3. Stacked(s.saves, Len(s.work) + 1)
  BY <1>1, StackGrows
<1>4. /\ SqlChanged(s, e, raises) \in SqlStates /\ SqlChanged(s, e, raises).tx = s.tx
      /\ Stacked(SqlChanged(s, e, raises).saves, Len(SqlChanged(s, e, raises).work))
  BY <1>1, <1>2, <1>3 DEF SqlChanged, SqlStates
<1>5. Append(w.buffer, e) \in Seq(Entries) /\ Len(Append(w.buffer, e)) = Len(w.buffer) + 1
  BY <1>1
<1>6. Stacked(w.saves, Len(w.buffer) + 1)
  BY <1>1, StackGrows
<1>7. /\ WrapChanged(w, e, raises) \in WrapStates
      /\ Stacked(WrapChanged(w, e, raises).saves, Len(WrapChanged(w, e, raises).buffer))
      /\ WrapChanged(w, e, raises).pc = w.pc /\ WrapChanged(w, e, raises).inTx = w.inTx
      /\ WrapChanged(w, e, raises).writing = w.writing
  BY <1>1, <1>5, <1>6 DEF WrapChanged, WrapStates
<1>8. <<e>> \in Seq(Entries) /\ <<e>> # <<>>
  OBVIOUS
<1>9. /\ Written(w, <<e>>) \in WrapStates /\ Written(w, <<e>>).pc = "txRow"
      /\ Written(w, <<e>>).writing = <<e>> /\ Written(w, <<e>>).inTx = w.inTx
      /\ Written(w, <<e>>).buffer = w.buffer /\ Written(w, <<e>>).saves = w.saves
  BY <1>1, <1>8 DEF Written, WrapStates
<1>10. Open(s) => Phases(SqlChanged(s, e, raises), WrapChanged(w, e, raises))
  BY <1>4, <1>7 DEF Shape, Phases, Open
<1>11. ~Open(s) /\ w.inTx => Phases(s, WrapChanged(w, e, raises))
  BY <1>7 DEF Shape, Phases
<1>12. ~w.inTx => Phases(s, Written(w, <<e>>))
  BY <1>8, <1>9 DEF Shape, Phases
<1> QED
  BY <1>1, <1>4, <1>7, <1>9, <1>10, <1>11, <1>12 DEF Shape

(* So does a statement that fails.                                         *)
LEMMA ShapeFails ==
  ASSUME NEW s, NEW w, Shape(s, w), w.pc = "idle"
  PROVE  /\ Open(s) => Shape([s EXCEPT !.raised = TRUE], [w EXCEPT !.failed = TRUE])
         /\ ~Open(s) => Shape(s, Discarded(w))
         /\ Shape(NoTx, Fresh)
<1>1. Open(s) => Shape([s EXCEPT !.raised = TRUE], [w EXCEPT !.failed = TRUE])
  BY DEF Shape, Phases, SqlStates, WrapStates, Open
<1>2. ~Open(s) => Shape(s, Discarded(w))
  BY ShapeCommit DEF Shape, Phases
<1>3. Fresh \in WrapStates /\ Stacked(Fresh.saves, Len(Fresh.buffer)) /\ Phases(NoTx, Fresh)
  <2>1. <<>> \in Seq(Savepoints) /\ <<>> \in Seq(Entries) /\ Stacked(<<>>, 0)
    BY EmptyStack
  <2> QED
    BY <2>1, NoTxShape DEF Fresh, WrapStates, Phases
<1> QED
  BY <1>1, <1>2, <1>3, NoTxShape DEF Shape

(* So do the steps of _write, and the timeout of one.                      *)
LEMMA ShapeWrites ==
  ASSUME NEW s, NEW w, Shape(s, w)
  PROVE  /\ \A t \in Nat \ {0} : w.pc = "txRow" =>
              Shape(s, [w EXCEPT !.pc = "logRows", !.txId = t])
         /\ w.pc = "logRows" => Shape(s, RowTaken(w))
         /\ w.pc # "idle" => Shape(s, Unwritten(w))
<1>1. /\ s \in SqlStates /\ w \in WrapStates /\ Phases(s, w)
      /\ Stacked(s.saves, Len(s.work)) /\ Stacked(w.saves, Len(w.buffer))
      /\ w.writing \in Seq(Entries)
  BY DEF Shape, WrapStates
<1>2. ASSUME NEW t \in Nat \ {0}, w.pc = "txRow"
      PROVE  Shape(s, [w EXCEPT !.pc = "logRows", !.txId = t])
  BY <1>1, <1>2 DEF Shape, Phases, WrapStates
<1>3. ASSUME w.pc = "logRows" PROVE Shape(s, RowTaken(w))
  <2> DEFINE rest == [w EXCEPT !.writing = Tail(@)]
             done == [rest EXCEPT !.pc = "idle", !.txId = 0]
  <2>1. Tail(w.writing) \in Seq(Entries) /\ s = NoTx
    BY <1>1, <1>3 DEF Phases
  <2>2. rest \in WrapStates /\ rest = [w EXCEPT !.writing = Tail(w.writing)]
    BY <1>1, <2>1 DEF WrapStates
  <2>3. CASE Tail(w.writing) # <<>>
    <3>1. RowTaken(w) = rest
      BY <1>1, <2>2, <2>3 DEF RowTaken, WrapStates
    <3>2. Shape(s, rest)
      BY <1>1, <1>3, <2>2, <2>3 DEF Shape, Phases, WrapStates
    <3> QED
      BY <3>1, <3>2
  <2>4. CASE Tail(w.writing) = <<>>
    <3>1. RowTaken(w) = Discarded(done)
      BY <1>1, <2>2, <2>4 DEF RowTaken, WrapStates
    <3>2. done \in WrapStates /\ done.pc = "idle" /\ done.writing = <<>>
      BY <1>1, <2>2, <2>4 DEF WrapStates
    <3> HIDE DEF done
    <3>3. Phases(NoTx, Discarded(done))
      BY <3>2, DiscardedShape, NoTxShape DEF Phases
    <3>4. Shape(NoTx, Discarded(done))
      BY <3>2, <3>3, DiscardedShape, NoTxShape, EmptyStack DEF Shape
    <3> QED
      BY <2>1, <3>1, <3>4
  <2> QED
    BY <2>3, <2>4
<1>4. ASSUME w.pc # "idle" PROVE Shape(s, Unwritten(w))
  <2>1. <<>> \in Seq(Entries)
    BY EmptyStack
  <2> QED
    BY <1>1, <1>4, <2>1 DEF Shape, Phases, WrapStates, Unwritten
<1> QED
  BY <1>2, <1>3, <1>4

-----------------------------------------------------------------------------
(* A step of one connection c: SQLite's side becomes s, the wrapper's w.   *)
Move(c, s, w) == sql' = [sql EXCEPT ![c] = s] /\ wrap' = [wrap EXCEPT ![c] = w]

(* What each action moves its connection to.                               *)
LEMMA Moves ==
  ASSUME Shaped, NEW c \in Conns
  PROVE  /\ Begin(c) => Move(c, SqlBegun(sql[c]), Begun(wrap[c]))
         /\ Commit(c) => Move(c, NoTx, Flushed(wrap[c]))
         /\ End(c) => Move(c, NoTx, wrap[c])
         /\ Rollback(c) \/ DmlRollsBack(c) => Move(c, NoTx, Discarded(wrap[c]))
         /\ \A n : OpenSavepoint(c, n) => Move(c, SqlSaved(sql[c], n), WrapSaved(wrap[c], n))
         /\ \A n : ReleaseSavepoint(c, n) =>
              \/ SqlCommit(c) /\ Move(c, NoTx, Flushed(Popped(wrap[c])))
              \/ /\ UNCHANGED <<lock, committed>>
                 /\ Move(c, SqlReleased(sql[c], n), Popped(wrap[c]))
         /\ \A n : RollbackTo(c, n) =>
              Move(c, SqlRolledBackTo(sql[c], n), WrapRolledBackTo(wrap[c], n))
         /\ StatementFails(c) =>
              \/ /\ InSqlTx(c)
                 /\ Move(c, [sql[c] EXCEPT !.raised = TRUE], [wrap[c] EXCEPT !.failed = TRUE])
              \/ ~InSqlTx(c) /\ Move(c, sql[c], Discarded(wrap[c]))
         /\ Close(c) => Move(c, NoTx, Fresh)
         /\ WriteTxRow(c) =>
              Move(c, sql[c], [wrap[c] EXCEPT !.pc = "logRows", !.txId = txCount + 1])
         /\ WriteLogRow(c) => Move(c, sql[c], RowTaken(wrap[c]))
         /\ WriteTimesOut(c) => Move(c, sql[c], Unwritten(wrap[c]))
<1>1. /\ sql \in [Conns -> SqlStates] /\ wrap \in [Conns -> WrapStates]
      /\ sql[c] \in SqlStates /\ wrap[c] \in WrapStates /\ Shape(sql[c], wrap[c])
  BY DEF Shaped, TypeOK
<1>2. sql = [sql EXCEPT ![c] = sql[c]] /\ wrap = [wrap EXCEPT ![c] = wrap[c]]
  BY <1>1
<1>3. InSqlTx(c) => wrap[c].inTx
  BY <1>1 DEF Shape, Phases, InSqlTx, Open
<1>4. Begin(c) => Move(c, SqlBegun(sql[c]), Begun(wrap[c]))
  BY <1>1 DEF Begin, Move, SqlBegun
<1>5. Commit(c) => Move(c, NoTx, Flushed(wrap[c]))
  BY DEF Commit, SqlCommit, Move
<1>6. End(c) => Move(c, NoTx, wrap[c])
  BY <1>2 DEF End, SqlCommit, Move
<1>7. Rollback(c) \/ DmlRollsBack(c) => Move(c, NoTx, Discarded(wrap[c]))
  BY <1>3 DEF Rollback, DmlRollsBack, SqlRollback, Move
<1>8. ASSUME NEW n, OpenSavepoint(c, n)
      PROVE  Move(c, SqlSaved(sql[c], n), WrapSaved(wrap[c], n))
  BY <1>1, <1>8 DEF OpenSavepoint, Move, SqlSaved, WrapSaved
<1>9. ASSUME NEW n, ReleaseSavepoint(c, n)
      PROVE  \/ SqlCommit(c) /\ Move(c, NoTx, Flushed(Popped(wrap[c])))
             \/ /\ UNCHANGED <<lock, committed>>
                /\ Move(c, SqlReleased(sql[c], n), Popped(wrap[c]))
  <2>1. Open(sql[c])
    BY <1>1, <1>9 DEF ReleaseSavepoint, OpenNames, Shape, Phases, NoTx
  <2>2. wrap[c].inTx /\ Popped(wrap[c]).inTx
    BY <1>1, <1>3, <2>1 DEF Popped, WrapStates, InSqlTx, Open
  <2>3. [wrap[c] EXCEPT !.saves = IF @ = <<>> THEN @ ELSE Front(@)] = Popped(wrap[c])
    BY DEF Popped
  <2>4. CASE SqlCommit(c) /\ wrap' = [wrap EXCEPT ![c] =
               IF Popped(wrap[c]).inTx THEN Flushed(Popped(wrap[c])) ELSE Popped(wrap[c])]
    BY <2>2, <2>4 DEF SqlCommit, Move
  <2>5. CASE /\ sql' = [sql EXCEPT ![c].saves =
                          SubSeq(@, 1, LastNamed(sql[c].saves, n) - 1)]
             /\ wrap' = [wrap EXCEPT ![c] = Popped(wrap[c])]
             /\ UNCHANGED <<lock, committed>>
    BY <1>1, <2>5 DEF Move, SqlReleased
  <2> QED
    BY <1>9, <2>3, <2>4, <2>5 DEF ReleaseSavepoint
<1>10. ASSUME NEW n, RollbackTo(c, n)
       PROVE  Move(c, SqlRolledBackTo(sql[c], n), WrapRolledBackTo(wrap[c], n))
  <2>1. sql' = [sql EXCEPT ![c] = SqlRolledBackTo(sql[c], n)]
    BY <1>1, <1>10 DEF RollbackTo, SqlRolledBackTo
  <2>2. wrap' = [wrap EXCEPT ![c] = WrapRolledBackTo(wrap[c], n)]
    <3>1. CASE Named(wrap[c].saves, n)
      BY <1>1, <1>10, <3>1 DEF RollbackTo, WrapRolledBackTo
    <3>2. CASE ~Named(wrap[c].saves, n)
      BY <1>2, <1>10, <3>2 DEF RollbackTo, WrapRolledBackTo
    <3> QED
      BY <3>1, <3>2
  <2> QED
    BY <2>1, <2>2 DEF Move
<1>11. StatementFails(c) =>
              \/ /\ InSqlTx(c)
                 /\ Move(c, [sql[c] EXCEPT !.raised = TRUE], [wrap[c] EXCEPT !.failed = TRUE])
              \/ ~InSqlTx(c) /\ Move(c, sql[c], Discarded(wrap[c]))
  BY <1>1, <1>2 DEF StatementFails, Move
<1>12. Close(c) => Move(c, NoTx, Fresh)
  BY DEF Close, SqlRollback, Move
<1>13. WriteTxRow(c) =>
         Move(c, sql[c], [wrap[c] EXCEPT !.pc = "logRows", !.txId = txCount + 1])
  BY <1>1, <1>2 DEF WriteTxRow, Move
<1>14. WriteLogRow(c) => Move(c, sql[c], RowTaken(wrap[c]))
  BY <1>1, <1>2 DEF WriteLogRow, RowTaken, Move
<1>15. WriteTimesOut(c) => Move(c, sql[c], Unwritten(wrap[c]))
  BY <1>1, <1>2 DEF WriteTimesOut, Unwritten, Move
<1> QED
  BY <1>4, <1>5, <1>6, <1>7, <1>8, <1>9, <1>10, <1>11, <1>12, <1>13, <1>14, <1>15

(* A DML statement is entry e: it joins SQLite's open transaction and the  *)
(* buffer, or it is a commit of its own, with or without a stale buffer.   *)
Autocommitted(c, e, raises) ==
  /\ committed' = Append(committed, [conn |-> c, stmts |-> <<e>>, raised |-> raises])
  /\ UNCHANGED lock

(* The two cases of a DML statement, by entry e.                           *)
LEMMA MovesOfDml ==
  ASSUME Shaped, NEW c \in Conns, NEW safe \in BOOLEAN, NEW raises \in BOOLEAN,
         Dml(c, safe, raises), NEW e, e = [id |-> dmlCount + 1, safe |-> safe]
  PROVE  /\ e \in Entries
         /\ \/ /\ InSqlTx(c) /\ UNCHANGED committed /\ lock' = c
               /\ Move(c, SqlChanged(sql[c], e, raises), WrapChanged(wrap[c], e, raises))
            \/ /\ ~InSqlTx(c) /\ Autocommitted(c, e, raises)
               /\ \/ wrap[c].inTx /\ raises /\ Move(c, sql[c], Discarded(wrap[c]))
                  \/ wrap[c].inTx /\ ~raises /\ Move(c, sql[c], WrapChanged(wrap[c], e, raises))
                  \/ ~wrap[c].inTx /\ Move(c, sql[c], Written(wrap[c], <<e>>))
<1>1. /\ sql \in [Conns -> SqlStates] /\ wrap \in [Conns -> WrapStates]
      /\ sql[c] \in SqlStates /\ wrap[c] \in WrapStates /\ Shape(sql[c], wrap[c])
      /\ dmlCount \in Nat
  BY DEF Shaped, TypeOK
<1>2. sql = [sql EXCEPT ![c] = sql[c]]
  BY <1>1
<1>3. InSqlTx(c) => wrap[c].inTx
  BY <1>1 DEF Shape, Phases, InSqlTx, Open
<1>4. e \in Entries
  BY <1>1 DEF Entries
<1>5. CASE InSqlTx(c)
  <2>1. /\ sql' = [sql EXCEPT ![c].work = Append(@, e), ![c].raised = @ \/ raises]
        /\ lock' = c /\ UNCHANGED committed
        /\ wrap' = [wrap EXCEPT ![c].buffer = Append(@, e), ![c].failed = @ \/ raises]
    BY <1>3, <1>5 DEF Dml
  <2>2. sql' = [sql EXCEPT ![c] = SqlChanged(sql[c], e, raises)]
    BY <1>1, <2>1 DEF SqlChanged
  <2>3. wrap' = [wrap EXCEPT ![c] = WrapChanged(wrap[c], e, raises)]
    BY <1>1, <2>1 DEF WrapChanged
  <2> QED
    BY <1>4, <1>5, <2>1, <2>2, <2>3 DEF Move
<1>6. CASE ~InSqlTx(c)
  <2>1. /\ Autocommitted(c, e, raises) /\ UNCHANGED sql
        /\ IF raises /\ wrap[c].inTx THEN wrap' = [wrap EXCEPT ![c] = Discarded(@)]
           ELSE IF wrap[c].inTx
                THEN wrap' = [wrap EXCEPT ![c].buffer = Append(@, e), ![c].failed = @ \/ raises]
                ELSE wrap' = [wrap EXCEPT ![c] = Written(@, <<e>>)]
    BY <1>6 DEF Dml, Autocommitted
  <2>2. wrap' = [wrap EXCEPT ![c].buffer = Append(@, e), ![c].failed = @ \/ raises] =>
          wrap' = [wrap EXCEPT ![c] = WrapChanged(wrap[c], e, raises)]
    BY <1>1 DEF WrapChanged
  <2> QED
    BY <1>2, <1>4, <1>6, <2>1, <2>2 DEF Move
<1> QED
  BY <1>5, <1>6

-----------------------------------------------------------------------------
(* Shaped is preserved when a connection moves within it.                  *)
LEMMA ShapedFrame ==
  ASSUME Shaped, NEW c \in Conns, NEW s, NEW w, Move(c, s, w), Shape(s, w),
         lock' \in Conns \cup {Nobody}, committed' \in Seq(Transactions),
         logTable' \in Seq(LogRows), txCount' \in Nat, dmlCount' \in Nat,
         UNCHANGED <<setting, used>>
  PROVE  Shaped'
<1>1. /\ sql \in [Conns -> SqlStates] /\ wrap \in [Conns -> WrapStates]
      /\ s \in SqlStates /\ w \in WrapStates
  BY DEF Shaped, TypeOK, Shape
<1>2. /\ sql' \in [Conns -> SqlStates] /\ wrap' \in [Conns -> WrapStates]
      /\ sql'[c] = s /\ wrap'[c] = w
      /\ \A d \in Conns \ {c} : sql'[d] = sql[d] /\ wrap'[d] = wrap[d]
  BY <1>1 DEF Move
<1>3. \A d \in Conns : Shape(sql'[d], wrap'[d])
  BY <1>2 DEF Shaped
<1> QED
  BY <1>2, <1>3 DEF Shaped, TypeOK

(* Committing and rolling back keep SQLite's side typed.                   *)
LEMMA CommitTypes ==
  ASSUME Shaped, NEW c \in Conns
  PROVE  SqlCommit(c) \/ SqlRollback(c) =>
           lock' \in Conns \cup {Nobody} /\ committed' \in Seq(Transactions)
<1>1. /\ sql[c] \in SqlStates /\ committed \in Seq(Transactions)
      /\ lock \in Conns \cup {Nobody}
  BY DEF Shaped, TypeOK
<1>2. [conn |-> c, stmts |-> sql[c].work, raised |-> sql[c].raised] \in Transactions
  BY <1>1 DEF SqlStates, Transactions
<1> QED
  BY <1>1, <1>2 DEF SqlCommit, SqlRollback

(* A new connection has its shape.                                         *)
LEMMA ShapedInit == Init => Shaped
<1> SUFFICES ASSUME Init PROVE Shaped
  OBVIOUS
<1>1. Shape(NoTx, Fresh)
  BY NoTxShape, EmptyStack DEF Shape, Phases, Fresh, WrapStates
<1>2. /\ \A c \in Conns : sql[c] = NoTx /\ wrap[c] = Fresh
      /\ sql \in [Conns -> SqlStates] /\ wrap \in [Conns -> WrapStates]
  BY <1>1 DEF Init, Shape
<1>3. committed \in Seq(Transactions) /\ logTable \in Seq(LogRows)
  BY DEF Init
<1> QED
  BY <1>1, <1>2, <1>3 DEF Init, Shaped, TypeOK

(* Every step keeps it, and the types of all variables.                    *)
LEMMA ShapedNext == Shaped /\ [Next]_vars => Shaped'
<1> SUFFICES ASSUME Shaped, [Next]_vars PROVE Shaped'
  OBVIOUS
<1>1. /\ lock \in Conns \cup {Nobody} /\ committed \in Seq(Transactions)
      /\ logTable \in Seq(LogRows) /\ txCount \in Nat /\ dmlCount \in Nat
      /\ used \subseteq Conns
  BY DEF Shaped, TypeOK
<1>2. ASSUME UNCHANGED vars PROVE Shaped'
  BY <1>2 DEF vars, Shaped, TypeOK
<1>3. ASSUME NEW c \in Conns, Begin(c) PROVE Shaped'
  <2>1. Move(c, SqlBegun(sql[c]), Begun(wrap[c]))
    BY <1>3, Moves
  <2>2. Shape(SqlBegun(sql[c]), Begun(wrap[c]))
    BY <1>3, ShapeBegin DEF Begin, Idle, InSqlTx, Open, Shaped
  <2> QED
    BY <1>1, <1>3, <2>1, <2>2, ShapedFrame DEF Begin, tables
<1>4. ASSUME NEW c \in Conns, Commit(c) \/ End(c) PROVE Shaped'
  <2>1. Move(c, NoTx, Flushed(wrap[c])) \/ Move(c, NoTx, wrap[c])
    BY <1>4, Moves
  <2>2. Shape(NoTx, Flushed(wrap[c])) /\ Shape(NoTx, wrap[c])
    BY <1>4, ShapeCommit DEF Commit, End, Idle, Shaped
  <2>3. lock' \in Conns \cup {Nobody} /\ committed' \in Seq(Transactions)
    BY <1>4, CommitTypes DEF Commit, End
  <2> QED
    BY <1>1, <1>4, <2>1, <2>2, <2>3, ShapedFrame DEF Commit, End, tables
<1>5. ASSUME NEW c \in Conns, Rollback(c) \/ DmlRollsBack(c) PROVE Shaped'
  <2>1. Move(c, NoTx, Discarded(wrap[c]))
    BY <1>5, Moves
  <2>2. Shape(NoTx, Discarded(wrap[c]))
    BY <1>5, ShapeCommit DEF Rollback, DmlRollsBack, Idle, Shaped
  <2>3. lock' \in Conns \cup {Nobody} /\ committed' \in Seq(Transactions)
    BY <1>5, CommitTypes DEF Rollback, DmlRollsBack
  <2> QED
    BY <1>1, <1>5, <2>1, <2>2, <2>3, ShapedFrame DEF Rollback, DmlRollsBack, tables
<1>6. ASSUME NEW c \in Conns, NEW n \in Names, OpenSavepoint(c, n) PROVE Shaped'
  <2>1. Move(c, SqlSaved(sql[c], n), WrapSaved(wrap[c], n))
    BY <1>6, Moves
  <2>2. Shape(SqlSaved(sql[c], n), WrapSaved(wrap[c], n))
    BY <1>6, ShapeSavepoint DEF OpenSavepoint, Idle, Shaped
  <2> QED
    BY <1>1, <1>6, <2>1, <2>2, ShapedFrame DEF OpenSavepoint, tables
<1>7. ASSUME NEW c \in Conns, NEW n \in Names, ReleaseSavepoint(c, n) PROVE Shaped'
  <2>1. \/ SqlCommit(c) /\ Move(c, NoTx, Flushed(Popped(wrap[c])))
        \/ /\ UNCHANGED <<lock, committed>>
           /\ Move(c, SqlReleased(sql[c], n), Popped(wrap[c]))
    BY <1>7, Moves
  <2>2. /\ Named(sql[c].saves, n) /\ wrap[c].pc = "idle" /\ Shape(sql[c], wrap[c])
        /\ UNCHANGED <<tables, dmlCount>>
    BY <1>7 DEF ReleaseSavepoint, OpenNames, Named, Idle, Shaped
  <2>3. Shape(SqlReleased(sql[c], n), Popped(wrap[c])) /\ Shape(NoTx, Popped(wrap[c]))
    BY <2>2, ShapeRelease
  <2>4. Shape(NoTx, Flushed(Popped(wrap[c])))
    BY <2>2, <2>3, ShapeCommit DEF Popped, Shape, WrapStates
  <2>5. SqlCommit(c) => lock' \in Conns \cup {Nobody} /\ committed' \in Seq(Transactions)
    BY CommitTypes
  <2> QED
    BY <1>1, <2>1, <2>2, <2>3, <2>4, <2>5, ShapedFrame DEF tables
<1>8. ASSUME NEW c \in Conns, NEW n \in Names, RollbackTo(c, n) PROVE Shaped'
  <2>1. Move(c, SqlRolledBackTo(sql[c], n), WrapRolledBackTo(wrap[c], n))
    BY <1>8, Moves
  <2>2. Shape(SqlRolledBackTo(sql[c], n), WrapRolledBackTo(wrap[c], n))
    BY <1>8, ShapeRollbackTo DEF RollbackTo, OpenNames, Named, Idle, Shaped
  <2> QED
    BY <1>1, <1>8, <2>1, <2>2, ShapedFrame DEF RollbackTo, tables
<1>9. ASSUME NEW c \in Conns, NEW safe \in BOOLEAN, NEW raises \in BOOLEAN,
             Dml(c, safe, raises)
      PROVE  Shaped'
  <2> DEFINE e == [id |-> dmlCount + 1, safe |-> safe]
  <2>1. /\ dmlCount' = dmlCount + 1 /\ UNCHANGED tables /\ wrap[c].pc = "idle"
        /\ Shape(sql[c], wrap[c])
    BY <1>9 DEF Dml, Idle, Shaped
  <2> HIDE DEF e
  <2>2. /\ e \in Entries
        /\ \/ /\ InSqlTx(c) /\ UNCHANGED committed /\ lock' = c
              /\ Move(c, SqlChanged(sql[c], e, raises), WrapChanged(wrap[c], e, raises))
           \/ /\ ~InSqlTx(c) /\ Autocommitted(c, e, raises)
              /\ \/ wrap[c].inTx /\ raises /\ Move(c, sql[c], Discarded(wrap[c]))
                 \/ wrap[c].inTx /\ ~raises /\ Move(c, sql[c], WrapChanged(wrap[c], e, raises))
                 \/ ~wrap[c].inTx /\ Move(c, sql[c], Written(wrap[c], <<e>>))
    BY <1>9, MovesOfDml DEF e
  <2>3. /\ Open(sql[c]) => Shape(SqlChanged(sql[c], e, raises), WrapChanged(wrap[c], e, raises))
        /\ ~Open(sql[c]) /\ wrap[c].inTx => Shape(sql[c], WrapChanged(wrap[c], e, raises))
        /\ ~wrap[c].inTx => Shape(sql[c], Written(wrap[c], <<e>>))
        /\ ~Open(sql[c]) => Shape(sql[c], Discarded(wrap[c]))
    BY <2>1, <2>2, ShapeDml, ShapeFails
  <2>4. Autocommitted(c, e, raises) => committed' \in Seq(Transactions) /\ lock' = lock
    <3>1. [conn |-> c, stmts |-> <<e>>, raised |-> raises] \in Transactions
      BY <2>2 DEF Transactions
    <3> QED
      BY <1>1, <3>1 DEF Autocommitted
  <2>5. dmlCount' \in Nat /\ logTable' \in Seq(LogRows) /\ txCount' \in Nat
        /\ UNCHANGED <<setting, used>>
    BY <1>1, <2>1 DEF tables
  <2> QED
    BY <1>1, <2>2, <2>3, <2>4, <2>5, ShapedFrame DEF InSqlTx, Open
<1>10. ASSUME NEW c \in Conns, StatementFails(c) PROVE Shaped'
  <2>1. \/ /\ InSqlTx(c)
           /\ Move(c, [sql[c] EXCEPT !.raised = TRUE], [wrap[c] EXCEPT !.failed = TRUE])
        \/ ~InSqlTx(c) /\ Move(c, sql[c], Discarded(wrap[c]))
    BY <1>10, Moves
  <2>2. /\ Open(sql[c]) =>
             Shape([sql[c] EXCEPT !.raised = TRUE], [wrap[c] EXCEPT !.failed = TRUE])
        /\ ~Open(sql[c]) => Shape(sql[c], Discarded(wrap[c]))
    BY <1>10, ShapeFails DEF StatementFails, Idle, Shaped
  <2> QED
    BY <1>1, <1>10, <2>1, <2>2, ShapedFrame DEF StatementFails, tables, InSqlTx, Open
<1>11. ASSUME NEW c \in Conns, Close(c) PROVE Shaped'
  <2>1. Move(c, NoTx, Fresh)
    BY <1>11, Moves
  <2>2. Shape(NoTx, Fresh)
    BY NoTxShape, EmptyStack DEF Shape, Phases, Fresh, WrapStates
  <2>3. lock' \in Conns \cup {Nobody} /\ committed' \in Seq(Transactions)
    BY <1>11, CommitTypes DEF Close
  <2> QED
    BY <1>1, <1>11, <2>1, <2>2, <2>3, ShapedFrame DEF Close, tables
<1>12. ASSUME NEW c \in Conns, WriteTxRow(c) PROVE Shaped'
  <2>1. Move(c, sql[c], [wrap[c] EXCEPT !.pc = "logRows", !.txId = txCount + 1])
    BY <1>12, Moves
  <2>2. txCount + 1 \in Nat \ {0} /\ txCount' = txCount + 1
    BY <1>1, <1>12 DEF WriteTxRow
  <2>3. Shape(sql[c], [wrap[c] EXCEPT !.pc = "logRows", !.txId = txCount + 1])
    BY <1>12, <2>2, ShapeWrites DEF WriteTxRow, Shaped
  <2> QED
    BY <1>1, <1>12, <2>1, <2>2, <2>3, ShapedFrame DEF WriteTxRow
<1>13. ASSUME NEW c \in Conns, WriteLogRow(c) PROVE Shaped'
  <2>1. Move(c, sql[c], RowTaken(wrap[c])) /\ Shape(sql[c], wrap[c])
    BY <1>13, Moves DEF Shaped
  <2>2. Shape(sql[c], RowTaken(wrap[c]))
    BY <1>13, <2>1, ShapeWrites DEF WriteLogRow
  <2>3. wrap[c].writing \in Seq(Entries) /\ wrap[c].writing # <<>> /\ wrap[c].txId \in Nat \ {0}
    BY <1>13, <2>1 DEF WriteLogRow, Shape, Phases, WrapStates
  <2>4. [tx |-> wrap[c].txId, id |-> Head(wrap[c].writing).id, safe |-> Head(wrap[c].writing).safe]
          \in LogRows
    <3>1. Head(wrap[c].writing) \in Entries
      BY <2>3
    <3> QED
      BY <2>3, <3>1 DEF LogRows, Entries
  <2>5. logTable' \in Seq(LogRows)
    BY <1>1, <1>13, <2>4 DEF WriteLogRow
  <2> QED
    BY <1>1, <1>13, <2>1, <2>2, <2>5, ShapedFrame DEF WriteLogRow
<1>14. ASSUME NEW c \in Conns, WriteTimesOut(c) PROVE Shaped'
  <2>1. Move(c, sql[c], Unwritten(wrap[c])) /\ Shape(sql[c], wrap[c])
    BY <1>14, Moves DEF Shaped
  <2>2. Shape(sql[c], Unwritten(wrap[c]))
    BY <1>14, <2>1, ShapeWrites DEF WriteTimesOut, Idle
  <2> QED
    BY <1>1, <1>14, <2>1, <2>2, ShapedFrame DEF WriteTimesOut, tables
<1> QED
  BY <1>1, <1>2, <1>3, <1>4, <1>5, <1>6, <1>7, <1>8, <1>9, <1>10, <1>11, <1>12, <1>13, <1>14
     DEF Next, Call

(* No step changes the setting or the connections in use.                  *)
LEMMA SettingFixed ==
  ASSUME [Next]_vars
  PROVE  UNCHANGED <<setting, used>>
<1>1. ASSUME NEW c, \/ Begin(c) \/ Commit(c) \/ End(c) \/ Rollback(c) \/ StatementFails(c)
                    \/ DmlRollsBack(c) \/ Close(c)
      PROVE  UNCHANGED <<setting, used>>
  BY <1>1 DEF Begin, Commit, End, Rollback, StatementFails, DmlRollsBack, Close, tables
<1>2. ASSUME NEW c, NEW n, OpenSavepoint(c, n) \/ ReleaseSavepoint(c, n) \/ RollbackTo(c, n)
      PROVE  UNCHANGED <<setting, used>>
  BY <1>2 DEF OpenSavepoint, ReleaseSavepoint, RollbackTo, tables
<1>3. ASSUME NEW c, NEW safe, NEW raises, Dml(c, safe, raises)
      PROVE  UNCHANGED <<setting, used>>
  BY <1>3 DEF Dml, tables
<1>4. ASSUME NEW c, WriteTxRow(c) \/ WriteLogRow(c) \/ WriteTimesOut(c)
      PROVE  UNCHANGED <<setting, used>>
  BY <1>4 DEF WriteTxRow, WriteLogRow, WriteTimesOut, tables
<1> QED
  BY <1>1, <1>2, <1>3, <1>4 DEF Next, Call, vars

(* Types of all variables, and every wrapper in a phase it can be in.      *)
THEOREM WrapperTypeCorrect == Spec => []TypeOK
<1>1. Init => Shaped
  BY ShapedInit
<1>2. Shaped /\ [Next]_vars => Shaped'
  BY ShapedNext
<1>3. Shaped => TypeOK
  BY DEF Shaped
<1> QED
  BY <1>1, <1>2, <1>3, PTL DEF Spec

-----------------------------------------------------------------------------
(* Layer 2 is preserved by each operation that leaves SQLite's transaction *)
(* open.                                                                   *)
Suffix(s, w) == /\ Len(s.work) <= Len(w.buffer)
                /\ \A i \in DOMAIN s.work : w.buffer[Before(s, w) + i] = s.work[i]

(* The facts about a connection's sequences those proofs use.              *)
LEMMA ShapeSequences ==
  ASSUME NEW s, NEW w, Shape(s, w)
  PROVE  /\ s \in SqlStates /\ w \in WrapStates
         /\ s.work \in Seq(Entries) /\ s.saves \in Seq(Savepoints)
         /\ w.buffer \in Seq(Entries) /\ w.saves \in Seq(Savepoints)
         /\ Len(s.work) \in Nat /\ Len(w.buffer) \in Nat
         /\ Len(s.saves) \in Nat /\ Len(w.saves) \in Nat
         /\ DOMAIN s.work = 1..Len(s.work) /\ DOMAIN w.buffer = 1..Len(w.buffer)
         /\ DOMAIN s.saves = 1..Len(s.saves) /\ DOMAIN w.saves = 1..Len(w.saves)
         /\ Before(s, w) \in Int
         /\ Stacked(s.saves, Len(s.work)) /\ Stacked(w.saves, Len(w.buffer))
         /\ \A i \in DOMAIN s.saves : s.saves[i].at \in Nat
         /\ \A i \in DOMAIN w.saves : w.saves[i].at \in Nat
<1>1. /\ s \in SqlStates /\ w \in WrapStates
      /\ s.work \in Seq(Entries) /\ s.saves \in Seq(Savepoints)
      /\ w.buffer \in Seq(Entries) /\ w.saves \in Seq(Savepoints)
  BY DEF Shape, SqlStates, WrapStates
<1>2. \A saves \in Seq(Savepoints) : \A i \in DOMAIN saves : saves[i] \in Savepoints
  OBVIOUS
<1>3. /\ \A i \in DOMAIN s.saves : s.saves[i].at \in Nat
      /\ \A i \in DOMAIN w.saves : w.saves[i].at \in Nat
  BY <1>1, <1>2 DEF Savepoints
<1> QED
  BY <1>1, <1>3 DEF Shape, Before

(* After BEGIN there is no work to mirror.                                 *)
LEMMA MirrorBegin ==
  ASSUME NEW s, NEW w, Shape(s, w), ~Open(s)
  PROVE  Mirror(SqlBegun(s), Begun(w))
<1>1. s = NoTx /\ w \in WrapStates
  BY DEF Shape, Phases
<1>2. /\ SqlBegun(s).work = <<>> /\ SqlBegun(s).saves = <<>>
      /\ Begun(w).buffer = <<>> /\ Begun(w).saves = <<>>
  BY <1>1, BegunShape, NoTxShape DEF SqlBegun, NoTx, SqlStates
<1>3. StackInside([i \in {} |-> 0], SqlBegun(s), Begun(w))
  BY <1>2 DEF StackInside
<1> QED
  BY <1>2, <1>3 DEF Mirror

(* Taking a savepoint puts an entry of the same name on both stacks.       *)
LEMMA MirrorSavepoint ==
  ASSUME NEW s, NEW w, Shape(s, w), w.pc = "idle", Mirror(s, w),
         NEW n \in Names, ~Named(s.saves, n)
  PROVE  Mirror(SqlSaved(s, n), WrapSaved(w, n))
<1> DEFINE v == IF w.inTx THEN w ELSE Begun(w)
           top == Savepoint(n, Len(s.work))
           topw == Savepoint(n, Len(v.buffer))
<1>1. /\ v \in WrapStates /\ v.buffer \in Seq(Entries) /\ v.saves \in Seq(Savepoints)
  BY BegunShape DEF Shape, WrapStates
<1>2. Open(s) => v = w
  BY DEF Shape, Phases
<1>3. Suffix(s, v) /\ \E f : StackInside(f, s, v)
  <2>1. CASE Open(s)
    BY <1>2, <2>1 DEF Mirror, Suffix
  <2>2. CASE ~Open(s)
    <3>1. s.work = <<>> /\ s.saves = <<>>
      BY <2>2 DEF Shape, Phases, NoTx
    <3>2. StackInside([i \in {} |-> 0], s, v)
      <4> HIDE DEF v
      <4> QED
        BY <1>1, <3>1 DEF StackInside
    <3>3. Suffix(s, v)
      <4> HIDE DEF v
      <4> QED
        BY <1>1, <3>1 DEF Suffix, Before
    <3> QED
      BY <3>2, <3>3
  <2> QED
    BY <2>1, <2>2
<1>4. WrapSaved(w, n) = [v EXCEPT !.saves = Append(@, topw)]
  BY DEF WrapSaved
<1> HIDE DEF v
<1>5. /\ s \in SqlStates /\ s.work \in Seq(Entries) /\ s.saves \in Seq(Savepoints)
      /\ Len(s.work) \in Nat /\ Len(v.buffer) \in Nat
      /\ \A i \in DOMAIN s.saves : s.saves[i].at \in Nat
  BY <1>1, ShapeSequences
<1>6. top \in Savepoints /\ topw \in Savepoints
      /\ top.name = n /\ topw.name = n /\ top.at = Len(s.work) /\ topw.at = Len(v.buffer)
  BY <1>5 DEF Savepoint, Savepoints
<1> HIDE DEF top, topw
<1> DEFINE S2 == Append(s.saves, top)
           W2 == Append(v.saves, topw)
<1>7. /\ SqlSaved(s, n).work = s.work /\ SqlSaved(s, n).saves = S2
      /\ WrapSaved(w, n).buffer = v.buffer /\ WrapSaved(w, n).saves = W2
  BY <1>1, <1>4, <1>5 DEF SqlSaved, SqlStates, WrapStates, top
<1>8. /\ DOMAIN S2 = 1..(Len(s.saves) + 1)
      /\ \A i \in 1..Len(s.saves) : S2[i] = s.saves[i]
      /\ S2[Len(s.saves) + 1] = top
      /\ DOMAIN W2 = 1..(Len(v.saves) + 1)
      /\ \A i \in 1..Len(v.saves) : W2[i] = v.saves[i]
      /\ W2[Len(v.saves) + 1] = topw
      /\ DOMAIN s.saves = 1..Len(s.saves) /\ DOMAIN v.saves = 1..Len(v.saves)
      /\ Len(s.saves) \in Nat /\ Len(v.saves) \in Nat
  BY <1>1, <1>5, <1>6
<1> HIDE DEF S2, W2
<1>9. Before(SqlSaved(s, n), WrapSaved(w, n)) = Before(s, v) /\ Before(s, v) \in Int
      /\ topw.at = Before(s, v) + top.at
  BY <1>5, <1>6, <1>7 DEF Before
<1>10. PICK f : StackInside(f, s, v)
  BY <1>3
<1> DEFINE g == [i \in 1..(Len(s.saves) + 1) |->
                   IF i = Len(s.saves) + 1 THEN Len(v.saves) + 1 ELSE f[i]]
<1>11. /\ \A i \in 1..Len(s.saves) : g[i] = f[i] /\ f[i] \in 1..Len(v.saves)
       /\ g[Len(s.saves) + 1] = Len(v.saves) + 1
       /\ g \in [1..(Len(s.saves) + 1) -> 1..(Len(v.saves) + 1)]
  <2>1. \A i \in 1..Len(s.saves) : f[i] \in 1..Len(v.saves)
    BY <1>8, <1>10 DEF StackInside
  <2> QED
    BY <1>8, <2>1
<1> HIDE DEF g
<1>12. \A i \in 1..Len(s.saves) : s.saves[i].name # n
  BY <1>8 DEF Named
<1>13. ASSUME NEW i \in 1..(Len(s.saves) + 1)
       PROVE  /\ W2[g[i]].name = S2[i].name
              /\ W2[g[i]].at = Before(s, v) + S2[i].at
              /\ \A j \in 1..(Len(v.saves) + 1) : g[i] < j => W2[j].name # S2[i].name
              /\ \A j \in 1..(Len(s.saves) + 1) : i < j => g[i] < g[j]
  <2>1. CASE i = Len(s.saves) + 1
    BY <1>6, <1>8, <1>9, <1>11, <2>1
  <2>2. CASE i \in 1..Len(s.saves)
    <3>1. /\ v.saves[f[i]].name = s.saves[i].name
          /\ v.saves[f[i]].at = Before(s, v) + s.saves[i].at
          /\ \A j \in 1..Len(v.saves) : f[i] < j => v.saves[j].name # s.saves[i].name
          /\ \A j \in 1..Len(s.saves) : i < j => f[i] < f[j]
      BY <1>8, <1>10, <2>2 DEF StackInside
    <3>2. W2[g[i]] = v.saves[f[i]] /\ S2[i] = s.saves[i]
      BY <1>8, <1>11, <2>2
    <3>3. ASSUME NEW j \in 1..(Len(v.saves) + 1), g[i] < j
          PROVE  W2[j].name # s.saves[i].name
      <4>1. CASE j = Len(v.saves) + 1
        BY <1>6, <1>8, <1>12, <2>2, <4>1
      <4>2. CASE j \in 1..Len(v.saves)
        BY <1>8, <1>11, <2>2, <3>1, <3>3, <4>2
      <4> QED
        BY <1>8, <4>1, <4>2
    <3>4. ASSUME NEW j \in 1..(Len(s.saves) + 1), i < j PROVE g[i] < g[j]
      <4>1. CASE j = Len(s.saves) + 1
        BY <1>8, <1>11, <2>2, <4>1
      <4>2. CASE j \in 1..Len(s.saves)
        BY <1>11, <2>2, <3>1, <3>4, <4>2
      <4> QED
        BY <1>8, <4>1, <4>2
    <3> QED
      BY <3>1, <3>2, <3>3, <3>4
  <2>3. i = Len(s.saves) + 1 \/ i \in 1..Len(s.saves)
    BY <1>8
  <2> QED
    BY <2>1, <2>2, <2>3
<1>14. StackInside(g, SqlSaved(s, n), WrapSaved(w, n))
  <2>1. /\ SqlSaved(s, n).saves = S2 /\ WrapSaved(w, n).saves = W2
        /\ DOMAIN S2 = 1..(Len(s.saves) + 1) /\ DOMAIN W2 = 1..(Len(v.saves) + 1)
        /\ Before(SqlSaved(s, n), WrapSaved(w, n)) = Before(s, v)
        /\ g \in [1..(Len(s.saves) + 1) -> 1..(Len(v.saves) + 1)]
    BY <1>7, <1>8, <1>9, <1>11
  <2> QED
    BY <1>13, <2>1 DEF StackInside
<1>15. Suffix(SqlSaved(s, n), WrapSaved(w, n))
  BY <1>3, <1>7, <1>9 DEF Suffix
<1> QED
  BY <1>14, <1>15 DEF Mirror, Suffix

(* RELEASE drops more of SQLite's stack than of the wrapper's.             *)
LEMMA MirrorRelease ==
  ASSUME NEW s, NEW w, Shape(s, w), Mirror(s, w), NEW n, Named(s.saves, n), Open(s)
  PROVE  /\ Mirror(SqlReleased(s, n), Popped(w))
         /\ Before(SqlReleased(s, n), Popped(w)) = Before(s, w)
<1> DEFINE at == LastNamed(s.saves, n)
           S2 == SubSeq(s.saves, 1, at - 1)
           W2 == Front(w.saves)
<1>1. /\ s \in SqlStates /\ w \in WrapStates
      /\ s.saves \in Seq(Savepoints) /\ w.saves \in Seq(Savepoints)
      /\ Stacked(s.saves, Len(s.work)) /\ Stacked(w.saves, Len(w.buffer))
      /\ Len(s.work) \in Nat /\ Len(w.buffer) \in Nat
      /\ DOMAIN s.saves = 1..Len(s.saves) /\ DOMAIN w.saves = 1..Len(w.saves)
      /\ Len(s.saves) \in Nat /\ Len(w.saves) \in Nat
  BY ShapeSequences
<1>2. at \in 1..Len(s.saves)
  BY <1>1, LastNamedIs
<1> HIDE DEF at
<1>3. PICK f : StackInside(f, s, w)
  BY DEF Mirror
<1>4. /\ f[at] \in 1..Len(w.saves)
      /\ \A i \in 1..(at - 1) : f[i] \in 1..(Len(w.saves) - 1)
  <2>1. \A i \in 1..Len(s.saves) : f[i] \in 1..Len(w.saves)
    BY <1>1, <1>3 DEF StackInside
  <2>2. \A i \in 1..(at - 1) : f[i] < f[at]
    <3>1. \A i, j \in DOMAIN s.saves : i < j => f[i] < f[j]
      BY <1>3 DEF StackInside
    <3>2. \A i \in 1..(at - 1) : i \in DOMAIN s.saves /\ at \in DOMAIN s.saves /\ i < at
      BY <1>1, <1>2
    <3> QED
      BY <3>1, <3>2
  <2>3. ASSUME NEW i \in 1..(at - 1) PROVE f[i] \in 1..(Len(w.saves) - 1)
    <3>1. f[i] \in 1..Len(w.saves) /\ f[at] \in 1..Len(w.saves) /\ f[i] < f[at]
      BY <1>1, <1>2, <2>1, <2>2
    <3>2. Len(w.saves) \in Nat
      BY <1>1
    <3> QED
      BY <3>1, <3>2
  <2> QED
    BY <1>2, <2>1, <2>3
<1>5. /\ DOMAIN S2 = 1..(at - 1) /\ \A i \in 1..(at - 1) : S2[i] = s.saves[i]
  BY <1>1, <1>2, StackCut
<1>6. /\ DOMAIN W2 = 1..(Len(w.saves) - 1)
      /\ \A i \in 1..(Len(w.saves) - 1) : W2[i] = w.saves[i]
  <2>1. Len(w.saves) - 1 \in 0..Len(w.saves)
    BY <1>1, <1>4
  <2> QED
    BY <1>1, <2>1, StackCut DEF Front
<1>7. /\ SqlReleased(s, n).saves = S2 /\ SqlReleased(s, n).work = s.work
  BY <1>1 DEF SqlReleased, SqlStates, at
<1> HIDE DEF S2, W2
<1>8. /\ Popped(w).saves = W2 /\ Popped(w).buffer = w.buffer
  <2>1. w.saves # <<>>
    BY <1>1, <1>4
  <2> QED
    BY <1>1, <2>1 DEF Popped, WrapStates, W2
<1>9. Before(SqlReleased(s, n), Popped(w)) = Before(s, w)
  BY <1>7, <1>8 DEF Before
<1> DEFINE g == [i \in 1..(at - 1) |-> f[i]]
<1>10. StackInside(g, SqlReleased(s, n), Popped(w))
  <2>1. g \in [DOMAIN S2 -> DOMAIN W2] /\ \A i \in 1..(at - 1) : g[i] = f[i]
    BY <1>4, <1>5, <1>6
  <2> HIDE DEF g
  <2>2. ASSUME NEW i \in 1..(at - 1)
        PROVE  /\ W2[g[i]].name = S2[i].name
               /\ W2[g[i]].at = Before(s, w) + S2[i].at
               /\ \A j \in DOMAIN W2 : g[i] < j => W2[j].name # S2[i].name
               /\ \A j \in 1..(at - 1) : i < j => g[i] < g[j]
    <3>1. i \in DOMAIN s.saves /\ \A j \in 1..(at - 1) : j \in DOMAIN s.saves
      BY <1>1, <1>2
    <3>2. \A j \in DOMAIN W2 : j \in DOMAIN w.saves /\ W2[j] = w.saves[j]
      BY <1>1, <1>4, <1>6
    <3>3. g[i] = f[i] /\ f[i] \in DOMAIN W2 /\ S2[i] = s.saves[i]
      BY <1>4, <1>5, <1>6, <2>1
    <3> QED
      BY <1>3, <2>1, <3>1, <3>2, <3>3 DEF StackInside
  <2> QED
    BY <1>5, <1>7, <1>8, <1>9, <2>1, <2>2 DEF StackInside
<1> HIDE DEF g
<1>11. Suffix(SqlReleased(s, n), Popped(w))
  BY <1>7, <1>8, <1>9 DEF Suffix, Mirror
<1> QED
  BY <1>9, <1>10, <1>11 DEF Mirror, Suffix

(* ROLLBACK TO cuts both at the counterparts of one savepoint.             *)
LEMMA MirrorRollbackTo ==
  ASSUME NEW s, NEW w, Shape(s, w), Mirror(s, w), NEW n, Named(s.saves, n), Open(s)
  PROVE  /\ Mirror(SqlRolledBackTo(s, n), WrapRolledBackTo(w, n))
         /\ Before(SqlRolledBackTo(s, n), WrapRolledBackTo(w, n)) = Before(s, w)
<1> DEFINE at == LastNamed(s.saves, n)
           to == LastNamed(w.saves, n)
           len == s.saves[at].at
           S2 == SubSeq(s.saves, 1, at)
           W2 == SubSeq(w.saves, 1, to)
           work == SubSeq(s.work, 1, len)
           buffer == SubSeq(w.buffer, 1, w.saves[to].at)
<1>1. /\ s \in SqlStates /\ w \in WrapStates
      /\ s.work \in Seq(Entries) /\ w.buffer \in Seq(Entries)
      /\ s.saves \in Seq(Savepoints) /\ w.saves \in Seq(Savepoints)
      /\ Stacked(s.saves, Len(s.work)) /\ Stacked(w.saves, Len(w.buffer))
      /\ Len(s.work) \in Nat /\ Len(w.buffer) \in Nat
      /\ DOMAIN s.saves = 1..Len(s.saves) /\ DOMAIN w.saves = 1..Len(w.saves)
      /\ Len(s.saves) \in Nat /\ Len(w.saves) \in Nat
      /\ DOMAIN s.work = 1..Len(s.work) /\ DOMAIN w.buffer = 1..Len(w.buffer)
      /\ Before(s, w) \in Int
  BY ShapeSequences
<1>2. at \in DOMAIN s.saves /\ s.saves[at].name = n
  BY <1>1, LastNamedIs
<1>3. PICK f : StackInside(f, s, w)
  BY DEF Mirror
<1>4. f[at] \in DOMAIN w.saves /\ w.saves[f[at]].name = n
  BY <1>2, <1>3 DEF StackInside
<1>5. Named(w.saves, n)
  BY <1>4 DEF Named
<1>6. to \in DOMAIN w.saves /\ w.saves[to].name = n
      /\ \A j \in DOMAIN w.saves : to < j => w.saves[j].name # n
  BY <1>1, <1>5, LastNamedIs
<1>7. f[at] = to
  <2>1. \A j \in DOMAIN w.saves : f[at] < j => w.saves[j].name # n
    BY <1>2, <1>3 DEF StackInside
  <2> HIDE DEF at, to
  <2> QED
    BY <1>1, <1>4, <1>6, <2>1
<1>8. w.saves[to].at = Before(s, w) + len
  BY <1>2, <1>3, <1>7 DEF StackInside
<1>9. len \in 0..Len(s.work) /\ w.saves[to].at \in 0..Len(w.buffer)
  BY <1>1, <1>2, <1>6, StackCut
<1>10. /\ DOMAIN S2 = 1..at /\ \A i \in 1..at : S2[i] = s.saves[i]
       /\ DOMAIN W2 = 1..to /\ \A i \in 1..to : W2[i] = w.saves[i]
  BY <1>1, <1>2, <1>6, StackCut
<1>11. /\ work \in Seq(Entries) /\ Len(work) = len /\ DOMAIN work = 1..len
       /\ \A i \in 1..len : work[i] = s.work[i]
       /\ buffer \in Seq(Entries) /\ Len(buffer) = w.saves[to].at
       /\ \A i \in 1..w.saves[to].at : buffer[i] = w.buffer[i]
  <2> DEFINE k == w.saves[to].at
  <2>1. \A i \in 1..len : s.work[i] \in Entries
    BY <1>1, <1>9
  <2>2. \A i \in 1..k : w.buffer[i] \in Entries
    BY <1>1, <1>9
  <2>3. len \in Nat /\ k \in Nat
    BY <1>1, <1>9
  <2> HIDE DEF len, k
  <2>4. /\ SubSeq(s.work, 1, len) \in Seq(Entries)
        /\ Len(SubSeq(s.work, 1, len)) = len
        /\ \A i \in 1..len : SubSeq(s.work, 1, len)[i] = s.work[i]
    BY <2>1, <2>3, SubSeqProperties
  <2>5. /\ SubSeq(w.buffer, 1, k) \in Seq(Entries)
        /\ Len(SubSeq(w.buffer, 1, k)) = k
        /\ \A i \in 1..k : SubSeq(w.buffer, 1, k)[i] = w.buffer[i]
    BY <2>2, <2>3, SubSeqProperties
  <2> QED
    BY <2>4, <2>5 DEF k
<1>12. /\ SqlRolledBackTo(s, n).saves = S2 /\ SqlRolledBackTo(s, n).work = work
       /\ WrapRolledBackTo(w, n).saves = W2 /\ WrapRolledBackTo(w, n).buffer = buffer
  BY <1>1, <1>5 DEF SqlRolledBackTo, WrapRolledBackTo, SqlStates, WrapStates
<1> HIDE DEF at, to, len, S2, W2, work, buffer
<1>13. Before(SqlRolledBackTo(s, n), WrapRolledBackTo(w, n)) = Before(s, w)
  <2>1. Len(buffer) - Len(work) = Before(s, w)
    BY <1>1, <1>8, <1>9, <1>11
  <2> QED
    BY <1>12, <2>1 DEF Before
<1>14. Suffix(SqlRolledBackTo(s, n), WrapRolledBackTo(w, n))
  <2>1. Suffix(s, w) /\ Before(s, w) >= 0
    BY <1>1 DEF Suffix, Mirror, Before
  <2>2. Len(work) <= Len(buffer)
    BY <1>1, <1>8, <1>9, <1>11, <2>1
  <2>3. \A i \in 1..len : buffer[Before(s, w) + i] = w.buffer[Before(s, w) + i]
    BY <1>1, <1>8, <1>9, <1>11, <2>1
  <2>4. \A i \in 1..len : i \in DOMAIN s.work
    BY <1>1, <1>9
  <2>5. \A i \in 1..len : buffer[Before(s, w) + i] = work[i]
    BY <1>11, <2>1, <2>3, <2>4 DEF Suffix
  <2> QED
    BY <1>11, <1>12, <1>13, <2>2, <2>5 DEF Suffix
<1> DEFINE g == [i \in 1..at |-> f[i]]
<1>15. StackInside(g, SqlRolledBackTo(s, n), WrapRolledBackTo(w, n))
  <2>1. ASSUME NEW i \in 1..at PROVE f[i] \in 1..to
    <3>1. at \in Nat /\ i \in DOMAIN s.saves /\ to \in Nat
      BY <1>1, <1>2, <1>6
    <3>2. f[i] \in 1..Len(w.saves) /\ (i < at => f[i] < f[at])
      BY <1>1, <1>2, <1>3, <3>1 DEF StackInside
    <3>3. i < at \/ i = at
      BY <3>1
    <3> QED
      BY <1>1, <1>7, <3>1, <3>2, <3>3
  <2>2. g \in [DOMAIN S2 -> DOMAIN W2] /\ \A i \in 1..at : g[i] = f[i]
    BY <1>10, <2>1
  <2> HIDE DEF g
  <2>3. ASSUME NEW i \in 1..at
        PROVE  /\ W2[g[i]].name = S2[i].name
               /\ W2[g[i]].at = Before(s, w) + S2[i].at
               /\ \A j \in DOMAIN W2 : g[i] < j => W2[j].name # S2[i].name
               /\ \A j \in 1..at : i < j => g[i] < g[j]
    <3>1. i \in DOMAIN s.saves /\ \A j \in 1..at : j \in DOMAIN s.saves
      BY <1>1, <1>2
    <3>2. \A j \in DOMAIN W2 : j \in DOMAIN w.saves /\ W2[j] = w.saves[j]
      BY <1>1, <1>6, <1>10
    <3>3. g[i] = f[i] /\ f[i] \in DOMAIN W2 /\ S2[i] = s.saves[i]
      BY <1>10, <2>1, <2>2
    <3> QED
      BY <1>3, <2>2, <3>1, <3>2, <3>3 DEF StackInside
  <2> QED
    BY <1>10, <1>12, <1>13, <2>2, <2>3 DEF StackInside
<1> HIDE DEF g
<1> QED
  BY <1>13, <1>14, <1>15 DEF Mirror, Suffix

(* A statement in the transaction lengthens both.                          *)
LEMMA MirrorDml ==
  ASSUME NEW s, NEW w, Shape(s, w), Mirror(s, w), Open(s),
         NEW e \in Entries, NEW raises \in BOOLEAN
  PROVE  /\ Mirror(SqlChanged(s, e, raises), WrapChanged(w, e, raises))
         /\ Before(SqlChanged(s, e, raises), WrapChanged(w, e, raises)) = Before(s, w)
<1> DEFINE work == Append(s.work, e)
           buffer == Append(w.buffer, e)
<1>1. /\ s \in SqlStates /\ w \in WrapStates
      /\ s.work \in Seq(Entries) /\ w.buffer \in Seq(Entries)
      /\ Len(s.work) \in Nat /\ Len(w.buffer) \in Nat
      /\ DOMAIN s.work = 1..Len(s.work)
  BY ShapeSequences
<1>2. /\ SqlChanged(s, e, raises).saves = s.saves /\ SqlChanged(s, e, raises).work = work
      /\ WrapChanged(w, e, raises).saves = w.saves /\ WrapChanged(w, e, raises).buffer = buffer
  BY <1>1 DEF SqlChanged, WrapChanged, SqlStates, WrapStates
<1>3. /\ Len(work) = Len(s.work) + 1 /\ DOMAIN work = 1..(Len(s.work) + 1)
      /\ \A i \in 1..Len(s.work) : work[i] = s.work[i]
      /\ work[Len(s.work) + 1] = e
      /\ Len(buffer) = Len(w.buffer) + 1
      /\ \A i \in 1..Len(w.buffer) : buffer[i] = w.buffer[i]
      /\ buffer[Len(w.buffer) + 1] = e
  BY <1>1
<1> HIDE DEF work, buffer
<1>4. Before(SqlChanged(s, e, raises), WrapChanged(w, e, raises)) = Before(s, w)
  BY <1>1, <1>2, <1>3 DEF Before
<1>5. Suffix(s, w) /\ Len(s.work) <= Len(w.buffer)
  BY DEF Suffix, Mirror
<1>6. /\ Before(s, w) + (Len(s.work) + 1) = Len(w.buffer) + 1
      /\ \A i \in 1..Len(s.work) : Before(s, w) + i \in 1..Len(w.buffer)
  <2>1. \A x, y \in Nat : x <= y => /\ (y - x) + (x + 1) = y + 1
                                   /\ \A i \in 1..x : (y - x) + i \in 1..y
    OBVIOUS
  <2>2. Len(s.work) \in Nat /\ Len(w.buffer) \in Nat
    BY <1>1
  <2> QED
    BY <1>5, <2>1, <2>2 DEF Before
<1>7. ASSUME NEW i \in 1..(Len(s.work) + 1) PROVE buffer[Before(s, w) + i] = work[i]
  <2>1. CASE i = Len(s.work) + 1
    <3>1. Before(s, w) + i = Len(w.buffer) + 1
      BY <1>6, <2>1
    <3> QED
      BY <1>3, <2>1, <3>1
  <2>2. CASE i \in 1..Len(s.work)
    <3>1. Before(s, w) + i \in 1..Len(w.buffer)
      BY <1>6, <2>2
    <3> QED
      BY <1>1, <1>3, <1>5, <2>2, <3>1 DEF Suffix
  <2>3. i = Len(s.work) + 1 \/ i \in 1..Len(s.work)
    BY <1>1
  <2> QED
    BY <2>1, <2>2, <2>3
<1>8. Suffix(SqlChanged(s, e, raises), WrapChanged(w, e, raises))
  <2>1. Len(work) <= Len(buffer)
    BY <1>1, <1>3, <1>5
  <2> QED
    BY <1>2, <1>3, <1>4, <1>7, <2>1 DEF Suffix
<1>9. PICK f : StackInside(f, s, w)
  BY DEF Mirror
<1>10. StackInside(f, SqlChanged(s, e, raises), WrapChanged(w, e, raises))
  BY <1>2, <1>4, <1>9 DEF StackInside
<1> QED
  BY <1>4, <1>8, <1>10 DEF Mirror, Suffix

(* A failed one leaves both alone.                                         *)
LEMMA MirrorFails ==
  ASSUME NEW s, NEW w, Shape(s, w), Mirror(s, w)
  PROVE  /\ Mirror([s EXCEPT !.raised = TRUE], [w EXCEPT !.failed = TRUE])
         /\ Before([s EXCEPT !.raised = TRUE], [w EXCEPT !.failed = TRUE]) = Before(s, w)
<1> DEFINE s2 == [s EXCEPT !.raised = TRUE]
           w2 == [w EXCEPT !.failed = TRUE]
<1>1. /\ s2.work = s.work /\ s2.saves = s.saves /\ s2.tx = s.tx
      /\ w2.buffer = w.buffer /\ w2.saves = w.saves
  BY DEF Shape, SqlStates, WrapStates
<1> HIDE DEF s2, w2
<1>2. Before(s2, w2) = Before(s, w)
  BY <1>1 DEF Before
<1>3. \A f : StackInside(f, s, w) => StackInside(f, s2, w2)
  BY <1>1, <1>2 DEF StackInside
<1>4. Mirror(s2, w2)
  BY <1>1, <1>2, <1>3 DEF Mirror, Open
<1> QED
  BY <1>2, <1>4 DEF s2, w2

(* The other connections stay as they are.                                 *)
LEMMA MirroredFrame ==
  ASSUME Shaped, Mirrored, NEW c \in Conns, NEW s, NEW w, Move(c, s, w), Mirror(s, w)
  PROVE  Mirrored'
<1>1. sql \in [Conns -> SqlStates] /\ wrap \in [Conns -> WrapStates]
  BY DEF Shaped, TypeOK
<1>2. \A d \in Conns : Mirror(sql'[d], wrap'[d])
  BY <1>1 DEF Move, Mirrored
<1> QED
  BY <1>2 DEF Mirrored

(* Layer 2 is kept by every step.                                          *)
LEMMA MirroredNext ==
  ASSUME NamesOnce, Shaped, Mirrored, [Next]_vars
  PROVE  Mirrored'
<1>1. \A s, w : ~Open(s) => Mirror(s, w)
  BY DEF Mirror
<1>2. ~Open(NoTx)
  BY NoTxShape
<1>3. used \subseteq Conns /\ \A c \in Conns : Shape(sql[c], wrap[c]) /\ Mirror(sql[c], wrap[c])
  BY DEF Shaped, Mirrored
<1>4. ASSUME UNCHANGED vars PROVE Mirrored'
  BY <1>4 DEF vars, Mirrored
<1>5. ASSUME NEW c \in Conns, Begin(c) PROVE Mirrored'
  <2>1. Move(c, SqlBegun(sql[c]), Begun(wrap[c]))
    BY <1>5, Moves
  <2>2. Mirror(SqlBegun(sql[c]), Begun(wrap[c]))
    BY <1>3, <1>5, MirrorBegin DEF Begin, InSqlTx, Open
  <2> QED
    BY <2>1, <2>2, MirroredFrame
<1>6. ASSUME NEW c \in Conns,
             Commit(c) \/ End(c) \/ Rollback(c) \/ DmlRollsBack(c) \/ Close(c)
      PROVE  Mirrored'
  <2>1. PICK w : Move(c, NoTx, w)
    BY <1>6, Moves
  <2> QED
    BY <1>1, <1>2, <2>1, MirroredFrame
<1>7. ASSUME NEW c \in Conns, NEW n \in Names, OpenSavepoint(c, n) PROVE Mirrored'
  <2>1. Move(c, SqlSaved(sql[c], n), WrapSaved(wrap[c], n))
    BY <1>7, Moves
  <2>2. ~Named(sql[c].saves, n) /\ wrap[c].pc = "idle"
    BY <1>7 DEF OpenSavepoint, OpenNames, Named, NamesOnce, Idle
  <2>3. Mirror(SqlSaved(sql[c], n), WrapSaved(wrap[c], n))
    BY <1>3, <2>2, MirrorSavepoint
  <2> QED
    BY <2>1, <2>3, MirroredFrame
<1>8. ASSUME NEW c \in Conns, NEW n \in Names, ReleaseSavepoint(c, n) PROVE Mirrored'
  <2>1. \/ Move(c, NoTx, Flushed(Popped(wrap[c])))
        \/ Move(c, SqlReleased(sql[c], n), Popped(wrap[c]))
    BY <1>8, Moves
  <2>2. Named(sql[c].saves, n)
    BY <1>8 DEF ReleaseSavepoint, OpenNames, Named
  <2>3. Open(sql[c])
    BY <1>3, <2>2 DEF Shape, Phases, Named, NoTx
  <2>4. Mirror(SqlReleased(sql[c], n), Popped(wrap[c]))
    BY <1>3, <2>2, <2>3, MirrorRelease
  <2> QED
    BY <1>1, <1>2, <2>1, <2>4, MirroredFrame
<1>9. ASSUME NEW c \in Conns, NEW n \in Names, RollbackTo(c, n) PROVE Mirrored'
  <2>1. Move(c, SqlRolledBackTo(sql[c], n), WrapRolledBackTo(wrap[c], n))
    BY <1>9, Moves
  <2>2. Named(sql[c].saves, n)
    BY <1>9 DEF RollbackTo, OpenNames, Named
  <2>3. Open(sql[c])
    BY <1>3, <2>2 DEF Shape, Phases, Named, NoTx
  <2>4. Mirror(SqlRolledBackTo(sql[c], n), WrapRolledBackTo(wrap[c], n))
    BY <1>3, <2>2, <2>3, MirrorRollbackTo
  <2> QED
    BY <2>1, <2>4, MirroredFrame
<1>10. ASSUME NEW c \in Conns, NEW safe \in BOOLEAN, NEW raises \in BOOLEAN,
              Dml(c, safe, raises)
       PROVE  Mirrored'
  <2> DEFINE e == [id |-> dmlCount + 1, safe |-> safe]
  <2> HIDE DEF e
  <2>1. /\ e \in Entries
        /\ \/ /\ InSqlTx(c)
              /\ Move(c, SqlChanged(sql[c], e, raises), WrapChanged(wrap[c], e, raises))
           \/ ~InSqlTx(c) /\ \E w : Move(c, sql[c], w)
    BY <1>10, MovesOfDml DEF e
  <2>2. InSqlTx(c) <=> Open(sql[c])
    BY DEF InSqlTx, Open
  <2>3. InSqlTx(c) => Mirror(SqlChanged(sql[c], e, raises), WrapChanged(wrap[c], e, raises))
    BY <1>3, <2>1, <2>2, MirrorDml
  <2> QED
    BY <1>1, <2>1, <2>2, <2>3, MirroredFrame
<1>11. ASSUME NEW c \in Conns, StatementFails(c) PROVE Mirrored'
  <2>1. \/ Move(c, [sql[c] EXCEPT !.raised = TRUE], [wrap[c] EXCEPT !.failed = TRUE])
        \/ ~InSqlTx(c) /\ Move(c, sql[c], Discarded(wrap[c]))
    BY <1>11, Moves
  <2>2. Mirror([sql[c] EXCEPT !.raised = TRUE], [wrap[c] EXCEPT !.failed = TRUE])
    BY <1>3, MirrorFails
  <2> QED
    BY <1>1, <2>1, <2>2, MirroredFrame DEF InSqlTx, Open
<1>12. ASSUME NEW c \in Conns, WriteTxRow(c) \/ WriteLogRow(c) \/ WriteTimesOut(c)
       PROVE  Mirrored'
  <2>1. PICK w : Move(c, sql[c], w)
    BY <1>12, Moves
  <2>2. ~Open(sql[c])
    BY <1>3, <1>12 DEF WriteTxRow, WriteLogRow, WriteTimesOut, Idle, Shape, Phases
  <2> QED
    BY <1>1, <2>1, <2>2, MirroredFrame
<1> QED
  BY <1>3, <1>4, <1>5, <1>6, <1>7, <1>8, <1>9, <1>10, <1>11, <1>12 DEF Next, Call

-----------------------------------------------------------------------------
(* Layer 4: the wrapper and SQLite open and close transactions             *)
(* together, and the buffer holds no entry of an earlier one.              *)
LEMMA InStepFrame ==
  ASSUME Shaped, InStep, NEW c \in Conns, NEW s, NEW w, Move(c, s, w), Abreast(s, w),
         UNCHANGED setting
  PROVE  InStep'
<1>1. sql \in [Conns -> SqlStates] /\ wrap \in [Conns -> WrapStates]
  BY DEF Shaped, TypeOK
<1>2. Undisturbed' = Undisturbed
  BY DEF Undisturbed, Env
<1>3. Undisturbed => \A d \in Conns : Abreast(sql'[d], wrap'[d])
  BY <1>1 DEF Move, InStep
<1> QED
  BY <1>2, <1>3 DEF InStep

(* Where the wrapper ends a transaction, it is left without one.           *)
LEMMA AbreastAtEnd ==
  ASSUME NEW s, NEW w, w \in WrapStates
  PROVE  /\ Abreast(NoTx, Discarded(w)) /\ Abreast(NoTx, Flushed(w)) /\ Abreast(NoTx, Fresh)
         /\ ~Open(s) => Abreast(s, Discarded(w))
<1>1. ~Open(NoTx) /\ ~Discarded(w).inTx
  BY NoTxShape, DiscardedShape
<1>2. Flushed(w) = Discarded(w) \/ Flushed(w).pc = "txRow"
  BY MarkedIs DEF Flushed, Written, WrapStates
<1> QED
  BY <1>1, <1>2 DEF Abreast, Fresh

(* Layer 4 is kept by every step.                                          *)
LEMMA InStepNext ==
  ASSUME NamesOnce, Shaped, Mirrored, InStep, [Next]_vars
  PROVE  InStep'
<1> SUFFICES ASSUME Undisturbed, ~UNCHANGED vars PROVE InStep'
  <2>1. Undisturbed' = Undisturbed
    BY SettingFixed DEF Undisturbed, Env
  <2>2. UNCHANGED vars => InStep'
    BY <2>1 DEF vars, InStep
  <2> QED
    BY <2>1, <2>2 DEF InStep
<1>1. used \subseteq Conns
      /\ \A c \in Conns : /\ Shape(sql[c], wrap[c]) /\ Mirror(sql[c], wrap[c])
                          /\ Abreast(sql[c], wrap[c]) /\ wrap[c] \in WrapStates
  BY DEF Shaped, Mirrored, InStep, Shape
<1>2. ASSUME NEW c \in Conns, Begin(c) PROVE InStep'
  <2>1. Move(c, SqlBegun(sql[c]), Begun(wrap[c]))
    BY <1>2, Moves
  <2>2. sql[c] = NoTx
    BY <1>1, <1>2 DEF Begin, InSqlTx, Shape, Phases, Open
  <2>3. SqlBegun(sql[c]).work = <<>> /\ Open(SqlBegun(sql[c])) /\ Begun(wrap[c]).buffer = <<>>
    BY <1>1, <2>2, NoTxShape, BegunShape DEF SqlBegun, SqlStates, NoTx, Open
  <2>4. Abreast(SqlBegun(sql[c]), Begun(wrap[c]))
    BY <2>3 DEF Abreast, Before
  <2> QED
    BY <1>2, <2>1, <2>4, InStepFrame DEF Begin, tables
<1>3. ASSUME NEW c \in Conns, Commit(c) \/ Rollback(c) \/ DmlRollsBack(c) \/ Close(c)
      PROVE  InStep'
  <2>1. \/ Move(c, NoTx, Flushed(wrap[c])) \/ Move(c, NoTx, Discarded(wrap[c]))
        \/ Move(c, NoTx, Fresh)
    BY <1>3, Moves
  <2>2. UNCHANGED setting
    BY <1>3 DEF Commit, Rollback, DmlRollsBack, Close, tables
  <2> QED
    BY <1>1, <2>1, <2>2, AbreastAtEnd, InStepFrame
<1>4. ASSUME NEW c \in Conns PROVE ~End(c) /\ ~WriteTimesOut(c)
  BY DEF End, WriteTimesOut, Undisturbed
<1>5. ASSUME NEW c \in Conns, NEW n \in Names, OpenSavepoint(c, n) PROVE InStep'
  <2>1. Move(c, SqlSaved(sql[c], n), WrapSaved(wrap[c], n)) /\ wrap[c].pc = "idle"
    BY <1>5, Moves DEF OpenSavepoint, Idle
  <2>2. /\ SqlSaved(sql[c], n).work = sql[c].work /\ Open(SqlSaved(sql[c], n))
    BY <1>1 DEF SqlSaved, Shape, SqlStates, Open
  <2>3. CASE Open(sql[c])
    <3>1. WrapSaved(wrap[c], n).buffer = wrap[c].buffer
      BY <1>1, <2>3 DEF WrapSaved, Shape, Phases, WrapStates
    <3>2. Abreast(SqlSaved(sql[c], n), WrapSaved(wrap[c], n))
      BY <1>1, <2>2, <2>3, <3>1 DEF Abreast, Before
    <3> QED
      BY <1>5, <2>1, <3>2, InStepFrame DEF OpenSavepoint, tables
  <2>4. CASE ~Open(sql[c])
    <3>1. ~wrap[c].inTx /\ sql[c].work = <<>>
      BY <1>1, <2>1, <2>4 DEF Abreast, Shape, Phases, NoTx
    <3>2. WrapSaved(wrap[c], n).buffer = <<>>
      BY <1>1, <3>1, BegunShape DEF WrapSaved, WrapStates
    <3>3. Abreast(SqlSaved(sql[c], n), WrapSaved(wrap[c], n))
      BY <2>2, <3>1, <3>2 DEF Abreast, Before
    <3> QED
      BY <1>5, <2>1, <3>3, InStepFrame DEF OpenSavepoint, tables
  <2> QED
    BY <2>3, <2>4
<1>6. ASSUME NEW c \in Conns, NEW n \in Names, ReleaseSavepoint(c, n) PROVE InStep'
  <2>1. \/ Move(c, NoTx, Flushed(Popped(wrap[c])))
        \/ Move(c, SqlReleased(sql[c], n), Popped(wrap[c]))
    BY <1>6, Moves
  <2>2. Named(sql[c].saves, n) /\ wrap[c].pc = "idle"
    BY <1>6 DEF ReleaseSavepoint, OpenNames, Named, Idle
  <2>3. Open(sql[c])
    BY <1>1, <2>2 DEF Shape, Phases, Named, NoTx
  <2>4. Before(SqlReleased(sql[c], n), Popped(wrap[c])) = 0
    BY <1>1, <2>2, <2>3, MirrorRelease DEF Abreast
  <2>5. Open(SqlReleased(sql[c], n)) /\ Popped(wrap[c]) \in WrapStates
    BY <1>1, <2>2, <2>3, ShapeRelease DEF SqlReleased, Shape, SqlStates, Open
  <2>6. UNCHANGED setting
    BY <1>6 DEF ReleaseSavepoint, tables
  <2>7. /\ Abreast(SqlReleased(sql[c], n), Popped(wrap[c]))
        /\ Abreast(NoTx, Flushed(Popped(wrap[c])))
    BY <2>4, <2>5, AbreastAtEnd DEF Abreast
  <2> QED
    BY <2>1, <2>6, <2>7, InStepFrame
<1>7. ASSUME NEW c \in Conns, NEW n \in Names, RollbackTo(c, n) PROVE InStep'
  <2>1. Move(c, SqlRolledBackTo(sql[c], n), WrapRolledBackTo(wrap[c], n))
    BY <1>7, Moves
  <2>2. Named(sql[c].saves, n)
    BY <1>7 DEF RollbackTo, OpenNames, Named
  <2>3. Open(sql[c])
    BY <1>1, <2>2 DEF Shape, Phases, Named, NoTx
  <2>4. Before(SqlRolledBackTo(sql[c], n), WrapRolledBackTo(wrap[c], n)) = 0
    BY <1>1, <2>2, <2>3, MirrorRollbackTo DEF Abreast
  <2>5. Open(SqlRolledBackTo(sql[c], n))
    BY <1>1, <2>3 DEF SqlRolledBackTo, Shape, SqlStates, Open
  <2>6. Abreast(SqlRolledBackTo(sql[c], n), WrapRolledBackTo(wrap[c], n))
    BY <2>4, <2>5 DEF Abreast
  <2> QED
    BY <1>7, <2>1, <2>6, InStepFrame DEF RollbackTo, tables
<1>8. ASSUME NEW c \in Conns, NEW safe \in BOOLEAN, NEW raises \in BOOLEAN,
             Dml(c, safe, raises)
      PROVE  InStep'
  <2> DEFINE e == [id |-> dmlCount + 1, safe |-> safe]
  <2> HIDE DEF e
  <2>1. /\ e \in Entries
        /\ \/ /\ InSqlTx(c)
              /\ Move(c, SqlChanged(sql[c], e, raises), WrapChanged(wrap[c], e, raises))
           \/ /\ ~InSqlTx(c)
              /\ wrap[c].inTx \/ Move(c, sql[c], Written(wrap[c], <<e>>))
    BY <1>8, MovesOfDml DEF e
  <2>2. InSqlTx(c) <=> Open(sql[c])
    BY DEF InSqlTx, Open
  <2>3. wrap[c].pc = "idle" /\ UNCHANGED setting
    BY <1>8 DEF Dml, Idle, tables
  <2>4. CASE Open(sql[c])
    <3>1. Before(SqlChanged(sql[c], e, raises), WrapChanged(wrap[c], e, raises)) = 0
      BY <1>1, <2>1, <2>4, MirrorDml DEF Abreast
    <3>2. Open(SqlChanged(sql[c], e, raises))
      BY <1>1, <2>4 DEF SqlChanged, Shape, SqlStates, Open
    <3> QED
      BY <2>1, <2>2, <2>3, <2>4, <3>1, <3>2, InStepFrame DEF Abreast
  <2>5. CASE ~Open(sql[c])
    <3>1. Move(c, sql[c], Written(wrap[c], <<e>>))
      BY <1>1, <2>1, <2>2, <2>3, <2>5 DEF Abreast
    <3>2. Abreast(sql[c], Written(wrap[c], <<e>>))
      BY <1>1, <2>5 DEF Abreast, Written, WrapStates
    <3> QED
      BY <2>3, <3>1, <3>2, InStepFrame
  <2> QED
    BY <2>4, <2>5
<1>9. ASSUME NEW c \in Conns, StatementFails(c) PROVE InStep'
  <2>1. \/ Move(c, [sql[c] EXCEPT !.raised = TRUE], [wrap[c] EXCEPT !.failed = TRUE])
           /\ InSqlTx(c)
        \/ ~InSqlTx(c) /\ Move(c, sql[c], Discarded(wrap[c]))
    BY <1>9, Moves
  <2>2. Open(sql[c]) =>
          Abreast([sql[c] EXCEPT !.raised = TRUE], [wrap[c] EXCEPT !.failed = TRUE])
    <3>1. Before([sql[c] EXCEPT !.raised = TRUE], [wrap[c] EXCEPT !.failed = TRUE])
            = Before(sql[c], wrap[c])
      BY <1>1, MirrorFails
    <3>2. [sql[c] EXCEPT !.raised = TRUE].tx = sql[c].tx
      BY <1>1 DEF Shape, SqlStates
    <3> QED
      BY <1>1, <3>1, <3>2 DEF Abreast, Open
  <2>3. UNCHANGED setting
    BY <1>9 DEF StatementFails, tables
  <2> QED
    BY <1>1, <2>1, <2>2, <2>3, AbreastAtEnd, InStepFrame DEF InSqlTx, Open
<1>10. ASSUME NEW c \in Conns, WriteTxRow(c) PROVE InStep'
  <2>1. Move(c, sql[c], [wrap[c] EXCEPT !.pc = "logRows", !.txId = txCount + 1])
    BY <1>10, Moves
  <2>2. ~Open(sql[c])
    BY <1>1, <1>10 DEF WriteTxRow, Shape, Phases
  <2>3. Abreast(sql[c], [wrap[c] EXCEPT !.pc = "logRows", !.txId = txCount + 1])
    BY <1>1, <2>2 DEF Abreast, WrapStates
  <2> QED
    BY <1>10, <2>1, <2>3, InStepFrame DEF WriteTxRow
<1>11. ASSUME NEW c \in Conns, WriteLogRow(c) PROVE InStep'
  <2>1. Move(c, sql[c], RowTaken(wrap[c]))
    BY <1>11, Moves
  <2>2. ~Open(sql[c]) /\ wrap[c].pc = "logRows"
    BY <1>1, <1>11 DEF WriteLogRow, Shape, Phases
  <2>3. RowTaken(wrap[c]).pc = "logRows" \/ ~RowTaken(wrap[c]).inTx
    BY <1>1, <2>2 DEF RowTaken, Discarded, WrapStates
  <2>4. Abreast(sql[c], RowTaken(wrap[c]))
    BY <2>2, <2>3 DEF Abreast
  <2> QED
    BY <1>11, <2>1, <2>4, InStepFrame DEF WriteLogRow
<1> QED
  BY <1>1, <1>2, <1>3, <1>4, <1>5, <1>6, <1>7, <1>8, <1>9, <1>10, <1>11 DEF Next, Call

(* Layers 1, 2 and this much of 4 together are inductive.                  *)
Matched == Shaped /\ (NamesOnce => Mirrored /\ InStep)

(* The layers about transactions hold at first.                            *)
LEMMA MatchedInit == Init => Matched
<1> SUFFICES ASSUME Init PROVE Matched
  OBVIOUS
<1>1. \A c \in Conns : sql[c] = NoTx /\ wrap[c] = Fresh
  BY DEF Init
<1>2. Mirrored
  BY <1>1, NoTxShape DEF Mirrored, Mirror
<1>3. InStep
  BY <1>1, NoTxShape DEF InStep, Abreast, Fresh
<1> QED
  BY <1>2, <1>3, ShapedInit DEF Matched

(* And they are kept by every step.                                        *)
LEMMA MatchedNext == Matched /\ [Next]_vars => Matched'
<1> SUFFICES ASSUME Matched, [Next]_vars PROVE Matched'
  OBVIOUS
<1>1. NamesOnce' = NamesOnce
  BY SettingFixed DEF NamesOnce, Env
<1>2. Shaped'
  BY ShapedNext DEF Matched
<1>3. NamesOnce => Mirrored' /\ InStep'
  BY MirroredNext, InStepNext DEF Matched
<1> QED
  BY <1>1, <1>2, <1>3 DEF Matched

(* Together they make the buffer SQLite's work.                            *)
LEMMA MatchedBuffer == Matched /\ NamesOnce => BufferIsWork
<1> SUFFICES ASSUME Matched, NamesOnce, Undisturbed, NEW c \in Conns, InSqlTx(c)
             PROVE  wrap[c].inTx /\ wrap[c].buffer = sql[c].work
  BY DEF BufferIsWork
<1> DEFINE s == sql[c]
           w == wrap[c]
<1>1. Shape(s, w) /\ Mirror(s, w) /\ Abreast(s, w) /\ Open(s)
  BY DEF Matched, Shaped, Mirrored, InStep, InSqlTx, Open
<1> HIDE DEF s, w
<1>2. /\ s.work \in Seq(Entries) /\ w.buffer \in Seq(Entries)
      /\ Len(s.work) \in Nat /\ Len(w.buffer) \in Nat
  BY <1>1, ShapeSequences
<1>3. Before(s, w) = 0 /\ Len(w.buffer) = Len(s.work)
  BY <1>1, <1>2 DEF Abreast, Before
<1>4. \A i \in 1..Len(w.buffer) : w.buffer[i] = s.work[i]
  <2>1. \A i \in 1..Len(s.work) : w.buffer[0 + i] = s.work[i]
    BY <1>1, <1>2, <1>3 DEF Mirror
  <2> QED
    BY <1>2, <1>3, <2>1
<1>5. w.buffer = s.work
  BY <1>2, <1>3, <1>4, SeqEqual
<1>6. w.inTx
  BY <1>1 DEF Shape, Phases
<1> QED
  BY <1>5, <1>6 DEF s, w

(* As long as a transaction is open, the wrapper holds exactly the         *)
(* statements that COMMIT would make permanent, for any nesting of         *)
(* savepoints whose open names differ.                                     *)
THEOREM BufferIsWorkHolds == Spec => [](NamesOnce => BufferIsWork)
<1>1. Init => Matched
  BY MatchedInit
<1>2. Matched /\ [Next]_vars => Matched'
  BY MatchedNext
<1>3. Matched => (NamesOnce => BufferIsWork)
  BY MatchedBuffer
<1> QED
  BY <1>1, <1>2, <1>3, PTL DEF Spec

-----------------------------------------------------------------------------
(* Layer 3.  What a new commit adds to the known statements.               *)
LEMMA HasAppended ==
  ASSUME NEW entries \in Seq(Entries), NEW e \in Entries, NEW id
  PROVE  Has(Append(entries, e), id) <=> Has(entries, id) \/ id = e.id
<1> DEFINE more == Append(entries, e)
<1>1. /\ DOMAIN more = 1..(Len(entries) + 1) /\ Len(entries) \in Nat
      /\ DOMAIN entries = 1..Len(entries)
      /\ \A i \in 1..Len(entries) : more[i] = entries[i]
      /\ more[Len(entries) + 1] = e
  OBVIOUS
<1> HIDE DEF more
<1>2. \A i \in DOMAIN more : i \in DOMAIN entries \/ i = Len(entries) + 1
  BY <1>1
<1>3. \A i \in DOMAIN entries : i \in DOMAIN more
  BY <1>1
<1>4. Len(entries) + 1 \in DOMAIN more
  BY <1>1
<1>5. Has(more, id) <=> Has(entries, id) \/ id = e.id
  BY <1>1, <1>2, <1>3, <1>4 DEF Has
<1> QED
  BY <1>5 DEF more

(* A commit r makes its statements known.                                  *)
LEMMA KnownAppended ==
  ASSUME NEW cs \in Seq(Transactions), NEW r \in Transactions, NEW id
  PROVE  /\ Known(Append(cs, r), id) <=> Known(cs, id) \/ Has(r.stmts, id)
         /\ RaisedId(Append(cs, r), id) <=> RaisedId(cs, id) \/ (r.raised /\ Has(r.stmts, id))
<1> DEFINE more == Append(cs, r)
<1>1. /\ DOMAIN more = 1..(Len(cs) + 1) /\ DOMAIN cs = 1..Len(cs) /\ Len(cs) \in Nat
      /\ \A k \in 1..Len(cs) : more[k] = cs[k]
      /\ more[Len(cs) + 1] = r
  OBVIOUS
<1> HIDE DEF more
<1>2. \A k \in DOMAIN more : k \in DOMAIN cs \/ k = Len(cs) + 1
  BY <1>1
<1>3. Len(cs) + 1 \in DOMAIN more /\ \A k \in DOMAIN cs : k \in DOMAIN more /\ more[k] = cs[k]
  BY <1>1
<1>4. Known(more, id) <=> Known(cs, id) \/ Has(r.stmts, id)
  BY <1>1, <1>2, <1>3 DEF Known
<1>5. RaisedId(more, id) <=> RaisedId(cs, id) \/ (r.raised /\ Has(r.stmts, id))
  BY <1>1, <1>2, <1>3 DEF RaisedId
<1> QED
  BY <1>4, <1>5 DEF more

(* What a failed transaction committed is committed.                       *)
LEMMA RaisedIsKnown ==
  ASSUME NEW cs, NEW id, RaisedId(cs, id)
  PROVE  Known(cs, id)
BY DEF RaisedId, Known

(* SQLite's COMMIT makes the work of c known.                              *)
LEMMA KnownByCommit ==
  ASSUME Shaped, NEW c \in Conns, SqlCommit(c), NEW id
  PROVE  /\ Known(committed', id) <=> Known(committed, id) \/ Has(sql[c].work, id)
         /\ RaisedId(committed', id) <=>
              RaisedId(committed, id) \/ (sql[c].raised /\ Has(sql[c].work, id))
<1>1. committed \in Seq(Transactions) /\ sql[c] \in SqlStates
  BY DEF Shaped, TypeOK
<1>2. CASE sql[c].work = <<>>
  <2>1. committed' = committed /\ ~Has(sql[c].work, id)
    BY <1>2 DEF SqlCommit, Has
  <2> QED
    BY <2>1
<1>3. CASE sql[c].work # <<>>
  <2> DEFINE r == [conn |-> c, stmts |-> sql[c].work, raised |-> sql[c].raised]
  <2>1. r \in Transactions /\ committed' = Append(committed, r)
    BY <1>1, <1>3 DEF SqlCommit, SqlStates, Transactions
  <2>2. r.stmts = sql[c].work /\ r.raised = sql[c].raised
    OBVIOUS
  <2> HIDE DEF r
  <2> QED
    BY <1>1, <2>1, <2>2, KnownAppended
<1> QED
  BY <1>2, <1>3

(* An autocommitted statement makes itself known.                          *)
LEMMA KnownByAutocommit ==
  ASSUME Shaped, NEW c \in Conns, NEW e \in Entries, NEW raises \in BOOLEAN,
         Autocommitted(c, e, raises), NEW id
  PROVE  /\ Known(committed', id) <=> Known(committed, id) \/ id = e.id
         /\ RaisedId(committed', id) <=> RaisedId(committed, id) \/ (raises /\ id = e.id)
<1>1. committed \in Seq(Transactions)
  BY DEF Shaped, TypeOK
<1> DEFINE r == [conn |-> c, stmts |-> <<e>>, raised |-> raises]
<1>2. r \in Transactions /\ committed' = Append(committed, r)
  BY DEF Autocommitted, Transactions
<1>3. r.raised = raises /\ (Has(r.stmts, id) <=> id = e.id)
  BY DEF Has
<1> HIDE DEF r
<1> QED
  BY <1>1, <1>2, <1>3, KnownAppended

(* Numbers are handed out once: new work and new commits are numbered by   *)
(* this step or were c's work already.                                     *)
LEMMA NumberedFrame ==
  ASSUME Shaped, Numbered, NEW c \in Conns, NEW s, NEW w, Move(c, s, w),
         dmlCount' \in Nat, dmlCount <= dmlCount',
         \A id \in Nat : Has(s.work, id) =>
           /\ Has(sql[c].work, id) \/ (dmlCount < id /\ id <= dmlCount')
           /\ ~Known(committed', id),
         \A id \in Nat : Known(committed', id) =>
           Known(committed, id) \/ Has(sql[c].work, id) \/ (dmlCount < id /\ id <= dmlCount')
  PROVE  Numbered'
<1>1. sql \in [Conns -> SqlStates] /\ dmlCount \in Nat
  BY DEF Shaped, TypeOK
<1>2. sql'[c] = s /\ \A d \in Conns : d # c => sql'[d] = sql[d]
  BY <1>1 DEF Move
<1>3. ASSUME NEW id \in Nat, Known(committed', id) PROVE id <= dmlCount'
  BY <1>1, <1>3 DEF Numbered
<1>4. ASSUME NEW a \in Conns, NEW id \in Nat, Has(sql'[a].work, id)
      PROVE  id <= dmlCount' /\ ~Known(committed', id)
  <2>1. CASE a = c
    BY <1>1, <1>2, <1>4, <2>1 DEF Numbered
  <2>2. CASE a # c
    <3>1. /\ Has(sql[a].work, id) /\ id <= dmlCount /\ ~Known(committed, id)
          /\ ~Has(sql[c].work, id)
      BY <1>2, <1>4, <2>2 DEF Numbered
    <3> QED
      BY <1>1, <3>1
  <2> QED
    BY <2>1, <2>2
<1>5. ASSUME NEW id \in Nat, NEW d \in Conns, d # c, Has(sql[d].work, id)
      PROVE  ~Has(s.work, id)
  <2>1. id <= dmlCount /\ ~Has(sql[c].work, id)
    BY <1>5 DEF Numbered
  <2> QED
    BY <1>1, <2>1
<1>6. ASSUME NEW a \in Conns, NEW id \in Nat, Has(sql'[a].work, id),
             NEW d \in Conns, Has(sql'[d].work, id)
      PROVE  a = d
  <2>1. CASE a = c \/ d = c
    BY <1>2, <1>5, <1>6, <2>1
  <2>2. CASE a # c /\ d # c
    BY <1>2, <1>6, <2>2 DEF Numbered
  <2> QED
    BY <2>1, <2>2
<1> QED
  BY <1>3, <1>4, <1>6 DEF Numbered

(* The operations that leave less of SQLite's work than there was.         *)
LEMMA LessWork ==
  ASSUME NEW s, NEW w, Shape(s, w), NEW id
  PROVE  /\ ~Has(NoTx.work, id)
         /\ Has(SqlBegun(s).work, id) => Has(s.work, id)
         /\ \A n : Has(SqlSaved(s, n).work, id) => Has(s.work, id)
         /\ \A n : Has(SqlReleased(s, n).work, id) => Has(s.work, id)
         /\ \A n : Named(s.saves, n) /\ Has(SqlRolledBackTo(s, n).work, id) => Has(s.work, id)
         /\ Has([s EXCEPT !.raised = TRUE].work, id) => Has(s.work, id)
<1>1. /\ s \in SqlStates /\ s.work \in Seq(Entries) /\ s.saves \in Seq(Savepoints)
      /\ DOMAIN s.work = 1..Len(s.work) /\ Len(s.work) \in Nat
      /\ Stacked(s.saves, Len(s.work))
  BY ShapeSequences
<1>2. ~Has(NoTx.work, id)
  BY DEF NoTx, Has
<1>3. /\ SqlBegun(s).work = s.work /\ [s EXCEPT !.raised = TRUE].work = s.work
      /\ \A n : SqlSaved(s, n).work = s.work
      /\ \A n : SqlReleased(s, n).work = s.work
  BY <1>1 DEF SqlBegun, SqlSaved, SqlReleased, SqlStates
<1>4. ASSUME NEW n, Named(s.saves, n), Has(SqlRolledBackTo(s, n).work, id)
      PROVE  Has(s.work, id)
  <2> DEFINE len == s.saves[LastNamed(s.saves, n)].at
  <2>1. len \in 0..Len(s.work)
    <3>1. LastNamed(s.saves, n) \in 1..Len(s.saves)
      BY <1>1, <1>4, LastNamedIs
    <3> QED
      BY <1>1, <3>1, StackCut
  <2>2. SqlRolledBackTo(s, n).work = SubSeq(s.work, 1, len)
    BY <1>1 DEF SqlRolledBackTo, SqlStates
  <2> HIDE DEF len
  <2>3. \A i \in 1..len : s.work[i] \in Entries /\ i \in DOMAIN s.work
    BY <1>1, <2>1
  <2>4. /\ DOMAIN SubSeq(s.work, 1, len) = 1..len
        /\ \A i \in 1..len : SubSeq(s.work, 1, len)[i] = s.work[i]
    BY <2>1, <2>3, SubSeqProperties
  <2> QED
    BY <1>4, <2>2, <2>3, <2>4 DEF Has
<1> QED
  BY <1>2, <1>3, <1>4

(* Layer 3, first part, is kept by every step.                             *)
LEMMA NumberedNext ==
  ASSUME Shaped, Numbered, [Next]_vars
  PROVE  Numbered'
<1>1. /\ used \subseteq Conns /\ dmlCount \in Nat
      /\ \A c \in Conns : Shape(sql[c], wrap[c])
  BY DEF Shaped, TypeOK
<1>2. \A id : ~Has(NoTx.work, id)
  BY DEF NoTx, Has
<1>3. \A c \in Conns, id \in Nat : Has(sql[c].work, id) => ~Known(committed, id)
  BY DEF Numbered
<1>4. ASSUME UNCHANGED vars PROVE Numbered'
  BY <1>4 DEF vars, Numbered
<1>5. ASSUME NEW c \in Conns, NEW w, Move(c, NoTx, w), SqlCommit(c) \/ UNCHANGED committed,
             UNCHANGED dmlCount
      PROVE  Numbered'
  <2>1. \A id : Known(committed', id) => Known(committed, id) \/ Has(sql[c].work, id)
    BY <1>5, KnownByCommit
  <2> QED
    BY <1>1, <1>2, <1>5, <2>1, NumberedFrame
<1>6. ASSUME NEW c \in Conns, NEW s, NEW w, Move(c, s, w), UNCHANGED <<committed, dmlCount>>,
             \A id \in Nat : Has(s.work, id) => Has(sql[c].work, id)
      PROVE  Numbered'
  BY <1>1, <1>3, <1>6, NumberedFrame
<1>7. ASSUME NEW c \in Conns, Commit(c) \/ End(c) \/ Rollback(c) \/ DmlRollsBack(c) \/ Close(c)
      PROVE  Numbered'
  <2>1. \E w : Move(c, NoTx, w)
    BY <1>7, Moves
  <2>2. (SqlCommit(c) \/ UNCHANGED committed) /\ UNCHANGED dmlCount
    BY <1>7 DEF Commit, End, Rollback, DmlRollsBack, Close, SqlRollback
  <2> QED
    BY <1>5, <2>1, <2>2
<1>8. ASSUME NEW c \in Conns, Begin(c) \/ StatementFails(c) PROVE Numbered'
  <2>1. \E w : \/ Move(c, SqlBegun(sql[c]), w) \/ Move(c, sql[c], w)
               \/ Move(c, [sql[c] EXCEPT !.raised = TRUE], w)
    BY <1>8, Moves
  <2>2. UNCHANGED <<committed, dmlCount>>
    BY <1>8 DEF Begin, StatementFails
  <2> QED
    BY <1>1, <1>6, <2>1, <2>2, LessWork
<1>9. ASSUME NEW c \in Conns, NEW n \in Names, OpenSavepoint(c, n) \/ RollbackTo(c, n)
      PROVE  Numbered'
  <2>1. \/ Move(c, SqlSaved(sql[c], n), WrapSaved(wrap[c], n))
        \/ /\ Move(c, SqlRolledBackTo(sql[c], n), WrapRolledBackTo(wrap[c], n))
           /\ Named(sql[c].saves, n)
    BY <1>9, Moves DEF RollbackTo, OpenNames, Named
  <2>2. UNCHANGED <<committed, dmlCount>>
    BY <1>9 DEF OpenSavepoint, RollbackTo
  <2> QED
    BY <1>1, <1>6, <2>1, <2>2, LessWork
<1>10. ASSUME NEW c \in Conns, NEW n \in Names, ReleaseSavepoint(c, n) PROVE Numbered'
  <2>1. \/ SqlCommit(c) /\ Move(c, NoTx, Flushed(Popped(wrap[c])))
        \/ UNCHANGED committed /\ Move(c, SqlReleased(sql[c], n), Popped(wrap[c]))
    BY <1>10, Moves
  <2>2. UNCHANGED dmlCount
    BY <1>10 DEF ReleaseSavepoint
  <2> QED
    BY <1>1, <1>5, <1>6, <2>1, <2>2, LessWork
<1>11. ASSUME NEW c \in Conns, NEW safe \in BOOLEAN, NEW raises \in BOOLEAN,
              Dml(c, safe, raises)
       PROVE  Numbered'
  <2> DEFINE e == [id |-> dmlCount + 1, safe |-> safe]
  <2>1. e.id = dmlCount + 1 /\ dmlCount' = dmlCount + 1
    BY <1>11 DEF Dml
  <2> HIDE DEF e
  <2>2. /\ e \in Entries
        /\ \/ /\ InSqlTx(c) /\ UNCHANGED committed
              /\ Move(c, SqlChanged(sql[c], e, raises), WrapChanged(wrap[c], e, raises))
           \/ /\ ~InSqlTx(c) /\ Autocommitted(c, e, raises)
              /\ \E w : Move(c, sql[c], w)
    BY <1>11, MovesOfDml DEF e
  <2>3. dmlCount' \in Nat /\ dmlCount <= dmlCount' /\ dmlCount < e.id /\ e.id <= dmlCount'
    BY <1>1, <2>1
  <2>4. ~Known(committed, e.id)
    BY <1>1, <2>1, <2>3 DEF Numbered
  <2>5. CASE InSqlTx(c)
    <3>1. SqlChanged(sql[c], e, raises).work = Append(sql[c].work, e)
          /\ sql[c].work \in Seq(Entries)
      BY <1>1, ShapeSequences DEF SqlChanged, SqlStates
    <3>2. \A id : Has(SqlChanged(sql[c], e, raises).work, id) <=>
                    Has(sql[c].work, id) \/ id = e.id
      BY <2>2, <3>1, HasAppended
    <3> QED
      BY <1>3, <2>2, <2>3, <2>4, <2>5, <3>2, NumberedFrame
  <2>6. CASE ~InSqlTx(c)
    <3>1. \A id : Known(committed', id) <=> Known(committed, id) \/ id = e.id
      BY <2>2, <2>6, KnownByAutocommit
    <3>2. \A id : ~Has(sql[c].work, id)
      BY <1>1, <1>2, <2>6 DEF Shape, Phases, InSqlTx, Open
    <3> QED
      BY <2>2, <2>3, <2>6, <3>1, <3>2, NumberedFrame
  <2> QED
    BY <2>5, <2>6
<1>12. ASSUME NEW c \in Conns, WriteTxRow(c) \/ WriteLogRow(c) \/ WriteTimesOut(c)
       PROVE  Numbered'
  <2>1. \E w : Move(c, sql[c], w)
    BY <1>12, Moves
  <2>2. UNCHANGED <<committed, dmlCount>>
    BY <1>12 DEF WriteTxRow, WriteLogRow, WriteTimesOut
  <2> QED
    BY <1>6, <2>1, <2>2
<1> QED
  BY <1>1, <1>4, <1>7, <1>8, <1>9, <1>10, <1>11, <1>12 DEF Next, Call

-----------------------------------------------------------------------------
(* Every buffered entry is committed already or among SQLite's work.       *)
LEMMA BufferedAre ==
  ASSUME NEW cs, NEW s, NEW w, Shape(s, w), Mirror(s, w), Account(cs, s, w),
         NEW i \in DOMAIN w.buffer
  PROVE  Known(cs, w.buffer[i].id) \/ (Open(s) /\ Has(s.work, w.buffer[i].id))
<1> SUFFICES ASSUME Open(s), Before(s, w) < i
             PROVE  Has(s.work, w.buffer[i].id)
  BY DEF Account
<1>1. /\ Len(s.work) \in Nat /\ Len(w.buffer) \in Nat
      /\ DOMAIN s.work = 1..Len(s.work) /\ DOMAIN w.buffer = 1..Len(w.buffer)
  BY ShapeSequences
<1>2. \A x, y, j \in Nat : x <= y /\ j \in 1..y /\ y - x < j =>
         j - (y - x) \in 1..x /\ (y - x) + (j - (y - x)) = j
  OBVIOUS
<1>3. i - Before(s, w) \in DOMAIN s.work /\ Before(s, w) + (i - Before(s, w)) = i
  <2>1. Len(s.work) <= Len(w.buffer) /\ i \in Nat /\ i \in 1..Len(w.buffer)
    BY <1>1 DEF Mirror
  <2>2. Len(w.buffer) - Len(s.work) < i
    BY DEF Before
  <2>3. /\ i - (Len(w.buffer) - Len(s.work)) \in 1..Len(s.work)
        /\ (Len(w.buffer) - Len(s.work)) + (i - (Len(w.buffer) - Len(s.work))) = i
    BY <1>1, <1>2, <2>1, <2>2, Zenon
  <2> QED
    BY <1>1, <2>3 DEF Before
<1>4. s.work[i - Before(s, w)] = w.buffer[i]
  BY <1>3 DEF Mirror
<1> QED
  BY <1>3, <1>4 DEF Has

(* A connection's account does not change when others commit: what they    *)
(* make known was neither known nor this connection's work.                *)
LEMMA AccountStays ==
  ASSUME NEW cs, NEW more, NEW s, NEW w, Shape(s, w), Mirror(s, w), Account(cs, s, w),
         \A id \in Nat : Known(cs, id) => Known(more, id),
         \A id \in Nat : RaisedId(more, id) =>
           RaisedId(cs, id) \/ (~Known(cs, id) /\ ~Has(s.work, id))
  PROVE  Account(more, s, w)
<1>1. w.buffer \in Seq(Entries) /\ w.writing \in Seq(Entries)
  BY DEF Shape, WrapStates
<1>2. /\ \A i \in DOMAIN w.buffer : w.buffer[i].id \in Nat
      /\ \A i \in DOMAIN w.writing : w.writing[i].id \in Nat
  <2>1. \A q \in Seq(Entries) : \A i \in DOMAIN q : q[i] \in Entries
    OBVIOUS
  <2> QED
    BY <1>1, <2>1 DEF Entries
<1>3. \A i \in DOMAIN w.buffer :
         RaisedId(more, w.buffer[i].id) => RaisedId(cs, w.buffer[i].id)
  BY <1>2, BufferedAre
<1>4. \A i \in DOMAIN w.writing : Permanent(more, w.writing[i])
  BY <1>2 DEF Account, Permanent
<1> QED
  BY <1>2, <1>3, <1>4 DEF Account

(* When a connection commits, what it has buffered is permanent, and what  *)
(* it goes on to write is marked if a statement of the transaction raised. *)
LEMMA AccountCommits ==
  ASSUME NEW cs, NEW more, NEW s, NEW w, Shape(s, w), Mirror(s, w), Account(cs, s, w),
         w.pc = "idle",
         \A id \in Nat : Known(more, id) <=> Known(cs, id) \/ Has(s.work, id),
         \A id \in Nat : RaisedId(more, id) <=>
           RaisedId(cs, id) \/ (s.raised /\ Has(s.work, id)),
         NEW v \in WrapStates, v.pc = "idle", v.writing = <<>>,
         v.buffer = w.buffer, v.failed = w.failed
  PROVE  Account(more, NoTx, v) /\ Account(more, NoTx, Flushed(v))
<1>1. ~Open(NoTx) /\ NoTx.raised = FALSE
  BY NoTxShape DEF NoTx
<1>2. \A i \in DOMAIN w.buffer : w.buffer[i].id \in Nat
  <2>1. \A q \in Seq(Entries) : \A i \in DOMAIN q : q[i] \in Entries
    OBVIOUS
  <2> QED
    BY <2>1 DEF Entries, Shape, WrapStates
<1>3. ASSUME NEW i \in DOMAIN v.buffer
      PROVE  /\ Known(more, v.buffer[i].id)
             /\ RaisedId(more, v.buffer[i].id) => v.failed \/ ~v.buffer[i].safe
  <2>1. i \in DOMAIN w.buffer /\ v.buffer[i] = w.buffer[i] /\ w.buffer[i].id \in Nat
    BY <1>2
  <2>2. Known(cs, w.buffer[i].id) \/ (Open(s) /\ Has(s.work, w.buffer[i].id))
    BY <2>1, BufferedAre
  <2>3. Has(s.work, w.buffer[i].id) => Open(s)
    BY DEF Shape, Phases, NoTx, Has
  <2>4. RaisedId(cs, w.buffer[i].id) => w.failed \/ ~w.buffer[i].safe
    BY <2>1 DEF Account
  <2>5. Open(s) /\ s.raised => w.failed
    BY DEF Account
  <2> QED
    BY <2>1, <2>2, <2>3, <2>4, <2>5
<1>4. Account(more, NoTx, v)
  BY <1>1, <1>3 DEF Account
<1>5. CASE v.buffer = <<>>
  <2>1. Flushed(v) = Discarded(v)
    BY <1>5 DEF Flushed
  <2>2. Discarded(v).buffer = <<>> /\ Discarded(v).writing = <<>>
    BY DiscardedShape
  <2> QED
    BY <1>1, <1>4, <2>1, <2>2 DEF Account
<1>6. CASE v.buffer # <<>>
  <2>1. Flushed(v).buffer = Marked(v) /\ Flushed(v).writing = Marked(v)
    BY <1>6 DEF Flushed, Written, WrapStates
  <2>2. /\ DOMAIN Marked(v) = DOMAIN v.buffer
        /\ \A i \in DOMAIN v.buffer :
              /\ Marked(v)[i].id = v.buffer[i].id
              /\ Marked(v)[i].safe <=> v.buffer[i].safe /\ ~v.failed
    BY MarkedIs DEF WrapStates
  <2>3. \A i \in DOMAIN Marked(v) : Permanent(more, Marked(v)[i])
    BY <1>3, <2>2 DEF Permanent
  <2> QED
    BY <1>1, <1>4, <2>1, <2>3 DEF Account, Permanent
<1> QED
  BY <1>4, <1>5, <1>6

(* The operations that empty the buffer or leave it and SQLite's work at   *)
(* the same distance.                                                      *)
LEMMA AccountEmpty ==
  ASSUME NEW cs, NEW s, NEW w, w.buffer = <<>>, w.writing = <<>>, ~s.raised
  PROVE  Account(cs, s, w)
BY DEF Account

(* ROLLBACK TO and RELEASE leave a part of the buffer.                     *)
LEMMA AccountShortens ==
  ASSUME NEW cs, NEW s, NEW w, Account(cs, s, w), NEW t, NEW v,
         Open(t) <=> Open(s), t.raised <=> s.raised, v.failed <=> w.failed,
         Before(t, v) = Before(s, w), v.writing = w.writing,
         \A i \in DOMAIN v.buffer : i \in DOMAIN w.buffer /\ v.buffer[i] = w.buffer[i]
  PROVE  Account(cs, t, v)
BY DEF Account

(* The buffer after ROLLBACK TO is the beginning of the one before.        *)
LEMMA RolledBackBuffer ==
  ASSUME NEW s, NEW w, Shape(s, w), NEW n,
         NEW i \in DOMAIN WrapRolledBackTo(w, n).buffer
  PROVE  i \in DOMAIN w.buffer /\ WrapRolledBackTo(w, n).buffer[i] = w.buffer[i]
<1>1. /\ w \in WrapStates /\ w.buffer \in Seq(Entries) /\ w.saves \in Seq(Savepoints)
      /\ Stacked(w.saves, Len(w.buffer)) /\ Len(w.buffer) \in Nat
      /\ DOMAIN w.buffer = 1..Len(w.buffer)
  BY ShapeSequences
<1>2. CASE Named(w.saves, n)
  <2> DEFINE len == w.saves[LastNamed(w.saves, n)].at
  <2>1. len \in 0..Len(w.buffer)
    <3>1. LastNamed(w.saves, n) \in 1..Len(w.saves)
      BY <1>1, <1>2, LastNamedIs
    <3> QED
      BY <1>1, <3>1, StackCut
  <2>2. WrapRolledBackTo(w, n).buffer = SubSeq(w.buffer, 1, len)
    BY <1>1, <1>2 DEF WrapRolledBackTo, WrapStates
  <2> HIDE DEF len
  <2>3. \A j \in 1..len : w.buffer[j] \in Entries /\ j \in DOMAIN w.buffer
    BY <1>1, <2>1
  <2>4. /\ DOMAIN SubSeq(w.buffer, 1, len) = 1..len
        /\ \A j \in 1..len : SubSeq(w.buffer, 1, len)[j] = w.buffer[j]
    BY <2>1, <2>3, SubSeqProperties
  <2> QED
    BY <2>2, <2>3, <2>4
<1>3. CASE ~Named(w.saves, n)
  BY <1>3 DEF WrapRolledBackTo
<1> QED
  BY <1>2, <1>3

(* The other connections and the log keep their account when only numbers  *)
(* of c become known.                                                      *)
LEMMA AccountedFrame ==
  ASSUME Shaped, Mirrored, Accounted, NEW c \in Conns, NEW s, NEW w,
         Move(c, s, w), Account(committed', s, w),
         \A id \in Nat : Known(committed, id) => Known(committed', id),
         \A id \in Nat : RaisedId(committed', id) =>
           \/ RaisedId(committed, id)
           \/ ~Known(committed, id) /\ \A d \in Conns : d # c => ~Has(sql[d].work, id),
         \A i \in DOMAIN logTable' : \/ i \in DOMAIN logTable /\ logTable'[i] = logTable[i]
                                     \/ Permanent(committed', logTable'[i])
  PROVE  Accounted'
<1>1. /\ sql \in [Conns -> SqlStates] /\ wrap \in [Conns -> WrapStates]
      /\ \A i \in DOMAIN logTable : logTable[i].id \in Nat
  <2>1. \A log \in Seq(LogRows) : \A i \in DOMAIN log : log[i] \in LogRows
    OBVIOUS
  <2> QED
    BY <2>1 DEF Shaped, TypeOK, LogRows
<1>2. \A i \in DOMAIN logTable' : Permanent(committed', logTable'[i])
  <2>1. \A i \in DOMAIN logTable : Permanent(committed', logTable[i])
    BY <1>1 DEF Accounted, Permanent
  <2> QED
    BY <2>1
<1>3. ASSUME NEW d \in Conns PROVE Account(committed', sql'[d], wrap'[d])
  <2>1. CASE d = c
    BY <1>1, <2>1 DEF Move
  <2>2. CASE d # c
    <3>1. /\ Shape(sql[d], wrap[d]) /\ Mirror(sql[d], wrap[d])
          /\ Account(committed, sql[d], wrap[d])
      BY DEF Shaped, Mirrored, Accounted
    <3>2. Account(committed', sql[d], wrap[d])
      BY <2>2, <3>1, AccountStays
    <3> QED
      BY <1>1, <2>2, <3>2 DEF Move
  <2> QED
    BY <2>1, <2>2
<1> QED
  BY <1>2, <1>3 DEF Accounted

(* The frame for a commit of c and for a step that commits nothing.        *)
LEMMA AccountedCommit ==
  ASSUME Shaped, Mirrored, Numbered, Accounted, NEW c \in Conns, NEW w, Move(c, NoTx, w),
         SqlCommit(c), Account(committed', NoTx, w), UNCHANGED logTable
  PROVE  Accounted'
<1>1. \A id \in Nat : Known(committed, id) => Known(committed', id)
  BY KnownByCommit
<1>2. ASSUME NEW id \in Nat, RaisedId(committed', id)
      PROVE  \/ RaisedId(committed, id)
             \/ ~Known(committed, id) /\ \A d \in Conns : d # c => ~Has(sql[d].work, id)
  BY <1>2, KnownByCommit DEF Numbered
<1> QED
  BY <1>1, <1>2, AccountedFrame

(* A step that commits nothing and logs nothing.                           *)
LEMMA AccountedQuiet ==
  ASSUME Shaped, Mirrored, Accounted, NEW c \in Conns, NEW s, NEW w, Move(c, s, w),
         Account(committed, s, w), UNCHANGED <<committed, logTable>>
  PROVE  Accounted'
BY AccountedFrame

(* Layer 3, second part, is kept by every step.                            *)
LEMMA AccountedNext ==
  ASSUME NamesOnce, Shaped, Mirrored, Numbered, Accounted, [Next]_vars
  PROVE  Accounted'
<1>1. /\ used \subseteq Conns /\ dmlCount \in Nat
      /\ \A c \in Conns : /\ Shape(sql[c], wrap[c]) /\ Mirror(sql[c], wrap[c])
                          /\ Account(committed, sql[c], wrap[c])
                          /\ sql[c] \in SqlStates /\ wrap[c] \in WrapStates
                          /\ wrap[c].pc = "idle" <=> wrap[c].writing = <<>>
  BY DEF Shaped, TypeOK, Mirrored, Accounted, Shape, Phases
<1>2. ~Open(NoTx) /\ NoTx.raised = FALSE
  BY NoTxShape DEF NoTx
<1>3. ASSUME NEW c \in Conns, SqlCommit(c)
      PROVE  /\ \A id : Known(committed', id) <=> Known(committed, id) \/ Has(sql[c].work, id)
             /\ \A id : RaisedId(committed', id) <=>
                          RaisedId(committed, id) \/ (sql[c].raised /\ Has(sql[c].work, id))
  BY <1>3, KnownByCommit
<1>4. ASSUME UNCHANGED vars PROVE Accounted'
  BY <1>4 DEF vars, Accounted
<1>5. ASSUME NEW c \in Conns, Begin(c) PROVE Accounted'
  <2>1. /\ Move(c, SqlBegun(sql[c]), Begun(wrap[c])) /\ UNCHANGED <<committed, logTable>>
        /\ wrap[c].pc = "idle" /\ sql[c] = NoTx
    BY <1>1, <1>5, Moves DEF Begin, tables, Idle, InSqlTx, Shape, Phases, Open
  <2>2. /\ Begun(wrap[c]).buffer = <<>> /\ Begun(wrap[c]).writing = <<>>
        /\ ~SqlBegun(sql[c]).raised
    BY <1>1, <2>1, BegunShape DEF SqlBegun, NoTx
  <2> QED
    BY <2>1, <2>2, AccountEmpty, AccountedQuiet
<1>6. ASSUME NEW c \in Conns, Commit(c) \/ End(c) PROVE Accounted'
  <2>1. Move(c, NoTx, Flushed(wrap[c])) \/ Move(c, NoTx, wrap[c])
    BY <1>6, Moves
  <2>2. SqlCommit(c) /\ wrap[c].pc = "idle" /\ wrap[c].writing = <<>> /\ UNCHANGED logTable
    BY <1>1, <1>6 DEF Commit, End, Idle, tables
  <2>3. Account(committed', NoTx, wrap[c]) /\ Account(committed', NoTx, Flushed(wrap[c]))
    BY <1>1, <1>3, <2>2, AccountCommits
  <2> QED
    BY <2>1, <2>2, <2>3, AccountedCommit
<1>7. ASSUME NEW c \in Conns, Rollback(c) \/ DmlRollsBack(c) \/ Close(c) PROVE Accounted'
  <2>1. /\ \/ Move(c, NoTx, Discarded(wrap[c])) /\ wrap[c].pc = "idle"
           \/ Move(c, NoTx, Fresh)
        /\ UNCHANGED <<committed, logTable>>
    BY <1>7, Moves DEF Rollback, DmlRollsBack, Close, SqlRollback, tables, Idle
  <2>2. Account(committed, NoTx, Fresh)
    BY <1>2, AccountEmpty DEF Fresh
  <2>3. wrap[c].pc = "idle" => Account(committed, NoTx, Discarded(wrap[c]))
    BY <1>1, <1>2, AccountEmpty, DiscardedShape
  <2> QED
    BY <2>1, <2>2, <2>3, AccountedQuiet
<1>8. ASSUME NEW c \in Conns, NEW n \in Names, OpenSavepoint(c, n) PROVE Accounted'
  <2>1. /\ Move(c, SqlSaved(sql[c], n), WrapSaved(wrap[c], n))
        /\ UNCHANGED <<committed, logTable>> /\ wrap[c].pc = "idle" /\ wrap[c].writing = <<>>
    BY <1>1, <1>8, Moves DEF OpenSavepoint, tables, Idle
  <2>2. /\ SqlSaved(sql[c], n).work = sql[c].work /\ Open(SqlSaved(sql[c], n))
        /\ SqlSaved(sql[c], n).raised = sql[c].raised
    BY <1>1 DEF SqlSaved, SqlStates, Open
  <2>3. CASE wrap[c].inTx
    <3>1. /\ WrapSaved(wrap[c], n).buffer = wrap[c].buffer
          /\ WrapSaved(wrap[c], n).writing = wrap[c].writing
          /\ WrapSaved(wrap[c], n).failed = wrap[c].failed
      BY <1>1, <2>3 DEF WrapSaved, WrapStates
    <3>2. Before(SqlSaved(sql[c], n), WrapSaved(wrap[c], n)) = Before(sql[c], wrap[c])
      BY <2>2, <3>1 DEF Before
    <3>3. ~Open(sql[c]) => ~sql[c].raised
      BY <1>1, <1>2 DEF Shape, Phases
    <3>4. Account(committed, SqlSaved(sql[c], n), WrapSaved(wrap[c], n))
      BY <1>1, <2>2, <3>1, <3>2, <3>3 DEF Account
    <3> QED
      BY <2>1, <3>4, AccountedQuiet
  <2>4. CASE ~wrap[c].inTx
    <3>1. sql[c] = NoTx
      BY <1>1, <2>4 DEF Shape, Phases
    <3>2. /\ WrapSaved(wrap[c], n).buffer = <<>> /\ WrapSaved(wrap[c], n).writing = <<>>
      BY <1>1, <2>1, <2>4, BegunShape DEF WrapSaved, WrapStates
    <3> QED
      BY <1>2, <2>1, <2>2, <3>1, <3>2, AccountEmpty, AccountedQuiet
  <2> QED
    BY <2>3, <2>4
<1>9. ASSUME NEW c \in Conns, NEW n \in Names, ReleaseSavepoint(c, n) PROVE Accounted'
  <2>1. /\ \/ SqlCommit(c) /\ Move(c, NoTx, Flushed(Popped(wrap[c])))
           \/ /\ UNCHANGED <<lock, committed>>
              /\ Move(c, SqlReleased(sql[c], n), Popped(wrap[c]))
        /\ UNCHANGED logTable
    BY <1>9, Moves DEF ReleaseSavepoint, tables
  <2>2. Named(sql[c].saves, n) /\ wrap[c].pc = "idle" /\ wrap[c].writing = <<>>
    BY <1>1, <1>9 DEF ReleaseSavepoint, OpenNames, Named, Idle
  <2>3. /\ Popped(wrap[c]) \in WrapStates /\ Popped(wrap[c]).pc = "idle"
        /\ Popped(wrap[c]).buffer = wrap[c].buffer
        /\ Popped(wrap[c]).writing = wrap[c].writing
        /\ Popped(wrap[c]).failed = wrap[c].failed
    <3>1. Shape(NoTx, Popped(wrap[c]))
      BY <1>1, <2>2, ShapeRelease
    <3> QED
      BY <1>1, <2>2, <3>1 DEF Popped, WrapStates, Shape
  <2>4. CASE SqlCommit(c) /\ Move(c, NoTx, Flushed(Popped(wrap[c])))
    <3>1. Account(committed', NoTx, Flushed(Popped(wrap[c])))
      BY <1>1, <1>3, <2>2, <2>3, <2>4, AccountCommits
    <3> QED
      BY <2>1, <2>4, <3>1, AccountedCommit
  <2>5. CASE UNCHANGED committed /\ Move(c, SqlReleased(sql[c], n), Popped(wrap[c]))
    <3>1. /\ SqlReleased(sql[c], n).work = sql[c].work /\ SqlReleased(sql[c], n).tx = sql[c].tx
          /\ SqlReleased(sql[c], n).raised = sql[c].raised
      BY <1>1 DEF SqlReleased, SqlStates
    <3>2. Before(SqlReleased(sql[c], n), Popped(wrap[c])) = Before(sql[c], wrap[c])
      BY <2>3, <3>1 DEF Before
    <3>3. Account(committed, SqlReleased(sql[c], n), Popped(wrap[c]))
      BY <1>1, <2>3, <3>1, <3>2, AccountShortens DEF Open
    <3> QED
      BY <2>1, <2>5, <3>3, AccountedQuiet
  <2> QED
    BY <2>1, <2>4, <2>5
<1>10. ASSUME NEW c \in Conns, NEW n \in Names, RollbackTo(c, n) PROVE Accounted'
  <2> DEFINE t == SqlRolledBackTo(sql[c], n)
             v == WrapRolledBackTo(wrap[c], n)
  <2>1. Move(c, t, v) /\ UNCHANGED <<committed, logTable>>
    BY <1>10, Moves DEF RollbackTo, tables
  <2>2. Named(sql[c].saves, n) /\ wrap[c].pc = "idle"
    BY <1>10 DEF RollbackTo, OpenNames, Named, Idle
  <2>3. Open(sql[c])
    BY <1>1, <2>2 DEF Shape, Phases, Named, NoTx
  <2>4. Before(t, v) = Before(sql[c], wrap[c])
    BY <1>1, <2>2, <2>3, MirrorRollbackTo
  <2>5. t.tx = sql[c].tx /\ t.raised = sql[c].raised
    BY <1>1 DEF SqlRolledBackTo, SqlStates
  <2>6. v.failed = wrap[c].failed /\ v.writing = wrap[c].writing
    BY <1>1 DEF WrapRolledBackTo, WrapStates
  <2>7. \A i \in DOMAIN v.buffer : i \in DOMAIN wrap[c].buffer /\ v.buffer[i] = wrap[c].buffer[i]
    BY <1>1, <2>2, RolledBackBuffer
  <2> HIDE DEF t, v
  <2>8. Account(committed, t, v)
    BY <1>1, <2>4, <2>5, <2>6, <2>7, AccountShortens DEF Open
  <2> QED
    BY <2>1, <2>8, AccountedQuiet
<1>11. ASSUME NEW c \in Conns, NEW safe \in BOOLEAN, NEW raises \in BOOLEAN,
              Dml(c, safe, raises)
       PROVE  Accounted'
  <2> DEFINE e == [id |-> dmlCount + 1, safe |-> safe]
             s == sql[c]
             w == wrap[c]
  <2>1. /\ e.id = dmlCount + 1 /\ e.safe = safe /\ (raises => ~safe)
        /\ UNCHANGED logTable /\ w.pc = "idle" /\ w.writing = <<>>
    BY <1>1, <1>11 DEF Dml, tables, Idle
  <2>2. /\ e \in Entries
        /\ \/ /\ Open(s) /\ UNCHANGED committed
              /\ Move(c, SqlChanged(s, e, raises), WrapChanged(w, e, raises))
           \/ /\ ~Open(s) /\ Autocommitted(c, e, raises)
              /\ \/ w.inTx /\ raises /\ Move(c, s, Discarded(w))
                 \/ w.inTx /\ ~raises /\ Move(c, s, WrapChanged(w, e, raises))
                 \/ ~w.inTx /\ Move(c, s, Written(w, <<e>>))
    BY <1>11, MovesOfDml DEF InSqlTx, Open
  <2> HIDE DEF e
  <2>3. /\ ~Known(committed, e.id) /\ ~RaisedId(committed, e.id)
        /\ \A d \in Conns : ~Has(sql[d].work, e.id)
    <3>1. e.id \in Nat /\ dmlCount < e.id
      BY <1>1, <2>1
    <3>2. ~(e.id <= dmlCount)
      BY <1>1, <3>1
    <3> QED
      BY <3>1, <3>2, RaisedIsKnown DEF Numbered
  <2>4. /\ w \in WrapStates /\ w.buffer \in Seq(Entries) /\ Len(w.buffer) \in Nat
        /\ DOMAIN w.buffer = 1..Len(w.buffer)
        /\ s \in SqlStates /\ s.work \in Seq(Entries) /\ Len(s.work) \in Nat
        /\ Shape(s, w) /\ Mirror(s, w) /\ Account(committed, s, w)
    BY <1>1, ShapeSequences
  <2>5. /\ WrapChanged(w, e, raises).buffer = Append(w.buffer, e)
        /\ WrapChanged(w, e, raises).writing = w.writing
        /\ WrapChanged(w, e, raises).failed = (w.failed \/ raises)
    BY <2>4 DEF WrapChanged, WrapStates
  <2>6. /\ DOMAIN Append(w.buffer, e) = 1..(Len(w.buffer) + 1)
        /\ \A i \in 1..Len(w.buffer) : Append(w.buffer, e)[i] = w.buffer[i]
        /\ Append(w.buffer, e)[Len(w.buffer) + 1] = e
    BY <2>2, <2>4
  <2>7. \A i \in 1..(Len(w.buffer) + 1) : i \in 1..Len(w.buffer) \/ i = Len(w.buffer) + 1
    BY <2>4
  <2> HIDE DEF s, w
  <2>8. CASE Open(s)
    <3>1. /\ SqlChanged(s, e, raises).raised = (s.raised \/ raises)
          /\ Open(SqlChanged(s, e, raises))
      BY <2>4, <2>8 DEF SqlChanged, SqlStates, Open
    <3>2. Before(SqlChanged(s, e, raises), WrapChanged(w, e, raises)) = Before(s, w)
      BY <2>2, <2>4, <2>8, MirrorDml
    <3>3. Before(s, w) < Len(w.buffer) + 1
      <4>1. \A x, y \in Nat : y - x < y + 1
        OBVIOUS
      <4> QED
        BY <2>4, <4>1 DEF Before
    <3>4. Account(committed, SqlChanged(s, e, raises), WrapChanged(w, e, raises))
      <4> SUFFICES ASSUME NEW i \in DOMAIN Append(w.buffer, e)
                   PROVE  /\ \/ Known(committed, Append(w.buffer, e)[i].id)
                             \/ Before(s, w) < i
                          /\ RaisedId(committed, Append(w.buffer, e)[i].id) =>
                               \/ w.failed \/ raises \/ ~Append(w.buffer, e)[i].safe
        BY <2>4, <2>5, <2>8, <3>1, <3>2 DEF Account
      <4>1. CASE i = Len(w.buffer) + 1
        BY <2>3, <2>6, <3>3, <4>1
      <4>2. CASE i \in 1..Len(w.buffer)
        BY <2>4, <2>6, <4>2 DEF Account
      <4> QED
        BY <2>6, <2>7, <4>1, <4>2
    <3> QED
      BY <2>1, <2>2, <2>8, <3>4, AccountedQuiet DEF s, w
  <2>9. CASE ~Open(s)
    <3>1. /\ \A id : Known(committed', id) <=> Known(committed, id) \/ id = e.id
          /\ \A id : RaisedId(committed', id) <=>
                       RaisedId(committed, id) \/ (raises /\ id = e.id)
      BY <2>2, <2>9, KnownByAutocommit
    <3>2. ~s.raised
      BY <1>2, <2>4, <2>9 DEF Shape, Phases
    <3>3. ASSUME NEW i \in DOMAIN w.buffer
          PROVE  /\ Known(committed', w.buffer[i].id)
                 /\ RaisedId(committed', w.buffer[i].id) => w.failed \/ ~w.buffer[i].safe
      BY <2>3, <2>4, <2>9, <3>1 DEF Account
    <3>4. Account(committed', s, Discarded(w))
      BY <2>1, <2>4, <3>2, AccountEmpty, DiscardedShape DEF w
    <3>5. ~raises => Account(committed', s, WrapChanged(w, e, raises))
      <4> DEFINE v == WrapChanged(w, e, raises)
      <4>5. \A i \in DOMAIN w.writing : FALSE
        BY <2>1
      <4>6. v.buffer = Append(w.buffer, e) /\ v.writing = w.writing
        BY <2>5
      <4>7. ~raises => (v.failed <=> w.failed)
        BY <2>5
      <4> HIDE DEF v
      <4> SUFFICES ASSUME ~raises, NEW i \in DOMAIN Append(w.buffer, e)
                   PROVE  /\ Known(committed', Append(w.buffer, e)[i].id)
                          /\ RaisedId(committed', Append(w.buffer, e)[i].id) =>
                               w.failed \/ ~Append(w.buffer, e)[i].safe
        BY <2>9, <4>5, <4>6, <4>7 DEF Account, v
      <4>1. CASE i = Len(w.buffer) + 1
        BY <2>3, <2>6, <3>1, <4>1
      <4>2. CASE i \in 1..Len(w.buffer)
        BY <2>4, <2>6, <3>3, <4>2
      <4> QED
        BY <2>6, <2>7, <4>1, <4>2
    <3>6. Account(committed', s, Written(w, <<e>>))
      <4>1. /\ Written(w, <<e>>).buffer = w.buffer /\ Written(w, <<e>>).writing = <<e>>
            /\ Written(w, <<e>>).failed = w.failed
        BY <2>4 DEF Written, WrapStates
      <4>2. Permanent(committed', e)
        BY <2>1, <2>3, <3>1 DEF Permanent
      <4> DEFINE v == Written(w, <<e>>)
      <4>3. \A i \in DOMAIN <<e>> : <<e>>[i] = e
        OBVIOUS
      <4>4. \A i \in DOMAIN v.writing : Permanent(committed', v.writing[i])
        BY <4>1, <4>2, <4>3
      <4>5. v.buffer = w.buffer /\ v.failed = w.failed
        BY <4>1
      <4> HIDE DEF v
      <4>6. Account(committed', s, v)
        BY <2>9, <3>3, <4>4, <4>5 DEF Account
      <4> QED
        BY <4>6 DEF v
    <3>7. \E v : Move(c, s, v) /\ Account(committed', s, v)
      BY <2>2, <2>9, <3>4, <3>5, <3>6
    <3> QED
      BY <2>1, <2>3, <3>1, <3>7, AccountedFrame DEF s, w
  <2> QED
    BY <2>8, <2>9
<1>12. ASSUME NEW c \in Conns, StatementFails(c) PROVE Accounted'
  <2>1. /\ \/ /\ InSqlTx(c)
              /\ Move(c, [sql[c] EXCEPT !.raised = TRUE], [wrap[c] EXCEPT !.failed = TRUE])
           \/ ~InSqlTx(c) /\ Move(c, sql[c], Discarded(wrap[c]))
        /\ wrap[c].pc = "idle" /\ UNCHANGED <<committed, logTable>>
    BY <1>12, Moves DEF StatementFails, Idle, tables
  <2>2. CASE InSqlTx(c)
    <3> DEFINE t == [sql[c] EXCEPT !.raised = TRUE]
               v == [wrap[c] EXCEPT !.failed = TRUE]
    <3>1. /\ t.tx = sql[c].tx /\ v.failed /\ v.buffer = wrap[c].buffer
          /\ v.writing = wrap[c].writing
      BY <1>1 DEF SqlStates, WrapStates
    <3>2. Before(t, v) = Before(sql[c], wrap[c])
      BY <1>1, MirrorFails
    <3>3. Move(c, t, v)
      BY <2>1, <2>2
    <3> HIDE DEF t, v
    <3>4. Account(committed, t, v)
      BY <1>1, <3>1, <3>2 DEF Account, Open
    <3> QED
      BY <2>1, <3>3, <3>4, AccountedQuiet
  <2>3. CASE ~InSqlTx(c)
    <3>1. ~sql[c].raised
      BY <1>1, <1>2, <2>3 DEF Shape, Phases, InSqlTx, Open
    <3>2. Account(committed, sql[c], Discarded(wrap[c]))
      BY <1>1, <2>1, <3>1, AccountEmpty, DiscardedShape
    <3> QED
      BY <2>1, <2>3, <3>2, AccountedQuiet
  <2> QED
    BY <2>2, <2>3
<1>13. ASSUME NEW c \in Conns, WriteTxRow(c) PROVE Accounted'
  <2> DEFINE v == [wrap[c] EXCEPT !.pc = "logRows", !.txId = txCount + 1]
  <2>1. Move(c, sql[c], v) /\ UNCHANGED <<committed, logTable>>
    BY <1>13, Moves DEF WriteTxRow
  <2>2. v.buffer = wrap[c].buffer /\ v.writing = wrap[c].writing /\ v.failed = wrap[c].failed
    BY <1>1 DEF WrapStates
  <2> HIDE DEF v
  <2>3. Account(committed, sql[c], v)
    BY <1>1, <2>2 DEF Account, Before
  <2> QED
    BY <2>1, <2>3, AccountedQuiet
<1>14. ASSUME NEW c \in Conns, WriteTimesOut(c) PROVE Accounted'
  <2>1. Move(c, sql[c], Unwritten(wrap[c])) /\ UNCHANGED <<committed, logTable>>
    BY <1>14, Moves DEF WriteTimesOut, tables
  <2>2. /\ Unwritten(wrap[c]).buffer = wrap[c].buffer /\ Unwritten(wrap[c]).writing = <<>>
        /\ Unwritten(wrap[c]).failed = wrap[c].failed
    BY <1>1 DEF WrapStates, Unwritten
  <2> DEFINE v == Unwritten(wrap[c])
  <2>3. v.buffer = wrap[c].buffer /\ v.writing = <<>> /\ v.failed = wrap[c].failed
    BY <2>2
  <2>4. Before(sql[c], v) = Before(sql[c], wrap[c])
    BY <2>2 DEF Before
  <2>5. Move(c, sql[c], v)
    BY <2>1
  <2> HIDE DEF v
  <2>6. \A i \in DOMAIN v.writing : FALSE
    BY <2>3
  <2>7. Account(committed, sql[c], v)
    BY <1>1, <2>3, <2>4, <2>6 DEF Account
  <2> QED
    BY <2>1, <2>5, <2>7, AccountedQuiet
<1>15. ASSUME NEW c \in Conns, WriteLogRow(c) PROVE Accounted'
  <2> DEFINE w == wrap[c]
             v == RowTaken(w)
             row == [tx |-> w.txId, id |-> Head(w.writing).id, safe |-> Head(w.writing).safe]
  <2>1. /\ Move(c, sql[c], v) /\ UNCHANGED committed /\ w.pc = "logRows"
        /\ logTable' = Append(logTable, row)
    BY <1>15, Moves DEF WriteLogRow
  <2>2. w \in WrapStates /\ w.writing \in Seq(Entries) /\ w.writing # <<>>
        /\ Account(committed, sql[c], w) /\ ~Open(sql[c]) /\ ~sql[c].raised
    BY <1>1, <1>2, <2>1 DEF WrapStates, Shape, Phases
  <2>3. /\ Head(w.writing) = w.writing[1] /\ 1 \in DOMAIN w.writing
        /\ Tail(w.writing) \in Seq(Entries)
        /\ \A i \in DOMAIN Tail(w.writing) : /\ i + 1 \in DOMAIN w.writing
                                             /\ Tail(w.writing)[i] = w.writing[i + 1]
    BY <2>2
  <2>4. Permanent(committed, row)
    <3>1. Permanent(committed, w.writing[1])
      BY <2>2, <2>3 DEF Account
    <3> QED
      BY <2>3, <3>1 DEF Permanent
  <2>5. \/ v = [w EXCEPT !.writing = Tail(w.writing)]
        \/ v.buffer = <<>> /\ v.writing = <<>>
    BY <2>2, <2>3 DEF RowTaken, Discarded, WrapStates
  <2>6. ASSUME v = [w EXCEPT !.writing = Tail(w.writing)]
        PROVE  Account(committed, sql[c], v)
    <3>1. v.buffer = w.buffer /\ v.failed = w.failed /\ v.writing = Tail(w.writing)
      BY <2>2, <2>6 DEF WrapStates
    <3>2. Before(sql[c], v) = Before(sql[c], w)
      BY <3>1 DEF Before
    <3> HIDE DEF w, v
    <3>3. \A i \in DOMAIN v.writing : Permanent(committed, v.writing[i])
      BY <2>2, <2>3, <3>1 DEF Account
    <3> QED
      BY <2>2, <3>1, <3>2, <3>3 DEF Account
  <2>7. ASSUME v.buffer = <<>>, v.writing = <<>>
        PROVE  Account(committed, sql[c], v)
    BY <2>2, <2>7, AccountEmpty
  <2> HIDE DEF w, v, row
  <2>8. Account(committed, sql[c], v)
    BY <2>5, <2>6, <2>7
  <2>9. ASSUME NEW i \in DOMAIN logTable'
        PROVE  (i \in DOMAIN logTable /\ logTable'[i] = logTable[i])
                 \/ Permanent(committed', logTable'[i])
    <3>1. logTable \in Seq(LogRows) /\ logTable' \in Seq(LogRows)
      BY ShapedNext DEF Shaped, TypeOK
    <3>2. i \in 1..Len(logTable) \/ i = Len(logTable) + 1
      BY <2>1, <3>1
    <3>3. logTable'[Len(logTable) + 1] = row
      BY <2>1, <3>1
    <3> QED
      BY <2>1, <2>4, <3>1, <3>2, <3>3
  <2> QED
    BY <2>1, <2>8, <2>9, AccountedFrame
<1> QED
  BY <1>1, <1>4, <1>5, <1>6, <1>7, <1>8, <1>9, <1>10, <1>11, <1>12, <1>13, <1>14, <1>15
     DEF Next, Call

-----------------------------------------------------------------------------
Kept == Matched /\ Numbered /\ (NamesOnce => Accounted)

(* All layers hold at first.                                               *)
LEMMA KeptInit == Init => Kept
<1> SUFFICES ASSUME Init PROVE Kept
  OBVIOUS
<1>1. \A c \in Conns : sql[c] = NoTx /\ wrap[c] = Fresh
  BY DEF Init
<1>2. /\ \A id : ~Known(committed, id)
      /\ \A c \in Conns : \A id : ~Has(sql[c].work, id)
  BY <1>1 DEF Init, Known, Has, NoTx
<1>3. Numbered
  BY <1>2 DEF Numbered
<1>4. Accounted
  BY <1>1 DEF Init, Accounted, Account, NoTx, Fresh
<1> QED
  BY <1>3, <1>4, MatchedInit DEF Kept

(* All layers are kept by every step.                                      *)
LEMMA KeptNext == Kept /\ [Next]_vars => Kept'
<1> SUFFICES ASSUME Kept, [Next]_vars PROVE Kept'
  OBVIOUS
<1>1. NamesOnce' = NamesOnce
  BY SettingFixed DEF NamesOnce, Env
<1>2. Matched' /\ Numbered'
  BY MatchedNext, NumberedNext DEF Kept, Matched
<1>3. NamesOnce => Accounted'
  BY AccountedNext DEF Kept, Matched
<1> QED
  BY <1>1, <1>2, <1>3 DEF Kept

(* What an entry of a commit and its number are.                           *)
LEMMA HasIs ==
  ASSUME NEW entries \in Seq(Entries), NEW id
  PROVE  Has(entries, id) <=> id \in {e.id : e \in ToSet(entries)}
BY DEF Has, ToSet

(* Every row of the log is a statement SQLite has committed: nothing that  *)
(* was rolled back, by ROLLBACK, by a failed statement or to a savepoint,  *)
(* is recorded, even when the process dies or a write of the log times out.*)
THEOREM LoggedIsCommittedHolds == Spec => [](NamesOnce => LoggedIsCommitted)
<1>1. Kept => (NamesOnce => LoggedIsCommitted)
  <2> SUFFICES ASSUME Kept, NamesOnce, NEW i \in DOMAIN logTable
               PROVE  \E k \in DOMAIN committed :
                        logTable[i].id \in {e.id : e \in ToSet(committed[k].stmts)}
    BY DEF LoggedIsCommitted
  <2>1. \A k \in DOMAIN committed : committed[k].stmts \in Seq(Entries)
    <3>1. \A cs \in Seq(Transactions) : \A k \in DOMAIN cs : cs[k] \in Transactions
      OBVIOUS
    <3> QED
      BY <3>1 DEF Kept, Matched, Shaped, TypeOK, Transactions
  <2>2. PICK k \in DOMAIN committed : Has(committed[k].stmts, logTable[i].id)
    BY DEF Kept, Accounted, Permanent, Known
  <2> QED
    BY <2>1, <2>2, HasIs
<1> QED
  BY <1>1, KeptInit, KeptNext, PTL DEF Spec

(* A transaction in which a statement raised is never replayed unseen:     *)
(* whatever rows of it reach the log are marked unsafe.                    *)
THEOREM RaisedIsUnsafeHolds == Spec => [](NamesOnce => RaisedIsUnsafe)
<1>1. Kept => (NamesOnce => RaisedIsUnsafe)
  <2> SUFFICES ASSUME Kept, NamesOnce, NEW k \in DOMAIN committed, committed[k].raised,
                      NEW i \in DOMAIN logTable,
                      logTable[i].id \in {e.id : e \in ToSet(committed[k].stmts)}
               PROVE  ~logTable[i].safe
    BY DEF RaisedIsUnsafe
  <2>1. committed[k].stmts \in Seq(Entries)
    <3>1. \A cs \in Seq(Transactions) : \A l \in DOMAIN cs : cs[l] \in Transactions
      OBVIOUS
    <3> QED
      BY <3>1 DEF Kept, Matched, Shaped, TypeOK, Transactions
  <2>2. RaisedId(committed, logTable[i].id)
    BY <2>1, HasIs DEF RaisedId
  <2> QED
    BY <2>2 DEF Kept, Accounted, Permanent
<1> QED
  BY <1>1, KeptInit, KeptNext, PTL DEF Spec

-----------------------------------------------------------------------------
(***************************************************************************)
(* Layer 5, the order of the rows: statements run in the order of their    *)
(* numbers, are buffered and written in it, and the entries a wrapper has  *)
(* still to write are in no record yet, unless a write timed out.          *)
(***************************************************************************)
Climbs(q, n) == /\ \A i \in DOMAIN q : q[i].id <= n
                /\ \A i, j \in DOMAIN q : i < j => q[i].id < q[j].id
Due(w) == IF w.pc = "idle" THEN w.buffer ELSE w.writing

(* The record a wrapper is writing has only earlier statements so far.     *)
Continues(w, log) ==
  w.pc = "logRows" =>
    \A i \in DOMAIN log, j \in DOMAIN w.writing :
      log[i].tx = w.txId => log[i].id < w.writing[j].id

InOrder ==
  /\ \A i \in DOMAIN logTable : logTable[i].id <= dmlCount /\ logTable[i].tx <= txCount
  /\ \A i, j \in DOMAIN logTable :
       i < j /\ logTable[i].tx = logTable[j].tx => logTable[i].id < logTable[j].id
  /\ \A c \in Conns : /\ Climbs(wrap[c].buffer, dmlCount) /\ Climbs(wrap[c].writing, dmlCount)
                      /\ Continues(wrap[c], logTable)
                      /\ wrap[c].pc = "logRows" => wrap[c].txId <= txCount
  /\ \A c, d \in Conns : /\ wrap[c].pc = "logRows" /\ wrap[d].pc = "logRows"
                         /\ wrap[c].txId = wrap[d].txId
                         => c = d

Unlogged(ws, log, c, id) == /\ ~Has(log, id)
                            /\ \A d \in Conns : Has(Due(ws[d]), id) => c = d
Once ==
  "busy" \notin Env =>
    /\ \A i, j \in DOMAIN logTable : i < j => logTable[i].id # logTable[j].id
    /\ \A c \in Conns, id \in Nat : Has(Due(wrap[c]), id) => Unlogged(wrap, logTable, c, id)

Alone(c) == \A d \in Conns \ {c} : wrap'[d] = wrap[d]

(* A step of c that writes no record: what it has to write it had to write *)
(* before, or it is new.                                                   *)
Keeps(c) ==
  /\ UNCHANGED <<logTable, txCount, setting>> /\ dmlCount' \in Nat /\ dmlCount <= dmlCount'
  /\ Alone(c) /\ wrap'[c].pc # "logRows"
  /\ Climbs(wrap'[c].buffer, dmlCount') /\ Climbs(wrap'[c].writing, dmlCount')
  /\ "busy" \notin Env => \A id \in Nat : Has(Due(wrap'[c]), id) =>
                                            Has(Due(wrap[c]), id) \/ dmlCount < id

(* The connection a step moves, and the others.                            *)
LEMMA Moved ==
  ASSUME Shaped, NEW c \in Conns, NEW s, NEW v, Move(c, s, v)
  PROVE  wrap'[c] = v /\ Alone(c)
BY DEF Shaped, TypeOK, Move, Alone

(* A buffer cut short, and one with a new entry, climb.                    *)
LEMMA ClimbsCut ==
  ASSUME NEW q \in Seq(Entries), NEW n \in Nat, Climbs(q, n), NEW m \in 0..Len(q)
  PROVE  /\ Climbs(SubSeq(q, 1, m), n) /\ Climbs(<<>>, n)
         /\ \A id : Has(SubSeq(q, 1, m), id) => Has(q, id)
<1>1. /\ DOMAIN SubSeq(q, 1, m) = 1..m /\ DOMAIN q = 1..Len(q) /\ Len(q) \in Nat
      /\ \A i \in 1..m : SubSeq(q, 1, m)[i] = q[i] /\ i \in DOMAIN q
  OBVIOUS
<1> QED
  BY <1>1 DEF Climbs, Has

(* The same for a new entry.                                               *)
LEMMA ClimbsOn ==
  ASSUME NEW q \in Seq(Entries), NEW n \in Nat, Climbs(q, n), NEW e \in Entries,
         e.id = n + 1
  PROVE  /\ Climbs(q, n + 1) /\ Climbs(Append(q, e), n + 1) /\ Climbs(<<e>>, n + 1)
         /\ \A id : Has(Append(q, e), id) => Has(q, id) \/ id = n + 1
         /\ \A id : Has(<<e>>, id) => id = n + 1
<1> DEFINE p == Append(q, e)
<1>1. /\ DOMAIN p = 1..(Len(q) + 1) /\ DOMAIN q = 1..Len(q) /\ Len(q) \in Nat
      /\ p[Len(q) + 1] = e /\ \A i \in 1..Len(q) : p[i] = q[i] /\ q[i] \in Entries
  OBVIOUS
<1>2. /\ DOMAIN <<e>> = {1} /\ <<e>>[1] = e
  OBVIOUS
<1> HIDE DEF p
<1>3. \A i \in 1..Len(q) : q[i].id <= n + 1 /\ q[i].id < n + 1
  BY <1>1 DEF Climbs, Entries
<1>4. Climbs(q, n + 1)
  BY <1>1, <1>3 DEF Climbs
<1>5. n + 1 <= n + 1 /\ \A i, j \in {1} : ~(i < j)
  OBVIOUS
<1>6. Climbs(<<e>>, n + 1)
  BY <1>2, <1>5 DEF Climbs
<1>7. Climbs(p, n + 1)
  <2>1. \A i \in DOMAIN p : i \in 1..Len(q) \/ (i = Len(q) + 1 /\ p[i].id = n + 1)
    BY <1>1
  <2>2. \A i \in DOMAIN p : p[i].id <= n + 1
    BY <1>1, <1>3, <1>5, <2>1
  <2>3. ASSUME NEW i \in DOMAIN p, NEW j \in DOMAIN p, i < j PROVE p[i].id < p[j].id
    <3>1. i \in 1..Len(q)
      BY <1>1, <2>3
    <3>2. CASE j \in 1..Len(q)
      BY <1>1, <2>3, <3>1, <3>2 DEF Climbs
    <3>3. CASE j = Len(q) + 1
      BY <1>1, <1>3, <3>1, <3>3
    <3> QED
      BY <2>1, <3>2, <3>3
  <2> QED
    BY <2>2, <2>3 DEF Climbs
<1>8. \A id : Has(p, id) => Has(q, id) \/ id = n + 1
  BY <1>1 DEF Has
<1>9. \A id : Has(<<e>>, id) => id = n + 1
  BY <1>2 DEF Has
<1> QED
  BY <1>4, <1>7, <1>8, <1>9, <1>6 DEF p

(* What is flushed are the buffer's statements.                            *)
LEMMA FlushedClimbs ==
  ASSUME NEW v \in WrapStates, v.pc = "idle", v.writing = <<>>, NEW n \in Nat,
         Climbs(v.buffer, n)
  PROVE  /\ Flushed(v).pc # "logRows"
         /\ Climbs(Flushed(v).buffer, n) /\ Climbs(Flushed(v).writing, n)
         /\ \A id : Has(Due(Flushed(v)), id) => Has(v.buffer, id)
<1>1. v.buffer \in Seq(Entries) /\ \A id : ~Has(<<>>, id)
  BY DEF WrapStates, Has
<1>2. CASE v.buffer = <<>>
  <2>1. /\ Flushed(v) = Discarded(v) /\ Flushed(v).pc = "idle"
        /\ Flushed(v).buffer = <<>> /\ Flushed(v).writing = <<>>
    BY <1>2 DEF Flushed, Discarded, WrapStates
  <2> QED
    BY <1>1, <1>2, <2>1 DEF Due
<1>3. CASE v.buffer # <<>>
  <2> DEFINE q == Marked(v)
  <2>1. /\ Flushed(v).pc = "txRow" /\ Flushed(v).buffer = q /\ Flushed(v).writing = q
    BY <1>3 DEF Flushed, Written, WrapStates
  <2>2. /\ DOMAIN q = DOMAIN v.buffer
        /\ \A i \in DOMAIN q : q[i].id = v.buffer[i].id
    BY <1>1, MarkedIs
  <2> HIDE DEF q
  <2>3. Climbs(q, n) /\ \A id : Has(q, id) => Has(v.buffer, id)
    BY <2>2 DEF Climbs, Has
  <2> QED
    BY <2>1, <2>3 DEF Due
<1> QED
  BY <1>2, <1>3

(* A step that writes no record keeps the order and repeats nothing.       *)
LEMMA OnceKept ==
  ASSUME Shaped, InOrder, Once, NEW c \in Conns, Keeps(c)
  PROVE  InOrder' /\ Once'
<1>1. /\ dmlCount \in Nat /\ logTable \in Seq(LogRows) /\ Env' = Env
      /\ \A i \in DOMAIN logTable : logTable[i].id \in Nat
      /\ \A d \in Conns : wrap[d] \in WrapStates
  <2>1. \A q \in Seq(LogRows) : \A i \in DOMAIN q : q[i] \in LogRows
    OBVIOUS
  <2> QED
    BY <2>1 DEF Shaped, TypeOK, Keeps, Env, LogRows
<1>2. \A d \in Conns \ {c} : wrap'[d] = wrap[d]
  BY DEF Keeps, Alone
<1>3. /\ \A i \in DOMAIN logTable : logTable[i].id <= dmlCount' /\ logTable[i].tx <= txCount
      /\ dmlCount' \in Nat /\ dmlCount <= dmlCount'
  BY <1>1 DEF InOrder, Keeps
<1>4. ASSUME NEW q \in Seq(Entries), Climbs(q, dmlCount) PROVE Climbs(q, dmlCount')
  <2>1. \A i \in DOMAIN q : q[i] \in Entries
    OBVIOUS
  <2> QED
    BY <1>1, <1>3, <1>4, <2>1 DEF Climbs, Entries
<1>5. ASSUME NEW d \in Conns
      PROVE  /\ Climbs(wrap'[d].buffer, dmlCount') /\ Climbs(wrap'[d].writing, dmlCount')
             /\ Continues(wrap'[d], logTable)
             /\ wrap'[d].pc = "logRows" => wrap'[d].txId <= txCount
  <2>1. CASE d = c
    BY <2>1 DEF Keeps, Continues
  <2>2. CASE d # c
    <3>1. wrap'[d] = wrap[d] /\ wrap[d].buffer \in Seq(Entries) /\ wrap[d].writing \in Seq(Entries)
      BY <1>1, <1>2, <2>2 DEF WrapStates
    <3> QED
      BY <1>4, <3>1 DEF InOrder
  <2> QED
    BY <2>1, <2>2
<1>6. InOrder'
  <2>1. \A d, e \in Conns : wrap'[d].pc = "logRows" /\ wrap'[e].pc = "logRows" =>
                             wrap'[d] = wrap[d] /\ wrap'[e] = wrap[e]
    BY <1>2 DEF Keeps
  <2>2. UNCHANGED <<logTable, txCount>>
    BY DEF Keeps
  <2> QED
    BY <1>3, <1>5, <2>1, <2>2 DEF InOrder
<1>7. Once'
  <2> SUFFICES ASSUME "busy" \notin Env
               PROVE  /\ \A i, j \in DOMAIN logTable : i < j => logTable[i].id # logTable[j].id
                      /\ \A d \in Conns, id \in Nat :
                           Has(Due(wrap'[d]), id) => Unlogged(wrap', logTable, d, id)
    BY <1>1 DEF Once, Keeps
  <2>1. \A i, j \in DOMAIN logTable : i < j => logTable[i].id # logTable[j].id
    BY DEF Once
  <2>2. \A id \in Nat : Has(logTable, id) => id <= dmlCount
    BY DEF Has, InOrder
  <2>3. \A d \in Conns, id \in Nat : Has(Due(wrap[d]), id) => id <= dmlCount
    BY DEF Has, InOrder, Due, Climbs
  <2>4. \A d \in Conns, id \in Nat :
          Has(Due(wrap'[d]), id) => Has(Due(wrap[d]), id) \/ (d = c /\ ~(id <= dmlCount))
    BY <1>1, <1>2 DEF Keeps
  <2>5. ASSUME NEW d \in Conns, NEW id \in Nat, Has(Due(wrap'[d]), id)
        PROVE  Unlogged(wrap', logTable, d, id)
    <3>1. CASE id <= dmlCount
      BY <2>4, <2>5, <3>1 DEF Unlogged, Once
    <3>2. CASE ~(id <= dmlCount)
      BY <2>2, <2>3, <2>4, <2>5, <3>2 DEF Unlogged
    <3> QED
      BY <3>1, <3>2
  <2> QED
    BY <2>1, <2>5
<1> QED
  BY <1>6, <1>7

(* Opening a record: no row has its number yet.                            *)
LEMMA OnceOpens ==
  ASSUME Shaped, InOrder, Once, NEW c \in Conns, WriteTxRow(c)
  PROVE  InOrder' /\ Once'
<1> DEFINE v == [wrap[c] EXCEPT !.pc = "logRows", !.txId = txCount + 1]
<1>1. /\ txCount \in Nat /\ wrap[c] \in WrapStates /\ logTable \in Seq(LogRows)
      /\ \A i \in DOMAIN logTable : logTable[i].tx \in Nat
      /\ \A d \in Conns : wrap[d] \in WrapStates
  <2>1. \A q \in Seq(LogRows) : \A i \in DOMAIN q : q[i] \in LogRows
    OBVIOUS
  <2> QED
    BY <2>1 DEF Shaped, TypeOK, LogRows
<1>2. wrap'[c] = v /\ Alone(c)
  BY Moves, Moved
<1>3. /\ UNCHANGED <<logTable, dmlCount, setting>> /\ txCount' = txCount + 1
      /\ wrap[c].pc = "txRow" /\ Env' = Env
  BY DEF WriteTxRow, Env
<1>4. /\ v.pc = "logRows" /\ v.txId = txCount + 1 /\ v.buffer = wrap[c].buffer
      /\ v.writing = wrap[c].writing /\ Due(v) = Due(wrap[c])
  BY <1>1, <1>3 DEF WrapStates, Due
<1> HIDE DEF v
<1>5. \A d \in Conns : d # c => wrap'[d] = wrap[d]
  BY <1>2 DEF Alone
<1>6. \A i \in DOMAIN logTable : logTable[i].tx # txCount + 1 /\ logTable[i].tx <= txCount + 1
  BY <1>1 DEF InOrder
<1>7. \A d \in Conns : wrap[d].pc = "logRows" => wrap[d].txId # txCount + 1
                                                 /\ wrap[d].txId <= txCount + 1
  BY <1>1 DEF InOrder, WrapStates
<1>8. \A d \in Conns :
        /\ Climbs(wrap'[d].buffer, dmlCount) /\ Climbs(wrap'[d].writing, dmlCount)
        /\ Continues(wrap'[d], logTable)
        /\ wrap'[d].pc = "logRows" => wrap'[d].txId <= txCount + 1
  <2>1. /\ Climbs(v.buffer, dmlCount) /\ Climbs(v.writing, dmlCount)
        /\ Continues(v, logTable) /\ v.txId <= txCount + 1
    BY <1>1, <1>4, <1>6 DEF InOrder, Continues
  <2> QED
    BY <1>2, <1>5, <1>7, <2>1 DEF InOrder
<1>9. \A d, e \in Conns : /\ wrap'[d].pc = "logRows" /\ wrap'[e].pc = "logRows"
                          /\ wrap'[d].txId = wrap'[e].txId
                          => d = e
  <2>1. \A d \in Conns : wrap'[d].pc = "logRows" /\ d # c => wrap'[d].txId # txCount + 1
    BY <1>5, <1>7
  <2> QED
    BY <1>2, <1>4, <1>5, <2>1 DEF InOrder
<1>10. InOrder'
  BY <1>3, <1>6, <1>8, <1>9 DEF InOrder
<1>11. \A d \in Conns : Due(wrap'[d]) = Due(wrap[d])
  BY <1>2, <1>4, <1>5
<1>12. Once'
  BY <1>3, <1>11 DEF Once, Unlogged
<1> QED
  BY <1>10, <1>12

(* Writing a row: its statement is the next one of its record, and waited  *)
(* nowhere else.                                                           *)
LEMMA OnceWritten ==
  ASSUME Shaped, InOrder, Once, NEW c \in Conns, WriteLogRow(c)
  PROVE  InOrder' /\ Once'
<1> DEFINE w == wrap[c]
           v == RowTaken(w)
           q == w.writing
           row == [tx |-> w.txId, id |-> Head(q).id, safe |-> Head(q).safe]
           n == Len(logTable)
<1>1. /\ w \in WrapStates /\ logTable \in Seq(LogRows) /\ Phases(sql[c], w)
      /\ \A i \in DOMAIN logTable : logTable[i].id \in Nat
  <2>1. \A l \in Seq(LogRows) : \A i \in DOMAIN l : l[i] \in LogRows
    OBVIOUS
  <2> QED
    BY <2>1 DEF Shaped, TypeOK, Shape, LogRows
<1>2. /\ w.pc = "logRows" /\ logTable' = Append(logTable, row)
      /\ UNCHANGED <<txCount, dmlCount, setting>> /\ Env' = Env
  BY DEF WriteLogRow, Env
<1>3. wrap'[c] = v /\ \A d \in Conns : d # c => wrap'[d] = wrap[d]
  BY Moves, Moved DEF Alone
<1>4. /\ q \in Seq(Entries) /\ q # <<>> /\ 1 \in DOMAIN q /\ Head(q) = q[1] /\ q[1].id \in Nat
      /\ \A j \in DOMAIN Tail(q) : j + 1 \in DOMAIN q /\ Tail(q)[j] = q[j + 1] /\ 1 < j + 1
      /\ \A j \in DOMAIN Tail(q) : j \in Nat
      /\ \A i, j \in DOMAIN Tail(q) : i < j => i + 1 < j + 1
      /\ \A i \in DOMAIN q : q[i].id \in Nat
  <2>1. q \in Seq(Entries) /\ q # <<>>
    BY <1>1, <1>2 DEF WrapStates, Phases
  <2> HIDE DEF q
  <2>2. 1 \in DOMAIN q /\ Head(q) = q[1] /\ \A i \in DOMAIN q : q[i] \in Entries
    BY <2>1
  <2>3. /\ \A j \in DOMAIN Tail(q) : j + 1 \in DOMAIN q /\ Tail(q)[j] = q[j + 1] /\ 1 < j + 1
        /\ \A j \in DOMAIN Tail(q) : j \in Nat
        /\ \A i, j \in DOMAIN Tail(q) : i < j => i + 1 < j + 1
    BY <2>1
  <2> QED
    BY <2>1, <2>2, <2>3 DEF Entries
<1>5. /\ row.tx = w.txId /\ row.id = q[1].id
  BY <1>4
<1>6. /\ v.writing = Tail(q)
      /\ \/ v.pc = "logRows" /\ v.txId = w.txId /\ v.buffer = w.buffer
         \/ v.pc = "idle" /\ v.buffer = <<>>
  <2>1. CASE Tail(q) # <<>>
    BY <1>1, <1>2, <2>1 DEF RowTaken, WrapStates
  <2>2. CASE Tail(q) = <<>>
    BY <1>1, <2>2 DEF RowTaken, Discarded, WrapStates
  <2> QED
    BY <2>1, <2>2
<1>7. /\ DOMAIN logTable = 1..n /\ n \in Nat /\ DOMAIN logTable' = 1..(n + 1)
      /\ logTable'[n + 1] = row /\ \A i \in 1..n : logTable'[i] = logTable[i]
  BY <1>1, <1>2
<1> HIDE DEF v, q, row, n
<1>8. Climbs(q, dmlCount) /\ Climbs(w.buffer, dmlCount) /\ Continues(w, logTable)
  BY DEF InOrder, q
<1>9. /\ Climbs(Tail(q), dmlCount) /\ Climbs(<<>>, dmlCount)
      /\ \A j \in DOMAIN Tail(q) : row.id < Tail(q)[j].id
  BY <1>4, <1>5, <1>8 DEF Climbs
<1>10. \A i \in 1..n : logTable[i].tx = w.txId =>
          logTable[i].id < row.id /\ \A j \in DOMAIN Tail(q) : logTable[i].id < Tail(q)[j].id
  BY <1>2, <1>4, <1>5, <1>7, <1>8 DEF Continues, q
<1>11. Climbs(v.buffer, dmlCount) /\ Climbs(v.writing, dmlCount) /\ Continues(v, logTable')
  BY <1>5, <1>6, <1>7, <1>8, <1>9, <1>10 DEF Continues
<1>12. \A d \in Conns : /\ wrap'[d].pc = "logRows" =>
                             wrap[d].pc = "logRows" /\ wrap'[d].txId = wrap[d].txId
                        /\ d # c => Continues(wrap'[d], logTable')
  <2>1. \A d \in Conns : d # c /\ wrap[d].pc = "logRows" => wrap[d].txId # row.tx
    BY <1>2, <1>5 DEF InOrder
  <2>2. \A d \in Conns : d # c => Continues(wrap[d], logTable')
    BY <1>7, <2>1 DEF InOrder, Continues
  <2> QED
    BY <1>2, <1>3, <1>6, <2>2
<1>13. InOrder'
  <2>1. \A i \in DOMAIN logTable' : logTable'[i].id <= dmlCount /\ logTable'[i].tx <= txCount
    BY <1>2, <1>4, <1>5, <1>7, <1>8 DEF InOrder, Climbs
  <2>2. \A i, j \in DOMAIN logTable' :
          i < j /\ logTable'[i].tx = logTable'[j].tx => logTable'[i].id < logTable'[j].id
    <3>1. \A i, j \in 1..(n + 1) : i < j => i \in 1..n /\ (j \in 1..n \/ j = n + 1)
      BY <1>7
    <3> QED
      BY <1>5, <1>7, <1>10, <3>1 DEF InOrder
  <2>3. \A d \in Conns : Climbs(wrap'[d].buffer, dmlCount) /\ Climbs(wrap'[d].writing, dmlCount)
    BY <1>3, <1>11 DEF InOrder
  <2>4. \A d \in Conns : /\ Continues(wrap'[d], logTable')
                         /\ wrap'[d].pc = "logRows" => wrap'[d].txId <= txCount
    BY <1>3, <1>11, <1>12 DEF InOrder
  <2>5. \A d, e \in Conns : /\ wrap'[d].pc = "logRows" /\ wrap'[e].pc = "logRows"
                            /\ wrap'[d].txId = wrap'[e].txId
                            => d = e
    BY <1>12 DEF InOrder
  <2> QED
    BY <1>2, <2>1, <2>2, <2>3, <2>4, <2>5 DEF InOrder
<1>14. Once'
  <2> SUFFICES ASSUME "busy" \notin Env
               PROVE  /\ \A i, j \in DOMAIN logTable' : i < j => logTable'[i].id # logTable'[j].id
                      /\ \A d \in Conns, id \in Nat :
                           Has(Due(wrap'[d]), id) => Unlogged(wrap', logTable', d, id)
    BY <1>2 DEF Once
  <2>1. Due(w) = q /\ Has(Due(w), row.id) /\ row.id \in Nat
    BY <1>2, <1>4, <1>5 DEF Due, Has, q
  <2>2. ~Has(logTable, row.id) /\ \A d \in Conns : Has(Due(wrap[d]), row.id) => c = d
    BY <2>1 DEF Once, Unlogged
  <2>3. \A id : Has(logTable', id) => Has(logTable, id) \/ id = row.id
    BY <1>7 DEF Has
  <2>4. \A i, j \in DOMAIN logTable' : i < j => logTable'[i].id # logTable'[j].id
    <3>1. \A i, j \in 1..(n + 1) : i < j => i \in 1..n /\ (j \in 1..n \/ j = n + 1)
      BY <1>7
    <3> QED
      BY <1>7, <2>2, <3>1 DEF Once, Has
  <2>5. \A id \in Nat : Has(Due(v), id) => Has(Due(w), id) /\ id # row.id
    <3>1. \A id \in Nat : Has(Due(v), id) => Has(Tail(q), id)
      BY <1>6 DEF Due, Has
    <3>2. \A id \in Nat : Has(Tail(q), id) => Has(q, id) /\ id # row.id
      <4>1. ASSUME NEW j \in DOMAIN Tail(q) PROVE Tail(q)[j].id # row.id
        <5>1. row.id < Tail(q)[j].id /\ Tail(q)[j].id \in Nat /\ row.id \in Nat
          BY <1>4, <1>9, <2>1
        <5> QED
          BY <5>1
      <4> QED
        BY <1>4, <4>1 DEF Has
    <3> QED
      BY <2>1, <3>1, <3>2
  <2>6. \A d \in Conns, id \in Nat :
          Has(Due(wrap'[d]), id) => Has(Due(wrap[d]), id) /\ id # row.id
    BY <1>3, <2>2, <2>5
  <2>7. \A d \in Conns, id \in Nat :
          Has(Due(wrap'[d]), id) => Unlogged(wrap', logTable', d, id)
    BY <2>3, <2>6 DEF Once, Unlogged
  <2> QED
    BY <2>4, <2>7
<1> QED
  BY <1>13, <1>14

(* Every step keeps the order and repeats nothing.                         *)
LEMMA OnceNext == Shaped /\ InOrder /\ Once /\ [Next]_vars => InOrder' /\ Once'
<1> SUFFICES ASSUME Shaped, InOrder, Once, [Next]_vars PROVE InOrder' /\ Once'
  OBVIOUS
<1>1. CASE UNCHANGED vars
  BY <1>1 DEF vars, tables, InOrder, Once, Env, Unlogged, Climbs, Continues
<1>2. CASE Next
  <2>1. PICK c \in Conns : Call(c) \/ WriteTxRow(c) \/ WriteLogRow(c) \/ WriteTimesOut(c)
    BY <1>2 DEF Next, Shaped
  <2> DEFINE w == wrap[c]
             Same == UNCHANGED <<logTable, txCount, setting, dmlCount>>
  <2>2. /\ w \in WrapStates /\ Shape(sql[c], w) /\ dmlCount \in Nat
        /\ Climbs(w.buffer, dmlCount) /\ w.buffer \in Seq(Entries)
        /\ Climbs(<<>>, dmlCount) /\ \A id : ~Has(<<>>, id)
    BY DEF Shaped, TypeOK, InOrder, WrapStates, Climbs, Has
  <2>3. ASSUME NEW s, NEW v, Move(c, s, v), Same, v.pc # "logRows",
               Climbs(v.buffer, dmlCount), Climbs(v.writing, dmlCount),
               "busy" \notin Env => \A id \in Nat : Has(Due(v), id) => Has(Due(w), id)
        PROVE  Keeps(c)
    BY <2>2, <2>3, Moved DEF Keeps
  <2>4. ASSUME NEW s, NEW v, Move(c, s, v), Same, v.pc = "idle", v.writing = <<>>,
               w.pc = "idle", NEW m \in 0..Len(w.buffer), v.buffer = SubSeq(w.buffer, 1, m)
        PROVE  Keeps(c)
    BY <2>2, <2>3, <2>4, ClimbsCut DEF Due
  <2>5. ASSUME NEW s, NEW v, Move(c, s, v), Same, v.pc = "idle", v.writing = <<>>,
               v.buffer = <<>>
        PROVE  Keeps(c)
    BY <2>2, <2>3, <2>5 DEF Due
  <2>6. w.pc = "idle" => /\ w.writing = <<>> /\ w.buffer = SubSeq(w.buffer, 1, Len(w.buffer))
                         /\ Len(w.buffer) \in 0..Len(w.buffer)
    BY <2>2 DEF Shape, Phases
  <2>7. ASSUME NEW s, NEW v, Move(c, s, Flushed(v)), Same, w.pc = "idle",
               v \in WrapStates, v.pc = "idle", v.writing = <<>>, v.buffer = w.buffer
        PROVE  Keeps(c)
    BY <2>2, <2>3, <2>7, FlushedClimbs DEF Due
  <2>8. CASE Begin(c)
    <3>1. /\ Move(c, SqlBegun(sql[c]), Begun(w)) /\ Same /\ w.pc = "idle"
          /\ Begun(w).pc = "idle" /\ Begun(w).writing = <<>> /\ Begun(w).buffer = <<>>
      BY <2>2, <2>6, <2>8, Moves DEF Begin, Idle, tables, Begun, WrapStates
    <3> QED
      BY <2>5, <3>1, OnceKept
  <2>9. CASE Commit(c)
    <3>1. Move(c, NoTx, Flushed(w)) /\ Same /\ w.pc = "idle"
      BY <2>9, Moves DEF Commit, Idle, tables
    <3> QED
      BY <2>2, <2>6, <2>7, <3>1, OnceKept
  <2>10. CASE End(c)
    <3>1. Move(c, NoTx, w) /\ Same /\ w.pc = "idle"
      BY <2>10, Moves DEF End, Idle, tables
    <3> QED
      BY <2>4, <2>6, <3>1, OnceKept
  <2>11. CASE Rollback(c) \/ DmlRollsBack(c)
    <3>1. /\ Move(c, NoTx, Discarded(w)) /\ Same /\ w.pc = "idle"
      BY <2>11, Moves DEF Rollback, DmlRollsBack, Idle, tables
    <3>2. Discarded(w).pc = "idle" /\ Discarded(w).writing = <<>> /\ Discarded(w).buffer = <<>>
      BY <2>2, <2>6, <3>1 DEF Discarded, WrapStates
    <3> QED
      BY <2>5, <3>1, <3>2, OnceKept
  <2>12. ASSUME NEW n \in Names, OpenSavepoint(c, n) PROVE Keeps(c)
    <3>1. Move(c, SqlSaved(sql[c], n), WrapSaved(w, n)) /\ Same /\ w.pc = "idle"
      BY <2>12, Moves DEF OpenSavepoint, Idle, tables
    <3>2. CASE w.inTx
      <4>1. /\ WrapSaved(w, n).pc = "idle" /\ WrapSaved(w, n).writing = <<>>
            /\ WrapSaved(w, n).buffer = w.buffer
        BY <2>2, <2>6, <3>1, <3>2 DEF WrapSaved, WrapStates
      <4> QED
        BY <2>4, <2>6, <3>1, <4>1
    <3>3. CASE ~w.inTx
      <4>1. /\ Begun(w) \in WrapStates /\ Begun(w).pc = "idle" /\ Begun(w).writing = <<>>
            /\ Begun(w).buffer = <<>>
        BY <2>2, <2>6, <3>1, BegunShape DEF Begun, WrapStates
      <4>2. /\ WrapSaved(w, n).pc = "idle" /\ WrapSaved(w, n).writing = <<>>
            /\ WrapSaved(w, n).buffer = <<>>
        BY <3>3, <4>1 DEF WrapSaved, WrapStates
      <4> QED
        BY <2>5, <3>1, <4>2
    <3> QED
      BY <3>2, <3>3
  <2>13. ASSUME NEW n \in Names, ReleaseSavepoint(c, n) PROVE Keeps(c)
    <3>1. /\ \/ Move(c, NoTx, Flushed(Popped(w)))
             \/ Move(c, SqlReleased(sql[c], n), Popped(w))
          /\ Same /\ w.pc = "idle"
      BY <2>13, Moves DEF ReleaseSavepoint, Idle, tables
    <3>2. /\ Popped(w).pc = "idle" /\ Popped(w).writing = <<>> /\ Popped(w).buffer = w.buffer
      BY <2>2, <2>6, <3>1 DEF Popped, WrapStates
    <3>3. Popped(w) \in WrapStates
      <4>1. Named(sql[c].saves, n) /\ Open(sql[c])
        BY <2>2, <2>13 DEF ReleaseSavepoint, OpenNames, Named, Shape, Phases, NoTx
      <4>2. Shape(NoTx, Popped(w))
        BY <2>2, <3>1, <4>1, ShapeRelease
      <4> QED
        BY <4>2 DEF Shape
    <3> QED
      BY <2>4, <2>6, <2>7, <3>1, <3>2, <3>3
  <2>14. ASSUME NEW n \in Names, RollbackTo(c, n) PROVE Keeps(c)
    <3>1. /\ Move(c, SqlRolledBackTo(sql[c], n), WrapRolledBackTo(w, n)) /\ Same
          /\ w.pc = "idle"
      BY <2>14, Moves DEF RollbackTo, Idle, tables
    <3>2. CASE Named(w.saves, n)
      <4> DEFINE m == w.saves[LastNamed(w.saves, n)].at
      <4>1. m \in 0..Len(w.buffer)
        <5>1. w.saves \in Seq(Savepoints) /\ Stacked(w.saves, Len(w.buffer))
          BY <2>2 DEF Shape, WrapStates
        <5>2. LastNamed(w.saves, n) \in DOMAIN w.saves
          BY <3>2, <5>1, LastNamedIs
        <5>3. w.saves[LastNamed(w.saves, n)] \in Savepoints
          BY <5>1, <5>2
        <5>4. Len(w.buffer) \in Nat
          BY <2>2
        <5> QED
          BY <5>1, <5>2, <5>3, <5>4 DEF Stacked, Savepoints
      <4>2. /\ WrapRolledBackTo(w, n).pc = "idle" /\ WrapRolledBackTo(w, n).writing = <<>>
            /\ WrapRolledBackTo(w, n).buffer = SubSeq(w.buffer, 1, m)
        BY <2>2, <2>6, <3>1, <3>2 DEF WrapRolledBackTo, WrapStates
      <4> QED
        BY <2>4, <3>1, <4>1, <4>2
    <3>3. CASE ~Named(w.saves, n)
      BY <2>4, <2>6, <3>1, <3>3 DEF WrapRolledBackTo
    <3> QED
      BY <3>2, <3>3
  <2>15. ASSUME NEW safe \in BOOLEAN, NEW raises \in BOOLEAN, Dml(c, safe, raises)
         PROVE  Keeps(c)
    <3> DEFINE e == [id |-> dmlCount + 1, safe |-> safe]
    <3>1. /\ UNCHANGED <<logTable, txCount, setting>> /\ dmlCount' = dmlCount + 1
          /\ w.pc = "idle" /\ w.writing = <<>>
      BY <2>6, <2>15 DEF Dml, Idle, tables
    <3>2. /\ e \in Entries /\ e.id = dmlCount + 1
          /\ \E s, v : /\ Move(c, s, v)
                       /\ \/ v = WrapChanged(w, e, raises) \/ v = Discarded(w)
                          \/ v = Written(w, <<e>>)
      BY <2>15, MovesOfDml
    <3> HIDE DEF e
    <3>3. PICK s, v : /\ Move(c, s, v)
                      /\ \/ v = WrapChanged(w, e, raises) \/ v = Discarded(w)
                         \/ v = Written(w, <<e>>)
      BY <3>2
    <3>4. wrap'[c] = v /\ Alone(c)
      BY <3>3, Moved
    <3>5. /\ Climbs(w.buffer, dmlCount') /\ Climbs(Append(w.buffer, e), dmlCount')
          /\ Climbs(<<e>>, dmlCount') /\ Climbs(<<>>, dmlCount')
          /\ \A id : Has(Append(w.buffer, e), id) => Has(w.buffer, id) \/ id = dmlCount + 1
          /\ \A id : Has(<<e>>, id) => id = dmlCount + 1
      BY <2>2, <3>1, <3>2, ClimbsOn, ClimbsCut
    <3>6. /\ v.pc # "logRows" /\ Climbs(v.buffer, dmlCount') /\ Climbs(v.writing, dmlCount')
          /\ \A id : Has(Due(v), id) => Has(w.buffer, id) \/ id = dmlCount + 1
      <4>1. CASE v = WrapChanged(w, e, raises)
        <5>1. v.pc = "idle" /\ v.buffer = Append(w.buffer, e) /\ v.writing = <<>>
          BY <2>2, <3>1, <4>1 DEF WrapChanged, WrapStates
        <5> QED
          BY <3>5, <5>1 DEF Due
      <4>2. CASE v = Discarded(w)
        <5>1. v.pc = "idle" /\ v.buffer = <<>> /\ v.writing = <<>>
          BY <2>2, <3>1, <4>2 DEF Discarded, WrapStates
        <5> QED
          BY <2>2, <3>5, <5>1 DEF Due
      <4>3. CASE v = Written(w, <<e>>)
        <5>1. v.pc = "txRow" /\ v.buffer = w.buffer /\ v.writing = <<e>>
          BY <2>2, <3>1, <4>3 DEF Written, WrapStates
        <5> QED
          BY <3>5, <5>1 DEF Due
      <4> QED
        BY <3>3, <4>1, <4>2, <4>3
    <3>7. dmlCount < dmlCount + 1 /\ dmlCount' \in Nat /\ dmlCount <= dmlCount'
      BY <2>2, <3>1
    <3> QED
      BY <3>1, <3>4, <3>6, <3>7 DEF Keeps, Due
  <2>16. CASE StatementFails(c)
    <3>1. Same /\ w.pc = "idle" /\ w.writing = <<>>
      BY <2>6, <2>16 DEF StatementFails, Idle, tables
    <3>2. \E s, v : Move(c, s, v) /\ v \in {Discarded(w), [w EXCEPT !.failed = TRUE]}
      BY <2>16, Moves
    <3>3. /\ [w EXCEPT !.failed = TRUE].pc = "idle" /\ [w EXCEPT !.failed = TRUE].writing = <<>>
          /\ [w EXCEPT !.failed = TRUE].buffer = w.buffer
          /\ Discarded(w).pc = "idle" /\ Discarded(w).writing = <<>>
          /\ Discarded(w).buffer = <<>>
      BY <2>2, <3>1 DEF Discarded, WrapStates
    <3>4. PICK s, v : Move(c, s, v) /\ v \in {Discarded(w), [w EXCEPT !.failed = TRUE]}
      BY <3>2
    <3>5. CASE v = Discarded(w)
      BY <2>5, <3>1, <3>3, <3>4, <3>5, OnceKept
    <3>6. CASE v = [w EXCEPT !.failed = TRUE]
      BY <2>4, <2>6, <3>1, <3>3, <3>4, <3>6, OnceKept
    <3> QED
      BY <3>4, <3>5, <3>6
  <2>17. CASE Close(c)
    <3>1. Move(c, NoTx, Fresh) /\ Same
      BY <2>17, Moves DEF Close, tables
    <3>2. Fresh.pc = "idle" /\ Fresh.writing = <<>> /\ Fresh.buffer = <<>>
      BY DEF Fresh
    <3> QED
      BY <2>5, <3>1, <3>2, OnceKept
  <2>18. CASE WriteTimesOut(c)
    <3>1. Move(c, sql[c], Unwritten(w)) /\ Same /\ "busy" \in Env
      BY <2>18, Moves DEF WriteTimesOut, tables
    <3>2. /\ Unwritten(w).pc = "idle" /\ Unwritten(w).writing = <<>>
          /\ Unwritten(w).buffer = w.buffer
      BY <2>2 DEF Unwritten, WrapStates
    <3> QED
      BY <2>2, <2>3, <3>1, <3>2, OnceKept
  <2> QED
    BY <2>1, <2>8, <2>9, <2>10, <2>11, <2>12, <2>13, <2>14, <2>15, <2>16, <2>17, <2>18,
       OnceKept, OnceOpens, OnceWritten DEF Call
<1> QED
  BY <1>1, <1>2

(* Through crashes, END and savepoint names used again, the rows of every  *)
(* record are in the order in which their statements ran, and no statement *)
(* is logged twice unless a write of the log timed out.                    *)
THEOREM LoggedOnceHolds == Spec => []LoggedOnce
<1>1. Init => Shaped /\ InOrder /\ Once
  <2> SUFFICES ASSUME Init PROVE InOrder /\ Once
    BY ShapedInit
  <2>1. \A c \in Conns : wrap[c] = Fresh
    BY DEF Init
  <2> QED
    BY <2>1 DEF Init, InOrder, Once, Climbs, Continues, Fresh, Due, Has
<1>2. Shaped /\ InOrder /\ Once => LoggedOnce
  <2> SUFFICES ASSUME Shaped, InOrder, Once,
                      NEW i \in DOMAIN logTable, NEW j \in DOMAIN logTable, i < j
               PROVE  /\ logTable[i].tx = logTable[j].tx => logTable[i].id < logTable[j].id
                      /\ logTable[i].id = logTable[j].id => "busy" \in Env
    BY DEF LoggedOnce
  <2> QED
    BY DEF InOrder, Once
<1> QED
  BY <1>1, <1>2, ShapedNext, OnceNext, PTL DEF Spec

-----------------------------------------------------------------------------
(***************************************************************************)
(* Layer 6, the records of the log: without crashes, lock timeouts and     *)
(* END, every commit gets one record, complete and in order.               *)
(***************************************************************************)

(* The rows of a record, and then the entries rest, are the statements of  *)
(* a commit.                                                               *)
Spells(rows, rest, stmts) ==
  /\ Len(stmts) = Len(rows) + Len(rest)
  /\ \A i \in DOMAIN rows : rows[i].id = stmts[i].id
  /\ \A i \in DOMAIN rest : rest[i].id = stmts[Len(rows) + i].id

Newest(cs, k) == \A l \in DOMAIN cs : cs[l].conn = cs[k].conn => l <= k

(* Wrapper w is in _flush for commit k and has not opened its record, or   *)
(* is writing the rows of record t.                                        *)
Awaits(cs, w, k) == /\ w.pc = "txRow" /\ Newest(cs, k)
                    /\ Spells(<<>>, w.writing, cs[k].stmts)
WritesTo(w, t) == w.pc = "logRows" /\ w.txId = t

(* Records 1..n of log, the commits cs and the wrappers ws: kk[t] is the   *)
(* commit record t is about.                                               *)
Ordered(kk, cs, n) ==
  /\ kk \in [1..n -> DOMAIN cs]
  /\ \A t, u \in 1..n : t < u /\ cs[kk[t]].conn = cs[kk[u]].conn => kk[t] < kk[u]
Complete(kk, cs, ws, log, n) ==
  \A t \in 1..n : \/ \E c \in Conns : WritesTo(ws[c], t)
                  \/ Spells(RowsIn(log, t), <<>>, cs[kk[t]].stmts)
InWriting(kk, cs, ws, log, n) ==
  \A c \in Conns : \A t : WritesTo(ws[c], t) =>
    /\ t \in 1..n /\ cs[kk[t]].conn = c
    /\ Spells(RowsIn(log, t), ws[c].writing, cs[kk[t]].stmts)
Awaited(kk, cs, ws, n) ==
  \A c \in Conns : ws[c].pc = "txRow" =>
    \E k \in DOMAIN cs : /\ cs[k].conn = c /\ Awaits(cs, ws[c], k)
                         /\ \A t \in 1..n : kk[t] # k
EachHasOne(kk, cs, ws, n) ==
  \A k \in DOMAIN cs : (\E t \in 1..n : kk[t] = k) \/ Awaits(cs, ws[cs[k].conn], k)
RecordsOf(kk, cs, ws, log, n) ==
  /\ Ordered(kk, cs, n) /\ Complete(kk, cs, ws, log, n) /\ InWriting(kk, cs, ws, log, n)
  /\ Awaited(kk, cs, ws, n) /\ EachHasOne(kk, cs, ws, n)

(* No statement is in two commits, and no row is in a record to come.      *)
Distinct(cs) ==
  \A k, l \in DOMAIN cs : \A id : Has(cs[k].stmts, id) /\ Has(cs[l].stmts, id) => k = l
NoneLater(log, n) == \A i \in DOMAIN log : log[i].tx <= n

Recorded ==
  Undisturbed => /\ Distinct(committed) /\ NoneLater(logTable, txCount)
                 /\ \E kk : RecordsOf(kk, committed, wrap, logTable, txCount)

-----------------------------------------------------------------------------
(* RowsIn picks the rows of a record: as a run over the log.               *)
Picked(rows, row, t) == IF row.tx = t THEN Append(rows, row) ELSE rows
Picking(rows, log, t, n) ==
  rows = [i \in 0..n |-> IF i = 0 THEN <<>> ELSE Picked(rows[i - 1], log[i], t)]

(* Its first value, and each from the one before.                          *)
LEMMA PickingStep ==
  ASSUME NEW log, NEW t, NEW n \in Nat, NEW rows, Picking(rows, log, t, n)
  PROVE  /\ rows[0] = <<>>
         /\ \A i \in 0..n : i < n => rows[i + 1] = Picked(rows[i], log[i + 1], t)
BY DEF Picking

(* Such a run exists for every length.                                     *)
LEMMA PickingExists ==
  ASSUME NEW log, NEW t, NEW n \in Nat
  PROVE  \E rows : Picking(rows, log, t, n)
<1> DEFINE H == {k \in 0..n : \E rows : Picking(rows, log, t, k)}
<1>1. 0 \in H
  <2>1. Picking([i \in 0..0 |-> <<>>], log, t, 0)
    BY DEF Picking
  <2> QED
    BY <2>1
<1>2. ASSUME NEW k \in 0..n, k < n, k \in H PROVE k + 1 \in H
  <2>1. PICK rows : Picking(rows, log, t, k)
    BY <1>2
  <2> DEFINE more == [i \in 0..(k + 1) |->
                        IF i = k + 1 THEN Picked(rows[k], log[i], t) ELSE rows[i]]
  <2>2. Picking(more, log, t, k + 1)
    BY <2>1 DEF Picking
  <2>3. k + 1 \in 0..n
    BY <1>2
  <2> QED
    BY <2>2, <2>3
<1> HIDE DEF H
<1>3. n \in H
  BY <1>1, <1>2, Induction
<1> QED
  BY <1>3 DEF H

(* Two of them agree as far as both go, and on logs that agree there.      *)
LEMMA PickingUnique ==
  ASSUME NEW log, NEW lot, NEW t, NEW m \in Nat, NEW n \in Nat, m <= n,
         \A i \in 1..m : log[i] = lot[i],
         NEW rows, Picking(rows, log, t, m), NEW rots, Picking(rots, lot, t, n)
  PROVE  rows[m] = rots[m]
<1> DEFINE H == {i \in 0..m : rows[i] = rots[i]}
<1>1. 0 \in H
  <2>1. rows[0] = <<>> /\ rots[0] = <<>>
    BY DEF Picking
  <2> QED
    BY <2>1
<1>2. ASSUME NEW i \in 0..m, i < m, i \in H PROVE i + 1 \in H
  <2>1. i \in 0..n /\ i < n /\ i + 1 \in 1..m /\ i + 1 \in 0..m
    BY <1>2
  <2>2. /\ rows[i + 1] = Picked(rows[i], log[i + 1], t)
        /\ rots[i + 1] = Picked(rots[i], lot[i + 1], t)
    BY <1>2, <2>1, PickingStep
  <2> QED
    BY <1>2, <2>1, <2>2
<1> HIDE DEF H
<1>3. m \in H
  BY <1>1, <1>2, Induction
<1> QED
  BY <1>3 DEF H

(* RowsIn is the end of its run.                                           *)
LEMMA RowsInPicking ==
  ASSUME NEW log, NEW t, Len(log) \in Nat, NEW rows, Picking(rows, log, t, Len(log))
  PROVE  RowsIn(log, t) = rows[Len(log)]
<1> DEFINE n == Len(log)
           it == CHOOSE f : Picking(f, log, t, n)
<1>1. Picking(it, log, t, n)
  BY Zenon
<1>2. RowsIn(log, t) = it[n]
  BY DEF RowsIn, Picking, Picked
<1> QED
  BY <1>1, <1>2, PickingUnique

(* A record's rows are rows of the log with its number.                    *)
LEMMA RowsInAre ==
  ASSUME NEW log \in Seq(LogRows), NEW t
  PROVE  /\ RowsIn(log, t) \in Seq(LogRows)
         /\ \A i \in DOMAIN RowsIn(log, t) :
              \E j \in DOMAIN log : log[j].tx = t /\ log[j] = RowsIn(log, t)[i]
<1> DEFINE n == Len(log)
           S == {log[j] : j \in {h \in DOMAIN log : log[h].tx = t}}
<1>1. n \in Nat /\ DOMAIN log = 1..n
  OBVIOUS
<1>2. S \subseteq LogRows
  OBVIOUS
<1>3. \A j \in 1..n : log[j].tx = t => log[j] \in S
  BY <1>1
<1> HIDE DEF n, S
<1>4. PICK rows : Picking(rows, log, t, n)
  BY <1>1, PickingExists
<1> DEFINE H == {k \in 0..n : rows[k] \in Seq(S)}
<1>5. 0 \in H
  <2>1. rows[0] = <<>>
    BY <1>1, <1>4, PickingStep
  <2>2. rows[0] \in Seq(S)
    BY <2>1
  <2> QED
    BY <1>1, <2>2
<1>6. ASSUME NEW k \in 0..n, k < n, k \in H PROVE k + 1 \in H
  <2>1. k + 1 \in 1..n /\ k + 1 \in 0..n
    BY <1>1, <1>6
  <2>2. rows[k + 1] = Picked(rows[k], log[k + 1], t)
    BY <1>1, <1>4, <1>6, PickingStep, Zenon
  <2>3. rows[k] \in Seq(S)
    BY <1>6
  <2>4. rows[k + 1] \in Seq(S)
    BY <1>3, <2>1, <2>2, <2>3 DEF Picked
  <2> QED
    BY <2>1, <2>4
<1> HIDE DEF H
<1>7. n \in H
  BY <1>1, <1>5, <1>6, Induction
<1>8. RowsIn(log, t) \in Seq(S)
  <2>1. rows[n] \in Seq(S)
    BY <1>7 DEF H
  <2>2. RowsIn(log, t) = rows[n]
    BY <1>1, <1>4, RowsInPicking DEF n
  <2> QED
    BY <2>1, <2>2
<1> DEFINE r == RowsIn(log, t)
<1> HIDE DEF r
<1>9. \A i \in DOMAIN r : r[i] \in S
  BY <1>8 DEF r
<1>10. r \in Seq(LogRows)
  BY <1>2, <1>8 DEF r
<1> QED
  BY <1>9, <1>10 DEF r, S

(* One row more in the log.                                                *)
LEMMA RowsInAppend ==
  ASSUME NEW log \in Seq(LogRows), NEW row \in LogRows, NEW t
  PROVE  RowsIn(Append(log, row), t) =
           IF row.tx = t THEN Append(RowsIn(log, t), row) ELSE RowsIn(log, t)
<1> DEFINE n == Len(log)
           lot == Append(log, row)
<1>1. /\ n \in Nat /\ Len(lot) = n + 1 /\ lot[n + 1] = row /\ n + 1 \in Nat
      /\ \A i \in 1..n : lot[i] = log[i]
  BY AppendProperties, LenProperties
<1> HIDE DEF n, lot
<1>2. PICK short : Picking(short, log, t, n)
  BY <1>1, PickingExists
<1>3. PICK long : Picking(long, lot, t, n + 1)
  BY <1>1, PickingExists
<1>4. short[n] = long[n]
  BY <1>1, <1>2, <1>3, PickingUnique
<1>5. long[n + 1] = Picked(long[n], row, t)
  <2>1. n \in 0..(n + 1) /\ n < n + 1 /\ n + 1 \in Nat
    BY <1>1
  <2>2. \A i \in 0..(n + 1) : i < n + 1 =>
           long[i + 1] = Picked(long[i], lot[i + 1], t)
    BY <1>3, <2>1, PickingStep, Zenon
  <2>3. long[n + 1] = Picked(long[n], lot[n + 1], t)
    BY <2>1, <2>2, Zenon
  <2>4. lot[n + 1] = row
    BY <1>1
  <2> QED
    BY <2>3, <2>4
<1>6. RowsIn(log, t) = short[n]
  BY <1>1, <1>2, RowsInPicking DEF n
<1>7. RowsIn(lot, t) = long[n + 1]
  BY <1>1, <1>3, RowsInPicking
<1> QED
  BY <1>1, <1>4, <1>5, <1>6, <1>7 DEF lot, Picked

(* A record to come has no rows.                                           *)
LEMMA RowsInNone ==
  ASSUME NEW log \in Seq(LogRows), NEW n \in Nat, NoneLater(log, n), NEW t \in Nat, n < t
  PROVE  RowsIn(log, t) = <<>>
<1> DEFINE r == RowsIn(log, t)
<1>1. \A row \in LogRows : row.tx \in Nat
  BY DEF LogRows
<1>2. \A j \in DOMAIN log : log[j].tx # t
  <2>1. \A j \in DOMAIN log : log[j].tx \in Nat /\ log[j].tx <= n
    BY <1>1 DEF NoneLater
  <2> QED
    BY <2>1
<1>3. r \in Seq(LogRows) /\ \A i \in DOMAIN r : FALSE
  <2>1. /\ r \in Seq(LogRows)
        /\ \A i \in DOMAIN r : \E j \in DOMAIN log : log[j].tx = t /\ log[j] = r[i]
    BY RowsInAre
  <2> HIDE DEF r
  <2> QED
    BY <1>2, <2>1
<1> HIDE DEF r
<1>4. Len(r) = 0
  <2>1. DOMAIN r = 1..Len(r) /\ Len(r) \in Nat
    BY <1>3
  <2>2. 1 \notin 1..Len(r)
    BY <1>3, <2>1
  <2> QED
    BY <2>1, <2>2
<1>5. r = <<>>
  BY <1>3, <1>4
<1> QED
  BY <1>5 DEF r

-----------------------------------------------------------------------------
(* A wrapper that starts or ends nothing leaves the records as they are.   *)
LEMMA RecordsStay ==
  ASSUME NEW kk, NEW cs \in Seq(Transactions), NEW ws, NEW vs, NEW log, NEW n \in Nat,
         RecordsOf(kk, cs, ws, log, n), NEW c \in Conns,
         ws[c].pc = "idle", vs[c].pc = "idle", \A d \in Conns \ {c} : vs[d] = ws[d]
  PROVE  RecordsOf(kk, cs, vs, log, n)
<1>1. \A d \in Conns : \A t : WritesTo(vs[d], t) <=> WritesTo(ws[d], t)
  BY DEF WritesTo
<1>2. \A d \in Conns : \A k : Awaits(cs, vs[d], k) <=> Awaits(cs, ws[d], k)
  BY DEF Awaits
<1>3. \A d \in Conns : vs[d].pc # "idle" => d # c
  OBVIOUS
<1>4. \A k \in DOMAIN cs : cs[k].conn \in Conns
  <2>1. \A k \in DOMAIN cs : cs[k] \in Transactions
    OBVIOUS
  <2> QED
    BY <2>1 DEF Transactions
<1>5. Complete(kk, cs, vs, log, n)
  BY <1>1 DEF RecordsOf, Complete
<1>6. InWriting(kk, cs, vs, log, n)
  <2> SUFFICES ASSUME NEW d \in Conns, NEW t, WritesTo(vs[d], t)
               PROVE  /\ t \in 1..n /\ cs[kk[t]].conn = d
                      /\ Spells(RowsIn(log, t), vs[d].writing, cs[kk[t]].stmts)
    BY DEF InWriting
  <2>1. WritesTo(ws[d], t) /\ vs[d] = ws[d]
    BY <1>1 DEF WritesTo
  <2> QED
    BY <2>1 DEF RecordsOf, InWriting
<1>7. Awaited(kk, cs, vs, n)
  <2> SUFFICES ASSUME NEW d \in Conns, vs[d].pc = "txRow"
               PROVE  \E k \in DOMAIN cs : /\ cs[k].conn = d /\ Awaits(cs, vs[d], k)
                                           /\ \A t \in 1..n : kk[t] # k
    BY DEF Awaited
  <2>1. vs[d] = ws[d]
    OBVIOUS
  <2> QED
    BY <2>1 DEF RecordsOf, Awaited
<1>8. EachHasOne(kk, cs, vs, n)
  BY <1>2, <1>4 DEF RecordsOf, EachHasOne
<1> QED
  BY <1>5, <1>6, <1>7, <1>8 DEF RecordsOf

(* A commit r of c, which was writing nothing, and starts _flush for it.   *)
LEMMA RecordsGrow ==
  ASSUME NEW kk, NEW cs \in Seq(Transactions), NEW ws, NEW vs, NEW log, NEW n \in Nat,
         RecordsOf(kk, cs, ws, log, n), NEW c \in Conns, NEW r \in Transactions, r.conn = c,
         ws[c].pc = "idle", vs[c].pc = "txRow", Spells(<<>>, vs[c].writing, r.stmts),
         \A d \in Conns \ {c} : vs[d] = ws[d]
  PROVE  RecordsOf(kk, Append(cs, r), vs, log, n)
<1> DEFINE more == Append(cs, r)
           m == Len(cs)
<1>1. /\ m \in Nat /\ DOMAIN cs = 1..m /\ DOMAIN more = 1..(m + 1) /\ more[m + 1] = r
      /\ \A k \in 1..m : more[k] = cs[k]
  OBVIOUS
<1> HIDE DEF more, m
<1>2. /\ \A k \in DOMAIN cs : k \in DOMAIN more /\ more[k] = cs[k] /\ k # m + 1 /\ k <= m + 1
      /\ \A k \in DOMAIN more : k \in DOMAIN cs \/ k = m + 1
      /\ m + 1 \in DOMAIN more /\ m + 1 <= m + 1
  BY <1>1
<1>3. /\ kk \in [1..n -> DOMAIN cs]
      /\ \A t \in 1..n : kk[t] \in DOMAIN cs
  BY DEF RecordsOf, Ordered
<1>4. Ordered(kk, more, n)
  BY <1>2, <1>3 DEF RecordsOf, Ordered
<1>5. \A d \in Conns : \A t : WritesTo(vs[d], t) <=> WritesTo(ws[d], t)
  BY DEF WritesTo
<1>6. \A k \in DOMAIN cs : cs[k].conn # c /\ Newest(cs, k) => Newest(more, k)
  BY <1>1, <1>2 DEF Newest
<1>7. \A d \in Conns \ {c}, k \in DOMAIN cs :
         cs[k].conn = d /\ Awaits(cs, ws[d], k) => Awaits(more, vs[d], k)
  BY <1>2, <1>6 DEF Awaits
<1>8. Awaits(more, vs[c], m + 1)
  <2>1. Newest(more, m + 1)
    BY <1>2 DEF Newest
  <2> QED
    BY <1>1, <2>1 DEF Awaits
<1>9. \A k \in DOMAIN cs : cs[k].conn \in Conns
  <2>1. \A k \in DOMAIN cs : cs[k] \in Transactions
    OBVIOUS
  <2> QED
    BY <2>1 DEF Transactions
<1>10. Complete(kk, more, vs, log, n)
  BY <1>2, <1>3, <1>5 DEF RecordsOf, Complete
<1>11. InWriting(kk, more, vs, log, n)
  <2> SUFFICES ASSUME NEW d \in Conns, NEW t, WritesTo(vs[d], t)
               PROVE  /\ t \in 1..n /\ more[kk[t]].conn = d
                      /\ Spells(RowsIn(log, t), vs[d].writing, more[kk[t]].stmts)
    BY DEF InWriting
  <2>1. WritesTo(ws[d], t) /\ vs[d] = ws[d]
    BY <1>5 DEF WritesTo
  <2> QED
    BY <1>2, <1>3, <2>1 DEF RecordsOf, InWriting
<1>12. Awaited(kk, more, vs, n)
  <2> SUFFICES ASSUME NEW d \in Conns, vs[d].pc = "txRow"
               PROVE  \E k \in DOMAIN more : /\ more[k].conn = d /\ Awaits(more, vs[d], k)
                                             /\ \A t \in 1..n : kk[t] # k
    BY DEF Awaited
  <2>1. CASE d = c
    BY <1>1, <1>2, <1>3, <1>8, <2>1
  <2>2. CASE d # c
    <3>1. PICK k \in DOMAIN cs : /\ cs[k].conn = d /\ Awaits(cs, ws[d], k)
                                 /\ \A t \in 1..n : kk[t] # k
      BY <2>2 DEF RecordsOf, Awaited
    <3> QED
      BY <1>2, <1>7, <2>2, <3>1
  <2> QED
    BY <2>1, <2>2
<1>13. EachHasOne(kk, more, vs, n)
  <2> SUFFICES ASSUME NEW k \in DOMAIN more, \A t \in 1..n : kk[t] # k
               PROVE  Awaits(more, vs[more[k].conn], k)
    BY DEF EachHasOne
  <2>1. CASE k = m + 1
    BY <1>1, <1>8, <2>1
  <2>2. CASE k \in DOMAIN cs
    <3>1. Awaits(cs, ws[cs[k].conn], k) /\ more[k] = cs[k]
      BY <1>2, <2>2 DEF RecordsOf, EachHasOne
    <3>2. cs[k].conn # c
      BY <3>1 DEF Awaits
    <3> QED
      BY <1>7, <1>9, <2>2, <3>1, <3>2
  <2> QED
    BY <1>2, <2>1, <2>2
<1>14. RecordsOf(kk, more, vs, log, n)
  BY <1>4, <1>10, <1>11, <1>12, <1>13 DEF RecordsOf
<1> QED
  BY <1>14 DEF more

(* c opens the next record, for the commit it is in _flush for.            *)
LEMMA RecordOpens ==
  ASSUME NEW kk, NEW cs \in Seq(Transactions), NEW ws, NEW vs, NEW log \in Seq(LogRows),
         NEW n \in Nat, RecordsOf(kk, cs, ws, log, n), NoneLater(log, n), NEW c \in Conns,
         ws[c].pc = "txRow", vs[c].pc = "logRows", vs[c].txId = n + 1,
         vs[c].writing = ws[c].writing, \A d \in Conns \ {c} : vs[d] = ws[d]
  PROVE  \E ll : RecordsOf(ll, cs, vs, log, n + 1)
<1>1. PICK k \in DOMAIN cs : /\ cs[k].conn = c /\ Awaits(cs, ws[c], k)
                             /\ \A t \in 1..n : kk[t] # k
  BY DEF RecordsOf, Awaited
<1>2. DOMAIN cs \subseteq Nat /\ \A h \in DOMAIN cs : cs[h].conn \in Conns
  <2>1. \A h \in DOMAIN cs : cs[h] \in Transactions
    OBVIOUS
  <2> QED
    BY <2>1 DEF Transactions
<1> DEFINE ll == [t \in 1..(n + 1) |-> IF t = n + 1 THEN k ELSE kk[t]]
<1>3. /\ kk \in [1..n -> DOMAIN cs]
      /\ \A t, u \in 1..n : t < u /\ cs[kk[t]].conn = cs[kk[u]].conn => kk[t] < kk[u]
  BY DEF RecordsOf, Ordered
<1>4. /\ \A t \in 1..n : t \in 1..(n + 1) /\ t # n + 1 /\ t < n + 1
      /\ \A t \in 1..(n + 1) : t \in 1..n \/ t = n + 1
      /\ n + 1 \in 1..(n + 1) /\ ~(n + 1 \in 1..n) /\ n + 1 \in Nat
      /\ \A t \in 1..(n + 1) : ~(n + 1 < t)
  OBVIOUS
<1>5. /\ ll \in [1..(n + 1) -> DOMAIN cs]
      /\ ll[n + 1] = k /\ \A t \in 1..n : ll[t] = kk[t]
  BY <1>3, <1>4
<1> HIDE DEF ll
<1>6. \A t \in 1..n : cs[kk[t]].conn = c => kk[t] < k
  <2> SUFFICES ASSUME NEW t \in 1..n, cs[kk[t]].conn = c PROVE kk[t] < k
    OBVIOUS
  <2>1. kk[t] <= k /\ kk[t] # k /\ kk[t] \in Nat /\ k \in Nat
    BY <1>1, <1>2, <1>3 DEF Awaits, Newest
  <2> QED
    BY <2>1
<1>7. Ordered(ll, cs, n + 1)
  <2> SUFFICES ASSUME NEW t \in 1..(n + 1), NEW u \in 1..(n + 1), t < u,
                      cs[ll[t]].conn = cs[ll[u]].conn
               PROVE  ll[t] < ll[u]
    BY <1>5 DEF Ordered
  <2>1. t \in 1..n
    BY <1>4
  <2>2. CASE u = n + 1
    BY <1>1, <1>5, <1>6, <2>1, <2>2
  <2>3. CASE u \in 1..n
    BY <1>3, <1>5, <2>1, <2>3
  <2> QED
    BY <1>4, <2>2, <2>3
<1>8. /\ \A d \in Conns \ {c} : \A t : WritesTo(vs[d], t) <=> WritesTo(ws[d], t)
      /\ \A t : WritesTo(vs[c], t) <=> t = n + 1
      /\ \A t : ~WritesTo(ws[c], t)
  BY DEF WritesTo
<1>9. Complete(ll, cs, vs, log, n + 1)
  <2> SUFFICES ASSUME NEW t \in 1..(n + 1), \A d \in Conns : ~WritesTo(vs[d], t)
               PROVE  Spells(RowsIn(log, t), <<>>, cs[ll[t]].stmts)
    BY DEF Complete
  <2>1. t \in 1..n
    BY <1>4, <1>8
  <2>2. \A d \in Conns : ~WritesTo(ws[d], t)
    BY <1>8
  <2> QED
    BY <1>5, <2>1, <2>2 DEF RecordsOf, Complete
<1>10. InWriting(ll, cs, vs, log, n + 1)
  <2> SUFFICES ASSUME NEW d \in Conns, NEW t, WritesTo(vs[d], t)
               PROVE  /\ t \in 1..(n + 1) /\ cs[ll[t]].conn = d
                      /\ Spells(RowsIn(log, t), vs[d].writing, cs[ll[t]].stmts)
    BY DEF InWriting
  <2>1. CASE d = c
    <3>1. RowsIn(log, n + 1) = <<>>
      BY <1>4, RowsInNone
    <3> QED
      BY <1>1, <1>4, <1>5, <1>8, <2>1, <3>1 DEF Awaits
  <2>2. CASE d # c
    <3>1. WritesTo(ws[d], t) /\ vs[d] = ws[d]
      BY <1>8, <2>2
    <3>2. /\ t \in 1..n /\ cs[kk[t]].conn = d
          /\ Spells(RowsIn(log, t), ws[d].writing, cs[kk[t]].stmts)
      BY <3>1 DEF RecordsOf, InWriting
    <3> QED
      BY <1>4, <1>5, <3>1, <3>2
  <2> QED
    BY <2>1, <2>2
<1>11. Awaited(ll, cs, vs, n + 1)
  <2> SUFFICES ASSUME NEW d \in Conns, vs[d].pc = "txRow"
               PROVE  \E h \in DOMAIN cs : /\ cs[h].conn = d /\ Awaits(cs, vs[d], h)
                                           /\ \A t \in 1..(n + 1) : ll[t] # h
    BY DEF Awaited
  <2>1. d # c /\ vs[d] = ws[d]
    OBVIOUS
  <2>2. PICK h \in DOMAIN cs : /\ cs[h].conn = d /\ Awaits(cs, ws[d], h)
                               /\ \A t \in 1..n : kk[t] # h
    BY <2>1 DEF RecordsOf, Awaited
  <2>3. \A t \in 1..(n + 1) : ll[t] # h
    BY <1>1, <1>4, <1>5, <2>1, <2>2
  <2> QED
    BY <2>1, <2>2, <2>3
<1>12. EachHasOne(ll, cs, vs, n + 1)
  <2> SUFFICES ASSUME NEW h \in DOMAIN cs, \A t \in 1..(n + 1) : ll[t] # h
               PROVE  Awaits(cs, vs[cs[h].conn], h)
    BY DEF EachHasOne
  <2>1. Awaits(cs, ws[cs[h].conn], h)
    BY <1>4, <1>5 DEF RecordsOf, EachHasOne
  <2>2. cs[h].conn # c
    <3> SUFFICES ASSUME cs[h].conn = c PROVE FALSE
      OBVIOUS
    <3>1. h <= k /\ k <= h /\ h \in Nat /\ k \in Nat
      BY <1>1, <1>2, <2>1 DEF Awaits, Newest
    <3>2. h = k
      BY <3>1
    <3> QED
      BY <1>4, <1>5, <3>2
  <2> QED
    BY <1>2, <2>1, <2>2
<1>13. RecordsOf(ll, cs, vs, log, n + 1)
  BY <1>7, <1>9, <1>10, <1>11, <1>12 DEF RecordsOf
<1> QED
  BY <1>13

(* A row more of a record is an entry less to write.                       *)
LEMMA SpellsOn ==
  ASSUME NEW rows \in Seq(LogRows), NEW rest \in Seq(Entries), NEW stmts \in Seq(Entries),
         rest # <<>>, NEW row \in LogRows, row.id = Head(rest).id, Spells(rows, rest, stmts)
  PROVE  Spells(Append(rows, row), Tail(rest), stmts)
<1> DEFINE n == Len(rows)
           m == Len(rest)
           more == Append(rows, row)
           less == Tail(rest)
<1>1. /\ n \in Nat /\ m \in Nat /\ m > 0 /\ DOMAIN rows = 1..n /\ DOMAIN rest = 1..m
      /\ Len(more) = n + 1 /\ DOMAIN more = 1..(n + 1) /\ more[n + 1] = row
      /\ \A i \in 1..n : more[i] = rows[i]
      /\ Len(less) = m - 1 /\ DOMAIN less = 1..(m - 1)
      /\ \A i \in 1..(m - 1) : less[i] = rest[i + 1]
      /\ Head(rest) = rest[1]
  OBVIOUS
<1>2. /\ Len(stmts) = n + m
      /\ \A i \in 1..n : rows[i].id = stmts[i].id
      /\ \A i \in 1..m : rest[i].id = stmts[n + i].id
  BY <1>1 DEF Spells
<1> HIDE DEF n, m, more, less
<1>3. Len(stmts) = (n + 1) + (m - 1)
  BY <1>1, <1>2
<1>4. rest[1].id = stmts[n + 1].id
  BY <1>1, <1>2
<1>5. ASSUME NEW i \in 1..(n + 1) PROVE more[i].id = stmts[i].id
  <2>1. CASE i = n + 1
    BY <1>1, <1>4, <2>1
  <2>2. CASE i # n + 1
    <3>1. i \in 1..n
      BY <1>1, <2>2
    <3> QED
      BY <1>1, <1>2, <3>1
  <2> QED
    BY <2>1, <2>2
<1>6. ASSUME NEW i \in 1..(m - 1) PROVE less[i].id = stmts[(n + 1) + i].id
  <2>1. i + 1 \in 1..m /\ n + (i + 1) = (n + 1) + i
    BY <1>1
  <2> QED
    BY <1>1, <1>2, <2>1
<1>7. Spells(more, less, stmts)
  BY <1>1, <1>3, <1>5, <1>6 DEF Spells
<1> QED
  BY <1>7 DEF more, less

(* c writes a row of its record u, and is done with it after the last.     *)
LEMMA RowWritten ==
  ASSUME NEW kk, NEW cs \in Seq(Transactions), NEW ws, NEW vs, NEW log \in Seq(LogRows),
         NEW n \in Nat, RecordsOf(kk, cs, ws, log, n), NEW c \in Conns,
         ws[c] \in WrapStates, ws[c].pc = "logRows", ws[c].writing # <<>>,
         NEW row \in LogRows, row.tx = ws[c].txId, row.id = Head(ws[c].writing).id,
         \/ /\ vs[c].pc = "logRows" /\ vs[c].txId = ws[c].txId
            /\ vs[c].writing = Tail(ws[c].writing)
         \/ vs[c].pc = "idle" /\ Tail(ws[c].writing) = <<>>,
         \A d \in Conns \ {c} : vs[d] = ws[d]
  PROVE  RecordsOf(kk, cs, vs, Append(log, row), n)
<1> DEFINE u == ws[c].txId
           rest == ws[c].writing
           more == Append(log, row)
<1>1. /\ u \in 1..n /\ cs[kk[u]].conn = c
      /\ Spells(RowsIn(log, u), rest, cs[kk[u]].stmts)
  BY DEF RecordsOf, InWriting, WritesTo
<1>2. rest \in Seq(Entries)
  BY DEF WrapStates
<1>3. /\ kk \in [1..n -> DOMAIN cs]
      /\ \A k \in DOMAIN cs : cs[k].conn \in Conns /\ cs[k].stmts \in Seq(Entries)
  <2>1. \A k \in DOMAIN cs : cs[k] \in Transactions
    OBVIOUS
  <2> QED
    BY <2>1 DEF Transactions, RecordsOf, Ordered
<1>4. /\ RowsIn(more, u) = Append(RowsIn(log, u), row)
      /\ \A t : t # u => RowsIn(more, t) = RowsIn(log, t)
  BY RowsInAppend
<1>5. Spells(RowsIn(more, u), Tail(rest), cs[kk[u]].stmts)
  <2>1. cs[kk[u]].stmts \in Seq(Entries)
    BY <1>1, <1>3
  <2> HIDE DEF u, rest
  <2>2. RowsIn(log, u) \in Seq(LogRows)
    BY RowsInAre
  <2> QED
    BY <1>1, <1>2, <1>4, <2>1, <2>2, SpellsOn DEF rest
<1> HIDE DEF u, rest, more
<1>6. \A d \in Conns \ {c} : \A t : WritesTo(vs[d], t) <=> WritesTo(ws[d], t)
  BY DEF WritesTo
<1>7. \A t : WritesTo(ws[c], t) <=> t = u
  BY DEF WritesTo, u
<1>8. ASSUME NEW d \in Conns, d # c PROVE ~WritesTo(ws[d], u)
  BY <1>1, <1>8 DEF RecordsOf, InWriting
<1>9. Complete(kk, cs, vs, more, n)
  <2> SUFFICES ASSUME NEW t \in 1..n, \A d \in Conns : ~WritesTo(vs[d], t)
               PROVE  Spells(RowsIn(more, t), <<>>, cs[kk[t]].stmts)
    BY DEF Complete
  <2>1. CASE t = u
    <3>1. Tail(rest) = <<>>
      BY <2>1 DEF WritesTo, u, rest
    <3> QED
      BY <1>5, <2>1, <3>1
  <2>2. CASE t # u
    <3>1. \A d \in Conns : ~WritesTo(ws[d], t)
      BY <1>6, <1>7, <2>2
    <3> QED
      BY <1>4, <2>2, <3>1 DEF RecordsOf, Complete
  <2> QED
    BY <2>1, <2>2
<1>10. InWriting(kk, cs, vs, more, n)
  <2> SUFFICES ASSUME NEW d \in Conns, NEW t, WritesTo(vs[d], t)
               PROVE  /\ t \in 1..n /\ cs[kk[t]].conn = d
                      /\ Spells(RowsIn(more, t), vs[d].writing, cs[kk[t]].stmts)
    BY DEF InWriting
  <2>1. CASE d = c
    <3>1. t = u /\ vs[c].writing = Tail(rest)
      BY <2>1 DEF WritesTo, u, rest
    <3> QED
      BY <1>1, <1>5, <2>1, <3>1
  <2>2. CASE d # c
    <3>1. WritesTo(ws[d], t) /\ vs[d] = ws[d] /\ t # u
      BY <1>6, <1>8, <2>2
    <3> QED
      BY <1>4, <3>1 DEF RecordsOf, InWriting
  <2> QED
    BY <2>1, <2>2
<1>11. \A d \in Conns : vs[d].pc = "txRow" \/ ws[d].pc = "txRow" => vs[d] = ws[d]
  OBVIOUS
<1>12. Awaited(kk, cs, vs, n)
  BY <1>11 DEF RecordsOf, Awaited
<1>13. EachHasOne(kk, cs, vs, n)
  BY <1>3, <1>11 DEF RecordsOf, EachHasOne, Awaits
<1>14. RecordsOf(kk, cs, vs, more, n)
  BY <1>9, <1>10, <1>12, <1>13 DEF RecordsOf
<1> QED
  BY <1>14 DEF more

(* A commit of statements no earlier one has.                              *)
LEMMA DistinctGrows ==
  ASSUME NEW cs \in Seq(Transactions), Distinct(cs), NEW r \in Transactions,
         \A id : Has(r.stmts, id) => ~Known(cs, id)
  PROVE  Distinct(Append(cs, r))
<1> DEFINE more == Append(cs, r)
           m == Len(cs)
<1>1. /\ m \in Nat /\ DOMAIN cs = 1..m /\ DOMAIN more = 1..(m + 1) /\ more[m + 1] = r
      /\ \A k \in 1..m : more[k] = cs[k]
  OBVIOUS
<1> HIDE DEF more, m
<1>2. \A k \in DOMAIN more : k = m + 1 \/ (k \in DOMAIN cs /\ more[k] = cs[k])
  BY <1>1
<1>3. \A k \in DOMAIN cs : \A id : Has(cs[k].stmts, id) => Known(cs, id)
  BY DEF Known
<1>4. Distinct(more)
  <2> SUFFICES ASSUME NEW k \in DOMAIN more, NEW l \in DOMAIN more, NEW id,
                      Has(more[k].stmts, id), Has(more[l].stmts, id)
               PROVE  k = l
    BY DEF Distinct
  <2> QED
    BY <1>1, <1>2, <1>3 DEF Distinct
<1> QED
  BY <1>4 DEF more

-----------------------------------------------------------------------------
(* What a step is to the records: nothing, a new commit r of c, or a write *)
(* of the log.                                                             *)
Quiet(c) == /\ wrap[c].pc = "idle" /\ wrap'[c].pc = "idle" /\ Alone(c)
            /\ UNCHANGED <<committed, logTable, txCount>>
Commits(c, r) ==
  /\ r \in Transactions /\ r.conn = c /\ committed' = Append(committed, r)
  /\ \A id : Has(r.stmts, id) => ~Known(committed, id)
  /\ wrap[c].pc = "idle" /\ wrap'[c].pc = "txRow" /\ Alone(c)
  /\ Spells(<<>>, wrap'[c].writing, r.stmts)
  /\ UNCHANGED <<logTable, txCount>>

(* What leaves the wrapper between calls.                                  *)
LEMMA StaysIdle ==
  ASSUME NEW w \in WrapStates, w.pc = "idle"
  PROVE  /\ Begun(w).pc = "idle" /\ Discarded(w).pc = "idle" /\ Fresh.pc = "idle"
         /\ Popped(w).pc = "idle" /\ [w EXCEPT !.failed = TRUE].pc = "idle"
         /\ \A n : WrapSaved(w, n).pc = "idle" /\ WrapRolledBackTo(w, n).pc = "idle"
         /\ \A e, raises : WrapChanged(w, e, raises).pc = "idle"
<1>1. /\ Begun(w).pc = "idle" /\ Discarded(w).pc = "idle" /\ Fresh.pc = "idle"
      /\ Popped(w).pc = "idle" /\ [w EXCEPT !.failed = TRUE].pc = "idle"
  BY DEF WrapStates, Begun, Discarded, Fresh, Popped
<1>2. \A n : WrapSaved(w, n).pc = "idle"
  <2>1. Begun(w) \in WrapStates
    BY BegunShape
  <2> QED
    BY <1>1, <2>1 DEF WrapSaved, WrapStates
<1>3. \A n : WrapRolledBackTo(w, n).pc = "idle"
  BY DEF WrapStates, WrapRolledBackTo
<1>4. \A e, raises : WrapChanged(w, e, raises).pc = "idle"
  BY DEF WrapStates, WrapChanged
<1> QED
  BY <1>1, <1>2, <1>3, <1>4

(* COMMIT, and RELEASE of the outermost savepoint: SQLite commits its work *)
(* and _flush starts writing the same statements, if there are any.        *)
LEMMA FlushCommits ==
  ASSUME Shaped, Numbered, NEW c \in Conns, wrap[c].pc = "idle", SqlCommit(c),
         NEW v \in WrapStates, v.pc = "idle", v.buffer = sql[c].work,
         Move(c, NoTx, Flushed(v)), UNCHANGED <<logTable, txCount>>
  PROVE  Quiet(c) \/ \E r : Commits(c, r)
<1> DEFINE work == sql[c].work
<1>1. /\ sql[c] \in SqlStates /\ committed \in Seq(Transactions)
      /\ work \in Seq(Entries) /\ sql[c].raised \in BOOLEAN
  BY DEF Shaped, TypeOK, SqlStates
<1>2. wrap'[c] = Flushed(v) /\ Alone(c)
  BY Moved
<1>3. CASE work = <<>>
  <2>1. Flushed(v) = Discarded(v) /\ committed' = committed
    BY <1>3 DEF Flushed, SqlCommit
  <2> QED
    BY <1>2, <2>1, StaysIdle DEF Quiet
<1>4. CASE work # <<>>
  <2> DEFINE r == [conn |-> c, stmts |-> work, raised |-> sql[c].raised]
  <2>1. /\ r \in Transactions /\ r.conn = c /\ r.stmts = work
        /\ committed' = Append(committed, r)
    BY <1>1, <1>4 DEF SqlCommit, Transactions
  <2>2. Flushed(v).pc = "txRow" /\ Flushed(v).writing = Marked(v)
    BY <1>4 DEF Flushed, Written, WrapStates
  <2>3. ASSUME NEW id, Has(work, id) PROVE ~Known(committed, id)
    <3>1. \A i \in DOMAIN work : work[i] \in Entries
      BY <1>1
    <3>2. id \in Nat
      BY <2>3, <3>1 DEF Has, Entries
    <3> QED
      BY <2>3, <3>2 DEF Numbered
  <2> HIDE DEF r
  <2>4. Spells(<<>>, Marked(v), work)
    <3> DEFINE q == Marked(v)
               m == Len(work)
    <3>1. /\ q \in Seq(Entries) /\ Len(q) = m /\ m \in Nat
          /\ \A i \in 1..m : q[i].id = work[i].id
      BY <1>1, MarkedIs
    <3>2. DOMAIN q = 1..m /\ Len(<<>>) = 0 /\ DOMAIN <<>> = {}
      BY <3>1
    <3> HIDE DEF q, m
    <3>3. m = 0 + Len(q) /\ \A i \in 1..m : 0 + i = i
      BY <3>1
    <3>4. Spells(<<>>, q, work)
      BY <3>1, <3>2, <3>3 DEF Spells, m
    <3> QED
      BY <3>4 DEF q
  <2>5. Commits(c, r)
    BY <1>2, <2>1, <2>2, <2>3, <2>4 DEF Commits
  <2> QED
    BY <2>5
<1> QED
  BY <1>3, <1>4

(* Without crashes, timeouts and END every step is one of these.           *)
LEMMA Kinds ==
  ASSUME NamesOnce, Undisturbed, Matched, Numbered, [Next]_vars
  PROVE  \/ UNCHANGED vars
         \/ \E c \in Conns : \/ Quiet(c) \/ (\E r : Commits(c, r))
                             \/ WriteTxRow(c) \/ WriteLogRow(c)
<1> SUFFICES ASSUME ~UNCHANGED vars
             PROVE  \E c \in Conns : \/ Quiet(c) \/ (\E r : Commits(c, r))
                                     \/ WriteTxRow(c) \/ WriteLogRow(c)
  OBVIOUS
<1>1. /\ Shaped /\ used \subseteq Conns /\ dmlCount \in Nat
      /\ \A c \in Conns : /\ Shape(sql[c], wrap[c]) /\ Abreast(sql[c], wrap[c])
                          /\ wrap[c] \in WrapStates /\ sql[c] \in SqlStates
  BY DEF Matched, Shaped, TypeOK, InStep, Shape
<1>2. \A c \in Conns : Open(sql[c]) => wrap[c].buffer = sql[c].work
  BY MatchedBuffer DEF BufferIsWork, InSqlTx, Open
<1>3. ASSUME NEW c \in Conns, NEW s, NEW v, Move(c, s, v), v.pc = "idle",
             wrap[c].pc = "idle", UNCHANGED <<committed, logTable, txCount>>
      PROVE  Quiet(c)
  BY <1>1, <1>3, Moved DEF Quiet
<1>4. \A c \in Conns : ~End(c) /\ ~WriteTimesOut(c)
  BY DEF End, WriteTimesOut, Undisturbed
<1>5. ASSUME NEW c \in Conns, Begin(c) PROVE Quiet(c)
  BY <1>1, <1>3, <1>5, Moves, StaysIdle DEF Begin, Idle, tables
<1>6. ASSUME NEW c \in Conns, Commit(c) PROVE Quiet(c) \/ \E r : Commits(c, r)
  <2>1. /\ SqlCommit(c) /\ wrap[c].pc = "idle" /\ Open(sql[c])
        /\ UNCHANGED <<logTable, txCount>> /\ Move(c, NoTx, Flushed(wrap[c]))
    BY <1>1, <1>6, Moves DEF Commit, Idle, InSqlTx, Open, tables
  <2> QED
    BY <1>1, <1>2, <2>1, FlushCommits
<1>7. ASSUME NEW c \in Conns, Rollback(c) \/ DmlRollsBack(c) PROVE Quiet(c)
  <2>1. wrap[c].pc = "idle" /\ UNCHANGED <<committed, logTable, txCount>>
    BY <1>7 DEF Rollback, DmlRollsBack, SqlRollback, Idle, tables
  <2> QED
    BY <1>1, <1>3, <1>7, <2>1, Moves, StaysIdle
<1>8. ASSUME NEW c \in Conns, Close(c) PROVE Quiet(c)
  <2>1. wrap[c].pc = "idle" /\ UNCHANGED <<committed, logTable, txCount>>
    BY <1>8 DEF Close, SqlRollback, Idle, tables, Undisturbed
  <2> QED
    BY <1>1, <1>3, <1>8, <2>1, Moves, StaysIdle
<1>9. ASSUME NEW c \in Conns, NEW n \in Names, OpenSavepoint(c, n) \/ RollbackTo(c, n)
      PROVE  Quiet(c)
  <2>1. wrap[c].pc = "idle" /\ UNCHANGED <<committed, logTable, txCount>>
    BY <1>9 DEF OpenSavepoint, RollbackTo, Idle, tables
  <2>2. \/ Move(c, SqlSaved(sql[c], n), WrapSaved(wrap[c], n))
        \/ Move(c, SqlRolledBackTo(sql[c], n), WrapRolledBackTo(wrap[c], n))
    BY <1>1, <1>9, Moves
  <2>3. WrapSaved(wrap[c], n).pc = "idle" /\ WrapRolledBackTo(wrap[c], n).pc = "idle"
    BY <1>1, <2>1, StaysIdle
  <2> QED
    BY <1>3, <2>1, <2>2, <2>3
<1>10. ASSUME NEW c \in Conns, NEW n \in Names, ReleaseSavepoint(c, n)
       PROVE  Quiet(c) \/ \E r : Commits(c, r)
  <2>1. /\ \/ SqlCommit(c) /\ Move(c, NoTx, Flushed(Popped(wrap[c])))
           \/ /\ UNCHANGED committed
              /\ Move(c, SqlReleased(sql[c], n), Popped(wrap[c]))
        /\ wrap[c].pc = "idle" /\ UNCHANGED <<logTable, txCount>>
    BY <1>1, <1>10, Moves DEF ReleaseSavepoint, Idle, tables
  <2>2. Named(sql[c].saves, n) /\ Open(sql[c])
    BY <1>1, <1>10 DEF ReleaseSavepoint, OpenNames, Named, Shape, Phases, NoTx
  <2>3. /\ Popped(wrap[c]) \in WrapStates /\ Popped(wrap[c]).pc = "idle"
        /\ Popped(wrap[c]).buffer = wrap[c].buffer
    <3>1. Shape(NoTx, Popped(wrap[c]))
      BY <1>1, <2>1, <2>2, ShapeRelease
    <3> QED
      BY <1>1, <2>1, <3>1, StaysIdle DEF Shape, Popped, WrapStates
  <2> QED
    BY <1>1, <1>2, <1>3, <2>1, <2>2, <2>3, FlushCommits
<1>11. ASSUME NEW c \in Conns, NEW safe \in BOOLEAN, NEW raises \in BOOLEAN,
              Dml(c, safe, raises)
       PROVE  Quiet(c) \/ \E r : Commits(c, r)
  <2> DEFINE e == [id |-> dmlCount + 1, safe |-> safe]
             w == wrap[c]
  <2>1. e.id = dmlCount + 1 /\ w.pc = "idle" /\ UNCHANGED <<logTable, txCount>>
    BY <1>11 DEF Dml, Idle, tables
  <2>2. /\ e \in Entries
        /\ \/ /\ Open(sql[c]) /\ UNCHANGED committed
              /\ Move(c, SqlChanged(sql[c], e, raises), WrapChanged(w, e, raises))
           \/ /\ ~Open(sql[c]) /\ Autocommitted(c, e, raises)
              /\ \/ w.inTx \/ Move(c, sql[c], Written(w, <<e>>))
    BY <1>1, <1>11, MovesOfDml DEF InSqlTx, Open
  <2> HIDE DEF e
  <2>3. CASE Open(sql[c])
    BY <1>1, <1>3, <2>1, <2>2, <2>3, StaysIdle
  <2>4. CASE ~Open(sql[c])
    <3>1. Move(c, sql[c], Written(w, <<e>>))
      BY <1>1, <2>1, <2>2, <2>4 DEF Abreast
    <3>2. Written(w, <<e>>).pc = "txRow" /\ Written(w, <<e>>).writing = <<e>>
      BY <1>1 DEF Written, WrapStates
    <3> DEFINE r == [conn |-> c, stmts |-> <<e>>, raised |-> raises]
    <3>3. /\ r \in Transactions /\ r.conn = c /\ committed' = Append(committed, r)
          /\ r.stmts = <<e>>
      BY <2>2, <2>4 DEF Autocommitted, Transactions
    <3> HIDE DEF r
    <3>4. \A id : Has(<<e>>, id) => id = e.id
      BY DEF Has
    <3>5. ~Known(committed, e.id)
      <4>1. e.id \in Nat /\ ~(e.id <= dmlCount)
        BY <1>1, <2>1
      <4> QED
        BY <4>1 DEF Numbered
    <3>6. Spells(<<>>, <<e>>, <<e>>)
      BY DEF Spells
    <3>7. wrap'[c] = Written(w, <<e>>) /\ Alone(c)
      BY <1>1, <3>1, Moved
    <3>8. \A id : Has(r.stmts, id) => ~Known(committed, id)
      BY <3>3, <3>4, <3>5
    <3>9. wrap'[c].pc = "txRow" /\ Spells(<<>>, wrap'[c].writing, r.stmts)
      BY <3>2, <3>3, <3>6, <3>7
    <3>10. Commits(c, r)
      BY <2>1, <3>3, <3>7, <3>8, <3>9 DEF Commits
    <3> QED
      BY <3>10
  <2> QED
    BY <2>3, <2>4
<1>12. ASSUME NEW c \in Conns, StatementFails(c) PROVE Quiet(c)
  <2>1. wrap[c].pc = "idle" /\ UNCHANGED <<committed, logTable, txCount>>
    BY <1>12 DEF StatementFails, Idle, tables
  <2>2. \E s, v : Move(c, s, v) /\ v.pc = "idle"
    BY <1>1, <1>12, <2>1, Moves, StaysIdle
  <2> QED
    BY <1>3, <2>1, <2>2
<1> QED
  BY <1>1, <1>4, <1>5, <1>6, <1>7, <1>8, <1>9, <1>10, <1>11, <1>12 DEF Next, Call

-----------------------------------------------------------------------------
Logged == Kept /\ (NamesOnce => Recorded)

(* An empty log has its records in order.                                  *)
LEMMA LoggedInit == Init => Logged
<1> SUFFICES ASSUME Init PROVE Logged
  OBVIOUS
<1>1. /\ committed = <<>> /\ logTable = <<>> /\ txCount = 0
      /\ \A c \in Conns : wrap[c].pc = "idle"
  BY DEF Init, Fresh
<1>2. Distinct(<<>>) /\ NoneLater(<<>>, 0)
  BY DEF Distinct, NoneLater
<1> DEFINE kk == [t \in {} |-> 0]
<1>3. kk \in [1..0 -> DOMAIN <<>>] /\ 1..0 = {} /\ DOMAIN <<>> = {}
  OBVIOUS
<1> HIDE DEF kk
<1>4. RecordsOf(kk, <<>>, wrap, <<>>, 0)
  BY <1>1, <1>3 DEF RecordsOf, Ordered, Complete, InWriting, Awaited, EachHasOne, WritesTo
<1> QED
  BY <1>1, <1>2, <1>4, KeptInit DEF Logged, Recorded

(* Each kind of step keeps the records.                                    *)
LEMMA RecordedNext ==
  ASSUME NamesOnce, Undisturbed, Kept, Recorded, [Next]_vars
  PROVE  Recorded'
<1>1. /\ Matched /\ Numbered /\ Shaped
      /\ committed \in Seq(Transactions) /\ logTable \in Seq(LogRows) /\ txCount \in Nat
      /\ \A c \in Conns : Shape(sql[c], wrap[c]) /\ wrap[c] \in WrapStates
  BY DEF Kept, Matched, Shaped, TypeOK, Shape
<1>2. PICK kk : RecordsOf(kk, committed, wrap, logTable, txCount)
  BY DEF Recorded
<1>3. Distinct(committed) /\ NoneLater(logTable, txCount)
  BY DEF Recorded
<1>4. CASE UNCHANGED vars
  BY <1>2, <1>3, <1>4 DEF vars, Recorded
<1>5. ASSUME NEW c \in Conns, Quiet(c) PROVE Recorded'
  <2>1. RecordsOf(kk, committed, wrap', logTable, txCount)
    BY <1>1, <1>2, <1>5, RecordsStay DEF Quiet, Alone
  <2> QED
    BY <1>3, <1>5, <2>1 DEF Quiet, Recorded
<1>6. ASSUME NEW c \in Conns, NEW r, Commits(c, r) PROVE Recorded'
  <2>1. RecordsOf(kk, committed', wrap', logTable, txCount)
    BY <1>1, <1>2, <1>6, RecordsGrow DEF Commits, Alone
  <2>2. Distinct(committed')
    BY <1>1, <1>3, <1>6, DistinctGrows DEF Commits
  <2> QED
    BY <1>3, <1>6, <2>1, <2>2 DEF Commits, Recorded
<1>7. ASSUME NEW c \in Conns, WriteTxRow(c) PROVE Recorded'
  <2> DEFINE v == [wrap[c] EXCEPT !.pc = "logRows", !.txId = txCount + 1]
  <2>1. /\ wrap'[c] = v /\ Alone(c) /\ wrap[c].pc = "txRow"
        /\ txCount' = txCount + 1 /\ UNCHANGED <<committed, logTable>>
    <3>1. Move(c, sql[c], v)
      BY <1>1, <1>7, Moves
    <3>2. wrap'[c] = v /\ Alone(c)
      BY <1>1, <3>1, Moved
    <3> QED
      BY <1>7, <3>2 DEF WriteTxRow
  <2>2. v.pc = "logRows" /\ v.txId = txCount + 1 /\ v.writing = wrap[c].writing
    BY <1>1 DEF WrapStates
  <2> HIDE DEF v
  <2>3. \E ll : RecordsOf(ll, committed, wrap', logTable, txCount + 1)
    BY <1>1, <1>2, <1>3, <2>1, <2>2, RecordOpens DEF Alone
  <2>4. NoneLater(logTable, txCount + 1)
    <3>1. \A i \in DOMAIN logTable : logTable[i] \in LogRows
      BY <1>1
    <3>2. \A i \in DOMAIN logTable : logTable[i].tx \in Nat
      BY <3>1 DEF LogRows
    <3> QED
      BY <1>1, <1>3, <3>2 DEF NoneLater
  <2> QED
    BY <1>3, <2>1, <2>3, <2>4 DEF Recorded
<1>8. ASSUME NEW c \in Conns, WriteLogRow(c) PROVE Recorded'
  <2> DEFINE w == wrap[c]
             v == RowTaken(w)
             row == [tx |-> w.txId, id |-> Head(w.writing).id, safe |-> Head(w.writing).safe]
  <2>1. /\ wrap'[c] = v /\ Alone(c) /\ w.pc = "logRows"
        /\ logTable' = Append(logTable, row) /\ UNCHANGED <<committed, txCount>>
    BY <1>1, <1>8, Moves, Moved DEF WriteLogRow
  <2>2. w \in WrapStates /\ w.writing \in Seq(Entries) /\ w.writing # <<>>
        /\ w.txId \in Nat \ {0}
    BY <1>1, <2>1 DEF WrapStates, Shape, Phases
  <2>3. row \in LogRows /\ row.tx = w.txId /\ row.id = Head(w.writing).id
    <3>1. Head(w.writing) \in Entries
      BY <2>2
    <3> QED
      BY <2>2, <3>1 DEF Entries, LogRows
  <2>4. \/ v.pc = "logRows" /\ v.txId = w.txId /\ v.writing = Tail(w.writing)
        \/ v.pc = "idle" /\ Tail(w.writing) = <<>>
    BY <2>1, <2>2 DEF RowTaken, Discarded, WrapStates
  <2>5. w.txId \in 1..txCount
    BY <1>2, <2>1 DEF RecordsOf, InWriting, WritesTo
  <2> HIDE DEF w, v, row
  <2>6. RecordsOf(kk, committed, wrap', Append(logTable, row), txCount)
    BY <1>1, <1>2, <2>1, <2>2, <2>3, <2>4, RowWritten DEF Alone, w
  <2>7. NoneLater(Append(logTable, row), txCount)
    <3> DEFINE n == Len(logTable)
               more == Append(logTable, row)
    <3>1. /\ \A i \in DOMAIN more : i \in DOMAIN logTable \/ i = n + 1
          /\ \A i \in DOMAIN logTable : more[i] = logTable[i]
          /\ more[n + 1] = row
      BY <1>1, <2>3
    <3>2. row.tx <= txCount
      BY <1>1, <2>3, <2>5
    <3> HIDE DEF n, more
    <3>3. NoneLater(more, txCount)
      BY <1>3, <3>1, <3>2 DEF NoneLater
    <3> QED
      BY <3>3 DEF more
  <2> QED
    BY <1>3, <2>1, <2>6, <2>7 DEF Recorded
<1> QED
  BY <1>1, <1>4, <1>5, <1>6, <1>7, <1>8, Kinds

(* And so does every step.                                                 *)
LEMMA LoggedNext == Logged /\ [Next]_vars => Logged'
<1> SUFFICES ASSUME Logged, [Next]_vars PROVE Logged'
  OBVIOUS
<1>1. NamesOnce' = NamesOnce /\ Undisturbed' = Undisturbed
  BY SettingFixed DEF NamesOnce, Undisturbed, Env
<1>2. Kept'
  BY KeptNext DEF Logged
<1>3. NamesOnce /\ Undisturbed => Recorded'
  BY RecordedNext DEF Logged
<1>4. NamesOnce => Recorded'
  BY <1>1, <1>3 DEF Recorded
<1> QED
  BY <1>1, <1>2, <1>4 DEF Logged

-----------------------------------------------------------------------------
(* What the records say, in the words of the properties.                   *)
LEMMA IdsSpelled ==
  ASSUME NEW rows \in Seq(LogRows), NEW stmts \in Seq(Entries), Spells(rows, <<>>, stmts)
  PROVE  Ids(rows) = Ids(stmts)
<1>1. Len(stmts) = Len(rows) + 0 /\ \A i \in DOMAIN rows : rows[i].id = stmts[i].id
  BY DEF Spells
<1>2. DOMAIN rows = DOMAIN stmts
  BY <1>1
<1> QED
  BY <1>1, <1>2 DEF Ids

(* Ids as a sequence of numbers.                                           *)
LEMMA IdsAre ==
  ASSUME NEW T, NEW q \in Seq(T), \A e \in T : e.id \in Nat
  PROVE  /\ Ids(q) \in Seq(Nat) /\ Len(Ids(q)) = Len(q)
         /\ \A i \in DOMAIN q : Ids(q)[i] = q[i].id
<1>1. \A i \in 1..Len(q) : q[i] \in T
  OBVIOUS
<1>2. Ids(q) = [i \in 1..Len(q) |-> q[i].id]
  BY DEF Ids
<1> QED
  BY <1>1, <1>2

(* Writing for a commit, a wrapper holds what is not in its record yet.    *)
LEMMA HeldInWriting ==
  ASSUME NEW k \in DOMAIN committed, NEW c, NEW t, logTable \in Seq(LogRows),
         committed[k].stmts \in Seq(Entries), wrap[c].writing \in Seq(Entries),
         NEW rows \in Seq(LogRows), Spells(rows, wrap[c].writing, committed[k].stmts),
         \/ rows = <<>>
         \/ rows = RowsIn(logTable, wrap[c].txId)
  PROVE  Held(k, c)
<1> DEFINE stmts == committed[k].stmts
           w == wrap[c]
           rest == w.writing
           n == Len(rows)
           m == Len(rest)
<1>1. /\ n \in Nat /\ m \in Nat /\ DOMAIN rows = 1..n /\ DOMAIN rest = 1..m
      /\ Len(stmts) = n + m /\ DOMAIN stmts = 1..(n + m)
      /\ \A i \in 1..n : rows[i].id = stmts[i].id
      /\ \A i \in 1..m : rest[i].id = stmts[n + i].id
  <2>1. /\ n \in Nat /\ DOMAIN rows = 1..n /\ m \in Nat /\ DOMAIN rest = 1..m
        /\ DOMAIN stmts = 1..Len(stmts)
    BY LenProperties
  <2>2. Len(stmts) = n + m
    BY DEF Spells
  <2>3. \A i \in DOMAIN rows : rows[i].id = stmts[i].id
    BY DEF Spells
  <2>4. \A i \in DOMAIN rest : rest[i].id = stmts[n + i].id
    BY DEF Spells
  <2> HIDE DEF n, m, stmts, rest
  <2> QED
    BY <2>1, <2>2, <2>3, <2>4
<1> SUFFICES ASSUME NEW e \in ToSet(stmts)
             PROVE  \/ e.id \in {f.id : f \in ToSet(rest)}
                    \/ e.id \in {logTable[i].id : i \in {j \in DOMAIN logTable :
                                                           logTable[j].tx = w.txId}}
  BY DEF Held
<1>2. PICK i \in 1..(n + m) : e = stmts[i]
  BY <1>1 DEF ToSet
<1> HIDE DEF n, m
<1>3. CASE i \in 1..n
  <2>1. rows = RowsIn(logTable, w.txId)
    BY <1>1, <1>3 DEF n
  <2>2. PICK j \in DOMAIN logTable : logTable[j].tx = w.txId /\ logTable[j] = rows[i]
    <3>1. \A h \in DOMAIN RowsIn(logTable, w.txId) :
            \E j \in DOMAIN logTable : /\ logTable[j].tx = w.txId
                                       /\ logTable[j] = RowsIn(logTable, w.txId)[h]
      BY RowsInAre, ZenonT(60)
    <3>2. i \in DOMAIN RowsIn(logTable, w.txId)
      BY <1>1, <1>3, <2>1
    <3> QED
      BY <2>1, <3>1, <3>2
  <2>3. e.id = logTable[j].id
    BY <1>1, <1>2, <1>3, <2>2
  <2> QED
    BY <2>2, <2>3
<1>4. CASE ~(i \in 1..n)
  <2>1. i - n \in 1..m /\ n + (i - n) = i
    BY <1>1, <1>4
  <2>2. rest[i - n].id = e.id /\ rest[i - n] \in ToSet(rest)
    BY <1>1, <1>2, <2>1 DEF ToSet
  <2> QED
    BY <2>2
<1> QED
  BY <1>3, <1>4

(* Every committed transaction is in the log as one record with its        *)
(* statements in order, or the wrapper still holds them to write.          *)
THEOREM EveryCommitLoggedHolds == Spec => [](NamesOnce => EveryCommitLogged)
<1>1. Logged => (NamesOnce => EveryCommitLogged)
  <2> SUFFICES ASSUME Logged, NamesOnce, Undisturbed, NEW k \in DOMAIN committed
               PROVE  \/ \E t \in 1..txCount : IsLoggedAs(k, t)
                      \/ Held(k, committed[k].conn)
    BY DEF EveryCommitLogged
  <2>1. PICK kk : RecordsOf(kk, committed, wrap, logTable, txCount)
    BY DEF Logged, Recorded
  <2>2. /\ logTable \in Seq(LogRows) /\ committed[k] \in Transactions
        /\ \A c \in Conns : wrap[c] \in WrapStates
    BY DEF Logged, Kept, Matched, Shaped, TypeOK
  <2>3. /\ committed[k].stmts \in Seq(Entries) /\ committed[k].conn \in Conns
        /\ \A c \in Conns : wrap[c].writing \in Seq(Entries)
    BY <2>2 DEF Transactions, WrapStates
  <2>4. CASE Awaits(committed, wrap[committed[k].conn], k)
    <3>1. <<>> \in Seq(LogRows)
      OBVIOUS
    <3> QED
      BY <2>2, <2>3, <2>4, <3>1, HeldInWriting DEF Awaits
  <2>5. ASSUME NEW t \in 1..txCount, kk[t] = k
        PROVE  IsLoggedAs(k, t) \/ Held(k, committed[k].conn)
    <3>1. RowsIn(logTable, t) \in Seq(LogRows)
      BY <2>2, RowsInAre
    <3>2. CASE \E c \in Conns : WritesTo(wrap[c], t)
      <4>1. PICK c \in Conns : WritesTo(wrap[c], t)
        BY <3>2
      <4>2. /\ committed[k].conn = c /\ wrap[c].txId = t
            /\ Spells(RowsIn(logTable, t), wrap[c].writing, committed[k].stmts)
        BY <2>1, <2>5, <4>1 DEF RecordsOf, InWriting, WritesTo
      <4> QED
        BY <2>2, <2>3, <3>1, <4>2, HeldInWriting
    <3>3. CASE Spells(RowsIn(logTable, t), <<>>, committed[k].stmts)
      BY <2>3, <3>1, <3>3, IdsSpelled DEF IsLoggedAs, RowsOf
    <3> QED
      BY <2>1, <2>5, <3>2, <3>3 DEF RecordsOf, Complete
  <2> QED
    BY <2>1, <2>4, <2>5 DEF RecordsOf, EachHasOne
<1> QED
  BY <1>1, LoggedInit, LoggedNext, PTL DEF Spec

(* A record with rows shows the commit it is about, and no other.          *)
LEMMA ShowsOne ==
  ASSUME logTable \in Seq(LogRows), committed \in Seq(Transactions), Distinct(committed),
         txCount \in Nat, NEW kk, RecordsOf(kk, committed, wrap, logTable, txCount),
         \A c \in Conns : wrap[c] \in WrapStates,
         NEW t \in 1..txCount, RowsOf(t) # <<>>, NEW k \in DOMAIN committed
  PROVE  Shows(t, k) <=> k = kk[t]
<1> DEFINE rows == RowsIn(logTable, t)
           Stmts(l) == committed[l].stmts
<1>1. kk[t] \in DOMAIN committed
  BY DEF RecordsOf, Ordered
<1>2. \A l \in DOMAIN committed : Stmts(l) \in Seq(Entries)
  <2>1. \A l \in DOMAIN committed : committed[l] \in Transactions
    OBVIOUS
  <2> QED
    BY <2>1 DEF Transactions
<1>3. rows \in Seq(LogRows) /\ rows # <<>> /\ RowsOf(t) = rows
  BY RowsInAre DEF RowsOf
<1>4. /\ Ids(rows) \in Seq(Nat) /\ Len(Ids(rows)) = Len(rows)
      /\ \A i \in DOMAIN rows : Ids(rows)[i] = rows[i].id
  <2>1. \A e \in LogRows : e.id \in Nat
    BY DEF LogRows
  <2> HIDE DEF rows
  <2> QED
    BY <1>3, <2>1, IdsAre
<1>5. ASSUME NEW l \in DOMAIN committed
      PROVE  /\ Ids(Stmts(l)) \in Seq(Nat) /\ Len(Ids(Stmts(l))) = Len(Stmts(l))
             /\ \A i \in DOMAIN Stmts(l) : Ids(Stmts(l))[i] = Stmts(l)[i].id
  <2>1. \A e \in Entries : e.id \in Nat
    BY DEF Entries
  <2> QED
    BY <1>2, <2>1, IdsAre
<1>6. PICK rest \in Seq(Entries) : Spells(rows, rest, Stmts(kk[t]))
  <2>1. CASE \E c \in Conns : WritesTo(wrap[c], t)
    <3>1. PICK c \in Conns : WritesTo(wrap[c], t)
      BY <2>1
    <3>2. Spells(rows, wrap[c].writing, Stmts(kk[t])) /\ wrap[c].writing \in Seq(Entries)
      BY <3>1 DEF RecordsOf, InWriting, WrapStates
    <3> QED
      BY <3>2
  <2>2. CASE Spells(rows, <<>>, Stmts(kk[t]))
    <3>1. <<>> \in Seq(Entries)
      OBVIOUS
    <3> QED
      BY <2>2, <3>1
  <2> QED
    BY <2>1, <2>2 DEF RecordsOf, Complete
<1> HIDE DEF rows, Stmts
<1>7. Len(rows) \in Nat /\ DOMAIN rows = 1..Len(rows) /\ Len(rows) >= 1
  BY <1>3
<1>8. /\ Len(Stmts(kk[t])) = Len(rows) + Len(rest)
      /\ \A i \in DOMAIN rows : rows[i].id = Stmts(kk[t])[i].id
  BY <1>6 DEF Spells
<1>9. ASSUME k = kk[t] PROVE Shows(t, k)
  <2> DEFINE p == Ids(rows)
             q == Ids(Stmts(k))
  <2>1. /\ p \in Seq(Nat) /\ q \in Seq(Nat) /\ Len(p) = Len(rows) /\ Len(p) <= Len(q)
        /\ Len(q) = Len(Stmts(k)) /\ Len(rest) \in Nat
    BY <1>4, <1>5, <1>7, <1>8, <1>9
  <2>2. DOMAIN Stmts(k) = 1..Len(Stmts(k))
    BY <1>2
  <2>3. \A i \in 1..Len(rows) : p[i] = q[i]
    <3> SUFFICES ASSUME NEW i \in 1..Len(rows) PROVE p[i] = q[i]
      OBVIOUS
    <3>1. i \in DOMAIN rows /\ i \in DOMAIN Stmts(k)
      BY <1>7, <2>1, <2>2
    <3> QED
      BY <1>4, <1>5, <1>8, <1>9, <3>1
  <2> HIDE DEF p, q
  <2>4. SubSeq(p, 1, Len(p)) = SubSeq(q, 1, Len(p))
    BY <2>1, <2>3
  <2>5. IsPrefix(p, q)
    BY <2>1, <2>4 DEF IsPrefix
  <2> QED
    BY <1>3, <2>5 DEF Shows, p, q, Stmts
<1>10. ASSUME Shows(t, k) PROVE k = kk[t]
  <2> DEFINE p == Ids(rows)
             q == Ids(Stmts(k))
  <2>1. IsPrefix(p, q)
    BY <1>3, <1>10 DEF Shows, Stmts
  <2>2. /\ p \in Seq(Nat) /\ q \in Seq(Nat) /\ Len(p) = Len(rows) /\ Len(q) = Len(Stmts(k))
    BY <1>4, <1>5
  <2> HIDE DEF p, q
  <2>3. Len(p) <= Len(q) /\ SubSeq(p, 1, Len(p)) = SubSeq(q, 1, Len(p))
    BY <2>1 DEF IsPrefix
  <2>4. p[1] = q[1] /\ Len(q) >= 1
    <3>1. SubSeq(p, 1, Len(p))[1] = p[1] /\ SubSeq(q, 1, Len(p))[1] = q[1]
      BY <1>7, <2>2, <2>3
    <3> QED
      BY <1>7, <2>2, <2>3, <3>1
  <2>5. /\ 1 \in DOMAIN rows /\ 1 \in DOMAIN Stmts(k) /\ 1 \in DOMAIN Stmts(kk[t])
    BY <1>1, <1>2, <1>7, <1>8, <2>2, <2>4
  <2>6. p[1] = rows[1].id /\ q[1] = Stmts(k)[1].id
    BY <1>4, <1>5, <2>5 DEF p, q
  <2>7. Has(Stmts(k), rows[1].id) /\ Has(Stmts(kk[t]), rows[1].id)
    BY <1>8, <2>4, <2>5, <2>6 DEF Has
  <2> QED
    BY <1>1, <2>7 DEF Distinct, Stmts
<1> QED
  BY <1>9, <1>10

(* Each record is the beginning of one committed transaction, no two show  *)
(* the same one, and a connection's records are in the order of its        *)
(* commits.                                                                *)
THEOREM LogFollowsCommitsHolds == Spec => [](NamesOnce => LogFollowsCommits)
<1>1. Logged => (NamesOnce => LogFollowsCommits)
  <2> SUFFICES ASSUME Logged, NamesOnce, Undisturbed, NEW t \in 1..txCount, RowsOf(t) # <<>>
               PROVE  \E k \in DOMAIN committed :
                        /\ Shows(t, k)
                        /\ \A u \in 1..txCount, l \in DOMAIN committed :
                             Shows(u, l) /\ committed[l].conn = committed[k].conn =>
                               (u < t <=> l < k)
    BY DEF LogFollowsCommits
  <2>1. PICK kk : RecordsOf(kk, committed, wrap, logTable, txCount)
    BY DEF Logged, Recorded
  <2>2. /\ logTable \in Seq(LogRows) /\ committed \in Seq(Transactions)
        /\ txCount \in Nat /\ Distinct(committed)
        /\ \A c \in Conns : wrap[c] \in WrapStates
    BY DEF Logged, Kept, Matched, Shaped, TypeOK, Recorded
  <2>3. /\ \A u \in 1..txCount : kk[u] \in DOMAIN committed
        /\ \A u, v \in 1..txCount :
             u < v /\ committed[kk[u]].conn = committed[kk[v]].conn => kk[u] < kk[v]
    BY <2>1 DEF RecordsOf, Ordered
  <2>4. Shows(t, kk[t])
    BY <2>1, <2>2, <2>3, ShowsOne
  <2>5. ASSUME NEW u \in 1..txCount, NEW l \in DOMAIN committed, Shows(u, l),
               committed[l].conn = committed[kk[t]].conn
        PROVE  u < t <=> l < kk[t]
    <3>1. l = kk[u]
      BY <2>1, <2>2, <2>5, ShowsOne DEF Shows
    <3>2. DOMAIN committed \subseteq Nat
      BY <2>2
    <3>3. kk[u] \in Nat /\ kk[t] \in Nat
      BY <2>3, <3>2
    <3>4. u < t => kk[u] < kk[t]
      BY <2>3, <2>5, <3>1
    <3>5. t < u => kk[t] < kk[u]
      BY <2>3, <2>5, <3>1
    <3>6. u < t \/ u = t \/ t < u
      OBVIOUS
    <3> QED
      BY <3>1, <3>3, <3>4, <3>5, <3>6
  <2> QED
    BY <2>3, <2>4, <2>5
<1> QED
  BY <1>1, LoggedInit, LoggedNext, PTL DEF Spec
=============================================================================
