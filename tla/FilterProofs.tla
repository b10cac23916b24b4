---------------------------- MODULE FilterProofs ----------------------------
(***************************************************************************)
(* Theorems about the filter in front of the scan, for any schema, any     *)
(* statements and a queue of any length.                                   *)
(***************************************************************************)
EXTENDS FilterSafety, FiniteSetTheorems, NumberInduction, TLAPS

-----------------------------------------------------------------------------
(* The walk over foreign-key actions stays within the schema's tables and  *)
(* columns, and a hidden DELETE is of whole rows.                          *)
Proper == {e \in WriteEvents : e.kind = "delete" => e.columns = {AllColumns}}
Walks == [work : Seq([event : Proper, depth : Nat]), visited : SUBSET Proper,
          events : SUBSET Proper, reads : SUBSET AllCells]

(* A function on 1..n is a sequence.                                       *)
LEMMA SeqByIndex ==
  ASSUME NEW S, NEW n \in Nat, NEW f, f = [i \in 1..n |-> f[i]],
         \A i \in 1..n : f[i] \in S
  PROVE  f \in Seq(S) /\ Len(f) = n
<1>1. f \in [1..n -> S]
  OBVIOUS
<1> QED
  BY <1>1

(* The cells of a column set of a table.                                   *)
LEMMA CellsType ==
  ASSUME NEW t \in Tables, NEW cs \in ColumnSets
  PROVE  Cells(t, cs) \in SUBSET AllCells
BY DEF Cells, AllCells, ColumnSets

(* What an edge can write: its table's rows, or the columns that refer.    *)
Gone(edge) == [table |-> edge.child, columns |-> {AllColumns}, kind |-> "delete"]
Changed(edge) == [table |-> edge.child, columns |-> edge.childColumns, kind |-> "update"]

(* One action writes one of these, or nothing.                             *)
LEMMA ChildEventsAre ==
  ASSUME NEW edge \in Edges, NEW event \in Proper
  PROVE  \/ ChildEvents(edge, event) = <<Gone(edge)>>
         \/ ChildEvents(edge, event) = <<Changed(edge)>>
         \/ ChildEvents(edge, event) = <<>>
<1> DEFINE action == ActionFor(edge, event)
           gone == [table |-> edge.child, columns |-> {AllColumns}, kind |-> "delete"]
           changed == [table |-> edge.child, columns |-> edge.childColumns, kind |-> "update"]
<1>1. CASE action = "CASCADE" /\ event.kind = "delete"
  <2>1. ChildEvents(edge, event) = <<gone>>
    BY <1>1 DEF ChildEvents
  <2> QED
    BY <2>1 DEF Gone
<1>2. CASE action \in {"SET NULL", "SET DEFAULT"} \/ (action = "CASCADE" /\ event.kind # "delete")
  <2>1. ChildEvents(edge, event) = <<changed>>
    BY <1>2 DEF ChildEvents
  <2> QED
    BY <2>1 DEF Changed
<1>3. CASE action \notin {"CASCADE", "SET NULL", "SET DEFAULT"}
  BY <1>3 DEF ChildEvents
<1> QED
  BY <1>1, <1>2, <1>3

(* And these are of the schema.                                            *)
LEMMA ChildEventsType ==
  ASSUME NEW edge \in Edges, NEW event \in Proper
  PROVE  ChildEvents(edge, event) \in Seq(Proper)
<1>1. edge.child \in Tables /\ edge.childColumns \in ColumnSets /\ {AllColumns} \in ColumnSets
  BY DEF Edges, ColumnSets
<1>2. Gone(edge) \in Proper /\ Changed(edge) \in Proper
  BY <1>1 DEF Proper, WriteEvents, Gone, Changed
<1>3. <<Gone(edge)>> \in Seq(Proper) /\ <<Changed(edge)>> \in Seq(Proper) /\ <<>> \in Seq(Proper)
  BY <1>2
<1> QED
  BY <1>3, ChildEventsAre

(* One round of the walk.                                                  *)
LEMMA StepType ==
  ASSUME NEW edges \in Seq(Edges), NEW run \in Walks
  PROVE  Step(edges, run) \in Walks
<1>1. CASE run.work = <<>>
  BY <1>1 DEF Step
<1>2. CASE run.work # <<>>
  <2> DEFINE first == Head(run.work)
             rest == Tail(run.work)
  <2>1. first \in [event : Proper, depth : Nat] /\ rest \in Seq([event : Proper, depth : Nat])
    <3> DEFINE Pending == [event : Proper, depth : Nat]
    <3>1. run.work \in Seq(Pending)
      BY DEF Walks
    <3> HIDE DEF Pending
    <3>2. Head(run.work) \in Pending /\ Tail(run.work) \in Seq(Pending)
      BY <1>2, <3>1
    <3> QED
      BY <3>2 DEF Pending
  <2>2. [run EXCEPT !.work = rest] \in Walks
    BY <2>1 DEF Walks
  <2>3. MarkUnknown(run) \in Walks
    <3> DEFINE all == {[table |-> t, columns |-> {AllColumns}, kind |-> "update"] : t \in Tables}
    <3>1. all \subseteq Proper
      BY DEF Proper, WriteEvents, ColumnSets
    <3>2. Tables \X {AllColumns} \subseteq AllCells
      BY DEF AllCells
    <3> HIDE DEF all
    <3>3. run.events \cup all \in SUBSET Proper
          /\ run.reads \cup (Tables \X {AllColumns}) \in SUBSET AllCells
      BY <3>1, <3>2 DEF Walks
    <3>4. <<>> \in Seq([event : Proper, depth : Nat])
      OBVIOUS
    <3>5. MarkUnknown(run) = [run EXCEPT !.work = <<>>, !.events = run.events \cup all,
                                         !.reads = run.reads \cup (Tables \X {AllColumns})]
      BY DEF MarkUnknown, all
    <3> QED
      BY <3>3, <3>4, <3>5 DEF Walks
  <2>4. Expand(edges, run) \in Walks
    <3> DEFINE hit == {i \in DOMAIN edges : Triggered(edges[i], first.event)}
               parts == [i \in DOMAIN edges |->
                           IF i \in hit THEN ChildEvents(edges[i], first.event) ELSE <<>>]
               found == FlattenSeq(parts)
               depth == first.depth + 1
               more == [i \in DOMAIN found |-> [event |-> found[i], depth |-> depth]]
               looked == UNION {Cells(edges[i].child, edges[i].childColumns) : i \in hit}
    <3>1. \A i \in DOMAIN edges : edges[i] \in Edges
      OBVIOUS
    <3>2. \A i \in DOMAIN edges : parts[i] \in Seq(Proper)
      <4> SUFFICES ASSUME NEW i \in DOMAIN edges PROVE parts[i] \in Seq(Proper)
        OBVIOUS
      <4>1. ChildEvents(edges[i], first.event) \in Seq(Proper)
        BY <2>1, <3>1, ChildEventsType
      <4> QED
        BY <4>1
    <3>3. parts \in Seq(Seq(Proper))
      <4>1. DOMAIN edges = 1..Len(edges) /\ Len(edges) \in Nat
        OBVIOUS
      <4>2. parts = [i \in 1..Len(edges) |-> parts[i]]
        BY <4>1
      <4> HIDE DEF parts
      <4> QED
        BY <3>2, <4>1, <4>2, SeqByIndex
    <3>4. found \in Seq(Proper)
      BY <3>3, FlattenType
    <3>5. looked \in SUBSET AllCells
      <4>1. \A i \in hit : Cells(edges[i].child, edges[i].childColumns) \in SUBSET AllCells
        BY <3>1, CellsType DEF Edges
      <4> QED
        BY <4>1
    <3> HIDE DEF hit, parts, found, looked
    <3>6. depth \in Nat
      BY <2>1
    <3>7. more \in Seq([event : Proper, depth : Nat]) /\ ToSet(found) \in SUBSET Proper
      <4>1. /\ DOMAIN found = 1..Len(found) /\ Len(found) \in Nat
            /\ \A i \in 1..Len(found) : found[i] \in Proper
        BY <3>4
      <4> HIDE DEF depth
      <4>2. /\ more = [i \in 1..Len(found) |-> more[i]]
            /\ \A i \in 1..Len(found) : more[i] \in [event : Proper, depth : Nat]
        BY <3>6, <4>1
      <4> HIDE DEF more
      <4>3. more \in Seq([event : Proper, depth : Nat])
        BY <4>1, <4>2, SeqByIndex
      <4> QED
        BY <4>1, <4>3 DEF ToSet
    <3> HIDE DEF more
    <3>8. /\ rest \o more \in Seq([event : Proper, depth : Nat])
          /\ run.visited \cup {first.event} \in SUBSET Proper
          /\ run.events \cup ToSet(found) \in SUBSET Proper
          /\ run.reads \cup looked \in SUBSET AllCells
      BY <2>1, <3>5, <3>7 DEF Walks
    <3>9. Expand(edges, run) = [work |-> rest \o more, visited |-> run.visited \cup {first.event},
                                events |-> run.events \cup ToSet(found),
                                reads |-> run.reads \cup looked]
      BY DEF Expand, more, found, parts, hit, looked
    <3> QED
      BY <3>8, <3>9 DEF Walks
  <2>5. \/ Step(edges, run) = MarkUnknown(run)
        \/ Step(edges, run) = [run EXCEPT !.work = rest]
        \/ Step(edges, run) = Expand(edges, run)
    BY <1>2 DEF Step
  <2> QED
    BY <2>2, <2>3, <2>4, <2>5
<1> QED
  BY <1>1, <1>2

(* The walk, round by round.                                               *)
Walking(runs, edges, event, n) ==
  runs = [i \in 0..n |-> IF i = 0 THEN Start(event) ELSE Step(edges, runs[i - 1])]

(* There is such a function for any number of rounds.                      *)
LEMMA WalkingExists ==
  ASSUME NEW edges, NEW event, NEW n \in Nat
  PROVE  \E runs : Walking(runs, edges, event, n)
<1> DEFINE H == {k \in 0..n : \E runs : Walking(runs, edges, event, k)}
<1>1. 0 \in H
  <2>1. Walking([i \in 0..0 |-> Start(event)], edges, event, 0)
    BY DEF Walking
  <2> QED
    BY <2>1
<1>2. ASSUME NEW k \in 0..n, k < n, k \in H PROVE k + 1 \in H
  <2>1. PICK runs : Walking(runs, edges, event, k)
    BY <1>2
  <2> DEFINE more == [i \in 0..(k + 1) |-> IF i = k + 1 THEN Step(edges, runs[k]) ELSE runs[i]]
  <2>2. Walking(more, edges, event, k + 1)
    BY <2>1 DEF Walking
  <2>3. k + 1 \in 0..n
    BY <1>2
  <2> QED
    BY <2>2, <2>3
<1> HIDE DEF H
<1>3. n \in H
  BY <1>1, <1>2, Induction
<1> QED
  BY <1>3 DEF H

(* The effects of a foreign-key walk are writes and reads of the schema.   *)
LEMMA CascadeEffectsType ==
  ASSUME NEW edges \in Seq(Edges), NEW event \in Proper
  PROVE  CascadeEffects(edges, event) \in Walks
<1> DEFINE n == Rounds(edges)
           it == CHOOSE f : Walking(f, edges, event, n)
           H == {k \in 0..n : it[k] \in Walks}
<1>1. n \in Nat
  <2>1. Len(edges) \in Nat
    OBVIOUS
  <2> QED
    BY <2>1 DEF Rounds
<1> HIDE DEF n
<1>2. Walking(it, edges, event, n)
  <2>1. \E f : Walking(f, edges, event, n)
    BY <1>1, WalkingExists
  <2> QED
    BY <2>1, Zenon
<1>3. CascadeEffects(edges, event) = it[n]
  BY DEF CascadeEffects, Repeat, Walking, n
<1> HIDE DEF it
<1>4. 0 \in H
  <2>1. Start(event) \in Walks
    BY DEF Start, Walks
  <2>2. it[0] = Start(event)
    BY <1>1, <1>2 DEF Walking
  <2> QED
    BY <1>1, <2>1, <2>2
<1>5. ASSUME NEW k \in 0..n, k < n, k \in H PROVE k + 1 \in H
  <2>1. k + 1 \in 0..n /\ k + 1 # 0 /\ (k + 1) - 1 = k
    BY <1>1, <1>5
  <2>2. it[k + 1] = Step(edges, it[k])
    BY <1>2, <2>1 DEF Walking
  <2>3. Step(edges, it[k]) \in Walks
    BY <1>5, StepType
  <2> QED
    BY <2>1, <2>2, <2>3
<1> HIDE DEF H
<1>6. \A k \in 0..n : k < n /\ k \in H => k + 1 \in H
  BY <1>5, Zenon
<1>7. n \in 0..n
  BY <1>1
<1>8. n \in H
  BY <1>1, <1>4, <1>6, <1>7, Induction, Zenon
<1> QED
  BY <1>3, <1>8 DEF H

-----------------------------------------------------------------------------
(* What the program knows of a statement: it is of the schema, and its     *)
(* writes are what it writes itself and through actions.                   *)
Described == [statement : Statements, events : SUBSET Proper, writes : SUBSET AllCells,
              reads : SUBSET AllCells, cascades : BOOLEAN]
Known == {m \in Described :
            /\ m.events # {} => m.cascades
            /\ Cells(m.statement.table, m.statement.columns) \subseteq m.writes
            /\ \A e \in m.events : Cells(e.table, e.columns) \subseteq m.writes
            /\ \A cell \in m.writes :
                  \E w \in OwnWrites(m) : cell \in Cells(w.table, w.columns)}
Summaries == [statements : Seq(Known), events : SUBSET Proper, writes : SUBSET AllCells,
              reads : SUBSET AllCells]

(* A transaction's metadata are those of its statements.                   *)
SumsUp(x) == LET ms == ToSet(x.statements)
             IN  /\ x.events = UNION {m.events : m \in ms}
                 /\ x.writes = UNION {m.writes : m \in ms}
                 /\ x.reads = UNION {m.reads : m \in ms}
ParsedWell == /\ schema \in Schemas /\ parsed \in [Transactions -> Summaries]
              /\ \A t \in Transactions : SumsUp(parsed[t])

(* The statements of the transactions are DML.                             *)
LEMMA StatementsAreDml == Statements \subseteq Dml
<1> SUFFICES ASSUME NEW t \in Transactions, NEW i \in DOMAIN StatementsOf[t]
             PROVE  StatementsOf[t][i] \in Dml
  BY DEF Statements, ToSet
<1>1. StatementsOf[t] \in Seq(Dml)
  BY StatementsAssumption
<1> QED
  BY <1>1

(* Parsing a statement.                                                    *)
LEMMA MetadataType ==
  ASSUME NEW edges \in Seq(Edges), NEW s \in Statements
  PROVE  Metadata(edges, s) \in Known
<1> DEFINE event == [table |-> s.table, columns |-> s.columns, kind |-> s.kind]
           hidden == IF s.kind = "insert" THEN [events |-> {}, reads |-> {}]
                     ELSE CascadeEffects(edges, event)
           own == Cells(s.table, s.columns)
           others == UNION {Cells(e.table, e.columns) : e \in hidden.events}
           m == Metadata(edges, s)
<1>1. s \in Dml
  BY StatementsAreDml
<1>2. hidden.events \in SUBSET Proper /\ hidden.reads \in SUBSET AllCells
  <2>1. CASE s.kind = "insert"
    BY <2>1
  <2>2. CASE s.kind # "insert"
    <3>1. event \in Proper
      BY <1>1, <2>2 DEF Dml, Proper, WriteEvents
    <3>2. CascadeEffects(edges, event) \in Walks
      BY <3>1, CascadeEffectsType
    <3> QED
      BY <2>2, <3>2 DEF Walks
  <2> QED
    BY <2>1, <2>2
<1>3. m = [statement |-> s, events |-> hidden.events, writes |-> own \cup others,
           reads |-> s.reads \cup hidden.reads,
           cascades |-> hidden.events # {} \/ hidden.reads # {}]
  BY DEF Metadata
<1> HIDE DEF hidden, m, event
<1>4. own \in SUBSET AllCells /\ others \in SUBSET AllCells
  <2>1. own \in SUBSET AllCells
    BY <1>1, CellsType DEF Dml
  <2>2. \A e \in hidden.events : Cells(e.table, e.columns) \in SUBSET AllCells
    BY <1>2, CellsType DEF Proper, WriteEvents
  <2> QED
    BY <2>1, <2>2
<1>5. s.reads \in SUBSET AllCells
  BY <1>1 DEF Dml
<1>6. /\ \A e \in hidden.events : Cells(e.table, e.columns) \subseteq others
      /\ \A cell \in others :
            \E e \in hidden.events : cell \in Cells(e.table, e.columns)
  OBVIOUS
<1> HIDE DEF own, others
<1>7. m \in Described
  BY <1>2, <1>3, <1>4, <1>5 DEF Described
<1>8. /\ m.events # {} => m.cascades
      /\ own \subseteq m.writes
      /\ \A e \in m.events : Cells(e.table, e.columns) \subseteq m.writes
  BY <1>3, <1>6
<1>9. m.statement = s
  BY <1>3
<1>10. ASSUME NEW cell \in m.writes
       PROVE  \E w \in OwnWrites(m) : cell \in Cells(w.table, w.columns)
  <2>1. CASE cell \in own
    <3>1. event \in OwnWrites(m) /\ event.table = s.table /\ event.columns = s.columns
      BY <1>9 DEF OwnWrites, event
    <3>2. cell \in Cells(event.table, event.columns)
      BY <2>1, <3>1 DEF own
    <3> QED
      BY <3>1, <3>2
  <2>2. CASE cell \in others
    <3>1. PICK e \in m.events : cell \in Cells(e.table, e.columns)
      BY <1>3, <1>6, <2>2
    <3> QED
      BY <3>1 DEF OwnWrites
  <2> QED
    BY <1>3, <1>10, <2>1, <2>2
<1> QED
  BY <1>7, <1>8, <1>9, <1>10 DEF Known, m, own

(* Parsing a transaction.                                                  *)
LEMMA TransactionMetadataType ==
  ASSUME NEW edges \in Seq(Edges), NEW ss \in Seq(Statements)
  PROVE  LET x == TransactionMetadata(edges, ss) IN x \in Summaries /\ SumsUp(x)
<1> DEFINE all == [i \in DOMAIN ss |-> Metadata(edges, ss[i])]
           es == UNION {all[i].events : i \in DOMAIN all}
           ws == UNION {all[i].writes : i \in DOMAIN all}
           rs == UNION {all[i].reads : i \in DOMAIN all}
           x == TransactionMetadata(edges, ss)
<1>1. x = [statements |-> all, events |-> es, writes |-> ws, reads |-> rs]
  BY DEF TransactionMetadata
<1>2. /\ DOMAIN ss = 1..Len(ss) /\ Len(ss) \in Nat /\ \A i \in DOMAIN ss : ss[i] \in Statements
  OBVIOUS
<1>3. \A i \in DOMAIN ss : all[i] \in Known
  BY <1>2, MetadataType
<1>4. all = [i \in 1..Len(ss) |-> all[i]]
  BY <1>2
<1> HIDE DEF all, x
<1>5. all \in Seq(Known) /\ DOMAIN all = 1..Len(ss)
  BY <1>2, <1>3, <1>4, SeqByIndex
<1>6. \A i \in DOMAIN all : all[i] \in Described
  BY <1>2, <1>3, <1>5 DEF Known
<1>7. es \in SUBSET Proper /\ ws \in SUBSET AllCells /\ rs \in SUBSET AllCells
  BY <1>6 DEF Described
<1>8. /\ es = UNION {m.events : m \in ToSet(all)}
      /\ ws = UNION {m.writes : m \in ToSet(all)}
      /\ rs = UNION {m.reads : m \in ToSet(all)}
  BY DEF ToSet
<1> HIDE DEF es, ws, rs
<1>9. x \in Summaries
  BY <1>1, <1>5, <1>7 DEF Summaries
<1>10. SumsUp(x)
  BY <1>1, <1>8 DEF SumsUp
<1> QED
  BY <1>9, <1>10 DEF x

(* Everything is parsed at the start and never again.                      *)
LEMMA ParsedWellInit == Init => ParsedWell
<1> SUFFICES ASSUME Init PROVE ParsedWell
  OBVIOUS
<1> DEFINE edges == ForeignKeysOf[schema]
           X(t) == TransactionMetadata(edges, StatementsOf[t])
<1>1. schema \in Schemas /\ parsed = [t \in Transactions |-> X(t)]
  BY DEF Init
<1>2. edges \in Seq(Edges)
  BY <1>1, SchemaAssumption
<1>3. ASSUME NEW t \in Transactions PROVE X(t) \in Summaries /\ SumsUp(X(t))
  <2>1. StatementsOf[t] \in Seq(Dml)
    BY StatementsAssumption
  <2>2. StatementsOf[t] = [i \in 1..Len(StatementsOf[t]) |-> StatementsOf[t][i]]
        /\ Len(StatementsOf[t]) \in Nat /\ DOMAIN StatementsOf[t] = 1..Len(StatementsOf[t])
    BY <2>1
  <2>3. \A i \in 1..Len(StatementsOf[t]) : StatementsOf[t][i] \in Statements
    BY <2>2 DEF Statements, ToSet
  <2>4. StatementsOf[t] \in Seq(Statements)
    BY <2>2, <2>3, SeqByIndex
  <2> QED
    BY <1>2, <2>4, TransactionMetadataType
<1> HIDE DEF X
<1> QED
  BY <1>1, <1>3 DEF ParsedWell

-----------------------------------------------------------------------------
(* What is counted is finite: a schema has finitely many writes.           *)
LEMMA ProperFinite == IsFiniteSet(Proper)
<1> DEFINE Kinds == {"update", "delete"}
           Names == ColumnNames \cup {AllColumns}
           All == (Tables \X SUBSET Names) \X Kinds
           f == [x \in All |-> [table |-> x[1][1], columns |-> x[1][2], kind |-> x[2]]]
<1>1. IsFiniteSet(All)
  <2>1. IsFiniteSet({AllColumns}) /\ IsFiniteSet({"update"})
    BY FS_Singleton
  <2>2. IsFiniteSet(Names)
    BY <2>1, FS_AddElement, SchemaAssumption
  <2>3. IsFiniteSet({"update"} \cup {"delete"})
    BY <2>1, FS_AddElement
  <2>4. Kinds = {"update"} \cup {"delete"}
    OBVIOUS
  <2>5. IsFiniteSet(Kinds)
    BY <2>3, <2>4
  <2>6. IsFiniteSet(SUBSET Names)
    BY <2>2, FS_SUBSET
  <2> HIDE DEF Names, Kinds
  <2>7. IsFiniteSet(Tables \X SUBSET Names)
    BY <2>6, FS_Product, SchemaAssumption
  <2> QED
    BY <2>5, <2>7, FS_Product
<1>2. f \in Surjection(All, WriteEvents)
  <2>1. f \in [All -> WriteEvents]
    BY DEF WriteEvents, ColumnSets
  <2>2. ASSUME NEW e \in WriteEvents PROVE \E x \in All : f[x] = e
    <3>1. <<<<e.table, e.columns>>, e.kind>> \in All
      BY DEF WriteEvents, ColumnSets
    <3>2. f[<<<<e.table, e.columns>>, e.kind>>] = e
      BY <3>1 DEF WriteEvents
    <3> QED
      BY <3>1, <3>2
  <2> HIDE DEF f, All
  <2> QED
    BY <2>1, <2>2 DEF Surjection
<1> HIDE DEF f, All
<1>3. IsFiniteSet(WriteEvents)
  BY <1>1, <1>2, FS_Surjection
<1>4. Proper \in SUBSET WriteEvents
  BY DEF Proper
<1> QED
  BY <1>3, <1>4, FS_Subset

(* The cells a statement counts under a counter.                           *)
CountsFor(m, k, cell) ==
  \/ \E e \in m.events : k \in CountersOf(e.kind) /\ cell \in Cells(e.table, e.columns)
  \/ k \in CountersOf(m.statement.kind)
     /\ cell \in Cells(m.statement.table, m.statement.columns)
  \/ k = "referenced" /\ cell \in m.reads
  \/ k = "omitted" /\ cell \in Cells(m.statement.table, OmittedKey(m.statement))

(* A finite set counts as a number, positive if it has a member.           *)
LEMMA SizeOf ==
  ASSUME NEW S, IsFiniteSet(S)
  PROVE  Cardinality(S) \in Nat /\ (Cardinality(S) > 0 <=> S # {})
<1>1. Cardinality(S) \in Nat
  BY FS_CardinalityType
<1>2. Cardinality(S) = 0 <=> S = {}
  BY FS_EmptySet
<1> QED
  BY <1>1, <1>2

(* A count is a number, and it is positive for these cells only.           *)
LEMMA CountIs ==
  ASSUME NEW m \in Known, NEW k \in Counters, NEW cell
  PROVE  Count(m, k, cell) \in Nat /\ (Count(m, k, cell) > 0 <=> CountsFor(m, k, cell))
<1> DEFINE s == m.statement
           Write(kind, cells) == k \in CountersOf(kind) /\ cell \in cells
           others == CASE k = "referenced" -> m.reads
                       [] k = "omitted" -> Cells(s.table, OmittedKey(s))
                       [] OTHER -> {}
           A == {e \in m.events : Write(e.kind, Cells(e.table, e.columns))}
           B == {h \in {s.kind} : Write(h, Cells(s.table, s.columns))}
           C == {cell} \cap others
<1>1. IsFiniteSet(A)
  <2>1. A \in SUBSET Proper
    BY DEF Known, Described
  <2> QED
    BY <2>1, ProperFinite, FS_Subset
<1>2. IsFiniteSet(B)
  <2>1. B \in SUBSET {s.kind}
    OBVIOUS
  <2>2. IsFiniteSet({s.kind})
    BY FS_Singleton
  <2> HIDE DEF B
  <2> QED
    BY <2>1, <2>2, FS_Subset
<1>3. IsFiniteSet(C)
  <2>1. C \in SUBSET {cell}
    OBVIOUS
  <2>2. IsFiniteSet({cell})
    BY FS_Singleton
  <2> HIDE DEF C
  <2> QED
    BY <2>1, <2>2, FS_Subset
<1>4. Count(m, k, cell) = Cardinality(A) + Cardinality(B) + Cardinality(C)
  BY DEF Count
<1>5. A # {} <=> \E e \in m.events : k \in CountersOf(e.kind) /\ cell \in Cells(e.table, e.columns)
  OBVIOUS
<1>6. B # {} <=> k \in CountersOf(s.kind) /\ cell \in Cells(s.table, s.columns)
  OBVIOUS
<1>7. C # {} <=> \/ k = "referenced" /\ cell \in m.reads
                 \/ k = "omitted" /\ cell \in Cells(s.table, OmittedKey(s))
  <2>1. CASE k = "referenced"
    BY <2>1
  <2>2. CASE k = "omitted"
    BY <2>2
  <2>3. CASE k # "referenced" /\ k # "omitted"
    BY <2>3
  <2> QED
    BY <2>1, <2>2, <2>3
<1> HIDE DEF A, B, C
<1>8. /\ Cardinality(A) \in Nat /\ (Cardinality(A) > 0 <=> A # {})
      /\ Cardinality(B) \in Nat /\ (Cardinality(B) > 0 <=> B # {})
      /\ Cardinality(C) \in Nat /\ (Cardinality(C) > 0 <=> C # {})
  BY <1>1, <1>2, <1>3, SizeOf
<1>9. CountsFor(m, k, cell) <=> A # {} \/ B # {} \/ C # {}
  BY <1>5, <1>6, <1>7 DEF CountsFor
<1> QED
  BY <1>4, <1>8, <1>9

(* The sum over a transaction's statements, one by one.                    *)
Summing(sums, all, k, cell, n) ==
  sums = [i \in 0..n |-> IF i = 0 THEN 0 ELSE sums[i - 1] + Count(all[i], k, cell)]

(* There is such a sum for any number of statements.                       *)
LEMMA SummingExists ==
  ASSUME NEW all, NEW k, NEW cell, NEW n \in Nat
  PROVE  \E sums : Summing(sums, all, k, cell, n)
<1> DEFINE H == {j \in 0..n : \E sums : Summing(sums, all, k, cell, j)}
<1>1. 0 \in H
  <2>1. Summing([i \in 0..0 |-> 0], all, k, cell, 0)
    BY DEF Summing
  <2> QED
    BY <2>1
<1>2. ASSUME NEW j \in 0..n, j < n, j \in H PROVE j + 1 \in H
  <2>1. PICK sums : Summing(sums, all, k, cell, j)
    BY <1>2
  <2> DEFINE more == [i \in 0..(j + 1) |-> IF i = j + 1 THEN sums[j] + Count(all[i], k, cell)
                                           ELSE sums[i]]
  <2>2. Summing(more, all, k, cell, j + 1)
    BY <2>1 DEF Summing
  <2>3. j + 1 \in 0..n
    BY <1>2
  <2> QED
    BY <2>2, <2>3
<1> HIDE DEF H
<1>3. n \in H
  BY <1>1, <1>2, Induction
<1> QED
  BY <1>3 DEF H

(* A tally is a number, positive if a statement of the transaction counts. *)
LEMMA TallyIs ==
  ASSUME ParsedWell, NEW t \in Transactions, NEW k \in Counters, NEW table, NEW c
  PROVE  /\ Tally(t, k, table, c) \in Nat
         /\ Tally(t, k, table, c) > 0 <=> \E m \in Parsed(t) : CountsFor(m, k, <<table, c>>)
<1> DEFINE all == parsed[t].statements
           n == Len(all)
           cell == <<table, c>>
           it == CHOOSE f : Summing(f, all, k, cell, n)
           Counting(i) == \E j \in 1..i : CountsFor(all[j], k, cell)
           H == {i \in 0..n : it[i] \in Nat /\ (it[i] > 0 <=> Counting(i))}
<1>1. all \in Seq(Known)
  BY DEF ParsedWell, Summaries
<1>2. n \in Nat /\ DOMAIN all = 1..n /\ \A i \in 1..n : all[i] \in Known
  BY <1>1
<1>3. Parsed(t) = {all[i] : i \in 1..n}
  BY <1>2 DEF Parsed, ToSet
<1> HIDE DEF n
<1>4. Summing(it, all, k, cell, n)
  <2>1. \E f : Summing(f, all, k, cell, n)
    BY <1>2, SummingExists
  <2> QED
    BY <2>1, Zenon
<1>5. Tally(t, k, table, c) = it[n]
  BY DEF Tally, Summing, n
<1> HIDE DEF it, all, cell
<1>6. 0 \in H
  <2>1. it[0] = 0
    BY <1>2, <1>4 DEF Summing
  <2>2. ~Counting(0)
    OBVIOUS
  <2> QED
    BY <1>2, <2>1, <2>2
<1>7. ASSUME NEW i \in 0..n, i < n, i \in H PROVE i + 1 \in H
  <2>1. i + 1 \in 0..n /\ i + 1 \in 1..n /\ i + 1 # 0 /\ (i + 1) - 1 = i
    BY <1>2, <1>7
  <2>2. it[i + 1] = it[i] + Count(all[i + 1], k, cell)
    BY <1>4, <2>1 DEF Summing
  <2>3. /\ Count(all[i + 1], k, cell) \in Nat
        /\ Count(all[i + 1], k, cell) > 0 <=> CountsFor(all[i + 1], k, cell)
    BY <1>2, <2>1, CountIs
  <2>4. it[i] \in Nat /\ (it[i] > 0 <=> Counting(i))
    BY <1>7
  <2>5. Counting(i + 1) <=> Counting(i) \/ CountsFor(all[i + 1], k, cell)
    BY <2>1
  <2> HIDE DEF Counting
  <2>6. it[i + 1] \in Nat /\ (it[i + 1] > 0 <=> Counting(i + 1))
    BY <2>2, <2>3, <2>4, <2>5
  <2> QED
    BY <2>1, <2>6
<1> HIDE DEF H
<1>8. \A i \in 0..n : i < n /\ i \in H => i + 1 \in H
  BY <1>7, Zenon
<1>9. n \in 0..n
  BY <1>2
<1>10. n \in H
  BY <1>2, <1>6, <1>8, <1>9, Induction, Zenon
<1> QED
  BY <1>3, <1>5, <1>10 DEF H, cell

-----------------------------------------------------------------------------
(* Indexes, and when two are equal.                                        *)
Names == ColumnNames \cup {AllColumns}
Indexes == [counts : [Counters -> [Tables -> [Names -> Nat]]], size : Nat]

(* They are if their counts are.                                           *)
LEMMA IndexEqual ==
  ASSUME NEW x \in Indexes, NEW y \in Indexes, x.size = y.size,
         \A k \in Counters, table \in Tables, c \in Names :
           x.counts[k][table][c] = y.counts[k][table][c]
  PROVE  x = y
<1>1. ASSUME NEW k \in Counters, NEW table \in Tables
      PROVE  x.counts[k][table] = y.counts[k][table]
  BY DEF Indexes
<1>2. ASSUME NEW k \in Counters PROVE x.counts[k] = y.counts[k]
  BY <1>1 DEF Indexes
<1>3. x.counts = y.counts
  BY <1>2 DEF Indexes
<1> QED
  BY <1>3 DEF Indexes

(* An index over nothing, with one transaction more, and with one less.    *)
LEMMA EmptyIndexIs ==
  /\ EmptyIndex \in Indexes /\ EmptyIndex.size = 0
  /\ \A k \in Counters, table \in Tables, c \in Names : EmptyIndex.counts[k][table][c] = 0
BY DEF EmptyIndex, ForEachCount, Indexes, Names

(* add_transaction                                                         *)
LEMMA AddIs ==
  ASSUME ParsedWell, NEW x \in Indexes, NEW t \in Transactions
  PROVE  /\ AddTransaction(x, t) \in Indexes /\ AddTransaction(x, t).size = x.size + 1
         /\ \A k \in Counters, table \in Tables, c \in Names :
              AddTransaction(x, t).counts[k][table][c] =
                x.counts[k][table][c] + Tally(t, k, table, c)
<1> DEFINE n(k, table, c) == x.counts[k][table][c] + Tally(t, k, table, c)
           more == [k \in Counters |-> [table \in Tables |-> [c \in Names |-> n(k, table, c)]]]
<1>1. ASSUME NEW k \in Counters, NEW table \in Tables, NEW c \in Names
      PROVE  n(k, table, c) \in Nat
  <2>1. x.counts[k][table][c] \in Nat
    BY DEF Indexes
  <2>2. Tally(t, k, table, c) \in Nat
    BY TallyIs
  <2> QED
    BY <2>1, <2>2
<1>2. AddTransaction(x, t) = [counts |-> more, size |-> x.size + 1]
  BY DEF AddTransaction, ForEachCount, Names
<1> HIDE DEF n
<1>3. more \in [Counters -> [Tables -> [Names -> Nat]]]
  BY <1>1
<1>4. x.size + 1 \in Nat
  BY DEF Indexes
<1>5. \A k \in Counters, table \in Tables, c \in Names : more[k][table][c] = n(k, table, c)
  OBVIOUS
<1> HIDE DEF more
<1> QED
  BY <1>2, <1>3, <1>4, <1>5 DEF Indexes, n

(* remove_transaction takes back what add_transaction did.                 *)
LEMMA RemoveAdded ==
  ASSUME ParsedWell, NEW x \in Indexes, NEW t \in Transactions
  PROVE  RemoveTransaction(AddTransaction(x, t), t) = x
<1> DEFINE y == AddTransaction(x, t)
           n(k, table, c) == LET d == y.counts[k][table][c] - Tally(t, k, table, c)
                             IN  IF d <= 0 THEN 0 ELSE d
           less == [k \in Counters |-> [table \in Tables |-> [c \in Names |-> n(k, table, c)]]]
           z == RemoveTransaction(y, t)
<1>1. /\ y.size = x.size + 1
      /\ \A k \in Counters, table \in Tables, c \in Names :
           y.counts[k][table][c] = x.counts[k][table][c] + Tally(t, k, table, c)
  BY AddIs
<1>2. z = [counts |-> less, size |-> y.size - 1]
  BY DEF RemoveTransaction, ForEachCount, Names
<1> HIDE DEF y, z
<1>3. ASSUME NEW k \in Counters, NEW table \in Tables, NEW c \in Names
      PROVE  n(k, table, c) = x.counts[k][table][c] /\ n(k, table, c) \in Nat
  <2>1. x.counts[k][table][c] \in Nat
    BY DEF Indexes
  <2>2. Tally(t, k, table, c) \in Nat
    BY TallyIs
  <2>3. y.counts[k][table][c] = x.counts[k][table][c] + Tally(t, k, table, c)
    BY <1>1
  <2> QED
    BY <2>1, <2>2, <2>3
<1> HIDE DEF n
<1>4. less \in [Counters -> [Tables -> [Names -> Nat]]]
  BY <1>3
<1>5. \A k \in Counters, table \in Tables, c \in Names :
        less[k][table][c] = x.counts[k][table][c]
  BY <1>3
<1> HIDE DEF less
<1>6. z \in Indexes /\ z.size = x.size
  BY <1>1, <1>2, <1>4 DEF Indexes
<1>7. z = x
  BY <1>2, <1>5, <1>6, IndexEqual
<1> QED
  BY <1>7 DEF y, z

(* The order in which transactions are added does not show.                *)
LEMMA AddCommutes ==
  ASSUME ParsedWell, NEW x \in Indexes, NEW t \in Transactions, NEW u \in Transactions
  PROVE  AddTransaction(AddTransaction(x, t), u) = AddTransaction(AddTransaction(x, u), t)
<1> DEFINE xt == AddTransaction(x, t)
           xu == AddTransaction(x, u)
           y == AddTransaction(xt, u)
           z == AddTransaction(xu, t)
<1>1. /\ xt \in Indexes /\ xt.size = x.size + 1
      /\ \A k \in Counters, table \in Tables, c \in Names :
           xt.counts[k][table][c] = x.counts[k][table][c] + Tally(t, k, table, c)
  BY AddIs
<1>2. /\ xu \in Indexes /\ xu.size = x.size + 1
      /\ \A k \in Counters, table \in Tables, c \in Names :
           xu.counts[k][table][c] = x.counts[k][table][c] + Tally(u, k, table, c)
  BY AddIs
<1> HIDE DEF xt, xu
<1>3. /\ y \in Indexes /\ y.size = xt.size + 1
      /\ \A k \in Counters, table \in Tables, c \in Names :
           y.counts[k][table][c] = xt.counts[k][table][c] + Tally(u, k, table, c)
  BY <1>1, AddIs
<1>4. /\ z \in Indexes /\ z.size = xu.size + 1
      /\ \A k \in Counters, table \in Tables, c \in Names :
           z.counts[k][table][c] = xu.counts[k][table][c] + Tally(t, k, table, c)
  BY <1>2, AddIs
<1> HIDE DEF y, z
<1>5. ASSUME NEW k \in Counters, NEW table \in Tables, NEW c \in Names
      PROVE  y.counts[k][table][c] = z.counts[k][table][c]
  <2>1. x.counts[k][table][c] \in Nat
    BY DEF Indexes
  <2>2. Tally(t, k, table, c) \in Nat /\ Tally(u, k, table, c) \in Nat
    BY TallyIs
  <2> QED
    BY <1>1, <1>2, <1>3, <1>4, <2>1, <2>2
<1>6. y = z
  BY <1>1, <1>2, <1>3, <1>4, <1>5, IndexEqual
<1> QED
  BY <1>6 DEF xt, xu, y, z

-----------------------------------------------------------------------------
(* The index over a queue is built transaction by transaction.             *)
Building(built, q, n) ==
  built = [i \in 0..n |-> IF i = 0 THEN EmptyIndex ELSE AddTransaction(built[i - 1], q[i])]

(* There is such a function for a queue of any length.                     *)
LEMMA BuildingExists ==
  ASSUME NEW q, NEW n \in Nat
  PROVE  \E built : Building(built, q, n)
<1> DEFINE H == {j \in 0..n : \E built : Building(built, q, j)}
<1>1. 0 \in H
  <2>1. Building([i \in 0..0 |-> EmptyIndex], q, 0)
    BY DEF Building
  <2> QED
    BY <2>1
<1>2. ASSUME NEW j \in 0..n, j < n, j \in H PROVE j + 1 \in H
  <2>1. PICK built : Building(built, q, j)
    BY <1>2
  <2> DEFINE more == [i \in 0..(j + 1) |-> IF i = j + 1 THEN AddTransaction(built[j], q[i])
                                           ELSE built[i]]
  <2>2. Building(more, q, j + 1)
    BY <2>1 DEF Building
  <2>3. j + 1 \in 0..n
    BY <1>2
  <2> QED
    BY <2>2, <2>3
<1> HIDE DEF H
<1>3. n \in H
  BY <1>1, <1>2, Induction
<1> QED
  BY <1>3 DEF H

(* The indexes of the prefixes of a queue, the last one that of the queue. *)
Grown(built, q) ==
  /\ built[0] = EmptyIndex
  /\ \A i \in 1..Len(q) : built[i] = AddTransaction(built[i - 1], q[i])
  /\ \A i \in 0..Len(q) : built[i] \in Indexes /\ built[i].size = i
  /\ built[Len(q)] = IndexOf(q)

(* A queue of any length has them.                                         *)
LEMMA GrownExists ==
  ASSUME ParsedWell, NEW q \in Seq(Transactions)
  PROVE  \E built : Grown(built, q)
<1> DEFINE n == Len(q)
           it == CHOOSE f : Building(f, q, n)
           H == {i \in 0..n : it[i] \in Indexes /\ it[i].size = i}
<1>1. n \in Nat /\ \A i \in 1..n : q[i] \in Transactions
  OBVIOUS
<1> HIDE DEF n
<1>2. Building(it, q, n)
  <2>1. \E f : Building(f, q, n)
    BY <1>1, BuildingExists
  <2> QED
    BY <2>1, Zenon
<1>3. IndexOf(q) = it[n]
  BY DEF IndexOf, Building, n
<1> HIDE DEF it
<1>4. it[0] = EmptyIndex
  BY <1>1, <1>2 DEF Building
<1>5. \A i \in 1..n : it[i] = AddTransaction(it[i - 1], q[i])
  <2> SUFFICES ASSUME NEW i \in 1..n PROVE it[i] = AddTransaction(it[i - 1], q[i])
    OBVIOUS
  <2>1. i \in 0..n /\ i # 0
    BY <1>1
  <2> QED
    BY <1>2, <2>1 DEF Building
<1>6. 0 \in H
  BY <1>1, <1>4, EmptyIndexIs
<1>7. ASSUME NEW i \in 0..n, i < n, i \in H PROVE i + 1 \in H
  <2>1. i + 1 \in 1..n /\ i + 1 \in 0..n /\ (i + 1) - 1 = i
    BY <1>1, <1>7
  <2>2. it[i] \in Indexes /\ it[i].size = i /\ q[i + 1] \in Transactions
    BY <1>1, <1>7, <2>1
  <2>3. it[i + 1] = AddTransaction(it[i], q[i + 1])
    BY <1>5, <2>1
  <2>4. it[i + 1] \in Indexes /\ it[i + 1].size = i + 1
    BY <2>2, <2>3, AddIs
  <2> QED
    BY <2>1, <2>4
<1> HIDE DEF H
<1>8. \A i \in 0..n : i < n /\ i \in H => i + 1 \in H
  BY <1>7, Zenon
<1>9. \A i \in 0..n : i \in H
  BY <1>1, <1>6, <1>8, Induction, Zenon
<1>10. Grown(it, q)
  BY <1>3, <1>4, <1>5, <1>9 DEF H, Grown, n
<1> QED
  BY <1>10

(* The index of a queue is an index, of as many transactions.              *)
LEMMA IndexOfType ==
  ASSUME ParsedWell, NEW q \in Seq(Transactions)
  PROVE  IndexOf(q) \in Indexes /\ IndexOf(q).size = Len(q)
<1>1. PICK built : Grown(built, q)
  BY GrownExists
<1>2. Len(q) \in 0..Len(q)
  BY LenProperties
<1> QED
  BY <1>1, <1>2 DEF Grown

(* The index of a queue is that of the queue without one of its            *)
(* transactions, wherever it stood, and that transaction added.            *)
LEMMA IndexWithout ==
  ASSUME ParsedWell, NEW q \in Seq(Transactions), NEW i \in 1..Len(q)
  PROVE  IndexOf(q) = AddTransaction(IndexOf(RemoveAt(q, i)), q[i])
<1> DEFINE n == Len(q)
           r == RemoveAt(q, i)
<1>1. n \in Nat /\ i \in 1..n /\ \A k \in 1..n : q[k] \in Transactions
  OBVIOUS
<1>2. r \in Seq(Transactions)
  BY RemoveAtType
<1>3. Len(r) = n - 1 /\ \A k \in 1..(n - 1) : r[k] = IF k < i THEN q[k] ELSE q[k + 1]
  <2>1. DOMAIN r = 1..(n - 1) /\ \A k \in 1..(n - 1) : r[k] = IF k < i THEN q[k] ELSE q[k + 1]
    BY RemoveAtIndex
  <2>2. Len(r) = n - 1
    <3> HIDE DEF r, n
    <3>1. Len(r) \in Nat /\ DOMAIN r = 1..Len(r)
      BY <1>2, LenProperties
    <3>2. n - 1 \in Nat
      BY <1>1
    <3>3. 1..Len(r) = 1..(n - 1)
      BY <2>1, <3>1
    <3> QED
      BY <3>1, <3>2, <3>3
  <2> QED
    BY <2>1, <2>2
<1>4. PICK a : Grown(a, q)
  BY GrownExists
<1>5. PICK b : Grown(b, r)
  BY <1>2, GrownExists
<1>6. /\ a[0] = EmptyIndex /\ b[0] = EmptyIndex
      /\ \A k \in 1..n : a[k] = AddTransaction(a[k - 1], q[k])
      /\ \A k \in 1..(n - 1) : b[k] = AddTransaction(b[k - 1], r[k])
      /\ \A k \in 0..(n - 1) : b[k] \in Indexes
      /\ a[n] = IndexOf(q) /\ b[n - 1] = IndexOf(r)
  BY <1>3, <1>4, <1>5 DEF Grown
<1> HIDE DEF n, r
<1>7. a[i - 1] = b[i - 1]
  <2> DEFINE H == {k \in 0..(i - 1) : a[k] = b[k]}
             last == i - 1
  <2>1. 0 \in H
    BY <1>1, <1>6
  <2>2. ASSUME NEW k \in 0..last, k < last, k \in H PROVE k + 1 \in H
    <3>1. /\ k + 1 \in 1..n /\ k + 1 \in 1..(n - 1) /\ (k + 1) - 1 = k
          /\ k + 1 < i /\ k + 1 \in 0..(i - 1)
      BY <1>1, <2>2
    <3>2. a[k + 1] = AddTransaction(a[k], q[k + 1]) /\ b[k + 1] = AddTransaction(b[k], r[k + 1])
      BY <1>6, <3>1
    <3>3. r[k + 1] = q[k + 1] /\ a[k] = b[k]
      BY <1>3, <2>2, <3>1
    <3> QED
      BY <3>1, <3>2, <3>3
  <2>3. last \in Nat /\ last \in 0..last
    BY <1>1
  <2> HIDE DEF H, last
  <2>4. \A k \in 0..last : k < last /\ k \in H => k + 1 \in H
    BY <2>2, Zenon
  <2>5. last \in H
    BY <2>1, <2>3, <2>4, Induction, Zenon
  <2> QED
    BY <2>5 DEF H, last
<1>8. a[n] = AddTransaction(b[n - 1], q[i])
  <2> DEFINE rest == n - i
             H == {j \in 0..rest : a[i + j] = AddTransaction(b[(i + j) - 1], q[i])}
  <2>1. rest \in Nat /\ rest \in 0..rest /\ 0 \in 0..rest
    BY <1>1
  <2>2. 0 \in H
    <3>1. i + 0 = i /\ i \in 1..n
      BY <1>1
    <3>2. a[i] = AddTransaction(a[i - 1], q[i])
      BY <1>6, <3>1
    <3> QED
      BY <1>7, <2>1, <3>1, <3>2
  <2>3. ASSUME NEW j \in 0..rest, j < rest, j \in H PROVE j + 1 \in H
    <3> DEFINE k == i + j
    <3>1. /\ k \in 1..(n - 1) /\ k + 1 \in 1..n /\ (k + 1) - 1 = k /\ ~(k < i)
          /\ i + (j + 1) = k + 1 /\ j + 1 \in 0..rest /\ k - 1 \in 0..(n - 1)
      BY <1>1, <2>3
    <3>2. a[k] = AddTransaction(b[k - 1], q[i])
      BY <2>3
    <3> HIDE DEF k
    <3>3. a[k + 1] = AddTransaction(a[k], q[k + 1])
      BY <1>6, <3>1
    <3>4. b[k] = AddTransaction(b[k - 1], q[k + 1])
      BY <1>3, <1>6, <3>1
    <3>5. /\ b[k - 1] \in Indexes /\ q[i] \in Transactions /\ q[k + 1] \in Transactions
      BY <1>1, <1>6, <3>1
    <3>6. AddTransaction(AddTransaction(b[k - 1], q[i]), q[k + 1])
            = AddTransaction(AddTransaction(b[k - 1], q[k + 1]), q[i])
      BY <3>5, AddCommutes
    <3>7. a[k + 1] = AddTransaction(b[(k + 1) - 1], q[i])
      BY <3>1, <3>2, <3>3, <3>4, <3>6
    <3> QED
      BY <3>1, <3>7
  <2>4. i + rest = n
    BY <1>1
  <2> HIDE DEF H, rest
  <2>5. \A j \in 0..rest : j < rest /\ j \in H => j + 1 \in H
    BY <2>3, Zenon
  <2>6. rest \in H
    BY <2>1, <2>2, <2>5, Induction, Zenon
  <2> QED
    BY <2>4, <2>6 DEF H
<1> QED
  BY <1>6, <1>8 DEF r

-----------------------------------------------------------------------------
(* Type correctness, and the index that follows its queue.                 *)

(* The queue holds transactions, and its index is that of what it holds.   *)
FilterInv == /\ ParsedWell
             /\ queue \in Seq(Transactions) /\ Len(queue) <= MaxQueue
             /\ IndexFollowsQueue

(* At the start both are fresh.                                            *)
LEMMA FilterInvInit == Init => FilterInv
<1> SUFFICES ASSUME Init PROVE FilterInv
  OBVIOUS
<1>1. ParsedWell
  BY ParsedWellInit
<1>2. PICK n \in 0..MaxQueue : queue \in [1..n -> Transactions]
  BY DEF Init
<1>3. n \in Nat /\ n <= MaxQueue
  BY StatementsAssumption
<1>4. queue \in Seq(Transactions) /\ Len(queue) <= MaxQueue
  BY <1>2, <1>3
<1>5. IndexFollowsQueue
  BY DEF Init, IndexFollowsQueue
<1> QED
  BY <1>1, <1>4, <1>5 DEF FilterInv

(* Deleting a transaction takes it out of the queue and of the index.      *)
LEMMA IndexAfterRemoval ==
  ASSUME FilterInv, NEW i \in 1..Len(queue)
  PROVE  /\ RemoveAt(queue, i) \in Seq(Transactions)
         /\ Len(RemoveAt(queue, i)) = Len(queue) - 1
         /\ RemoveTransaction(index, queue[i]) = IndexOf(RemoveAt(queue, i))
<1> DEFINE r == RemoveAt(queue, i)
           n == Len(queue)
<1>1. ParsedWell /\ queue \in Seq(Transactions) /\ index = IndexOf(queue)
  BY DEF FilterInv, IndexFollowsQueue
<1>2. n \in Nat /\ i \in 1..n /\ queue[i] \in Transactions
  BY <1>1
<1>3. r \in Seq(Transactions) /\ DOMAIN r = 1..(n - 1)
  BY <1>1, RemoveAtType, RemoveAtIndex
<1>4. index = AddTransaction(IndexOf(r), queue[i])
  BY <1>1, IndexWithout
<1> HIDE DEF r, n
<1>5. IndexOf(r) \in Indexes
  BY <1>1, <1>3, IndexOfType
<1>6. Len(r) = n - 1
  <2>1. Len(r) \in Nat /\ 1..Len(r) = 1..(n - 1) /\ n - 1 \in Nat
    BY <1>2, <1>3, LenProperties
  <2> QED
    BY <2>1
<1>7. RemoveTransaction(index, queue[i]) = IndexOf(r)
  BY <1>1, <1>2, <1>4, <1>5, RemoveAdded
<1> QED
  BY <1>3, <1>6, <1>7 DEF r, n

(* _replace_or_delete_transaction and the scan keep the index right.       *)
LEMMA FilterInvStep == FilterInv /\ [Next]_vars => FilterInv'
<1> SUFFICES ASSUME FilterInv, [Next]_vars PROVE FilterInv'
  OBVIOUS
<1> USE DEF FilterInv
<1>1. Len(queue) \in Nat /\ DOMAIN queue = 1..Len(queue) /\ MaxQueue \in Nat
  BY StatementsAssumption
<1>2. ASSUME UNCHANGED <<schema, parsed>> PROVE ParsedWell'
  BY <1>2 DEF ParsedWell, SumsUp
<1>3. ASSUME UNCHANGED <<schema, parsed>>, NEW q PROVE IndexOf(q)' = IndexOf(q)
  <2>1. ASSUME NEW t, NEW k, NEW table, NEW c
        PROVE  Tally(t, k, table, c)' = Tally(t, k, table, c)
    <3> DEFINE It(all) == CHOOSE f : Summing(f, all, k, <<table, c>>, Len(all))
    <3>1. Tally(t, k, table, c) = It(parsed[t].statements)[Len(parsed[t].statements)]
      BY DEF Tally, Summing
    <3>2. Tally(t, k, table, c)' = It(parsed'[t].statements)[Len(parsed'[t].statements)]
      BY DEF Tally, Summing
    <3> HIDE DEF It
    <3>3. parsed' = parsed
      BY <1>3
    <3> QED
      BY <3>1, <3>2, <3>3
  <2>2. ASSUME NEW x, NEW t PROVE AddTransaction(x, t)' = AddTransaction(x, t)
    BY <2>1 DEF AddTransaction, ForEachCount
  <2>3. ASSUME NEW f PROVE Building(f, q, Len(q))' <=> Building(f, q, Len(q))
    BY <2>2 DEF Building
  <2>4. (CHOOSE f : Building(f, q, Len(q)))' = CHOOSE f : Building(f, q, Len(q))
    BY <2>3, Zenon
  <2>5. IndexOf(q) = (CHOOSE f : Building(f, q, Len(q)))[Len(q)]
    BY DEF IndexOf, Building
  <2>6. IndexOf(q)' = (CHOOSE f : Building(f, q, Len(q)))'[Len(q)]
    BY DEF IndexOf, Building
  <2> QED
    BY <2>4, <2>5, <2>6
<1>4. ASSUME NEW i \in DOMAIN queue, Delete(i) PROVE FilterInv'
  <2>1. /\ index' = RemoveTransaction(index, queue[i]) /\ queue' = RemoveAt(queue, i)
        /\ UNCHANGED <<schema, parsed>>
    BY <1>4 DEF Delete
  <2>2. /\ queue' \in Seq(Transactions) /\ Len(queue') = Len(queue) - 1
        /\ index' = IndexOf(RemoveAt(queue, i))
    BY <1>1, <2>1, IndexAfterRemoval
  <2>3. IndexFollowsQueue'
    BY <1>3, <2>1, <2>2 DEF IndexFollowsQueue
  <2>4. Len(queue') <= MaxQueue
    BY <1>1, <2>2
  <2> QED
    BY <1>2, <2>1, <2>2, <2>3, <2>4
<1>5. ASSUME NEW i \in DOMAIN queue, NEW t \in Transactions, Replace(i, t) PROVE FilterInv'
  <2> DEFINE q == [queue EXCEPT ![i] = t]
  <2>1. /\ index' = AddTransaction(RemoveTransaction(index, queue[i]), t) /\ queue' = q
        /\ UNCHANGED <<schema, parsed>>
    BY <1>5 DEF Replace
  <2>2. q \in Seq(Transactions) /\ Len(q) = Len(queue) /\ q[i] = t
    OBVIOUS
  <2>3. RemoveAt(q, i) = RemoveAt(queue, i)
    <3> DEFINE n == Len(queue)
    <3>1. SubSeq(q, 1, i - 1) = SubSeq(queue, 1, i - 1)
      OBVIOUS
    <3>2. SubSeq(q, i + 1, n) = SubSeq(queue, i + 1, n)
      OBVIOUS
    <3> HIDE DEF q
    <3> QED
      BY <2>2, <3>1, <3>2 DEF RemoveAt
  <2> HIDE DEF q
  <2>4. IndexOf(q) = AddTransaction(IndexOf(RemoveAt(q, i)), q[i])
    BY <1>1, <2>2, IndexWithout
  <2>5. RemoveTransaction(index, queue[i]) = IndexOf(RemoveAt(queue, i))
    BY <1>1, IndexAfterRemoval
  <2>6. index' = IndexOf(q)
    BY <2>1, <2>2, <2>3, <2>4, <2>5
  <2>7. IndexFollowsQueue'
    BY <1>3, <2>1, <2>6 DEF IndexFollowsQueue
  <2> QED
    BY <1>2, <2>1, <2>2, <2>7
<1>6. ASSUME PopHead PROVE FilterInv'
  <2>1. /\ queue # <<>> /\ index' = RemoveTransaction(index, Head(queue))
        /\ queue' = Tail(queue) /\ UNCHANGED <<schema, parsed>>
    BY <1>6 DEF PopHead
  <2>2. 1 \in 1..Len(queue) /\ Head(queue) = queue[1] /\ Tail(queue) = RemoveAt(queue, 1)
    <3>1. 1 \in 1..Len(queue) /\ Head(queue) = queue[1]
      BY <1>1, <2>1
    <3>2. SubSeq(queue, 1, 1 - 1) = <<>>
      OBVIOUS
    <3>3. Tail(queue) = <<>> \o SubSeq(queue, 1 + 1, Len(queue))
      BY <1>1, <2>1
    <3> QED
      BY <3>1, <3>2, <3>3 DEF RemoveAt
  <2>3. /\ queue' \in Seq(Transactions) /\ Len(queue') = Len(queue) - 1
        /\ index' = IndexOf(RemoveAt(queue, 1))
    BY <2>1, <2>2, IndexAfterRemoval
  <2>4. IndexFollowsQueue'
    BY <1>3, <2>1, <2>2, <2>3 DEF IndexFollowsQueue
  <2>5. Len(queue') <= MaxQueue
    BY <1>1, <2>3
  <2> QED
    BY <1>2, <2>1, <2>3, <2>4, <2>5
<1>7. ASSUME UNCHANGED vars PROVE FilterInv'
  <2>1. UNCHANGED <<schema, parsed>> /\ queue' = queue /\ index' = index
    BY <1>7 DEF vars
  <2>2. IndexFollowsQueue'
    BY <1>3, <2>1 DEF IndexFollowsQueue
  <2> QED
    BY <1>2, <2>1, <2>2
<1> QED
  BY <1>4, <1>5, <1>6, <1>7 DEF Next

(* The invariant holds of every run.                                       *)
LEMMA FilterInvHolds == Spec => []FilterInv
BY FilterInvInit, FilterInvStep, PTL DEF Spec

(* Whatever is edited, deleted or accepted, the counters are those of a    *)
(* fresh index of the queue: add_transaction and remove_transaction        *)
(* balance in every order of calls.                                        *)
THEOREM IndexFollowsQueueHolds == Spec => []IndexFollowsQueue
<1>1. FilterInv => IndexFollowsQueue
  BY DEF FilterInv
<1> QED
  BY <1>1, FilterInvHolds, PTL

(* Metadata, queue and counters keep their types; no counter is negative.  *)
THEOREM FilterTypeCorrect == Spec => []TypeOK
<1>1. ASSUME FilterInv PROVE TypeOK
  <2> DEFINE Shape == [statement : Statements, events : SUBSET WriteEvents,
                       writes : SUBSET AllCells, reads : SUBSET AllCells, cascades : BOOLEAN]
             Whole == [statements : Seq(Shape), events : SUBSET WriteEvents,
                       writes : SUBSET AllCells, reads : SUBSET AllCells]
  <2>1. ParsedWell /\ queue \in Seq(Transactions) /\ Len(queue) <= MaxQueue
        /\ index = IndexOf(queue)
    BY <1>1 DEF FilterInv, IndexFollowsQueue
  <2>2. index \in Indexes
    BY <2>1, IndexOfType
  <2>3. Known \subseteq Shape
    BY DEF Known, Described, Proper
  <2>4. ASSUME NEW t \in Transactions PROVE parsed[t] \in Whole
    <3>1. parsed[t] \in Summaries
      BY <2>1 DEF ParsedWell
    <3> DEFINE ms == parsed[t].statements
    <3>2. ms \in Seq(Known)
      BY <3>1 DEF Summaries
    <3>3. /\ Len(ms) \in Nat /\ ms = [j \in 1..Len(ms) |-> ms[j]]
          /\ \A j \in 1..Len(ms) : ms[j] \in Known
      BY <3>2
    <3> HIDE DEF ms, Shape
    <3>4. \A j \in 1..Len(ms) : ms[j] \in Shape
      BY <2>3, <3>3
    <3>5. ms \in Seq(Shape)
      BY <3>3, <3>4, SeqByIndex
    <3> QED
      BY <3>1, <3>5 DEF Summaries, Proper, ms
  <2> HIDE DEF Whole
  <2>5. parsed \in [Transactions -> Whole] /\ schema \in Schemas
    BY <2>1, <2>4 DEF ParsedWell
  <2> QED
    BY <2>1, <2>2, <2>5 DEF TypeOK, Indexes, Names, Whole, Shape
<1> QED
  BY <1>1, FilterInvHolds, PTL

-----------------------------------------------------------------------------
(* What the counters of a queue say: a cell is counted if a statement of a *)
(* queued transaction counts it.                                           *)

(* A transaction counts a cell if one of its statements does.              *)
Counts(t, k, table, c) == \E m \in Parsed(t) : CountsFor(m, k, <<table, c>>)

(* The counted columns of a table.                                         *)
LEMMA CountedIs ==
  ASSUME ParsedWell, NEW q \in Seq(Transactions), NEW k \in Counters, NEW table \in Tables
  PROVE  Counted(IndexOf(q), k, table) =
           {c \in Names : \E i \in 1..Len(q) : Counts(q[i], k, table, c)}
<1> SUFFICES ASSUME NEW c \in Names
             PROVE  IndexOf(q).counts[k][table][c] > 0
                      <=> \E i \in 1..Len(q) : Counts(q[i], k, table, c)
  BY DEF Counted, Names
<1> DEFINE n == Len(q)
           Some(i) == \E j \in 1..i : Counts(q[j], k, table, c)
<1>1. n \in Nat /\ \A i \in 1..n : q[i] \in Transactions
  OBVIOUS
<1>2. PICK built : Grown(built, q)
  BY GrownExists
<1> DEFINE H == {i \in 0..n : built[i].counts[k][table][c] > 0 <=> Some(i)}
<1>3. /\ built[0] = EmptyIndex /\ built[n] = IndexOf(q)
      /\ \A i \in 1..n : built[i] = AddTransaction(built[i - 1], q[i])
      /\ \A i \in 0..n : built[i] \in Indexes
  BY <1>2 DEF Grown
<1> HIDE DEF n
<1>4. 0 \in H
  <2>1. built[0].counts[k][table][c] = 0
    BY <1>3, EmptyIndexIs
  <2> QED
    BY <1>1, <2>1
<1>5. ASSUME NEW i \in 0..n, i < n, i \in H PROVE i + 1 \in H
  <2>1. i + 1 \in 1..n /\ i + 1 \in 0..n /\ (i + 1) - 1 = i
    BY <1>1, <1>5
  <2>2. built[i] \in Indexes /\ q[i + 1] \in Transactions
    BY <1>1, <1>3, <2>1
  <2>3. built[i + 1] = AddTransaction(built[i], q[i + 1])
    <3>1. built[i + 1] = AddTransaction(built[(i + 1) - 1], q[i + 1])
      BY <1>3, <2>1
    <3> QED
      BY <2>1, <3>1
  <2>4. built[i + 1].counts[k][table][c] =
          built[i].counts[k][table][c] + Tally(q[i + 1], k, table, c)
    <3>1. AddTransaction(built[i], q[i + 1]).counts[k][table][c] =
            built[i].counts[k][table][c] + Tally(q[i + 1], k, table, c)
      <4> PICK x \in Indexes : x = built[i]
        BY <2>2
      <4> PICK t \in Transactions : t = q[i + 1]
        BY <2>2
      <4>1. AddTransaction(x, t).counts[k][table][c] =
              x.counts[k][table][c] + Tally(t, k, table, c)
        BY AddIs
      <4> QED
        BY <4>1
    <3> QED
      BY <2>3, <3>1
  <2>5. built[i].counts[k][table][c] \in Nat
    BY <2>2 DEF Indexes
  <2>6. /\ Tally(q[i + 1], k, table, c) \in Nat
        /\ Tally(q[i + 1], k, table, c) > 0 <=> Counts(q[i + 1], k, table, c)
    BY <2>2, TallyIs DEF Counts
  <2>7. built[i].counts[k][table][c] > 0 <=> Some(i)
    BY <1>5
  <2>8. Some(i + 1) <=> Some(i) \/ Counts(q[i + 1], k, table, c)
    BY <1>1, <2>1
  <2> HIDE DEF Some
  <2>9. built[i + 1].counts[k][table][c] > 0 <=> Some(i + 1)
    BY <2>4, <2>5, <2>6, <2>7, <2>8
  <2> QED
    BY <2>1, <2>9
<1> HIDE DEF H
<1>6. \A i \in 0..n : i < n /\ i \in H => i + 1 \in H
  BY <1>5, Zenon
<1>7. n \in 0..n
  BY <1>1
<1>8. n \in H
  BY <1>1, <1>4, <1>6, <1>7, Induction, Zenon
<1> QED
  BY <1>3, <1>8 DEF H, n

(* What the queue counts, one of its transactions alone counts.            *)
LEMMA HasPairwise ==
  ASSUME ParsedWell, NEW q \in Seq(Transactions), NEW k \in Counters, NEW table \in Tables,
         NEW columns, Has(IndexOf(q), k, table, columns)
  PROVE  \E i \in 1..Len(q) : Has(IndexOf(<<q[i]>>), k, table, columns)
<1> DEFINE one(i) == Counted(IndexOf(<<q[i]>>), k, table)
           all == Counted(IndexOf(q), k, table)
<1>1. \A i \in 1..Len(q) : q[i] \in Transactions
  OBVIOUS
<1>2. all = {c \in Names : \E i \in 1..Len(q) : Counts(q[i], k, table, c)}
  BY CountedIs
<1>3. ASSUME NEW i \in 1..Len(q) PROVE one(i) = {c \in Names : Counts(q[i], k, table, c)}
  <2> DEFINE s == <<q[i]>>
  <2>1. s \in Seq(Transactions) /\ Len(s) = 1 /\ s[1] = q[i]
    BY <1>1
  <2>2. 1..Len(s) = {1}
    BY <2>1
  <2> HIDE DEF s
  <2>3. Counted(IndexOf(s), k, table) =
          {c \in Names : \E j \in 1..Len(s) : Counts(s[j], k, table, c)}
    BY <2>1, CountedIs
  <2> QED
    BY <2>1, <2>2, <2>3 DEF s
<1>4. all # {} /\ columns # {} /\ (AllColumns \in all \cup columns \/ all \cap columns # {})
  BY DEF Has, Overlap
<1>5. \A c \in all : \E i \in 1..Len(q) : c \in one(i)
  BY <1>2, <1>3
<1> HIDE DEF one, all
<1>6. \E i \in 1..Len(q) : Overlap(one(i), columns)
  <2>1. CASE AllColumns \in columns
    BY <1>4, <1>5, <2>1 DEF Overlap
  <2>2. CASE AllColumns \in all
    BY <1>4, <1>5, <2>2 DEF Overlap
  <2>3. CASE all \cap columns # {}
    BY <1>4, <1>5, <2>3 DEF Overlap
  <2> QED
    BY <1>4, <2>1, <2>2, <2>3
<1> QED
  BY <1>6 DEF Has, one

(* The parsed statements of a transaction are described.                   *)
LEMMA ParsedType ==
  ASSUME ParsedWell, NEW t \in Transactions
  PROVE  /\ Parsed(t) \subseteq Known
         /\ parsed[t].events = UNION {m.events : m \in Parsed(t)}
         /\ parsed[t].writes = UNION {m.writes : m \in Parsed(t)}
         /\ parsed[t].reads = UNION {m.reads : m \in Parsed(t)}
         /\ parsed[t].events \subseteq Proper
         /\ parsed[t].writes \subseteq AllCells /\ parsed[t].reads \subseteq AllCells
<1>1. parsed[t] \in Summaries /\ SumsUp(parsed[t])
  BY DEF ParsedWell
<1>2. parsed[t].statements \in Seq(Known)
  BY <1>1 DEF Summaries
<1>3. Parsed(t) \subseteq Known
  BY <1>2 DEF Parsed, ToSet
<1> QED
  BY <1>1, <1>3 DEF Summaries, SumsUp, Parsed

(* A statement of the schema.                                              *)
LEMMA StatementType ==
  ASSUME NEW m \in Known
  PROVE  /\ m.statement \in Dml /\ m.statement.table \in Tables
         /\ m.statement.columns \in ColumnSets
         /\ m.statement.kind \in {"insert", "update", "delete"}
         /\ m.statement.kind # "update" => m.statement.columns = {AllColumns}
<1>1. m.statement \in Dml
  BY StatementsAreDml DEF Known, Described
<1> QED
  BY <1>1 DEF Dml

(* Written tables are tables.                                              *)
LEMMA WrittenTablesType ==
  ASSUME ParsedWell, NEW t \in Transactions
  PROVE  WrittenTables(t) \subseteq Tables
<1>1. parsed[t].writes \subseteq AllCells
  BY ParsedType
<1> QED
  BY <1>1 DEF WrittenTables, AllCells

(* The foreign keys of the schema.                                        *)
LEMMA EdgeSetType ==
  ASSUME ParsedWell
  PROVE  EdgeSet \subseteq Edges
<1>1. ForeignKeysOf[schema] \in Seq(Edges)
  BY SchemaAssumption DEF ParsedWell
<1> QED
  BY <1>1 DEF EdgeSet, ToSet

(* A kind of conflict the index calls for, one transaction calls for.      *)
LEMMA KindsPairwise ==
  ASSUME ParsedWell, NEW q \in Seq(Transactions), NEW head \in Transactions
  PROVE  NeededKinds(head, IndexOf(q)) \subseteq
           UNION {NeededKinds(head, IndexOf(<<q[i]>>)) : i \in DOMAIN q}
<1> DEFINE x == IndexOf(q)
           y(i) == IndexOf(<<q[i]>>)
           I == 1..Len(q)
<1>1. DOMAIN q = I
  OBVIOUS
<1>2. ASSUME NEW k \in Counters, NEW table \in Tables, NEW columns, Has(x, k, table, columns)
      PROVE  \E i \in I : Has(y(i), k, table, columns)
  BY <1>2, HasPairwise
<1>3. \A i \in I : y(i).size = 1
  <2> SUFFICES ASSUME NEW i \in I PROVE y(i).size = 1
    OBVIOUS
  <2>1. <<q[i]>> \in Seq(Transactions) /\ Len(<<q[i]>>) = 1
    OBVIOUS
  <2> QED
    BY <2>1, IndexOfType
<1>4. Parsed(head) \subseteq Known /\ parsed[head].events \subseteq Proper
  BY ParsedType
<1>5. \A m \in Parsed(head) : m.statement.table \in Tables
  BY <1>4, StatementType
<1>6. \A e \in parsed[head].events : e.table \in Tables
  BY <1>4 DEF Proper, WriteEvents
<1>7. WrittenTables(head) \subseteq Tables
  BY WrittenTablesType
<1>8. \A e \in EdgeSet : e.child \in Tables /\ e.parent \in Tables
  BY EdgeSetType DEF Edges
<1> HIDE DEF x, y, I
<1>9. {"referenced", "writeWrite", "create", "remove", "update", "omitted"} \subseteq Counters
  BY DEF Counters
<1>10. ASSUME WriteWritePossible(head, x) PROVE \E i \in I : WriteWritePossible(head, y(i))
  <2>1. ASSUME NEW m \in Parsed(head), m.statement.kind = "update",
               Has(x, "writeWrite", m.statement.table, m.statement.columns)
        PROVE  \E i \in I : WriteWritePossible(head, y(i))
    <3>1. PICK i \in I : Has(y(i), "writeWrite", m.statement.table, m.statement.columns)
      BY <1>2, <1>5, <1>9, <2>1
    <3> QED
      BY <2>1, <3>1 DEF WriteWritePossible
  <2>2. ASSUME NEW m \in Parsed(head), m.statement.kind = "delete",
               Has(x, "update", m.statement.table, {AllColumns})
        PROVE  \E i \in I : WriteWritePossible(head, y(i))
    <3>1. PICK i \in I : Has(y(i), "update", m.statement.table, {AllColumns})
      BY <1>2, <1>5, <1>9, <2>2
    <3> QED
      BY <2>2, <3>1 DEF WriteWritePossible
  <2>3. ASSUME NEW e \in parsed[head].events, e.kind = "update",
               Has(x, "writeWrite", e.table, e.columns)
        PROVE  \E i \in I : WriteWritePossible(head, y(i))
    <3>1. PICK i \in I : Has(y(i), "writeWrite", e.table, e.columns)
      BY <1>2, <1>6, <1>9, <2>3
    <3> QED
      BY <2>3, <3>1 DEF WriteWritePossible
  <2>4. ASSUME NEW e \in parsed[head].events, e.kind = "delete",
               Has(x, "update", e.table, {AllColumns})
        PROVE  \E i \in I : WriteWritePossible(head, y(i))
    <3>1. PICK i \in I : Has(y(i), "update", e.table, {AllColumns})
      BY <1>2, <1>6, <1>9, <2>4
    <3> QED
      BY <2>4, <3>1 DEF WriteWritePossible
  <2> QED
    BY <1>10, <2>1, <2>2, <2>3, <2>4 DEF WriteWritePossible
<1>11. ASSUME WriteReadPossible(head, x) PROVE \E i \in I : WriteReadPossible(head, y(i))
  <2>1. PICK table \in WrittenTables(head) :
          Has(x, "referenced", table, ColumnsOf(parsed[head].writes, table))
    BY <1>11 DEF WriteReadPossible
  <2>2. PICK i \in I : Has(y(i), "referenced", table, ColumnsOf(parsed[head].writes, table))
    BY <1>2, <1>7, <1>9, <2>1
  <2> QED
    BY <2>2 DEF WriteReadPossible
<1>12. ASSUME ImplicitKeyPossible(head, x) PROVE \E i \in I : ImplicitKeyPossible(head, y(i))
  <2>1. PICK m \in Parsed(head) :
          \/ m.statement.kind = "update" /\ Has(x, "omitted", m.statement.table, m.statement.columns)
          \/ Has(x, "omitted", m.statement.table, OmittedKey(m.statement))
          \/ Has(x, "update", m.statement.table, OmittedKey(m.statement))
    BY <1>12 DEF ImplicitKeyPossible
  <2>2. CASE m.statement.kind = "update"
             /\ Has(x, "omitted", m.statement.table, m.statement.columns)
    <3>1. PICK i \in I : Has(y(i), "omitted", m.statement.table, m.statement.columns)
      BY <1>2, <1>5, <1>9, <2>2
    <3> QED
      BY <2>2, <3>1 DEF ImplicitKeyPossible
  <2>3. CASE Has(x, "omitted", m.statement.table, OmittedKey(m.statement))
    <3>1. PICK i \in I : Has(y(i), "omitted", m.statement.table, OmittedKey(m.statement))
      BY <1>2, <1>5, <1>9, <2>3
    <3> QED
      BY <3>1 DEF ImplicitKeyPossible
  <2>4. CASE Has(x, "update", m.statement.table, OmittedKey(m.statement))
    <3>1. PICK i \in I : Has(y(i), "update", m.statement.table, OmittedKey(m.statement))
      BY <1>2, <1>5, <1>9, <2>4
    <3> QED
      BY <3>1 DEF ImplicitKeyPossible
  <2> QED
    BY <2>1, <2>2, <2>3, <2>4
<1>13. ASSUME ConstraintPossible(head, x) PROVE \E i \in I : ConstraintPossible(head, y(i))
  <2>1. ASSUME NEW table \in WrittenTables(head), NEW key \in KeySets[table],
               MayCreateKey(head, table, key), Has(x, "create", table, key)
        PROVE  \E i \in I : ConstraintPossible(head, y(i))
    <3>1. PICK i \in I : Has(y(i), "create", table, key)
      BY <1>2, <1>7, <1>9, <2>1
    <3> QED
      BY <2>1, <3>1 DEF ConstraintPossible
  <2>2. ASSUME NEW e \in EdgeSet, e.parent \in WrittenTables(head),
               MayRemoveKey(head, e.parent, e.parentColumns),
               Has(x, "create", e.child, e.childColumns)
        PROVE  \E i \in I : ConstraintPossible(head, y(i))
    <3>1. PICK i \in I : Has(y(i), "create", e.child, e.childColumns)
      BY <1>2, <1>8, <1>9, <2>2
    <3> QED
      BY <2>2, <3>1 DEF ConstraintPossible
  <2>3. ASSUME NEW e \in EdgeSet, e.child \in WrittenTables(head),
               MayCreateKey(head, e.child, e.childColumns),
               Has(x, "remove", e.parent, e.parentColumns)
        PROVE  \E i \in I : ConstraintPossible(head, y(i))
    <3>1. PICK i \in I : Has(y(i), "remove", e.parent, e.parentColumns)
      BY <1>2, <1>8, <1>9, <2>3
    <3> QED
      BY <2>3, <3>1 DEF ConstraintPossible
  <2> QED
    BY <1>13, <2>1, <2>2, <2>3 DEF ConstraintPossible
<1>14. ASSUME NEW kind \in NeededKinds(head, x)
       PROVE  \E i \in I : kind \in NeededKinds(head, y(i))
  <2>1. /\ kind \in {"write_write", "write_read", "implicit_insert_key", "integrity"}
        /\ kind = "write_write" => WriteWritePossible(head, x)
        /\ kind = "write_read" => WriteReadPossible(head, x)
        /\ kind = "implicit_insert_key" => ImplicitKeyPossible(head, x)
        /\ kind = "integrity" => ConstraintPossible(head, x)
    BY <1>14 DEF NeededKinds
  <2>2. PICK i \in I :
          /\ kind = "write_write" => WriteWritePossible(head, y(i))
          /\ kind = "write_read" => WriteReadPossible(head, y(i))
          /\ kind = "implicit_insert_key" => ImplicitKeyPossible(head, y(i))
          /\ kind = "integrity" => ConstraintPossible(head, y(i))
    BY <1>10, <1>11, <1>12, <1>13, <2>1
  <2>3. y(i).size # 0
    BY <1>3
  <2>4. kind \in NeededKinds(head, y(i))
    BY <2>1, <2>2, <2>3 DEF NeededKinds
  <2> QED
    BY <2>4
<1> QED
  BY <1>1, <1>14 DEF x, y

(* The counters summed over the queue call for a kind of conflict only if  *)
(* the counters of one queued transaction call for it.                     *)
THEOREM FilterIsPairwiseHolds == Spec => []FilterIsPairwise
<1>1. ASSUME FilterInv PROVE FilterIsPairwise
  <2>1. ParsedWell /\ queue \in Seq(Transactions) /\ index = IndexOf(queue)
    BY <1>1 DEF FilterInv, IndexFollowsQueue
  <2> QED
    BY <2>1, KindsPairwise DEF FilterIsPairwise
<1> QED
  BY <1>1, FilterInvHolds, PTL

-----------------------------------------------------------------------------
(* No kind of conflict of a pair is missed.                                *)

(* A write of a transaction, explicit or hidden, is within its tables, is  *)
(* of whole rows unless an UPDATE, and comes from one of its statements.   *)
LEMMA RowWritesType ==
  ASSUME ParsedWell, NEW t \in Transactions, NEW w \in RowWrites(t)
  PROVE  /\ w.table \in Tables /\ w.columns \in ColumnSets
         /\ w.kind \in {"insert", "update", "delete"}
         /\ w.kind # "update" => w.columns = {AllColumns}
         /\ \E m \in Parsed(t) :
              /\ \/ w \in m.events
                 \/ w = [table |-> m.statement.table, columns |-> m.statement.columns,
                         kind |-> m.statement.kind]
              /\ Cells(w.table, w.columns) \subseteq m.writes
<1>1. /\ Parsed(t) \subseteq Known /\ parsed[t].events \subseteq Proper
      /\ parsed[t].events = UNION {m.events : m \in Parsed(t)}
  BY ParsedType
<1>2. CASE w \in parsed[t].events
  <2>1. PICK m \in Parsed(t) : w \in m.events
    BY <1>1, <1>2
  <2>2. Cells(w.table, w.columns) \subseteq m.writes
    BY <1>1, <2>1 DEF Known
  <2> QED
    BY <1>1, <1>2, <2>1, <2>2 DEF Proper, WriteEvents
<1>3. CASE w \notin parsed[t].events
  <2>1. PICK m \in Parsed(t) :
          w = [table |-> m.statement.table, columns |-> m.statement.columns,
               kind |-> m.statement.kind]
    BY <1>3 DEF RowWrites
  <2>2. /\ w.table = m.statement.table /\ w.columns = m.statement.columns
        /\ w.kind = m.statement.kind
    BY <2>1
  <2>3. m \in Known
    BY <1>1
  <2>4. Cells(w.table, w.columns) \subseteq m.writes
    BY <2>2, <2>3 DEF Known
  <2> QED
    BY <2>1, <2>2, <2>3, <2>4, StatementType
<1> QED
  BY <1>2, <1>3

(* What a queued transaction writes is counted, under every counter of the *)
(* kind of write.                                                          *)
LEMMA WrittenIsCounted ==
  ASSUME ParsedWell, NEW q \in Seq(Transactions), NEW i \in 1..Len(q),
         NEW w \in RowWrites(q[i]), NEW k \in Counters, k \in CountersOf(w.kind)
  PROVE  w.columns \subseteq Counted(IndexOf(q), k, w.table)
<1>1. q[i] \in Transactions
  OBVIOUS
<1>2. w.table \in Tables /\ w.columns \in ColumnSets
  BY <1>1, RowWritesType
<1>3. PICK m \in Parsed(q[i]) :
        \/ w \in m.events
        \/ w = [table |-> m.statement.table, columns |-> m.statement.columns,
                kind |-> m.statement.kind]
  BY <1>1, RowWritesType
<1>4. ASSUME NEW c \in w.columns PROVE c \in Names /\ Counts(q[i], k, w.table, c)
  <2>1. <<w.table, c>> \in Cells(w.table, w.columns)
    BY DEF Cells
  <2>2. CountsFor(m, k, <<w.table, c>>)
    <3>1. CASE w \in m.events
      BY <2>1, <3>1 DEF CountsFor
    <3>2. CASE w = [table |-> m.statement.table, columns |-> m.statement.columns,
                    kind |-> m.statement.kind]
      <4>1. w.table = m.statement.table /\ w.columns = m.statement.columns
            /\ w.kind = m.statement.kind
        BY <3>2
      <4> QED
        BY <2>1, <4>1 DEF CountsFor
    <3> QED
      BY <1>3, <3>1, <3>2
  <2>3. c \in Names
    BY <1>2 DEF ColumnSets, Names
  <2> QED
    BY <2>2, <2>3 DEF Counts
<1>5. Counted(IndexOf(q), k, w.table) =
        {c \in Names : \E j \in 1..Len(q) : Counts(q[j], k, w.table, c)}
  BY <1>2, CountedIs
<1> QED
  BY <1>4, <1>5

(* Column sets that overlap still do when they grow.                       *)
LEMMA OverlapGrows ==
  ASSUME NEW a, NEW b, NEW c, NEW d, Overlap(a, b), a \subseteq c, b \subseteq d
  PROVE  Overlap(c, d) /\ Overlap(d, c)
BY DEF Overlap

(* A write that overlaps some columns is found under its counters.         *)
LEMMA WrittenIsFound ==
  ASSUME ParsedWell, NEW q \in Seq(Transactions), NEW i \in 1..Len(q),
         NEW w \in RowWrites(q[i]), NEW k \in Counters, k \in CountersOf(w.kind),
         NEW columns, Overlap(w.columns, columns)
  PROVE  Has(IndexOf(q), k, w.table, columns)
<1>1. w.columns \subseteq Counted(IndexOf(q), k, w.table)
  BY WrittenIsCounted
<1> QED
  BY <1>1, OverlapGrows DEF Has

(* The columns of the cells of a table.                                    *)
LEMMA ColumnsOfCells ==
  ASSUME NEW cells, NEW table, NEW columns, Cells(table, columns) \subseteq cells
  PROVE  columns \subseteq ColumnsOf(cells, table)
<1> SUFFICES ASSUME NEW c \in columns PROVE c \in ColumnsOf(cells, table)
  OBVIOUS
<1>1. <<table, c>> \in cells
  BY DEF Cells
<1>2. <<table, c>>[1] = table /\ <<table, c>>[2] = c
  OBVIOUS
<1> QED
  BY <1>1, <1>2 DEF ColumnsOf

(* A statement's own write is a write of the transaction.                  *)
LEMMA OwnWrite ==
  ASSUME NEW t, NEW m \in Parsed(t)
  PROVE  LET w == [table |-> m.statement.table, columns |-> m.statement.columns,
                   kind |-> m.statement.kind]
         IN  /\ w \in RowWrites(t) /\ w.table = m.statement.table
             /\ w.columns = m.statement.columns /\ w.kind = m.statement.kind
BY DEF RowWrites

(* Write/write.                                                            *)
LEMMA CoversWriteWrite ==
  ASSUME ParsedWell, NEW q \in Seq(Transactions), NEW i \in 1..Len(q),
         NEW head \in Transactions, WritesCollide(head, q[i])
  PROVE  WriteWritePossible(head, IndexOf(q)) /\ PairWriteWrite(head, q[i])
<1>1. q[i] \in Transactions
  OBVIOUS
<1>2. PICK v \in RowWrites(head), w \in RowWrites(q[i]) :
        /\ v.table = w.table /\ Overlap(v.columns, w.columns)
        /\ "insert" \notin {v.kind, w.kind} /\ {v.kind, w.kind} # {"delete"}
  BY DEF WritesCollide
<1>3. PICK m \in Parsed(head) :
        /\ \/ v \in m.events
           \/ v = [table |-> m.statement.table, columns |-> m.statement.columns,
                   kind |-> m.statement.kind]
        /\ Cells(v.table, v.columns) \subseteq m.writes
  BY RowWritesType
<1>4. PICK n \in Parsed(q[i]) :
        /\ \/ w \in n.events
           \/ w = [table |-> n.statement.table, columns |-> n.statement.columns,
                   kind |-> n.statement.kind]
        /\ Cells(w.table, w.columns) \subseteq n.writes
  BY <1>1, RowWritesType
<1>5. /\ v.kind \in {"update", "delete"} /\ w.kind \in {"update", "delete"}
      /\ ~(v.kind = "delete" /\ w.kind = "delete") /\ v.table \in Tables
  BY <1>1, <1>2, RowWritesType
<1>6. m \in Known /\ n \in Known
  BY <1>1, ParsedType
<1>7. \/ v \in parsed[head].events
      \/ /\ v.table = m.statement.table /\ v.columns = m.statement.columns
         /\ v.kind = m.statement.kind
  <2>1. CASE v \in m.events
    BY <2>1, ParsedType
  <2>2. CASE v \notin m.events
    BY <1>3, <2>2
  <2> QED
    BY <2>1, <2>2
<1>8. WriteWritePossible(head, IndexOf(q))
  <2>1. CASE v.kind = "update"
    <3>1. "writeWrite" \in Counters /\ "writeWrite" \in CountersOf(w.kind)
      BY <1>5 DEF Counters, CountersOf
    <3>2. Overlap(w.columns, v.columns)
      BY <1>2, OverlapGrows
    <3>3. Has(IndexOf(q), "writeWrite", v.table, v.columns)
      BY <1>2, <3>1, <3>2, WrittenIsFound
    <3> QED
      BY <1>7, <2>1, <3>3 DEF WriteWritePossible
  <2>2. CASE v.kind = "delete"
    <3>1. "update" \in Counters /\ "update" \in CountersOf(w.kind)
      BY <1>5, <2>2 DEF Counters, CountersOf
    <3>2. Overlap(w.columns, {AllColumns})
      BY <1>2 DEF Overlap
    <3>3. Has(IndexOf(q), "update", v.table, {AllColumns})
      BY <1>2, <3>1, <3>2, WrittenIsFound
    <3> QED
      BY <1>7, <2>2, <3>3 DEF WriteWritePossible
  <2> QED
    BY <1>5, <2>1, <2>2
<1>9. PairWriteWrite(head, q[i])
  <2>1. CASE v \in m.events \/ w \in n.events
    <3>1. m.cascades \/ n.cascades
      BY <1>6, <2>1 DEF Known
    <3>2. v.columns \subseteq ColumnsOf(m.writes, v.table)
      BY <1>3, ColumnsOfCells
    <3>3. w.columns \subseteq ColumnsOf(n.writes, v.table)
      BY <1>2, <1>4, ColumnsOfCells
    <3>4. Overlap(ColumnsOf(m.writes, v.table), ColumnsOf(n.writes, v.table))
      BY <1>2, <3>2, <3>3, OverlapGrows
    <3>5. CellsOverlap(m.writes, n.writes)
      BY <1>5, <3>4 DEF CellsOverlap
    <3> QED
      BY <3>1, <3>5 DEF PairWriteWrite
  <2>2. CASE ~(v \in m.events \/ w \in n.events)
    <3>1. /\ v.table = m.statement.table /\ v.columns = m.statement.columns
          /\ v.kind = m.statement.kind
      BY <1>3, <2>2
    <3>2. /\ w.table = n.statement.table /\ w.columns = n.statement.columns
          /\ w.kind = n.statement.kind
      BY <1>4, <2>2
    <3>3. DirectOverlap(m, n)
      BY <1>2, <3>1, <3>2 DEF DirectOverlap
    <3> QED
      BY <3>3 DEF PairWriteWrite
  <2> QED
    BY <2>1, <2>2
<1> QED
  BY <1>8, <1>9

(* What the pairwise analysis reports although no two writes collide.      *)
LEMMA LeftOutWriteWrite ==
  ASSUME ParsedWell, NEW t \in Transactions, NEW u \in Transactions, PairWriteWrite(t, u)
  PROVE  WritesCollide(t, u) \/ OnlyInsertOrDeletes(t, u)
<1>1. PICK m \in Parsed(t), n \in Parsed(u) :
        \/ DirectOverlap(m, n)
        \/ (m.cascades \/ n.cascades) /\ CellsOverlap(m.writes, n.writes)
  BY DEF PairWriteWrite
<1>2. m \in Known /\ n \in Known
  BY ParsedType
<1>3. OwnWrites(m) \subseteq RowWrites(t) /\ OwnWrites(n) \subseteq RowWrites(u)
  BY ParsedType DEF OwnWrites, RowWrites
<1>4. CASE DirectOverlap(m, n)
  <2> DEFINE v == [table |-> m.statement.table, columns |-> m.statement.columns,
                   kind |-> m.statement.kind]
             w == [table |-> n.statement.table, columns |-> n.statement.columns,
                   kind |-> n.statement.kind]
  <2>1. /\ v \in RowWrites(t) /\ v.table = m.statement.table
        /\ v.columns = m.statement.columns /\ v.kind = m.statement.kind
    BY OwnWrite
  <2>2. /\ w \in RowWrites(u) /\ w.table = n.statement.table
        /\ w.columns = n.statement.columns /\ w.kind = n.statement.kind
    BY OwnWrite
  <2> HIDE DEF v, w
  <2> QED
    BY <1>4, <2>1, <2>2 DEF DirectOverlap, WritesCollide
<1>5. CASE (m.cascades \/ n.cascades) /\ CellsOverlap(m.writes, n.writes)
  <2>1. PICK table \in Tables : Overlap(ColumnsOf(m.writes, table), ColumnsOf(n.writes, table))
    BY <1>5 DEF CellsOverlap
  <2>2. PICK c \in ColumnsOf(m.writes, table), d \in ColumnsOf(n.writes, table) :
          c = d \/ c = AllColumns \/ d = AllColumns
    BY <2>1 DEF Overlap
  <2>3. ASSUME NEW x \in Known, NEW a \in ColumnsOf(x.writes, table)
        PROVE  \E w \in OwnWrites(x) : w.table = table /\ a \in w.columns
    <3>1. PICK cell \in x.writes : cell[1] = table /\ cell[2] = a
      BY <2>3 DEF ColumnsOf
    <3>2. PICK w \in OwnWrites(x) : cell \in Cells(w.table, w.columns)
      BY <3>1 DEF Known
    <3>3. cell[1] = w.table /\ cell[2] \in w.columns
      BY <3>2 DEF Cells
    <3> QED
      BY <3>1, <3>2, <3>3
  <2>4. PICK v \in OwnWrites(m) : v.table = table /\ c \in v.columns
    BY <1>2, <2>3
  <2>5. PICK w \in OwnWrites(n) : w.table = table /\ d \in w.columns
    BY <1>2, <2>3
  <2>6. Overlap(v.columns, w.columns)
    BY <2>2, <2>4, <2>5 DEF Overlap
  <2> QED
    BY <1>3, <1>5, <2>4, <2>5, <2>6 DEF WritesCollide, OnlyInsertOrDeletes
<1> QED
  BY <1>1, <1>4, <1>5

(* Write/read.                                                             *)
LEMMA CoversWriteRead ==
  ASSUME ParsedWell, NEW q \in Seq(Transactions), NEW i \in 1..Len(q),
         NEW head \in Transactions, PairWriteRead(head, q[i])
  PROVE  WriteReadPossible(head, IndexOf(q))
<1>1. q[i] \in Transactions
  OBVIOUS
<1> DEFINE ws == parsed[head].writes
           rs == parsed[q[i]].reads
<1>2. PICK table \in Tables : Overlap(ColumnsOf(ws, table), ColumnsOf(rs, table))
  BY DEF PairWriteRead, CellsOverlap
<1>3. rs \subseteq AllCells /\ rs = UNION {m.reads : m \in Parsed(q[i])}
  BY <1>1, ParsedType
<1>4. table \in WrittenTables(head)
  BY <1>2 DEF Overlap, ColumnsOf, WrittenTables
<1>5. "referenced" \in Counters
  BY DEF Counters
<1>6. ASSUME NEW c \in ColumnsOf(rs, table)
      PROVE  c \in Names /\ Counts(q[i], "referenced", table, c)
  <2>1. PICK cell \in rs : cell[1] = table /\ c = cell[2]
    BY DEF ColumnsOf
  <2>2. cell = <<table, c>> /\ c \in Names
    BY <1>3, <2>1 DEF AllCells, Names
  <2>3. PICK m \in Parsed(q[i]) : cell \in m.reads
    BY <1>3
  <2>4. CountsFor(m, "referenced", <<table, c>>)
    BY <2>2, <2>3 DEF CountsFor
  <2> QED
    BY <2>2, <2>4 DEF Counts
<1>7. Counted(IndexOf(q), "referenced", table) =
        {c \in Names : \E j \in 1..Len(q) : Counts(q[j], "referenced", table, c)}
  BY <1>5, CountedIs
<1>8. ColumnsOf(rs, table) \subseteq Counted(IndexOf(q), "referenced", table)
  BY <1>6, <1>7
<1>9. Has(IndexOf(q), "referenced", table, ColumnsOf(ws, table))
  BY <1>2, <1>8, OverlapGrows DEF Has
<1> QED
  BY <1>4, <1>9 DEF WriteReadPossible

(* The key an INSERT omits is counted.                                     *)
LEMMA OmittedIsCounted ==
  ASSUME ParsedWell, NEW q \in Seq(Transactions), NEW i \in 1..Len(q), NEW m \in Parsed(q[i])
  PROVE  OmittedKey(m.statement) \subseteq Counted(IndexOf(q), "omitted", m.statement.table)
<1> DEFINE s == m.statement
<1>1. q[i] \in Transactions
  OBVIOUS
<1>2. s.table \in Tables
  BY <1>1, ParsedType, StatementType
<1>3. OmittedKey(s) \subseteq Names
  BY <1>2, SchemaAssumption DEF OmittedKey, Names
<1>4. \A c \in OmittedKey(s) : Counts(q[i], "omitted", s.table, c)
  BY DEF Counts, CountsFor, Cells
<1>5. "omitted" \in Counters
  BY DEF Counters
<1>6. Counted(IndexOf(q), "omitted", s.table) =
        {c \in Names : \E j \in 1..Len(q) : Counts(q[j], "omitted", s.table, c)}
  BY <1>2, <1>5, CountedIs
<1> QED
  BY <1>3, <1>4, <1>6

(* Implicit keys.                                                          *)
LEMMA CoversImplicitKey ==
  ASSUME ParsedWell, NEW q \in Seq(Transactions), NEW i \in 1..Len(q),
         NEW head \in Transactions, PairImplicitKey(head, q[i])
  PROVE  ImplicitKeyPossible(head, IndexOf(q))
<1> DEFINE x == IndexOf(q)
<1>1. PICK m \in Parsed(head), n \in Parsed(q[i]) : ImplicitKey(m, n) \/ ImplicitKey(n, m)
  BY DEF PairImplicitKey
<1> DEFINE s == m.statement
           o == n.statement
<1>2. s.table = o.table
  BY <1>1 DEF ImplicitKey
<1>3. OmittedKey(o) \subseteq Counted(x, "omitted", o.table)
  BY OmittedIsCounted
<1>4. ASSUME OmittedKey(s) # {}, OmittedKey(o) # {}
      PROVE  ImplicitKeyPossible(head, x)
  <2>1. OmittedKey(s) = OmittedKey(o)
    BY <1>2, <1>4 DEF OmittedKey
  <2>2. Overlap(OmittedKey(o), OmittedKey(s))
    BY <1>4, <2>1 DEF Overlap
  <2>3. Has(x, "omitted", s.table, OmittedKey(s))
    BY <1>2, <1>3, <2>2, OverlapGrows DEF Has
  <2> QED
    BY <2>3 DEF ImplicitKeyPossible
<1>5. ASSUME o.kind = "update", Overlap(o.columns, OmittedKey(s))
      PROVE  ImplicitKeyPossible(head, x)
  <2> DEFINE w == [table |-> o.table, columns |-> o.columns, kind |-> o.kind]
  <2>1. w \in RowWrites(q[i]) /\ w.table = o.table /\ w.columns = o.columns /\ w.kind = "update"
    BY <1>5, OwnWrite
  <2> HIDE DEF w
  <2>2. "update" \in Counters /\ "update" \in CountersOf(w.kind)
    BY <2>1 DEF Counters, CountersOf
  <2>3. Has(x, "update", w.table, OmittedKey(s))
    BY <1>5, <2>1, <2>2, WrittenIsFound
  <2> QED
    BY <1>2, <2>1, <2>3 DEF ImplicitKeyPossible
<1>6. ASSUME s.kind = "update", Overlap(s.columns, OmittedKey(o))
      PROVE  ImplicitKeyPossible(head, x)
  <2>1. Has(x, "omitted", s.table, s.columns)
    BY <1>2, <1>3, <1>6, OverlapGrows DEF Has
  <2> QED
    BY <1>6, <2>1 DEF ImplicitKeyPossible
<1> QED
  BY <1>1, <1>4, <1>5, <1>6 DEF ImplicitKey

(* A transaction that may create a key, or remove one, writes its columns. *)
LEMMA KeyIsWritten ==
  ASSUME ParsedWell, NEW t \in Transactions, NEW table, NEW key, key # {}
  PROVE  /\ MayCreateKey(t, table, key) =>
              \E w \in RowWrites(t) :
                w.table = table /\ "create" \in CountersOf(w.kind) /\ Overlap(w.columns, key)
         /\ MayRemoveKey(t, table, key) =>
              \E w \in RowWrites(t) :
                w.table = table /\ "remove" \in CountersOf(w.kind) /\ Overlap(w.columns, key)
<1>1. /\ Parsed(t) \subseteq Known
      /\ \A e \in parsed[t].events :
           /\ e \in RowWrites(t) /\ e.kind \in {"update", "delete"}
           /\ e.kind = "delete" => e.columns = {AllColumns}
  BY ParsedType DEF RowWrites, Proper, WriteEvents
<1>2. Overlap({AllColumns}, key)
  BY DEF Overlap
<1>3. /\ "create" \in CountersOf("insert") /\ "create" \in CountersOf("update")
      /\ "remove" \in CountersOf("update") /\ "remove" \in CountersOf("delete")
  BY DEF CountersOf
<1>4. ASSUME NEW m \in Parsed(t)
      PROVE  \E w \in RowWrites(t) :
               /\ w.table = m.statement.table /\ w.columns = m.statement.columns
               /\ w.kind = m.statement.kind
               /\ w.kind # "update" => w.columns = {AllColumns}
  <2>1. m.statement.kind # "update" => m.statement.columns = {AllColumns}
    BY <1>1, StatementType
  <2> QED
    BY <2>1, OwnWrite
<1>5. ASSUME MayCreateKey(t, table, key)
      PROVE  \E w \in RowWrites(t) :
               w.table = table /\ "create" \in CountersOf(w.kind) /\ Overlap(w.columns, key)
  <2>1. CASE \E m \in Parsed(t) :
               /\ m.statement.table = table
               /\ \/ m.statement.kind = "insert"
                  \/ m.statement.kind = "update" /\ Overlap(m.statement.columns, key)
    <3>1. PICK m \in Parsed(t) :
            /\ m.statement.table = table
            /\ \/ m.statement.kind = "insert"
               \/ m.statement.kind = "update" /\ Overlap(m.statement.columns, key)
      BY <2>1
    <3>2. PICK w \in RowWrites(t) :
            /\ w.table = m.statement.table /\ w.columns = m.statement.columns
            /\ w.kind = m.statement.kind /\ (w.kind # "update" => w.columns = {AllColumns})
      BY <1>4
    <3> QED
      BY <1>2, <1>3, <3>1, <3>2
  <2>2. CASE \E e \in parsed[t].events :
               e.kind = "update" /\ e.table = table /\ Overlap(e.columns, key)
    BY <1>1, <1>3, <2>2
  <2> QED
    BY <1>5, <2>1, <2>2 DEF MayCreateKey
<1>6. ASSUME MayRemoveKey(t, table, key)
      PROVE  \E w \in RowWrites(t) :
               w.table = table /\ "remove" \in CountersOf(w.kind) /\ Overlap(w.columns, key)
  <2>1. CASE \E m \in Parsed(t) :
               /\ m.statement.table = table
               /\ \/ m.statement.kind = "delete"
                  \/ m.statement.kind = "update" /\ Overlap(m.statement.columns, key)
    <3>1. PICK m \in Parsed(t) :
            /\ m.statement.table = table
            /\ \/ m.statement.kind = "delete"
               \/ m.statement.kind = "update" /\ Overlap(m.statement.columns, key)
      BY <2>1
    <3>2. PICK w \in RowWrites(t) :
            /\ w.table = m.statement.table /\ w.columns = m.statement.columns
            /\ w.kind = m.statement.kind /\ (w.kind # "update" => w.columns = {AllColumns})
      BY <1>4
    <3> QED
      BY <1>2, <1>3, <3>1, <3>2
  <2>2. CASE \E e \in parsed[t].events :
               e.table = table /\ (e.kind = "delete" \/ Overlap(e.columns, key))
    <3>1. PICK e \in parsed[t].events :
            e.table = table /\ (e.kind = "delete" \/ Overlap(e.columns, key))
      BY <2>2
    <3>2. e.kind \in {"update", "delete"} /\ Overlap(e.columns, key)
      BY <1>1, <1>2, <3>1
    <3> QED
      BY <1>1, <1>3, <3>1, <3>2
  <2> QED
    BY <1>6, <2>1, <2>2 DEF MayRemoveKey
<1> QED
  BY <1>5, <1>6

(* Unique keys and foreign keys.                                           *)
LEMMA CoversConstraint ==
  ASSUME ParsedWell, NEW q \in Seq(Transactions), NEW i \in 1..Len(q),
         NEW head \in Transactions, PairConstraint(head, q[i])
  PROVE  ConstraintPossible(head, IndexOf(q))
<1> DEFINE x == IndexOf(q)
           u == q[i]
<1>1. u \in Transactions
  OBVIOUS
<1>2. "create" \in Counters /\ "remove" \in Counters
  BY DEF Counters
<1>3. \A e \in EdgeSet : e.childColumns # {} /\ e.parentColumns # {}
  BY EdgeSetType DEF Edges
<1>4. ASSUME NEW table, NEW key, key # {}, MayCreateKey(u, table, key)
      PROVE  Has(x, "create", table, key)
  <2>1. PICK w \in RowWrites(u) :
          w.table = table /\ "create" \in CountersOf(w.kind) /\ Overlap(w.columns, key)
    BY <1>1, <1>4, KeyIsWritten
  <2> QED
    BY <1>2, <2>1, WrittenIsFound
<1>5. ASSUME NEW table, NEW key, key # {}, MayRemoveKey(u, table, key)
      PROVE  Has(x, "remove", table, key)
  <2>1. PICK w \in RowWrites(u) :
          w.table = table /\ "remove" \in CountersOf(w.kind) /\ Overlap(w.columns, key)
    BY <1>1, <1>5, KeyIsWritten
  <2> QED
    BY <1>2, <2>1, WrittenIsFound
<1>6. CASE \E table \in Tables : \E key \in KeySets[table] :
             MayCreateKey(head, table, key) /\ MayCreateKey(u, table, key)
  <2>0. PICK table \in Tables : \E key \in KeySets[table] :
          MayCreateKey(head, table, key) /\ MayCreateKey(u, table, key)
    BY <1>6
  <2>1. PICK key \in KeySets[table] :
          MayCreateKey(head, table, key) /\ MayCreateKey(u, table, key)
    BY <2>0
  <2>2. key # {}
    BY <2>1, SchemaAssumption
  <2>3. PICK v \in RowWrites(head) : v.table = table /\ Overlap(v.columns, key)
    BY <2>1, <2>2, KeyIsWritten
  <2>4. PICK m \in Parsed(head) : Cells(v.table, v.columns) \subseteq m.writes
    BY RowWritesType
  <2>5. PICK c \in v.columns : <<table, c>> \in m.writes
    BY <2>3, <2>4 DEF Overlap, Cells
  <2>6. <<table, c>> \in parsed[head].writes
    BY <2>5, ParsedType
  <2>7. table \in WrittenTables(head)
    BY <2>6 DEF WrittenTables
  <2>8. Has(x, "create", table, key)
    BY <1>4, <2>1, <2>2
  <2> QED
    BY <2>1, <2>7, <2>8 DEF ConstraintPossible
<1>7. CASE \E e \in EdgeSet : /\ e.parent \in WrittenTables(head)
                             /\ MayRemoveKey(head, e.parent, e.parentColumns)
                             /\ MayCreateKey(u, e.child, e.childColumns)
  BY <1>3, <1>4, <1>7 DEF ConstraintPossible
<1>8. CASE \E e \in EdgeSet : /\ e.child \in WrittenTables(head)
                             /\ MayCreateKey(head, e.child, e.childColumns)
                             /\ MayRemoveKey(u, e.parent, e.parentColumns)
  BY <1>3, <1>5, <1>8 DEF ConstraintPossible
<1> QED
  BY <1>6, <1>7, <1>8 DEF PairConstraint

(* The filter asks for every read, implicit key and constraint the         *)
(* analysis of the head with one queued transaction reports, and for every *)
(* write/write but those of an INSERT, or of two deletions, that the       *)
(* analysis reports for the foreign-key effects of a statement: the        *)
(* counters sum the queue up, whatever was edited before.                  *)
THEOREM FilterCoversPairsHolds == Spec => []FilterCoversPairs
<1>1. ASSUME FilterInv PROVE FilterCoversPairs
  <2>1. ParsedWell /\ queue \in Seq(Transactions) /\ index = IndexOf(queue)
    BY <1>1 DEF FilterInv, IndexFollowsQueue
  <2>2. DOMAIN queue = 1..Len(queue) /\ Len(queue) \in Nat
    BY <2>1
  <2>3. ASSUME NEW head \in Transactions, NEW i \in DOMAIN queue
        PROVE  LET needed == NeededKinds(head, index)
               IN  /\ WritesCollide(head, queue[i]) =>
                        "write_write" \in needed /\ PairWriteWrite(head, queue[i])
                   /\ PairWriteWrite(head, queue[i]) =>
                        "write_write" \in needed \/ OnlyInsertOrDeletes(head, queue[i])
                   /\ PairWriteRead(head, queue[i]) => "write_read" \in needed
                   /\ PairImplicitKey(head, queue[i]) => "implicit_insert_key" \in needed
                   /\ PairConstraint(head, queue[i]) => "integrity" \in needed
    <3>1. index.size # 0
      BY <2>1, <2>2, <2>3, IndexOfType
    <3>2. /\ WriteWritePossible(head, index) => "write_write" \in NeededKinds(head, index)
          /\ WriteReadPossible(head, index) => "write_read" \in NeededKinds(head, index)
          /\ ImplicitKeyPossible(head, index) =>
               "implicit_insert_key" \in NeededKinds(head, index)
          /\ ConstraintPossible(head, index) => "integrity" \in NeededKinds(head, index)
      BY <3>1 DEF NeededKinds
    <3>3. WritesCollide(head, queue[i]) =>
            WriteWritePossible(head, index) /\ PairWriteWrite(head, queue[i])
      BY <2>1, <2>2, CoversWriteWrite
    <3>4. PairWriteWrite(head, queue[i]) =>
            WritesCollide(head, queue[i]) \/ OnlyInsertOrDeletes(head, queue[i])
      BY <2>1, <2>2, LeftOutWriteWrite
    <3>5. PairWriteRead(head, queue[i]) => WriteReadPossible(head, index)
      BY <2>1, <2>2, CoversWriteRead
    <3>6. PairImplicitKey(head, queue[i]) => ImplicitKeyPossible(head, index)
      BY <2>1, <2>2, CoversImplicitKey
    <3>7. PairConstraint(head, queue[i]) => ConstraintPossible(head, index)
      BY <2>1, <2>2, CoversConstraint
    <3> QED
      BY <3>2, <3>3, <3>4, <3>5, <3>6, <3>7
  <2> QED
    BY <2>3 DEF FilterCoversPairs
<1> QED
  BY <1>1, FilterInvHolds, PTL

-----------------------------------------------------------------------------
(* The walk over foreign-key actions ends, and finds every hidden write.   *)

(* The hidden writes of one event, by all foreign keys it triggers.        *)
ChildrenOf(edges, event) ==
  UNION {ToSet(ChildEvents(edges[i], event)) : i \in {j \in DOMAIN edges : Triggered(edges[j], event)}}

(* All the walk can come across.                                           *)
Candidates(edges, event) ==
  {event} \cup {Gone(edges[i]) : i \in DOMAIN edges} \cup {Changed(edges[i]) : i \in DOMAIN edges}

(* There are at most two events per edge, and the first one.               *)
LEMMA CandidatesFew ==
  ASSUME NEW edges \in Seq(Edges), NEW event
  PROVE  /\ IsFiniteSet(Candidates(edges, event))
         /\ Cardinality(Candidates(edges, event)) \in Nat
         /\ Cardinality(Candidates(edges, event)) <= 2 * Len(edges) + 1
<1> DEFINE n == Len(edges)
           A == {event}
           B == {Gone(edges[i]) : i \in DOMAIN edges}
           C == {Changed(edges[i]) : i \in DOMAIN edges}
           f == [i \in 1..n |-> Gone(edges[i])]
           g == [i \in 1..n |-> Changed(edges[i])]
<1>1. n \in Nat /\ DOMAIN edges = 1..n
  OBVIOUS
<1>2. IsFiniteSet(1..n) /\ Cardinality(1..n) = n
  BY <1>1, FS_Interval
<1>3. f \in Surjection(1..n, B)
  <2>1. f \in [1..n -> B]
    BY <1>1
  <2>2. \A b \in B : \E i \in 1..n : f[i] = b
    BY <1>1
  <2> HIDE DEF f, B
  <2> QED
    BY <2>1, <2>2 DEF Surjection
<1>4. g \in Surjection(1..n, C)
  <2>1. g \in [1..n -> C]
    BY <1>1
  <2>2. \A c \in C : \E i \in 1..n : g[i] = c
    BY <1>1
  <2> HIDE DEF g, C
  <2> QED
    BY <2>1, <2>2 DEF Surjection
<1> HIDE DEF n, B, C, f, g
<1>5. IsFiniteSet(B) /\ Cardinality(B) <= n /\ Cardinality(B) \in Nat
  BY <1>2, <1>3, FS_Surjection, FS_CardinalityType
<1>6. IsFiniteSet(C) /\ Cardinality(C) <= n /\ Cardinality(C) \in Nat
  BY <1>2, <1>4, FS_Surjection, FS_CardinalityType
<1>7. IsFiniteSet(A) /\ Cardinality(A) = 1
  BY FS_Singleton
<1> HIDE DEF A
<1>8. /\ IsFiniteSet(A \cup B) /\ Cardinality(A \cup B) \in Nat
      /\ Cardinality(A \cup B) <= n + 1
  <2>1. IsFiniteSet(A \cup B)
        /\ Cardinality(A \cup B) = Cardinality(A) + Cardinality(B) - Cardinality(A \cap B)
    BY <1>5, <1>7, FS_Union
  <2>2. IsFiniteSet(A \cap B) /\ Cardinality(A \cap B) \in Nat
    BY <1>5, FS_Intersection, FS_CardinalityType
  <2> QED
    BY <1>1, <1>5, <1>7, <2>1, <2>2, FS_CardinalityType
<1>9. /\ IsFiniteSet((A \cup B) \cup C) /\ Cardinality((A \cup B) \cup C) \in Nat
      /\ Cardinality((A \cup B) \cup C) <= 2 * n + 1
  <2>1. IsFiniteSet((A \cup B) \cup C)
        /\ Cardinality((A \cup B) \cup C) =
             Cardinality(A \cup B) + Cardinality(C) - Cardinality((A \cup B) \cap C)
    BY <1>6, <1>8, FS_Union
  <2>2. IsFiniteSet((A \cup B) \cap C) /\ Cardinality((A \cup B) \cap C) \in Nat
    BY <1>8, FS_Intersection, FS_CardinalityType
  <2>3. Cardinality((A \cup B) \cup C) \in Nat
    BY <2>1, FS_CardinalityType
  <2> QED
    BY <1>1, <1>6, <1>8, <2>1, <2>2, <2>3
<1>10. Candidates(edges, event) = (A \cup B) \cup C
  BY DEF Candidates, A, B, C
<1> QED
  BY <1>9, <1>10 DEF n

(* The closure of the actions is within any set closed under them.         *)
Growing(runs, edges, event, n) ==
  runs = [i \in 0..n |-> IF i = 0 THEN ChildrenOf(edges, event)
                         ELSE runs[i - 1] \cup UNION {ChildrenOf(edges, e) : e \in runs[i - 1]}]

(* There is such a function for any number of rounds.                      *)
LEMMA GrowingExists ==
  ASSUME NEW edges, NEW event, NEW n \in Nat
  PROVE  \E runs : Growing(runs, edges, event, n)
<1> DEFINE H == {k \in 0..n : \E runs : Growing(runs, edges, event, k)}
           grow(S) == S \cup UNION {ChildrenOf(edges, e) : e \in S}
<1>1. 0 \in H
  <2>1. Growing([i \in 0..0 |-> ChildrenOf(edges, event)], edges, event, 0)
    BY DEF Growing
  <2> QED
    BY <2>1
<1>2. ASSUME NEW k \in 0..n, k < n, k \in H PROVE k + 1 \in H
  <2>1. PICK runs : Growing(runs, edges, event, k)
    BY <1>2
  <2> DEFINE more == [i \in 0..(k + 1) |-> IF i = k + 1 THEN grow(runs[k]) ELSE runs[i]]
  <2>2. Growing(more, edges, event, k + 1)
    <3>1. runs = [i \in 0..k |-> IF i = 0 THEN ChildrenOf(edges, event) ELSE grow(runs[i - 1])]
      BY <2>1 DEF Growing
    <3> HIDE DEF grow
    <3>2. more = [i \in 0..(k + 1) |-> IF i = 0 THEN ChildrenOf(edges, event)
                                       ELSE grow(more[i - 1])]
      BY <3>1
    <3> HIDE DEF more
    <3> QED
      BY <3>2 DEF Growing, grow
  <2>3. k + 1 \in 0..n
    BY <1>2
  <2> HIDE DEF more
  <2> QED
    BY <2>2, <2>3
<1> HIDE DEF H
<1>3. n \in H
  BY <1>1, <1>2, Induction
<1> QED
  BY <1>3 DEF H

(* HiddenBy is the least closed set, or part of it.                        *)
LEMMA HiddenWithin ==
  ASSUME NEW edges \in Seq(Edges), NEW event, NEW S, ChildrenOf(edges, event) \subseteq S,
         \A e \in S : ChildrenOf(edges, e) \subseteq S
  PROVE  HiddenBy(edges, event) \subseteq S
<1> DEFINE n == 2 * Len(edges)
           it == CHOOSE f : Growing(f, edges, event, n)
           H == {k \in 0..n : it[k] \subseteq S}
<1>1. n \in Nat
  <2>1. Len(edges) \in Nat
    OBVIOUS
  <2> QED
    BY <2>1
<1> HIDE DEF n
<1>2. Growing(it, edges, event, n)
  <2>1. \E f : Growing(f, edges, event, n)
    BY <1>1, GrowingExists
  <2> QED
    BY <2>1, Zenon
<1>3. HiddenBy(edges, event) = it[n]
  BY DEF HiddenBy, Repeat, Growing, ChildrenOf, n
<1> HIDE DEF it
<1>4. 0 \in H
  <2>1. it[0] = ChildrenOf(edges, event)
    BY <1>1, <1>2 DEF Growing
  <2> QED
    BY <1>1, <2>1
<1>5. ASSUME NEW k \in 0..n, k < n, k \in H PROVE k + 1 \in H
  <2>1. k + 1 \in 0..n /\ k + 1 # 0 /\ (k + 1) - 1 = k
    BY <1>1, <1>5
  <2>2. it[k + 1] = it[k] \cup UNION {ChildrenOf(edges, e) : e \in it[k]}
    BY <1>2, <2>1 DEF Growing
  <2>3. it[k] \subseteq S
    BY <1>5
  <2>4. it[k + 1] \subseteq S
    BY <2>2, <2>3
  <2> QED
    BY <2>1, <2>4
<1> HIDE DEF H
<1>6. \A k \in 0..n : k < n /\ k \in H => k + 1 \in H
  BY <1>5, Zenon
<1>7. n \in 0..n
  BY <1>1
<1>8. n \in H
  BY <1>1, <1>4, <1>6, <1>7, Induction, Zenon
<1> QED
  BY <1>3, <1>8 DEF H

(* The events that wait in a work list.                                    *)
Waiting(work) == {work[i].event : i \in DOMAIN work}

(* What expanding an event leaves in the result.                           *)
Expanded(edges, run, event) ==
  /\ ChildrenOf(edges, event) \subseteq run.events
  /\ \A j \in DOMAIN edges : Triggered(edges[j], event) =>
       Cells(edges[j].child, edges[j].childColumns) \subseteq run.reads

(* The walk as long as it stays above the depth limit: what it found waits *)
(* or is expanded, and it deals with candidates only.                      *)
Closing(edges, event, run) ==
  /\ run.events \cup {event} \subseteq run.visited \cup Waiting(run.work)
  /\ run.visited \cup Waiting(run.work) \subseteq Candidates(edges, event)
  /\ \A e \in run.visited : Expanded(edges, run, e)

(* The walk once it went too deep.                                         *)
Unknown(run) ==
  /\ run.work = <<>>
  /\ \A t \in Tables : /\ [table |-> t, columns |-> {AllColumns}, kind |-> "update"] \in run.events
                      /\ <<t, AllColumns>> \in run.reads

(* How many rounds are left at most: what waits, and what an event not yet *)
(* expanded can add to that.                                               *)
Remaining(edges, event, run) ==
  Len(run.work) + Len(edges) * Cardinality(Candidates(edges, event) \ run.visited)

(* A work list is its first entry and the rest.                            *)
LEMMA WaitingFirst ==
  ASSUME NEW P, NEW work \in Seq(P), work # <<>>
  PROVE  Waiting(work) = {Head(work).event} \cup Waiting(Tail(work))
<1> DEFINE n == Len(work)
           rest == Tail(work)
<1>1. n \in Nat /\ n >= 1 /\ DOMAIN work = 1..n /\ Head(work) = work[1]
  BY EmptySeq, LenProperties
<1>2. Len(rest) = n - 1 /\ DOMAIN rest = 1..(n - 1) /\ \A i \in 1..(n - 1) : rest[i] = work[i + 1]
  BY HeadTailProperties, LenProperties
<1> HIDE DEF n, rest
<1>3. ASSUME NEW i \in 1..n PROVE work[i].event \in {work[1].event} \cup Waiting(rest)
  <2>1. CASE i = 1
    BY <2>1
  <2>2. CASE i # 1
    <3>1. i - 1 \in 1..(n - 1) /\ (i - 1) + 1 = i
      BY <1>1, <2>2
    <3>2. rest[i - 1].event = work[i].event
      BY <1>2, <3>1
    <3> QED
      BY <1>2, <3>1, <3>2 DEF Waiting
  <2> QED
    BY <2>1, <2>2
<1>4. ASSUME NEW i \in 1..(n - 1) PROVE rest[i].event \in Waiting(work)
  <2>1. i + 1 \in 1..n
    BY <1>1
  <2> QED
    BY <1>1, <1>2, <2>1 DEF Waiting
<1>5. work[1].event \in Waiting(work)
  BY <1>1 DEF Waiting
<1>6. Waiting(work) \subseteq {work[1].event} \cup Waiting(rest)
  BY <1>1, <1>3 DEF Waiting
<1>7. Waiting(rest) \subseteq Waiting(work)
  BY <1>2, <1>4 DEF Waiting
<1> QED
  BY <1>1, <1>5, <1>6, <1>7 DEF rest

(* Two work lists, one behind the other.                                   *)
LEMMA WaitingBoth ==
  ASSUME NEW P, NEW a \in Seq(P), NEW b \in Seq(P)
  PROVE  Waiting(a \o b) = Waiting(a) \cup Waiting(b)
<1> DEFINE m == Len(a)
           n == Len(b)
           ab == a \o b
<1>1. /\ m \in Nat /\ n \in Nat /\ DOMAIN a = 1..m /\ DOMAIN b = 1..n
      /\ DOMAIN ab = 1..(m + n)
      /\ \A i \in 1..(m + n) : ab[i] = IF i <= m THEN a[i] ELSE b[i - m]
  BY ConcatProperties, LenProperties
<1> HIDE DEF m, n, ab
<1>2. ASSUME NEW i \in 1..(m + n) PROVE ab[i].event \in Waiting(a) \cup Waiting(b)
  <2>1. CASE i <= m
    <3>1. i \in 1..m /\ ab[i] = a[i]
      BY <1>1, <2>1
    <3> QED
      BY <1>1, <3>1 DEF Waiting
  <2>2. CASE ~(i <= m)
    <3>1. i - m \in 1..n /\ ab[i] = b[i - m]
      BY <1>1, <2>2
    <3> QED
      BY <1>1, <3>1 DEF Waiting
  <2> QED
    BY <2>1, <2>2
<1>3. ASSUME NEW i \in 1..m PROVE a[i].event \in Waiting(ab)
  <2>1. i \in 1..(m + n) /\ ab[i] = a[i]
    BY <1>1
  <2> QED
    BY <1>1, <2>1 DEF Waiting
<1>4. ASSUME NEW i \in 1..n PROVE b[i].event \in Waiting(ab)
  <2>1. i + m \in 1..(m + n) /\ ~(i + m <= m) /\ (i + m) - m = i
    BY <1>1
  <2>2. ab[i + m] = b[i]
    BY <1>1, <2>1
  <2> QED
    BY <1>1, <2>1, <2>2 DEF Waiting
<1>5. Waiting(ab) \subseteq Waiting(a) \cup Waiting(b)
  BY <1>1, <1>2 DEF Waiting
<1>6. Waiting(a) \cup Waiting(b) \subseteq Waiting(ab)
  BY <1>1, <1>3, <1>4 DEF Waiting
<1> QED
  BY <1>5, <1>6 DEF ab

(* One round below the limit: an event is expanded once more, or was.      *)
LEMMA StepCloses ==
  ASSUME NEW edges \in Seq(Edges), NEW event \in Proper, NEW run \in Walks,
         Closing(edges, event, run), run.work # <<>>
  PROVE  LET next == Step(edges, run)
         IN  \/ Unknown(next)
             \/ /\ Closing(edges, event, next)
                /\ Remaining(edges, event, next) \in Nat
                /\ Remaining(edges, event, next) < Remaining(edges, event, run)
<1> DEFINE P == [event : Proper, depth : Nat]
           n == Len(edges)
           first == Head(run.work)
           rest == Tail(run.work)
           all == Candidates(edges, event)
           next == Step(edges, run)
           left == Cardinality(all \ run.visited)
<1>1. run.work \in Seq(P) /\ run.visited \in SUBSET Proper
  BY DEF Walks
<1>2. n \in Nat /\ DOMAIN edges = 1..n /\ \A j \in 1..n : edges[j] \in Edges
  OBVIOUS
<1>3. first \in P /\ rest \in Seq(P) /\ Len(rest) = Len(run.work) - 1
      /\ Len(run.work) \in Nat /\ Len(run.work) >= 1 /\ Len(rest) \in Nat
  <2> HIDE DEF P
  <2>1. first \in P /\ rest \in Seq(P) /\ Len(rest) = Len(run.work) - 1
    BY <1>1, HeadTailProperties
  <2>2. Len(run.work) \in Nat /\ Len(rest) \in Nat
    BY <1>1, <2>1, LenProperties
  <2> QED
    BY <2>1, <2>2
<1>4. first.event \in Proper /\ first.depth \in Nat
  BY <1>3
<1>5. Waiting(run.work) = {first.event} \cup Waiting(rest)
  BY <1>1, WaitingFirst
<1>6. IsFiniteSet(all \ run.visited) /\ left \in Nat
  BY CandidatesFew, FS_Difference, FS_CardinalityType
<1> HIDE DEF n, P, all, left, next, first, rest
<1>7. CASE first.depth > MaxDepth
  <2>1. next = MarkUnknown(run)
    BY <1>4, <1>7, DepthAssumption DEF next, Step, first
  <2>2. Unknown(MarkUnknown(run))
    <3> DEFINE marked == {[table |-> t, columns |-> {AllColumns}, kind |-> "update"] : t \in Tables}
    <3>1. /\ MarkUnknown(run).work = <<>>
          /\ MarkUnknown(run).events = run.events \cup marked
          /\ MarkUnknown(run).reads = run.reads \cup (Tables \X {AllColumns})
      BY DEF MarkUnknown, Walks
    <3>2. \A t \in Tables : [table |-> t, columns |-> {AllColumns}, kind |-> "update"] \in marked
      OBVIOUS
    <3> QED
      BY <3>1, <3>2 DEF Unknown
  <2> QED
    BY <2>1, <2>2 DEF next
<1>8. CASE ~(first.depth > MaxDepth) /\ first.event \in run.visited
  <2>1. next = [run EXCEPT !.work = rest]
    BY <1>4, <1>8, DepthAssumption DEF next, Step, first, rest
  <2>2. /\ next.work = rest /\ next.visited = run.visited /\ next.events = run.events
        /\ next.reads = run.reads
    BY <2>1 DEF Walks
  <2>3. Closing(edges, event, next)
    BY <1>5, <1>8, <2>2 DEF Closing, Expanded
  <2>4. /\ Remaining(edges, event, next) = Len(rest) + n * left
        /\ Remaining(edges, event, run) = Len(run.work) + n * left
    BY <2>2 DEF Remaining, left, all, n
  <2>5. n * left \in Nat
    BY <1>2, <1>6
  <2>6. /\ Remaining(edges, event, next) \in Nat
        /\ Remaining(edges, event, next) < Remaining(edges, event, run)
    BY <1>3, <2>4, <2>5
  <2> QED
    BY <2>3, <2>6 DEF next
<1>9. CASE ~(first.depth > MaxDepth) /\ first.event \notin run.visited
  <2> DEFINE hit == {i \in DOMAIN edges : Triggered(edges[i], first.event)}
             parts == [i \in DOMAIN edges |->
                         IF i \in hit THEN ChildEvents(edges[i], first.event) ELSE <<>>]
             found == FlattenSeq(parts)
             depth == first.depth + 1
             more == [i \in DOMAIN found |-> [event |-> found[i], depth |-> depth]]
             looked == UNION {Cells(edges[i].child, edges[i].childColumns) : i \in hit}
             Few == all \cap Proper
  <2>1. next = Expand(edges, run)
    BY <1>4, <1>9, DepthAssumption DEF next, Step, first
  <2>2. /\ next.work = rest \o more /\ next.visited = run.visited \cup {first.event}
        /\ next.events = run.events \cup ToSet(found) /\ next.reads = run.reads \cup looked
    BY <2>1 DEF Expand, first, rest, hit, parts, found, depth, more, looked
  <2>3. ASSUME NEW i \in 1..n PROVE parts[i] \in Seq(Few) /\ Len(parts[i]) <= 1
    <3>1. Gone(edges[i]) \in all /\ Changed(edges[i]) \in all
      BY <1>2 DEF all, Candidates
    <3>2. Gone(edges[i]) \in Proper /\ Changed(edges[i]) \in Proper
      BY <1>2 DEF Gone, Changed, Edges, Proper, WriteEvents, ColumnSets
    <3>3. \/ parts[i] = <<Gone(edges[i])>>
          \/ parts[i] = <<Changed(edges[i])>>
          \/ parts[i] = <<>>
      BY <1>2, <1>4, ChildEventsAre
    <3> HIDE DEF parts, Few
    <3>4. Gone(edges[i]) \in Few /\ Changed(edges[i]) \in Few
      BY <3>1, <3>2 DEF Few
    <3>5. ASSUME NEW e \in Few PROVE <<e>> \in Seq(Few) /\ Len(<<e>>) <= 1
      OBVIOUS
    <3>6. <<>> \in Seq(Few) /\ Len(<<>>) <= 1
      OBVIOUS
    <3> QED
      BY <3>3, <3>4, <3>5, <3>6, Zenon
  <2>4. parts = [i \in 1..n |-> parts[i]]
    BY <1>2
  <2>5. \A i \in hit : i \in 1..n /\ parts[i] = ChildEvents(edges[i], first.event)
    BY <1>2
  <2> HIDE DEF parts, found, more, looked, Few
  <2>6. parts \in Seq(Seq(Few)) /\ Len(parts) = n
    BY <1>2, <2>3, <2>4, SeqByIndex
  <2>7. found \in Seq(Few) /\ Len(found) <= n /\ Len(found) \in Nat
    <3>1. found \in Seq(Few)
      BY <2>6, FlattenType DEF found
    <3>2. Len(found) <= n
      BY <2>3, <2>6, FlattenMembers DEF found
    <3> QED
      BY <3>1, <3>2, LenProperties
  <2>8. ToSet(found) \subseteq Few /\ DOMAIN found = 1..Len(found)
        /\ \A i \in 1..Len(found) : found[i] \in Few
    BY <2>7 DEF ToSet
  <2>9. ChildrenOf(edges, first.event) \subseteq ToSet(found)
    <3> SUFFICES ASSUME NEW i \in hit, NEW e \in ToSet(ChildEvents(edges[i], first.event))
                 PROVE  e \in ToSet(found)
      BY DEF ChildrenOf
    <3>1. i \in 1..n /\ e \in ToSet(parts[i]) /\ parts[i] \in Seq(Few)
      BY <2>3, <2>5
    <3>2. PICK j \in 1..Len(parts[i]) : e = parts[i][j]
      BY <3>1 DEF ToSet
    <3>3. PICK k \in 1..Len(found) : found[k] = parts[i][j]
      BY <2>6, <3>1, FlattenMembers DEF found
    <3> QED
      BY <2>8, <3>2, <3>3 DEF ToSet
  <2>10. more \in Seq(P) /\ Len(more) = Len(found)
    <3>1. /\ more = [i \in 1..Len(found) |-> more[i]]
          /\ \A i \in 1..Len(found) : more[i] \in P
      <4>1. depth \in Nat
        BY <1>4
      <4> HIDE DEF depth
      <4>2. \A i \in 1..Len(found) : [event |-> found[i], depth |-> depth] \in P
        BY <2>8, <4>1 DEF P, Few
      <4> QED
        BY <2>8, <4>2 DEF more
    <3> QED
      BY <2>7, <3>1, SeqByIndex
  <2>11. Waiting(more) = ToSet(found)
    <3> HIDE DEF depth
    <3>1. /\ DOMAIN more = 1..Len(found)
          /\ \A i \in 1..Len(found) : more[i].event = found[i]
      BY <2>8 DEF more
    <3> QED
      BY <2>8, <3>1 DEF Waiting, ToSet
  <2>12. Waiting(rest \o more) = Waiting(rest) \cup ToSet(found)
    BY <1>3, <2>10, <2>11, WaitingBoth
  <2>13. Closing(edges, event, next)
    <3>1. next.events \cup {event} \subseteq next.visited \cup Waiting(next.work)
      BY <1>5, <2>2, <2>12 DEF Closing
    <3>2. next.visited \cup Waiting(next.work) \subseteq all
      BY <1>5, <2>2, <2>8, <2>12 DEF Closing, all, Few
    <3>3. ASSUME NEW e \in run.visited PROVE Expanded(edges, next, e)
      BY <2>2, <3>3 DEF Closing, Expanded
    <3>4. Expanded(edges, next, first.event)
      <4>1. \A j \in DOMAIN edges : Triggered(edges[j], first.event) =>
              Cells(edges[j].child, edges[j].childColumns) \subseteq looked
        BY DEF looked
      <4> QED
        BY <2>2, <2>9, <4>1 DEF Expanded
    <3> QED
      BY <2>2, <3>1, <3>2, <3>3, <3>4 DEF Closing, all
  <2>14. Cardinality(all \ next.visited) = left - 1 /\ left - 1 \in Nat
    <3>1. first.event \in all \ run.visited
      BY <1>5, <1>9 DEF Closing, all
    <3>2. all \ next.visited = (all \ run.visited) \ {first.event}
      BY <2>2
    <3>3. /\ Cardinality((all \ run.visited) \ {first.event}) = left - 1
          /\ IsFiniteSet((all \ run.visited) \ {first.event})
      BY <1>6, <3>1, FS_RemoveElement DEF left
    <3>4. Cardinality((all \ run.visited) \ {first.event}) \in Nat
      BY <3>3, FS_CardinalityType
    <3> QED
      BY <3>2, <3>3, <3>4
  <2>15. /\ Remaining(edges, event, next) = Len(rest \o more) + n * (left - 1)
         /\ Remaining(edges, event, run) = Len(run.work) + n * left
    BY <2>2, <2>14 DEF Remaining, left, all, n
  <2>16. Len(rest \o more) = Len(rest) + Len(found)
    <3>1. rest \in Seq(P) /\ more \in Seq(P)
      BY <1>3, <2>10
    <3>2. Len(rest \o more) = Len(rest) + Len(more)
      BY <3>1, ConcatProperties, Zenon
    <3> QED
      BY <2>10, <3>2
  <2>17. n * (left - 1) = n * left - n /\ n * (left - 1) \in Nat
    BY <1>2, <1>6, <2>14
  <2>18. /\ Remaining(edges, event, next) \in Nat
         /\ Remaining(edges, event, next) < Remaining(edges, event, run)
    <3> DEFINE a == n * left
               b == n * (left - 1)
    <3>1. b = a - n /\ b \in Nat /\ n \in Nat
      BY <1>2, <2>17
    <3>2. a \in Nat
      BY <1>2, <1>6
    <3> DEFINE w == Len(run.work)
               l == Len(rest)
               f == Len(found)
    <3>3. /\ Remaining(edges, event, next) = l + f + b
          /\ Remaining(edges, event, run) = w + a
      BY <2>15, <2>16
    <3>4. l \in Nat /\ f \in 0..n /\ w = l + 1
      BY <1>3, <2>7
    <3> HIDE DEF a, b, w, l, f
    <3> QED
      BY <3>1, <3>2, <3>3, <3>4
  <2> QED
    BY <2>13, <2>18 DEF next
<1> QED
  BY <1>7, <1>8, <1>9

(* The walk is over after as many rounds as CascadeEffects runs: each      *)
(* round takes from what remains.                                          *)
LEMMA WalkEnds ==
  ASSUME NEW edges \in Seq(Edges), NEW event \in Proper
  PROVE  LET run == CascadeEffects(edges, event)
         IN  /\ run \in Walks
             /\ Unknown(run) \/ (Closing(edges, event, run) /\ run.work = <<>>)
<1> DEFINE n == Rounds(edges)
           l == Len(edges)
           all == Candidates(edges, event)
           it == CHOOSE f : Walking(f, edges, event, n)
           Rest(k) == Remaining(edges, event, it[k])
           Sound(k) == \/ Unknown(it[k])
                       \/ /\ Closing(edges, event, it[k])
                          /\ it[k].work = <<>> \/ (Rest(k) \in Nat /\ Rest(k) + k <= n)
           H == {k \in 0..n : it[k] \in Walks /\ Sound(k)}
<1>1. l \in Nat /\ l * (2 * l + 1) \in Nat /\ n = (2 * l + 1) * (l + 1)
      /\ (2 * l + 1) * (l + 1) = l * (2 * l + 1) + (2 * l + 1)
  <2>1. l \in Nat
    OBVIOUS
  <2>2. n = (2 * l + 1) * (l + 1)
    BY DEF Rounds
  <2> HIDE DEF l, n
  <2> QED
    BY <2>1, <2>2
<1> HIDE DEF n, l
<1>2. n \in Nat /\ n >= l * (2 * l + 1) + 1
  <2> DEFINE m == l * (2 * l + 1)
  <2>1. m \in Nat /\ n = m + (2 * l + 1) /\ l \in Nat
    BY <1>1
  <2> HIDE DEF m
  <2>2. n \in Nat /\ n >= m + 1
    BY <2>1
  <2> QED
    BY <2>2 DEF m
<1>3. Walking(it, edges, event, n)
  <2>1. \E f : Walking(f, edges, event, n)
    BY <1>2, WalkingExists
  <2> QED
    BY <2>1, Zenon
<1>4. CascadeEffects(edges, event) = it[n]
  BY DEF CascadeEffects, Repeat, Walking, n
<1> HIDE DEF it
<1>5. 0 \in H
  <2> DEFINE start == Start(event)
             c == Cardinality(all \ {})
  <2>1. it[0] = start
    BY <1>2, <1>3 DEF Walking
  <2>2. start \in Walks
    BY DEF Start, Walks
  <2>3. /\ start.work = <<[event |-> event, depth |-> 0]>> /\ start.visited = {}
        /\ start.events = {}
    BY DEF Start
  <2>4. Waiting(start.work) = {event} /\ Len(start.work) = 1
    BY <2>3 DEF Waiting
  <2>5. Closing(edges, event, start)
    BY <2>3, <2>4 DEF Closing, Candidates
  <2>6. c \in Nat /\ c <= 2 * l + 1
    <3>1. all \ {} = all
      OBVIOUS
    <3> QED
      BY <3>1, CandidatesFew DEF l
  <2>7. l * c \in Nat /\ l * c <= l * (2 * l + 1)
    <3> DEFINE d == (2 * l + 1) - c
    <3>1. d \in Nat /\ c + d = 2 * l + 1
      BY <1>1, <2>6
    <3> HIDE DEF d, c
    <3>2. l * (c + d) = l * c + l * d /\ l * c \in Nat /\ l * d \in Nat
      BY <1>1, <2>6, <3>1
    <3>3. l * (2 * l + 1) = l * c + l * d
      BY <3>1, <3>2
    <3> DEFINE x == l * c
               y == l * d
               z == l * (2 * l + 1)
    <3>4. x \in Nat /\ y \in Nat /\ z = x + y
      BY <3>2, <3>3
    <3> HIDE DEF x, y, z
    <3>5. x <= z
      BY <3>4
    <3> QED
      BY <3>2, <3>5 DEF x, z
  <2>8. Rest(0) = 1 + l * c
    BY <2>1, <2>3, <2>4 DEF Remaining, l
  <2> HIDE DEF start, c
  <2>9. Rest(0) \in Nat /\ Rest(0) + 0 <= n
    <3> DEFINE x == l * c
               z == l * (2 * l + 1)
    <3>1. x \in Nat /\ x <= z /\ z \in Nat /\ n \in Nat /\ n >= z + 1
      BY <1>1, <1>2, <2>7
    <3>2. Rest(0) = 1 + x
      BY <2>8
    <3> HIDE DEF x, z
    <3> QED
      BY <3>1, <3>2
  <2>10. Sound(0)
    BY <2>1, <2>5, <2>9
  <2>11. 0 \in 0..n
    BY <1>2
  <2> HIDE DEF Sound
  <2> QED
    BY <2>1, <2>2, <2>10, <2>11
<1>6. ASSUME NEW k \in 0..n, k < n, k \in H PROVE k + 1 \in H
  <2>1. k + 1 \in 0..n /\ k + 1 # 0 /\ (k + 1) - 1 = k /\ k \in Nat /\ n \in Nat /\ k + 1 <= n
    BY <1>2, <1>6
  <2>2. it[k + 1] = Step(edges, it[k])
    BY <1>3, <2>1 DEF Walking
  <2>3. it[k] \in Walks /\ Sound(k)
    BY <1>6
  <2>4. it[k + 1] \in Walks
    BY <2>2, <2>3, StepType
  <2>5. CASE it[k].work = <<>>
    <3>1. it[k + 1] = it[k]
      BY <2>2, <2>5 DEF Step
    <3>2. Sound(k + 1)
      BY <2>3, <2>5, <3>1
    <3> HIDE DEF Sound
    <3> QED
      BY <2>1, <2>4, <3>2
  <2>6. CASE it[k].work # <<>>
    <3>1. Closing(edges, event, it[k]) /\ Rest(k) \in Nat /\ Rest(k) + k <= n
      BY <2>3, <2>6 DEF Unknown
    <3>2. \/ Unknown(it[k + 1])
          \/ /\ Closing(edges, event, it[k + 1])
             /\ Rest(k + 1) \in Nat /\ Rest(k + 1) < Rest(k)
      BY <2>2, <2>3, <2>6, <3>1, StepCloses
    <3>3. Sound(k + 1)
      BY <2>1, <3>1, <3>2
    <3> HIDE DEF Sound
    <3> QED
      BY <2>1, <2>4, <3>3
  <2> QED
    BY <2>5, <2>6
<1> HIDE DEF H
<1>7. \A k \in 0..n : k < n /\ k \in H => k + 1 \in H
  BY <1>6, Zenon
<1>8. n \in 0..n
  BY <1>2
<1>9. n \in H
  BY <1>2, <1>5, <1>7, <1>8, Induction, Zenon
<1>10. it[n] \in Walks /\ Sound(n)
  BY <1>9 DEF H
<1>11. Unknown(it[n]) \/ (Closing(edges, event, it[n]) /\ it[n].work = <<>>)
  <2> SUFFICES ASSUME Rest(n) \in Nat, Rest(n) + n <= n PROVE it[n].work = <<>>
    BY <1>10
  <2> DEFINE c == Cardinality(all \ it[n].visited)
             w == it[n].work
  <2>1. w \in Seq([event : Proper, depth : Nat])
    BY <1>10 DEF Walks
  <2>2. c \in Nat
    BY CandidatesFew, FS_Difference, FS_CardinalityType
  <2>3. Rest(n) = Len(w) + l * c
    BY DEF Remaining, l
  <2> HIDE DEF c, w, Rest
  <2>4. Len(w) \in Nat
    BY <2>1, LenProperties
  <2> DEFINE x == l * c
  <2>5. x \in Nat
    BY <1>1, <2>2
  <2>6. Rest(n) = Len(w) + x
    BY <2>3
  <2> HIDE DEF x
  <2>7. Len(w) = 0
    BY <1>2, <2>4, <2>5, <2>6
  <2> QED
    BY <2>1, <2>7, EmptySeq DEF w
<1> QED
  BY <1>4, <1>10, <1>11

(* What CascadesCovered says of one statement.                             *)
CoveredBy(edges, m) ==
  LET s      == m.statement
      event  == [table |-> s.table, columns |-> s.columns, kind |-> s.kind]
      hidden == IF s.kind = "insert" THEN {} ELSE HiddenBy(edges, event)
      Covers(have, want) == AllColumns \in have \/ want \subseteq have
  IN  /\ \A h \in hidden : \E e \in m.events :
           e.table = h.table /\ e.kind \in {h.kind, "update"} /\ Covers(e.columns, h.columns)
      /\ \A h \in IF s.kind = "insert" THEN {} ELSE hidden \cup {event} :
           \A e \in ToSet(edges) :
             Triggered(e, h) => Covers(ColumnsOf(m.reads, e.child), e.childColumns)

(* It holds of what parsing makes of a statement.                          *)
LEMMA MetadataCovered ==
  ASSUME NEW edges \in Seq(Edges), NEW s \in Statements
  PROVE  CoveredBy(edges, Metadata(edges, s))
<1> DEFINE m == Metadata(edges, s)
           event == [table |-> s.table, columns |-> s.columns, kind |-> s.kind]
           run == CascadeEffects(edges, event)
           hidden == HiddenBy(edges, event)
           Covers(have, want) == AllColumns \in have \/ want \subseteq have
<1>1. m.statement = s
  BY DEF Metadata
<1>2. CASE s.kind = "insert"
  BY <1>1, <1>2 DEF CoveredBy
<1>3. CASE s.kind # "insert"
  <2>1. event \in Proper
    <3>1. s \in Dml
      BY StatementsAreDml
    <3> QED
      BY <1>3, <3>1 DEF Dml, Proper, WriteEvents
  <2>2. m.events = run.events /\ m.reads = s.reads \cup run.reads
    BY <1>3 DEF Metadata
  <2>3. run \in Walks /\ (Unknown(run) \/ (Closing(edges, event, run) /\ run.work = <<>>))
    BY <2>1, WalkEnds
  <2>4. \A j \in DOMAIN edges : edges[j] \in Edges
    OBVIOUS
  <2>5. ASSUME NEW e \in Proper PROVE ChildrenOf(edges, e) \subseteq Proper
    <3> SUFFICES ASSUME NEW j \in DOMAIN edges, NEW x \in ToSet(ChildEvents(edges[j], e))
                 PROVE  x \in Proper
      BY DEF ChildrenOf
    <3>1. ChildEvents(edges[j], e) \in Seq(Proper)
      BY <2>4, ChildEventsType
    <3> QED
      BY <3>1 DEF ToSet
  <2>6. hidden \subseteq Proper
    BY <2>1, <2>5, HiddenWithin
  <2> HIDE DEF run, hidden, m, event
  <2>7. /\ \A h \in hidden : \E e \in m.events :
             e.table = h.table /\ e.kind \in {h.kind, "update"} /\ Covers(e.columns, h.columns)
        /\ \A h \in hidden \cup {event} : \A e \in ToSet(edges) :
             Triggered(e, h) => Covers(ColumnsOf(m.reads, e.child), e.childColumns)
    <3>1. CASE Unknown(run)
      <4>1. ASSUME NEW h \in hidden
            PROVE  \E e \in m.events : /\ e.table = h.table /\ e.kind \in {h.kind, "update"}
                                       /\ Covers(e.columns, h.columns)
        <5> DEFINE e == [table |-> h.table, columns |-> {AllColumns}, kind |-> "update"]
        <5>1. h.table \in Tables
          BY <2>6 DEF Proper, WriteEvents
        <5>2. e \in m.events
          BY <2>2, <3>1, <5>1 DEF Unknown
        <5>3. e.table = h.table /\ e.kind \in {h.kind, "update"} /\ Covers(e.columns, h.columns)
          OBVIOUS
        <5> HIDE DEF e
        <5> QED
          BY <5>2, <5>3
      <4>2. ASSUME NEW e \in ToSet(edges)
            PROVE  AllColumns \in ColumnsOf(m.reads, e.child)
        <5>1. e.child \in Tables
          BY <2>4 DEF ToSet, Edges
        <5>2. <<e.child, AllColumns>> \in m.reads
          BY <2>2, <3>1, <5>1 DEF Unknown
        <5>3. Cells(e.child, {AllColumns}) \subseteq m.reads
          BY <5>2 DEF Cells
        <5> QED
          BY <5>3, ColumnsOfCells
      <4> QED
        BY <4>1, <4>2
    <3>2. CASE Closing(edges, event, run) /\ run.work = <<>>
      <4>1. Waiting(run.work) = {}
        BY <3>2 DEF Waiting
      <4>2. \A e \in run.events \cup {event} : Expanded(edges, run, e)
        BY <3>2, <4>1 DEF Closing
      <4>3. hidden \subseteq run.events
        <5>1. ChildrenOf(edges, event) \subseteq run.events
          BY <4>2 DEF Expanded
        <5>2. \A e \in run.events : ChildrenOf(edges, e) \subseteq run.events
          BY <4>2 DEF Expanded
        <5> QED
          BY <5>1, <5>2, HiddenWithin DEF hidden
      <4>4. ASSUME NEW h \in hidden
            PROVE  \E e \in m.events : /\ e.table = h.table /\ e.kind \in {h.kind, "update"}
                                       /\ Covers(e.columns, h.columns)
        BY <2>2, <4>3
      <4>5. ASSUME NEW h \in hidden \cup {event}, NEW e \in ToSet(edges), Triggered(e, h)
            PROVE  e.childColumns \subseteq ColumnsOf(m.reads, e.child)
        <5>1. PICK j \in DOMAIN edges : e = edges[j]
          BY DEF ToSet
        <5>2. Expanded(edges, run, h)
          BY <4>2, <4>3
        <5>3. Cells(e.child, e.childColumns) \subseteq m.reads
          BY <2>2, <4>5, <5>1, <5>2 DEF Expanded
        <5> QED
          BY <5>3, ColumnsOfCells
      <4> QED
        BY <4>4, <4>5
    <3> QED
      BY <2>3, <3>1, <3>2
  <2> QED
    BY <1>1, <1>3, <2>7 DEF CoveredBy, hidden, event, m
<1> QED
  BY <1>2, <1>3

(* Every parsed statement is covered, queued or not.                       *)
AllCovered ==
  \A t \in Transactions : \A m \in Parsed(t) : CoveredBy(ForeignKeysOf[schema], m)

(* They are parsed once, before the loop.                                  *)
LEMMA AllCoveredInit == Init => AllCovered
<1> SUFFICES ASSUME Init, NEW t \in Transactions, NEW m \in Parsed(t)
             PROVE  CoveredBy(ForeignKeysOf[schema], m)
  BY DEF AllCovered
<1> DEFINE edges == ForeignKeysOf[schema]
           ss == StatementsOf[t]
<1>1. edges \in Seq(Edges)
  BY SchemaAssumption DEF Init
<1>2. parsed[t].statements = [i \in DOMAIN ss |-> Metadata(edges, ss[i])]
  BY DEF Init, TransactionMetadata
<1>3. PICK i \in DOMAIN ss : m = Metadata(edges, ss[i])
  BY <1>2 DEF Parsed, ToSet
<1>4. ss[i] \in Statements
  BY <1>3 DEF Statements, ToSet
<1> QED
  BY <1>1, <1>3, <1>4, MetadataCovered

(* The metadata of a queued statement covers every hidden write that       *)
(* foreign-key actions can lead to, and the columns they look up, also     *)
(* when the walk gives up at its depth limit; the walk always ends.        *)
THEOREM CascadesCoveredHolds == Spec => []CascadesCovered
<1>1. AllCovered /\ [Next]_vars => AllCovered'
  <2> SUFFICES ASSUME AllCovered, [Next]_vars PROVE AllCovered'
    OBVIOUS
  <2>1. UNCHANGED <<schema, parsed>>
    BY DEF Next, Delete, Replace, PopHead, vars
  <2> QED
    BY <2>1 DEF AllCovered, Parsed
<1>2. ASSUME FilterInv, AllCovered PROVE CascadesCovered
  <2>1. \A i \in DOMAIN queue : queue[i] \in Transactions
    BY <1>2 DEF FilterInv
  <2> QED
    BY <1>2, <2>1 DEF CascadesCovered, AllCovered, CoveredBy, EdgeSet
<1> QED
  BY <1>1, <1>2, AllCoveredInit, FilterInvHolds, PTL DEF Spec
=============================================================================
