----------------------------- MODULE FilterSafety -----------------------------
(***************************************************************************)
(* What the queue filter promises, against the analysis of a head with one *)
(* queued transaction (src/src/merge/static_analysis.py).                  *)
(***************************************************************************)
EXTENDS StaticFilter

-----------------------------------------------------------------------------
(* The pairwise analysis of the same kinds.                                *)
DirectOverlap(m, n) ==
  LET s == m.statement
      u == n.statement
  IN  /\ s.table = u.table
      /\ {s.kind, u.kind} # {"delete"}
      /\ "insert" \notin {s.kind, u.kind}
      /\ Overlap(s.columns, u.columns)

PairWriteWrite(t, u) ==
  \E m \in Parsed(t), n \in Parsed(u) :
    \/ DirectOverlap(m, n)
    \/ (m.cascades \/ n.cascades) /\ CellsOverlap(m.writes, n.writes)

PairWriteRead(t, u) == CellsOverlap(parsed[t].writes, parsed[u].reads)

ImplicitKey(insert, other) ==
  LET s == insert.statement
      o == other.statement
  IN  /\ OmittedKey(s) # {} /\ s.table = o.table
      /\ OmittedKey(o) # {} \/ (o.kind = "update" /\ Overlap(o.columns, OmittedKey(s)))
PairImplicitKey(t, u) ==
  \E m \in Parsed(t), n \in Parsed(u) : ImplicitKey(m, n) \/ ImplicitKey(n, m)

PairConstraint(t, u) ==
  \/ \E table \in Tables : \E key \in KeySets[table] :
       MayCreateKey(t, table, key) /\ MayCreateKey(u, table, key)
  \/ \E e \in EdgeSet :
       \/ /\ e.parent \in WrittenTables(t)
          /\ MayRemoveKey(t, e.parent, e.parentColumns)
          /\ MayCreateKey(u, e.child, e.childColumns)
       \/ /\ e.child \in WrittenTables(t)
          /\ MayCreateKey(t, e.child, e.childColumns)
          /\ MayRemoveKey(u, e.parent, e.parentColumns)

-----------------------------------------------------------------------------
(* Reference for write/write: two writes, explicit or hidden, of one table *)
(* and overlapping columns, of which neither makes a row and one at least  *)
(* leaves it there.                                                        *)
OwnWrites(m) ==
  m.events \cup {[table |-> m.statement.table, columns |-> m.statement.columns,
                  kind |-> m.statement.kind]}
RowWrites(t) ==
  parsed[t].events \cup {[table |-> m.statement.table, columns |-> m.statement.columns,
                   kind |-> m.statement.kind] : m \in Parsed(t)}
WritesCollide(t, u) ==
  \E v \in RowWrites(t), w \in RowWrites(u) :
    /\ v.table = w.table /\ Overlap(v.columns, w.columns)
    /\ "insert" \notin {v.kind, w.kind} /\ {v.kind, w.kind} # {"delete"}

(* What the pairwise analysis reports beyond that: overlapping writes of   *)
(* which one is an INSERT, or both are deletions, if one of the statements *)
(* has foreign-key effects (hidden writes, or mere lookups).               *)
OnlyInsertOrDeletes(t, u) ==
  \E m \in Parsed(t), n \in Parsed(u) :
    /\ m.cascades \/ n.cascades
    /\ \E v \in OwnWrites(m), w \in OwnWrites(n) :
          /\ v.table = w.table /\ Overlap(v.columns, w.columns)
          /\ "insert" \in {v.kind, w.kind} \/ {v.kind, w.kind} = {"delete"}

(* Types of the schema, the metadata, the queue and its counters.          *)
TypeOK ==
  /\ schema \in Schemas
  /\ parsed \in [Transactions ->
       [statements : Seq([statement : Statements, events : SUBSET WriteEvents,
                          writes : SUBSET AllCells, reads : SUBSET AllCells,
                          cascades : BOOLEAN]),
        events : SUBSET WriteEvents, writes : SUBSET AllCells, reads : SUBSET AllCells]]
  /\ queue \in Seq(Transactions) /\ Len(queue) <= MaxQueue
  /\ index.size \in Nat
  /\ index.counts \in
       [Counters -> [Tables -> [ColumnNames \cup {AllColumns} -> Nat]]]

(* However the queue got here, by edits, deletions and accepted heads, its *)
(* counters are those of a fresh index of what it holds now.  Replacing a  *)
(* transaction takes out the metadata of the old one, cascades included.   *)
IndexFollowsQueue == index = IndexOf(queue)

(* What the analysis of the head with some queued transaction reports as a *)
(* read, an implicit key or a constraint is asked for.  Write/write is     *)
(* asked for where two writes of a row that both branches had collide, and *)
(* there the pairwise analysis sees it too; what it reports elsewhere, and *)
(* the filter leaves out, is an INSERT against another write, or two       *)
(* deletions, where one of the statements has foreign-key effects, and     *)
(* nothing else.  The head may be any transaction the user can edit it     *)
(* into.                                                                   *)
(* [remaining_metadata.py:24-52, 323-364; static_analysis.py:288-306]      *)
FilterCoversPairs ==
  \A head \in Transactions, i \in DOMAIN queue :
    LET needed == NeededKinds(head, index) IN
    /\ WritesCollide(head, queue[i]) =>
         "write_write" \in needed /\ PairWriteWrite(head, queue[i])
    /\ PairWriteWrite(head, queue[i]) =>
         "write_write" \in needed \/ OnlyInsertOrDeletes(head, queue[i])
    /\ PairWriteRead(head, queue[i]) => "write_read" \in needed
    /\ PairImplicitKey(head, queue[i]) => "implicit_insert_key" \in needed
    /\ PairConstraint(head, queue[i]) => "integrity" \in needed

(* Asking counters summed over the queue says no more than asking about    *)
(* each queued transaction alone: a kind is looked for only if a single    *)
(* transaction calls for it.                                               *)
FilterIsPairwise ==
  \A head \in Transactions :
    NeededKinds(head, index) \subseteq
      UNION {NeededKinds(head, IndexOf(<<queue[i]>>)) : i \in DOMAIN queue}

(* The metadata of a queued statement covers every hidden write that       *)
(* foreign-key actions can lead to, and the columns they look up, also     *)
(* when the chain of actions is longer than the walk follows.              *)
CascadesCovered ==
  \A i \in DOMAIN queue : \A m \in Parsed(queue[i]) :
    LET s      == m.statement
        event  == [table |-> s.table, columns |-> s.columns, kind |-> s.kind]
        hidden == IF s.kind = "insert" THEN {} ELSE HiddenBy(ForeignKeysOf[schema], event)
        Covers(have, want) == AllColumns \in have \/ want \subseteq have
    IN  /\ \A h \in hidden : \E e \in m.events :
             e.table = h.table /\ e.kind \in {h.kind, "update"} /\ Covers(e.columns, h.columns)
        /\ \A h \in IF s.kind = "insert" THEN {} ELSE hidden \cup {event} :
             \A e \in EdgeSet :
               Triggered(e, h) => Covers(ColumnsOf(m.reads, e.child), e.childColumns)
=============================================================================
