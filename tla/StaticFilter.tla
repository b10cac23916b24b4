----------------------------- MODULE StaticFilter -----------------------------
(***************************************************************************)
(* The cheap check in front of the rolling scan                            *)
(* (src/src/merge/remaining_metadata.py).  A branch's remaining queue is   *)
(* summed up in counters per table and column; a head asks them which      *)
(* kinds of conflict its scan has to look for at all.  A kind the counters *)
(* miss is never looked for, with no second check behind it.               *)
(*                                                                         *)
(* A statement is [kind, table, columns, reads, omits]: `reads` are the    *)
(* cells it refers to, `omits` says that an INSERT leaves the INTEGER      *)
(* PRIMARY KEY to SQLite.                                                  *)
(***************************************************************************)
EXTENDS ForeignKeys

CONSTANTS ForeignKeysOf,  \* schema name -> its foreign keys
          StatementsOf,   \* transaction name -> its statements
          KeySets,        \* table -> the sets of columns with a unique index
          IntegerKey,     \* table -> its INTEGER PRIMARY KEY or NoColumn
          NoColumn,
          MaxQueue        \* bound on the queue

Schemas == DOMAIN ForeignKeysOf
Transactions == DOMAIN StatementsOf
Statements == UNION {ToSet(StatementsOf[t]) : t \in Transactions}

AllCells == Tables \X (ColumnNames \cup {AllColumns})

(* An INSERT or DELETE writes every column (_updated_columns).             *)
Dml == {s \in [kind : {"insert", "update", "delete"}, table : Tables, columns : ColumnSets,
               reads : SUBSET AllCells, omits : BOOLEAN] :
          s.kind # "update" => s.columns = {AllColumns}}

ASSUME SchemaAssumption ==
  /\ IsFiniteSet(Tables) /\ IsFiniteSet(ColumnNames)
  /\ ForeignKeysOf \in [Schemas -> Seq(Edges)]
  /\ KeySets \in [Tables -> SUBSET (ColumnSets \ {{}})]
  /\ IntegerKey \in [Tables -> ColumnNames \cup {NoColumn}]
ASSUME StatementsAssumption ==
  StatementsOf \in [Transactions -> Seq(Dml)] /\ MaxQueue \in Nat

VARIABLES schema,  \* never changes
          parsed,  \* LoggedTransaction.metadata of each transaction; never changes
          queue,   \* deque[LoggedTransaction] of one branch
          index    \* its RemainingMetadataIndex

vars == <<schema, parsed, queue, index>>

-----------------------------------------------------------------------------
(* Metadata of a statement; of a transaction, that of its statements.      *)
Metadata(edges, s) ==
  LET effects == CascadeEffects(edges, [table |-> s.table, columns |-> s.columns, kind |-> s.kind])
      hidden  == IF s.kind = "insert" THEN [events |-> {}, reads |-> {}] ELSE effects
  IN  [statement |-> s,
       events    |-> hidden.events,
       writes    |-> Cells(s.table, s.columns)
                       \cup UNION {Cells(e.table, e.columns) : e \in hidden.events},
       reads     |-> s.reads \cup hidden.reads,
       cascades  |-> hidden.events # {} \/ hidden.reads # {}]

TransactionMetadata(edges, statements) ==
  LET all == [i \in DOMAIN statements |-> Metadata(edges, statements[i])]
      Gather(f(_)) == UNION {f(all[i]) : i \in DOMAIN all}
  IN  [statements |-> all,
       events     |-> Gather(LAMBDA m : m.events),
       writes     |-> Gather(LAMBDA m : m.writes),
       reads      |-> Gather(LAMBDA m : m.reads)]

EdgeSet == ToSet(ForeignKeysOf[schema])
Parsed(t) == ToSet(parsed[t].statements)
WrittenTables(t) == {cell[1] : cell \in parsed[t].writes}

ColumnsOf(cells, table) == {cell[2] : cell \in {c \in cells : c[1] = table}}
CellsOverlap(left, right) ==
  \E table \in Tables : Overlap(ColumnsOf(left, table), ColumnsOf(right, table))

OmittedKey(s) ==
  IF s.kind = "insert" /\ s.omits THEN {IntegerKey[s.table]} \ {NoColumn} ELSE {}

-----------------------------------------------------------------------------
(* RemainingMetadataIndex: how often each cell is counted under each head. *)
Counters == {"referenced", "writeWrite", "create", "remove", "update", "omitted"}

DeleteKeepsKey(kind) ==   \* mutant
  CASE kind = "insert" -> {"create"}
    [] kind = "update" -> {"writeWrite", "create", "remove", "update"}
    [] kind = "delete" -> {"writeWrite"}
CountersOf(kind) ==
  CASE kind = "insert" -> {"create"}
    [] kind = "update" -> {"writeWrite", "create", "remove", "update"}
    [] kind = "delete" -> {"writeWrite", "remove"}

(* What a statement counts under a counter: its own write, hidden ones (an *)
(* event the code lists twice is added twice and removed twice; it counts  *)
(* once here), the cells it refers to, the key it omits.                   *)
Count(m, counter, cell) ==
  LET s == m.statement
      Write(kind, cells) == counter \in CountersOf(kind) /\ cell \in cells
      others == CASE counter = "referenced" -> m.reads
                  [] counter = "omitted" -> Cells(s.table, OmittedKey(s))
                  [] OTHER -> {}
  IN  Cardinality({e \in m.events : Write(e.kind, Cells(e.table, e.columns))})
      + Cardinality({k \in {s.kind} : Write(k, Cells(s.table, s.columns))})
      + Cardinality({cell} \cap others)

ForEachCount(f(_, _, _)) ==
  [k \in Counters |-> [t \in Tables |-> [c \in ColumnNames \cup {AllColumns} |-> f(k, t, c)]]]
(* The same for the statements of a transaction.                           *)
Tally(t, k, table, c) ==
  LET all == parsed[t].statements
      sums[i \in 0..Len(all)] ==
        IF i = 0 THEN 0 ELSE sums[i - 1] + Count(all[i], k, <<table, c>>)
  IN  sums[Len(all)]

EmptyIndex == [counts |-> ForEachCount(LAMBDA k, t, c : 0), size |-> 0]
AddTransaction(x, t) ==
  [counts |-> ForEachCount(LAMBDA k, table, c :
                x.counts[k][table][c] + Tally(t, k, table, c)),
   size   |-> x.size + 1]
RemoveOnce(x, t) ==   \* mutant
  [counts |-> ForEachCount(LAMBDA k, table, c :
                IF Tally(t, k, table, c) = 0 \/ x.counts[k][table][c] = 0
                THEN x.counts[k][table][c] ELSE x.counts[k][table][c] - 1),
   size   |-> x.size - 1]
StatementsCounted(x, t) ==   \* mutant
  [x EXCEPT !.size = @ - Len(StatementsOf[t])]
(* A count that falls to zero or below is dropped.                         *)
RemoveTransaction(x, t) ==
  [counts |-> ForEachCount(LAMBDA k, table, c :
                LET n == x.counts[k][table][c] - Tally(t, k, table, c)
                IN  IF n <= 0 THEN 0 ELSE n),
   size   |-> x.size - 1]
IndexOf(q) ==
  LET built[i \in 0..Len(q)] ==
        IF i = 0 THEN EmptyIndex ELSE AddTransaction(built[i - 1], q[i])
  IN  built[Len(q)]

Counted(x, counter, table) ==
  {c \in ColumnNames \cup {AllColumns} : x.counts[counter][table][c] > 0}
Has(x, counter, table, columns) == Overlap(Counted(x, counter, table), columns)

-----------------------------------------------------------------------------
(* remaining_individual_check_kinds: what the head's scan must look for.   *)
WriteWritePossible(t, x) ==
  \/ \E m \in Parsed(t) : LET s == m.statement IN
       \/ s.kind = "update" /\ Has(x, "writeWrite", s.table, s.columns)
       \/ s.kind = "delete" /\ Has(x, "update", s.table, {AllColumns})
  \/ \E e \in parsed[t].events :
       \/ e.kind = "update" /\ Has(x, "writeWrite", e.table, e.columns)
       \/ e.kind = "delete" /\ Has(x, "update", e.table, {AllColumns})

WriteReadPossible(t, x) ==
  \E table \in WrittenTables(t) : Has(x, "referenced", table, ColumnsOf(parsed[t].writes, table))

ImplicitKeyPossible(t, x) ==
  \E m \in Parsed(t) : LET s == m.statement IN
    \/ s.kind = "update" /\ Has(x, "omitted", s.table, s.columns)
    \/ Has(x, "omitted", s.table, OmittedKey(s))
    \/ Has(x, "update", s.table, OmittedKey(s))

(* May a transaction create or change, remove or change, a key?            *)
MayCreateKey(t, table, key) ==
  \/ \E m \in Parsed(t) : LET s == m.statement IN
       s.table = table /\ (s.kind = "insert" \/ (s.kind = "update" /\ Overlap(s.columns, key)))
  \/ \E e \in parsed[t].events : e.kind = "update" /\ e.table = table /\ Overlap(e.columns, key)
MayRemoveKey(t, table, key) ==
  \/ \E m \in Parsed(t) : LET s == m.statement IN
       s.table = table /\ (s.kind = "delete" \/ (s.kind = "update" /\ Overlap(s.columns, key)))
  \/ \E e \in parsed[t].events : e.table = table /\ (e.kind = "delete" \/ Overlap(e.columns, key))

ConstraintPossible(t, x) ==
  \/ \E table \in WrittenTables(t) : \E key \in KeySets[table] :
       MayCreateKey(t, table, key) /\ Has(x, "create", table, key)
  \/ \E e \in EdgeSet :
       \/ /\ e.parent \in WrittenTables(t)
          /\ MayRemoveKey(t, e.parent, e.parentColumns)
          /\ Has(x, "create", e.child, e.childColumns)
       \/ /\ e.child \in WrittenTables(t)
          /\ MayCreateKey(t, e.child, e.childColumns)
          /\ Has(x, "remove", e.parent, e.parentColumns)

NeededKinds(t, x) ==
  IF x.size = 0 THEN {}
  ELSE {kind \in {"write_write", "write_read", "implicit_insert_key", "integrity"} :
          CASE kind = "write_write" -> WriteWritePossible(t, x)
            [] kind = "write_read" -> WriteReadPossible(t, x)
            [] kind = "implicit_insert_key" -> ImplicitKeyPossible(t, x)
            [] kind = "integrity" -> ConstraintPossible(t, x)}

-----------------------------------------------------------------------------
(* The queue: _replace_or_delete_transaction, and the head that leaves.    *)
Init ==
  /\ schema \in Schemas
  /\ parsed = [t \in Transactions |->
                 TransactionMetadata(ForeignKeysOf[schema], StatementsOf[t])]
  /\ queue \in UNION {[1..n -> Transactions] : n \in 0..MaxQueue}
  /\ index = IndexOf(queue)

Delete(i) ==
  /\ index' = RemoveTransaction(index, queue[i])
  /\ queue' = RemoveAt(queue, i)
  /\ UNCHANGED <<schema, parsed>>

ReplaceAdding(i, replacement) ==   \* mutant
  /\ index' = AddTransaction([index EXCEPT !.size = @ - 1], replacement)
  /\ queue' = [queue EXCEPT ![i] = replacement]
  /\ UNCHANGED <<schema, parsed>>
Replace(i, replacement) ==
  /\ index' = AddTransaction(RemoveTransaction(index, queue[i]), replacement)
  /\ queue' = [queue EXCEPT ![i] = replacement]
  /\ UNCHANGED <<schema, parsed>>

PopHead ==
  /\ queue # <<>>
  /\ index' = RemoveTransaction(index, Head(queue))
  /\ queue' = Tail(queue)
  /\ UNCHANGED <<schema, parsed>>

Next ==
  \/ \E i \in DOMAIN queue : Delete(i)
  \/ \E i \in DOMAIN queue, t \in Transactions : Replace(i, t)
  \/ PopHead

Spec == Init /\ [][Next]_vars
=============================================================================
