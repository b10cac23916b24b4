----------------------------- MODULE ForeignKeys ------------------------------
(***************************************************************************)
(* What one UPDATE or DELETE writes and reads beside its own table, through*)
(* foreign-key actions (src/src/merge/cascade_metadata.py).  Columns are   *)
(* sets of names; "*" stands for every column of a table.                  *)
(***************************************************************************)
EXTENDS Naturals, Sequences, FiniteSets, SequencesExt

CONSTANTS Tables,
          ColumnNames,
          MaxDepth     \* MAX_CASCADE_METADATA_DEPTH, 64 in the code

ASSUME DepthAssumption == MaxDepth \in Nat

AllColumns == "*"
ColumnSets == SUBSET (ColumnNames \cup {AllColumns})
Actions == {"NO ACTION", "RESTRICT", "CASCADE", "SET NULL", "SET DEFAULT"}
Edges == [child : Tables, childColumns : ColumnSets \ {{}}, parent : Tables,
          parentColumns : ColumnSets \ {{}}, onDelete : Actions, onUpdate : Actions]
WriteEvents == [table : Tables, columns : ColumnSets, kind : {"update", "delete"}]

(* column_overlap: "*" meets every non-empty set.                          *)
Overlap(left, right) ==
  /\ left # {} /\ right # {}
  /\ AllColumns \in left \cup right \/ left \cap right # {}

-----------------------------------------------------------------------------
NoAction == "none"
ActionFor(edge, event) ==
  CASE event.kind = "delete" -> edge.onDelete
    [] event.kind = "update" /\ Overlap(event.columns, edge.parentColumns) -> edge.onUpdate
    [] OTHER -> NoAction

Triggered(edge, event) == edge.parent = event.table /\ ActionFor(edge, event) # NoAction

(* The hidden write of one action: none or one event.                      *)
ChildEvents(edge, event) ==
  LET action == ActionFor(edge, event) IN
  CASE action = "CASCADE" /\ event.kind = "delete" ->
         <<[table |-> edge.child, columns |-> {AllColumns}, kind |-> "delete"]>>
    [] action \in {"SET NULL", "SET DEFAULT"} \/ (action = "CASCADE" /\ event.kind # "delete") ->
         <<[table |-> edge.child, columns |-> edge.childColumns, kind |-> "update"]>>
    [] OTHER -> <<>>

Cells(table, columns) == {table} \X columns

(* _cascade_effects_for_event: breadth first, each event expanded once;    *)
(* too deep, and every table counts as updated and read.                   *)
Start(event) == [work |-> <<[event |-> event, depth |-> 0]>>, visited |-> {},
                 events |-> {}, reads |-> {}]

Unmarked(run) == [run EXCEPT !.work = <<>>]   \* mutant
MarkUnknown(run) ==
  [run EXCEPT
     !.work = <<>>,
     !.events = @ \cup {[table |-> t, columns |-> {AllColumns}, kind |-> "update"] : t \in Tables},
     !.reads = @ \cup Tables \X {AllColumns}]

Expand(edges, run) ==
  LET event == Head(run.work).event
      hit   == {i \in DOMAIN edges : Triggered(edges[i], event)}
      found == FlattenSeq([i \in DOMAIN edges |->
                             IF i \in hit THEN ChildEvents(edges[i], event) ELSE <<>>])
      depth == Head(run.work).depth + 1
  IN  [work    |-> Tail(run.work) \o [i \in DOMAIN found |-> [event |-> found[i], depth |-> depth]],
       visited |-> run.visited \cup {event},
       events  |-> run.events \cup ToSet(found),
       reads   |-> run.reads \cup
                     UNION {Cells(edges[i].child, edges[i].childColumns) : i \in hit}]

Step(edges, run) ==
  CASE run.work = <<>> -> run
    [] run.work # <<>> /\ Head(run.work).depth > MaxDepth -> MarkUnknown(run)
    [] run.work # <<>> /\ Head(run.work).depth <= MaxDepth
         /\ Head(run.work).event \in run.visited -> [run EXCEPT !.work = Tail(@)]
    [] OTHER -> Expand(edges, run)

(* Each edge yields two different events at most, and each is expanded     *)
(* once, so the loop has ended after this many rounds.                     *)
Rounds(edges) == (2 * Len(edges) + 1) * (Len(edges) + 1)
Repeat(f(_), x, n) ==
  LET runs[i \in 0..n] == IF i = 0 THEN x ELSE f(runs[i - 1])
  IN  runs[n]
CascadeEffects(edges, event) ==
  Repeat(LAMBDA run : Step(edges, run), Start(event), Rounds(edges))

-----------------------------------------------------------------------------
(* Reference: the hidden writes of SQLite's foreign-key processing are the *)
(* closure of the single actions, whatever the depth.                      *)
HiddenBy(edges, event) ==
  LET Children(e) == UNION {ToSet(ChildEvents(edges[i], e)) :
                              i \in {j \in DOMAIN edges : Triggered(edges[j], e)}}
      Grow(S) == S \cup UNION {Children(e) : e \in S}
  IN  Repeat(Grow, Children(event), 2 * Len(edges))
=============================================================================
