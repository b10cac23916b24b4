------------------------------ MODULE ReplaySql ------------------------------
(***************************************************************************)
(* The SQL a merge replays, reduced to what the merge checks tell apart.   *)
(*                                                                         *)
(* One table t(k PRIMARY KEY, v): a database is a function from primary    *)
(* keys to the value column, NoRow where the row is absent.  A statement   *)
(* is one of the DML forms the tool treats differently.  SQLite's own      *)
(* semantics (Succeeds, Result) is external code; everything below it is   *)
(* the metadata and the probe SQL that src/src/merge builds per statement. *)
(***************************************************************************)
EXTENDS Naturals, Sequences, FiniteSets, Folds, SequencesExt

CONSTANTS Rows,   \* the primary keys of the table
          Vals,   \* literal values a statement can write
          Null,   \* SQL NULL, what a subquery over no row yields
          NoRow   \* marks an absent row; not a value

ASSUME ValuesAssumption == NoRow \notin Vals \cup {Null}

Values == Vals \cup {Null}
Databases == [Rows -> Values \cup {NoRow}]

InsertOps == {"insert", "ignore", "replace", "upsert"}
WholeTableOps == {"all", "wipe"}
Ops == InsertOps \cup WholeTableOps \cup {"update", "copy", "move", "delete"}

(* safe is LoggedStatement.is_replay_safe: FALSE for SQL the tool cannot   *)
(* replay automatically, e.g. an edit that calls random().                 *)
Statements == [op : Ops, row : Rows, val : Vals, src : Rows, safe : BOOLEAN]

Present(db, r) == db[r] # NoRow

(***************************************************************************)
(* SQLite: does the statement run without error, and what does it leave?   *)
(*   insert   INSERT INTO t VALUES (row, val)                              *)
(*   ignore   INSERT OR IGNORE,  replace  INSERT OR REPLACE                *)
(*   upsert   INSERT ... ON CONFLICT(k) DO UPDATE SET v = val              *)
(*   update   UPDATE t SET v = val WHERE k = row                           *)
(*   copy     UPDATE t SET v = (SELECT v FROM t WHERE k = src) WHERE k=row *)
(*   move     UPDATE t SET k = src WHERE k = row                           *)
(*   delete   DELETE FROM t WHERE k = row                                  *)
(*   all      UPDATE t SET v = val,  wipe  DELETE FROM t                   *)
(***************************************************************************)
Succeeds(s, db) ==
  /\ s.op = "insert" => ~Present(db, s.row)
  /\ s.op = "move" /\ s.src # s.row /\ Present(db, s.row) => ~Present(db, s.src)

Targets(s) == IF s.op \in WholeTableOps THEN Rows ELSE {s.row}

Selected(s, db) == IF Present(db, s.src) THEN db[s.src] ELSE Null

Result(s, db) ==
  CASE s.op \in {"insert", "replace", "upsert"} -> [db EXCEPT ![s.row] = s.val]
    [] s.op = "ignore" /\ ~Present(db, s.row)   -> [db EXCEPT ![s.row] = s.val]
    [] s.op \in {"update", "all"} ->
         [r \in Rows |-> IF r \in Targets(s) /\ Present(db, r) THEN s.val ELSE db[r]]
    [] s.op = "copy" /\ Present(db, s.row) -> [db EXCEPT ![s.row] = Selected(s, db)]
    [] s.op = "move" /\ Present(db, s.row) ->
         [db EXCEPT ![s.row] = NoRow, ![s.src] = db[s.row]]
    [] s.op \in {"delete", "wipe"} ->
         [r \in Rows |-> IF r \in Targets(s) THEN NoRow ELSE db[r]]
    [] OTHER -> db

(* The SQL sent to the attached control copy: an UPSERT is replayed there  *)
(* as the strict INSERT kept in its metadata.                              *)
ControlForm(s) == IF s.op = "upsert" THEN [s EXCEPT !.op = "insert"] ELSE s

(* Conflict-resolution syntax whose removal can turn success into failure, *)
(* and the statement without it.                                           *)
ReplaceForgotten(s) == s.op \in {"ignore", "upsert"}   \* mutant
HasReviewableResolution(s) == s.op \in {"ignore", "replace", "upsert"}
StrictForm(s) == [s EXCEPT !.op = "insert"]

-----------------------------------------------------------------------------
(* Static metadata of one statement.                                       *)
Columns == {"k", "v"}
IsInsert(s) == s.op \in InsertOps
IsDelete(s) == s.op \in {"delete", "wipe"}

KeysNotWritten(s) == IF IsDelete(s) THEN Columns ELSE {"v"}   \* mutant
WrittenColumns(s) ==
  CASE s.op \in {"update", "copy", "all"} -> {"v"}
    [] s.op = "move" -> {"k"}
    [] OTHER -> Columns

(* The columns in WHERE and SET expressions: none without a WHERE.         *)
ReferencedColumns(s) ==
  CASE IsInsert(s) \/ s.op \in WholeTableOps -> {}
    [] s.op = "copy" -> {"k", "v"}
    [] OTHER -> {"k"}

(* Can the statement bring a primary key into being?                       *)
MayCreateKey(s) == IsInsert(s) \/ (~IsDelete(s) /\ "k" \in WrittenColumns(s))

DirectWriteWriteOverlap(s, t) ==
  /\ ~IsInsert(s) /\ ~IsInsert(t)
  /\ ~(IsDelete(s) /\ IsDelete(t))
  /\ WrittenColumns(s) \cap WrittenColumns(t) # {}

-----------------------------------------------------------------------------
(* Probe SQL: the primary keys an UPDATE or DELETE targets, and what a     *)
(* statement reads (target keys plus the values of SET expressions that    *)
(* read).  A plain INSERT ... VALUES has no read dependency.               *)
AffectedRows(s, db) == {r \in Targets(s) : ~IsInsert(s) /\ Present(db, r)}

HasReadProbe(s) == ~IsInsert(s)

TargetsOnly(s, db) == {<<r, Null>> : r \in AffectedRows(s, db)}   \* mutant
ReadProbe(s, db) ==
  { <<r, IF s.op = "copy" THEN Selected(s, db) ELSE Null>> : r \in AffectedRows(s, db) }

-----------------------------------------------------------------------------
(* Replay of a sequence of statements, stopping at the first error.        *)
Ok(db) == [ok |-> TRUE, db |-> db]
Continue(run, s) == IF run.ok /\ Succeeds(s, run.db)
                    THEN [run EXCEPT !.db = Result(s, run.db)]
                    ELSE [run EXCEPT !.ok = FALSE]
Replay(ss, db) ==
  LET run[i \in 0..Len(ss)] == IF i = 0 THEN Ok(db) ELSE Continue(run[i - 1], ss[i])
  IN run[Len(ss)]

OnControl(ss) == [i \in DOMAIN ss |-> ControlForm(ss[i])]
Before(ss, i) == SubSeq(ss, 1, i - 1)
=============================================================================
