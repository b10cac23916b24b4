--------------------------- MODULE RowMergeSafety ---------------------------
(***************************************************************************)
(* What the row-level merge driver (RowMerge) promises.                    *)
(***************************************************************************)
EXTENDS RowMerge

Bucketed == phase \in {"check", "apply", "done"}

(* The statements the driver puts into the ours file, and the rows they    *)
(* would leave if the database refused none of them.                       *)
Applied == {<<"ours", k>> : k \in matched}
           \cup UNION {{<<s, k>> : k \in extra[s]} : s \in Sides}

Assembled ==
    [k \in DOMAIN base |->
        IF \E s \in Sides : <<s, k>> \in Applied
        THEN Contents(CHOOSE s \in Sides : <<s, k>> \in Applied)[k]
        ELSE base[k]]

TypeOK ==
    /\ phase \in {"build", "lookup", "check", "apply", "done"}
    /\ todo \subseteq DOMAIN base /\ byKey \subseteq Diff(BuildSide)
    /\ \A e \in byUnique : e.key \in Diff(BuildSide)
    /\ matched \subseteq Diff("ours") \cap Diff("theirs")
    /\ \A s \in Sides : extra[s] \subseteq Diff(s)
    /\ \A c \in conflicts :
          c.pair[1] \in Diff("ours") /\ c.pair[2] \in Diff("theirs")
    /\ outcome.exit = "running" <=> phase # "done"

(* Every statement of both diffs ends up somewhere: applied, matched by an *)
(* equal one that is, in a reported conflict, or listed with its invalid   *)
(* table.  Entries leave the key index as they are looked up, and those of *)
(* the lookup side are never entered: a forgotten branch drops a change.   *)
(* [sqlite_reconcile.py:492-624]                                           *)
NoStatementLost ==
    Bucketed =>
        \A s \in Sides : \A k \in Diff(s) :
            \/ k \in matched \cup extra[s] \/ <<s, k>> \in unchecked
            \/ \E c \in conflicts : c.pair[IF s = "ours" THEN 1 ELSE 2] = k

(* Two statements are reported together when, and only when, they make one *)
(* row different, as a primary-key conflict, or give two rows one unique   *)
(* value, as a unique-index conflict, whichever side was hashed; a         *)
(* unique-index entry for one row only ever accompanies its primary-key    *)
(* conflict.  Foreign-key conflicts, which the README lists as work in     *)
(* progress, are not looked for.                                           *)
(* [sqlite_reconcile.py:424-427, 525-606; row_merge/README.md:50-77]       *)
ConflictsAreDocumented ==
    LET checked(s) == {k \in Diff(s) : schema.tableOf[k] \notin invalid}
        given(s, k) == IF Op(s, k) = "delete" THEN {} ELSE UniqueValues(s, k)
        differ(k, l) == k = l /\ ours[k] # theirs[l]
        collide(k, l) == k # l /\ given("ours", k) \cap given("theirs", l) # {}
        reported(k, l) == {c.kind : c \in {d \in conflicts : d.pair = <<k, l>>}}
    IN Bucketed =>
        /\ \A c \in conflicts : c.pair \in checked("ours") \X checked("theirs")
        /\ \A k \in checked("ours"), l \in checked("theirs") :
              /\ differ(k, l) => reported(k, l) \in {{"primary_key"},
                                                   {"primary_key", "unique_index"}}
              /\ ~differ(k, l) => reported(k, l) = IF collide(k, l) THEN {"unique_index"}
                                                                   ELSE {}

(* With no conflict and no invalid table the assembled rows are the        *)
(* three-way merge of the files, and satisfy every unique index, although  *)
(* the driver only ever compares changed rows with changed rows.           *)
(* [sqlite_reconcile.py:400-624]                                           *)
CleanMergeIsThreeWay ==
    (Bucketed /\ conflicts = {} /\ invalid = {}) =>
        /\ IsUnique(Assembled)
        /\ \A k \in DOMAIN base :
              Assembled[k] = IF ours[k] = base[k] THEN theirs[k] ELSE ours[k]

(* A row both sides changed differently keeps its base contents in the     *)
(* rebuilt file until somebody resolves the conflict.                      *)
(* [sqlite_reconcile.py:529-554, 583-595, 760-769]                         *)
ConflictingRowKeepsBase ==
    (phase = "apply" \/ outcome.report) =>
        \A c \in conflicts :
            c.kind = "primary_key" => file[c.pair[1]] = base[c.pair[1]]

(* The file beside a conflict report is the assembled one, row for row,    *)
(* and leaves no conflict unreported: a statement the database refused     *)
(* ends the driver without a report.                                       *)
(* [sqlite_reconcile.py:760-783; utils.py:3-8]                             *)
ReportMatchesFile ==
    outcome.report => file = Assembled /\ IsUnique(file)

=============================================================================
