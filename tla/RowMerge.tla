------------------------------ MODULE RowMerge ------------------------------
(***************************************************************************)
(* The row-level Git merge driver, src/src/row_merge/sqlite_reconcile.py.  *)
(* It compares two diffs (base to ours, base to theirs), sorts every       *)
(* statement into the buckets "matched", "extra" and "conflict", rebuilds  *)
(* the ours file from base and the first two, and reports the third.       *)
(*                                                                         *)
(* sqldiff writes one statement per changed row, by table and primary key: *)
(* a statement is therefore named by its side and its key, and its index   *)
(* in the diff by the order of the keys.                                   *)
(***************************************************************************)
EXTENDS Naturals, Sequences, FiniteSets, SequencesExt, FiniteSetsExt

CONSTANTS
    Instances,   \* a sequence of records: tables (contents to choose from), tableOf (the
                 \* table of each key), columns (of each table), unique (indexes: sets
                 \* of columns), links (<<child, parent>> with a one-column foreign
                 \* key), invalid (sets of bad tables), dangling (tables that are bad
                 \* by the rows foreign_key_check lists for them)
    Null,        \* SQL NULL
    NoRow        \* no row with this key

(* Contents have a row or none for every key, rows a value for every       *)
(* column of their table, and an index is on one column or more, all of    *)
(* which the tables have.                                                  *)
ASSUME InstancesAssumption ==
    \A i \in DOMAIN Instances :
        LET s == Instances[i]
        IN  /\ \A t \in s.tables :
                   /\ t \in [DOMAIN s.tableOf -> Range(t)]
                   /\ \A k \in DOMAIN t :
                         t[k] # NoRow => t[k] \in [s.columns[s.tableOf[k]] -> Range(t[k])]
            /\ \A index \in s.unique : index # {}
            /\ \A index \in s.unique, k \in DOMAIN s.tableOf :
                   index \subseteq s.columns[s.tableOf[k]]

VARIABLES
    instance,    \* the instance at work
    base, ours, theirs,  \* contents: key -> row (column -> value) or NoRow
    invalid,     \* tables that failed a PRAGMA check in one of the files
    phase,       \* "build", "lookup", "check", "apply", "done"
    todo,        \* keys of the statements this phase has not read yet
    byKey,       \* primary_key_value_to_data: keys of the build side
    byUnique,    \* values_to_stmt_index: entries [value, key]
    matched, extra, conflicts, unchecked,  \* the buckets, and invalid tables'
    script,      \* statements the sqlite3 program has still to run: [part, side, key]
    file,        \* contents of the ours file
    refused,     \* did sqlite3 refuse a statement
    outcome      \* how the driver ended: [exit, report written or not]

inputs == <<instance, base, ours, theirs, invalid>>
buckets == <<matched, extra, conflicts, unchecked>>
output == <<script, file, refused, outcome>>
rowVars == <<inputs, phase, todo, byKey, byUnique, buckets, output>>

-----------------------------------------------------------------------------
(***************************************************************************)
(* The two diffs.                                                          *)
(***************************************************************************)
schema == Instances[instance]

Sides == {"ours", "theirs"}
Opposite(side) == IF side = "ours" THEN "theirs" ELSE "ours"
Contents(side) == IF side = "ours" THEN ours ELSE theirs

Diff(side) == {k \in DOMAIN base : base[k] # Contents(side)[k]}

Op(side, k) ==
    IF base[k] = NoRow THEN "insert"
    ELSE IF Contents(side)[k] = NoRow THEN "delete" ELSE "update"

ColumnsSet(side, k) ==
    LET row == Contents(side)[k]
    IN IF Op(side, k) = "insert" THEN DOMAIN row
       ELSE {c \in DOMAIN row : row[c] # base[k][c]}

ColumnToLiteral(side, k) ==
    [c \in ColumnsSet(side, k) |-> Contents(side)[k][c]]

UniqueValuesWhole(side, k) ==   \* mutant: an index set in part is missed
    LET row == Contents(side)[k]
        relevant == {index \in schema.unique :
                        /\ index \subseteq ColumnsSet(side, k)
                        /\ \A c \in index : row[c] # Null}
    IN {[table |-> schema.tableOf[k], values |-> [c \in index |-> row[c]]] :
            index \in relevant}
UniqueValues(side, k) ==
    LET row == Contents(side)[k]
        relevant == {index \in schema.unique :
                        /\ index \cap ColumnsSet(side, k) # {}
                        /\ \A c \in index : row[c] # Null}
    IN {[table |-> schema.tableOf[k], values |-> [c \in index |-> row[c]]] :
            index \in relevant}

BuildSide ==
    IF Cardinality(Diff("theirs")) < Cardinality(Diff("ours"))
    THEN "theirs" ELSE "ours"
LookupSide == Opposite(BuildSide)

Pair(lookupKey, buildKey) ==
    IF BuildSide = "ours" THEN <<buildKey, lookupKey>>
                          ELSE <<lookupKey, buildKey>>

IsUnique(contents) ==
    \A index \in schema.unique :
        \A k, l \in {m \in DOMAIN contents : contents[m] # NoRow} :
            (/\ k # l
             /\ schema.tableOf[k] = schema.tableOf[l]
             /\ \A c \in index : contents[k][c] # Null)
            => \E c \in index : contents[k][c] # contents[l][c]

-----------------------------------------------------------------------------
Init ==
    /\ instance \in DOMAIN Instances
    /\ base \in schema.tables /\ ours \in schema.tables /\ theirs \in schema.tables
    /\ IsUnique(base) /\ IsUnique(ours) /\ IsUnique(theirs)
    /\ base # ours /\ base # theirs
    /\ invalid \in schema.invalid
    /\ \A t \in invalid : \E k \in Diff("ours") \cup Diff("theirs") : schema.tableOf[k] = t
    /\ phase = "build" /\ todo = Diff(BuildSide)
    /\ byKey = {} /\ byUnique = {}
    /\ matched = {} /\ extra = [s \in Sides |-> {}]
    /\ conflicts = {} /\ unchecked = {}
    /\ script = {} /\ file = ours /\ refused = FALSE
    /\ outcome = [exit |-> "running", report |-> FALSE]

(* Statements are read in the order of the diff.  No two statements of one *)
(* side give an index the same value: the side's own file is UNIQUE.       *)
Reads(p, k) == /\ phase = p /\ todo # {} /\ k = Min(todo)
               /\ todo' = todo \ {k}

SkipInvalid(k) ==
    \E p \in {"build", "lookup"} :
        /\ Reads(p, k)
        /\ schema.tableOf[k] \in invalid
        /\ unchecked' = unchecked \cup
             {<<IF p = "build" THEN BuildSide ELSE LookupSide, k>>}
        /\ UNCHANGED <<inputs, phase, byKey, byUnique, matched, extra,
                       conflicts, output>>

Build(k) ==
    /\ Reads("build", k)
    /\ schema.tableOf[k] \notin invalid
    /\ byKey' = byKey \cup {k}
    /\ byUnique' = byUnique \cup
         IF Op(BuildSide, k) = "delete" THEN {}
         ELSE {[value |-> u, key |-> k] : u \in UniqueValues(BuildSide, k)}
    /\ UNCHANGED <<inputs, phase, buckets, output>>

StartLookup ==
    /\ phase = "build" /\ todo = {}
    /\ phase' = "lookup" /\ todo' = Diff(LookupSide)
    /\ UNCHANGED <<inputs, byKey, byUnique, buckets, output>>

-----------------------------------------------------------------------------
(***************************************************************************)
(* The lookup phase: the primary key first, then the unique indexes.       *)
(***************************************************************************)
PkConflictSameOp(k) ==   \* mutant: update against delete is missed
    IF Op(BuildSide, k) = Op(LookupSide, k)
    THEN {[pair |-> Pair(k, k), kind |-> "primary_key"]} ELSE {}
PkConflict(k) == {[pair |-> Pair(k, k), kind |-> "primary_key"]}

UniqueConflictsAsFound(k) ==   \* mutant: not in the order (ours, theirs)
    {[pair |-> <<k, e.key>>, kind |-> "unique_index"] :
        e \in {f \in byUnique : f.value \in UniqueValues(LookupSide, k)}}
UniqueConflicts(k) ==
    {[pair |-> Pair(k, e.key), kind |-> "unique_index"] :
        e \in {f \in byUnique : f.value \in UniqueValues(LookupSide, k)}}

AddExtra(k) == extra' = [extra EXCEPT ![LookupSide] = @ \cup {k}]

LookupDelete(k) ==
    /\ Reads("lookup", k)
    /\ schema.tableOf[k] \notin invalid
    /\ Op(LookupSide, k) = "delete"
    /\ \/ /\ k \notin byKey
          /\ AddExtra(k) /\ UNCHANGED <<matched, conflicts>>
       \/ /\ k \in byKey /\ Op(BuildSide, k) = "delete"
          /\ matched' = matched \cup {k} /\ UNCHANGED <<extra, conflicts>>
       \/ /\ k \in byKey /\ Op(BuildSide, k) = "update"
          /\ conflicts' = conflicts \cup PkConflict(k)
          /\ UNCHANGED <<matched, extra>>
    /\ byKey' = byKey \ {k}
    /\ UNCHANGED <<inputs, phase, byUnique, unchecked, output>>

(* INSERT and UPDATE: an equal statement of the other side is a match and  *)
(* is not checked any further.                                             *)
IsMatch(k) ==
    /\ k \in byKey
    /\ Op(BuildSide, k) = Op(LookupSide, k)
    /\ ColumnToLiteral(BuildSide, k) = ColumnToLiteral(LookupSide, k)

LookupMatch(k) ==
    /\ Reads("lookup", k)
    /\ schema.tableOf[k] \notin invalid
    /\ Op(LookupSide, k) # "delete" /\ IsMatch(k)
    /\ matched' = matched \cup {k} /\ byKey' = byKey \ {k}
    /\ UNCHANGED <<inputs, phase, byUnique, extra, conflicts, unchecked, output>>

AnyKey(k) == TRUE   \* mutant
NewKey(k) == k \notin byKey

LookupChange(k) ==
    /\ Reads("lookup", k)
    /\ schema.tableOf[k] \notin invalid
    /\ Op(LookupSide, k) # "delete" /\ ~IsMatch(k)
    /\ LET sameUnique == UniqueConflicts(k)
       IN /\ conflicts' = conflicts \cup sameUnique
                          \cup (IF k \in byKey THEN PkConflict(k) ELSE {})
          /\ IF NewKey(k) /\ sameUnique = {} THEN AddExtra(k) ELSE UNCHANGED extra
    /\ byKey' = byKey \ {k}
    /\ UNCHANGED <<inputs, phase, byUnique, matched, unchecked, output>>

(* What no lookup removed from the key index is extra on the build side.   *)
RemainingAsOurs == "ours"   \* mutant
RemainingSide == BuildSide

CollectRemaining ==
    /\ phase = "lookup" /\ todo = {}
    /\ extra' = [extra EXCEPT ![RemainingSide] = @ \cup byKey]
    /\ phase' = "check"
    /\ UNCHANGED <<inputs, todo, byKey, byUnique, matched, conflicts, unchecked,
                   output>>

-----------------------------------------------------------------------------
(***************************************************************************)
(* After the diff: the unfinished foreign-key pass, which unpacks the      *)
(* conflict pairs even when there are none and cannot walk the references  *)
(* of a child table with a one-column key, and the assembly of the result. *)
(***************************************************************************)
ChecksReferences(k) ==
    /\ Op("ours", k) # "delete"
    /\ \E link \in schema.links :
          /\ link[1] = schema.tableOf[k]
          /\ \A t \in {link[1], link[2]} :
                /\ t \notin invalid
                /\ \E l \in Diff("ours") \cup Diff("theirs") : schema.tableOf[l] = t

Ends(exit, report) ==
    /\ phase' = "done" /\ outcome' = [exit |-> exit, report |-> report]

ForeignKeyCheckRaises ==
    /\ phase = "check"
    /\ conflicts = {} \/ \E k \in extra["ours"] : ChecksReferences(k)
    /\ Ends("failed", FALSE)
    /\ UNCHANGED <<inputs, todo, byKey, byUnique, buckets, script, file, refused>>

(* The script: first what matched, then what is extra, in the order of the *)
(* diffs.                                                                  *)
Statements(part, side, keys) ==
    {[part |-> part, side |-> side, key |-> k] : k \in keys}
RunsBefore(r, s) == r.part < s.part \/ (r.part = s.part /\ r.key < s.key)

CopyBase ==
    /\ phase = "check"
    /\ conflicts # {} /\ \A k \in extra["ours"] : ~ChecksReferences(k)
    /\ phase' = "apply"
    /\ file' = base
    /\ script' = Statements(1, "ours", matched) \cup Statements(2, "ours", extra["ours"])
                 \cup Statements(3, "theirs", extra["theirs"])
    /\ UNCHANGED <<inputs, todo, byKey, byUnique, buckets, refused, outcome>>

(* The sqlite3 program runs each statement on its own, goes on after one   *)
(* it refuses, and says so in its exit code.                               *)
ApplyStatement ==
    /\ phase = "apply"
    /\ \E s \in script :
          /\ \A r \in script \ {s} : RunsBefore(s, r)
          /\ LET result == [file EXCEPT ![s.key] = Contents(s.side)[s.key]]
             IN IF IsUnique(result) THEN file' = result /\ UNCHANGED refused
                                    ELSE refused' = TRUE /\ UNCHANGED file
          /\ script' = script \ {s}
    /\ UNCHANGED <<inputs, phase, todo, byKey, byUnique, buckets, outcome>>

ExitCodeIgnored == FALSE   \* mutant
ExitCodeIsError == refused

(* The rows foreign_key_check lists are sqlite3.Row objects, which the      *)
(* report of an invalid table cannot copy: it raises before it is opened.  *)
ReportRaises == \E t \in invalid : t \in schema.dangling

Finish ==
    /\ phase = "apply" /\ script = {}
    /\ IF ExitCodeIsError \/ ReportRaises THEN Ends("failed", FALSE)
       ELSE IF conflicts # {} \/ invalid # {}
            THEN Ends("failed", TRUE)
            ELSE Ends("merged", FALSE)
    /\ UNCHANGED <<inputs, todo, byKey, byUnique, buckets, script, file, refused>>

Next ==
    \/ \E k \in todo : \/ SkipInvalid(k) \/ Build(k)
                       \/ LookupDelete(k) \/ LookupMatch(k) \/ LookupChange(k)
    \/ StartLookup \/ CollectRemaining
    \/ ForeignKeyCheckRaises \/ CopyBase \/ ApplyStatement \/ Finish

Spec == Init /\ [][Next]_rowVars
=============================================================================
