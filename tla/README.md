# A verification project for sqlite-reconcile

`sqlite-reconcile` is a Git mergetool for SQLite files. A wrapper records the DML
that each branch commits; the mergetool replays the two records on top of the merge
base in one fixed interleaving, stops where two transactions affect each other, and
asks the user. This directory holds TLA+ models of that system, their model checking
with TLC and machine-checked proofs about them with TLAPS. Paths such as
`merge/terminal_mergetool.py` are relative to `src/src/`.

- [1. The system](#1-the-system)
- [2. The modules](#2-the-modules)
- [3. What the runs check](#3-what-the-runs-check)
- [4. Fairness](#4-fairness)
- [5. What is proved](#5-what-is-proved)
- [6. What the project does not show](#6-what-the-project-does-not-show)
- [7. Plan](#7-plan)

## 1. The system

### Components

| Component | Source | State it keeps | Operations that change it |
|---|---|---|---|
| SQLite wrapper and log | `sqlite_wrapper/wrapper.py` | per connection: `_in_transaction`, `_buffer`, `_savepoints`, `_transaction_failed`; in the file: `_sqlite_merge_transactions`, `_sqlite_merge_log` | `execute` (BEGIN, COMMIT, ROLLBACK, savepoint statements, DML, others), `commit`, `rollback`, `close`, `_flush`, `_write` |
| Replay preparation | `sqlite_replay_preparation.py` | none; it runs between the application's statement and the buffer | rewrites time, random and session functions into literals; decides whether a statement is replay-safe and why not |
| Log loading | `merge/log_merge.py`, `merge/models.py` | the two branch histories | read the rows past the base's watermark, group them by transaction |
| Branch replay check | `merge/terminal_mergetool.py` (`_resolve_branch_replay_safety`) | a copy of the base, `accepted_replay_warnings` of each statement | replay a transaction, prompt, edit, delete, retry |
| Merge loop | `merge/terminal_mergetool.py` (`_resolve_merge_transactions`, `_check_accept_current`) | the two queues, `accepted_pair_keys`, the working and control databases, the replayed log | check the head, prompt, edit, accept, write the result |
| Rolling execution checks | `merge/conflict_detection.py`, `remaining_execution.py`, `accepted_replay.py`, `execution_based_analysis.py` | the open scan: savepoints, enabled kinds, position, write-probe tables | start, `next_conflict`, `accept_next`, `close`, advance a transaction on both databases |
| Static metadata and filters | `merge/sql_metadata.py`, `static_analysis.py`, `remaining_metadata.py` | counters over a queue's columns | add, remove, replace a transaction; select the checks that can matter |
| Cascade metadata | `merge/cascade_metadata.py`, `cascade_types.py` | none | the closure of foreign-key actions |
| Conflict clauses | `sqlite_conflict_resolution.py` | none | a scanner over SQL text; form for the parser, form without OR ROLLBACK, strict form |
| Control database | `merge/control_db.py`, `_control_sql_for` in `merge/accepted_replay.py` | the attached copy, the control SQL cache | control form of a statement, looked up by the identity of the statement object |
| Prompts | `merge/terminal_ui.py` | a draft of the transactions on the screen | numbered edit, insert, delete commands, Enter, DELETE |
| Row-level driver | `row_merge/` | a key index and unique-value indexes over one of two `sqldiff` outputs, the buckets matched, extra and conflict | build, look up, assemble the result with the sqlite3 program, report (a separate, older driver) |
| Command line, evaluation, tools | `../tools/`, `../evaluation/`, `../demo/` | none | argument parsing, benchmarks, demos |

### How they interact

The application talks to SQLite through the wrapper only, possibly over several
connections. The mergetool later opens four files (base, local, remote, merged),
loads the two histories, and runs the branch replay check on each with a connection
of its own. The merge loop then works on one connection with a second database
attached: *main* is the working database, *control* a copy. A turn takes the head of
one queue. The static filter names the checks that can matter; if none does, the head
is replayed at once. Otherwise a scan opens a savepoint, replays the head on control
only, and walks the other queue: each transaction is judged by probes on both
databases, then replayed on both so that the next one is judged in the state it would
find. Whatever the scan did is rolled back before the head is accepted. At a conflict
the user accepts, edits or deletes, and the scan resumes or starts over.

### What is hard here

* Two databases and one savepoint stack must agree on every one of a dozen ways out
  of `_check_accept_current`, including errors half-way through a statement list.
* The queues are edited while a scan holds a position in one of them.
* The comparison is pairwise and between neighbouring prefixes; the promise to the
  user is about the whole merged history.
* The wrapper mirrors a state machine it does not own. SQLite ends transactions by
  itself (`OR ROLLBACK`), accepts several spellings of one statement, and nests
  savepoints with reused names.
* The log is written after the commit it describes, in separate autocommitted
  statements, while other connections write and the process may die.
* Statements are edited as text, by a scanner that must see a clause in code and
  nowhere else, and nondeterminism is found in a tree that may have been parsed from
  an edited copy of that text.
* A merged file is the base or a branch of the next merge, and transaction ids are
  given out anew in each.
* The row-level driver enters and removes index entries while it reads, and must come
  to the same verdict whichever side it indexed.

`PROJECT.json` lists each of these hazards at its line with the properties that
would catch it going wrong.

### What makes each component correct

* *Wrapper*: while a transaction is open the buffer is exactly SQLite's uncommitted
  work; after it, each committed transaction is in the log once, whole and in order,
  and nothing else is; a transaction in which a statement raised is never replayed
  unseen. (Crashes, time-outs and `END` cost part of this; section 3 says which.)
* *Branch replay check*: what it hands on replays on the base without error, keeps
  the database valid, and carries no warning the user was not shown.
* *Merge loop*: the log replays to the merged file; nothing is lost, duplicated or
  reordered; each branch's statements do in the merged history what they did on their
  branch, unless a conflict was reviewed; the loop ends.
* *Filters*: leaving a check out hides no changed read, implicit key or constraint the
  check would report, and no write/write of two writes that collide in a row both
  branches had.
* *Statement texts*: what is logged as safe does at replay what the original did, and a
  rewriting takes off exactly the clause it is for.
* *Histories*: a merge has every transaction of its parents, each once.
* *Row-level driver*: no statement is lost, primary-key and unique-index conflicts are
  reported where the documented model has them, and the statements sorted out without a
  conflict make the three-way merge.

## 2. The modules

```
             AtomicMerge (abstract)
            /      |  IsAtomicMerge
ReplaySql ──── MergeLoop ──── MergeSafety ──┬── MCMerge                        (TLC)
    │                                       └── MergeProofs                    (TLAPS)
    ├───────── BranchReplay ──┬── MCBranch                                     (TLC)
    │                         └── BranchProofs                                 (TLAPS)
    └───────── ReplayProofs (lemmas about replays), NumberInduction (induction; used by
               SqlTextProofs and WrapperProofs too)
ForeignKeys ── StaticFilter ── FilterSafety ──┬── MCFilter                     (TLC)
                                              └── FilterProofs                 (TLAPS)
SqlText ────┬─ MCSqlText                                                       (TLC)
            └─ SqlTextProofs                                                   (TLAPS)
WrapperLog ─┬─ MCWrapper                                                       (TLC)
            └─ WrapperProofs                                                   (TLAPS)
MergeHistory ─ MCHistory                                                       (TLC)
ControlCache ─ MCCache                                                         (TLC)
RowMerge ───── RowMergeSafety ──┬── MCRowMerge                                 (TLC)
                                └── RowMergeProofs                             (TLAPS)
```

In the order of the data: SqlText is what happens to one statement's text between the
application and a merge; WrapperLog records statements; MergeHistory loads records from
versions of a file; BranchReplay prepares one branch; MergeLoop, with StaticFilter and
ControlCache as its two optimisations, merges two. RowMerge is the alternative to all
of that.

### ReplaySql: the SQL that is replayed

One table `t(k PRIMARY KEY, v)`; a database maps each key to a value or to `NoRow`.
A statement is one of four INSERTs the tool tells apart (plain, `OR IGNORE`,
`OR REPLACE`, UPSERT), an UPDATE with a literal, one whose expression reads another
row (`copy`), one of the key (`move`), a DELETE, or an UPDATE or DELETE without WHERE
(`all`, `wipe`). `Succeeds` and `Result` are
SQLite's semantics and external to the repository. The rest is code: written and
referenced columns, possible key creation, direct write/write overlap, the target
rows and read results the probe SQL returns, the strict form of a conflict clause,
and the form sent to the control copy (`control_db.py`: an UPSERT becomes a strict
INSERT there).

### MergeLoop and MergeSafety: the merge

| Model | Code |
|---|---|
| `queue`, `turn`, `PassTurn` | `remaining_ours`/`remaining_theirs` and the `for side` loop inside the `while` loop of `_resolve_merge_transactions` |
| `main`, `control`, `saves` | the working database, the attached control schema, SQLite's savepoint stack (one stack for both) |
| `kinds`, `next`, `probes` | `enabled_kinds`, `_next_other_index`, `_current_write_probe_tables` of the open scan |
| `EmptyTurn`, `UnsafeHead`, `ApplyUnscanned`, `OpenScan`, `ResumeScan` | the branches at the top of `_check_accept_current` and of `_RemainingCurrentConflictScan` |
| `StartStatement`, `Started` | `_start_control_with_current_write_probes` |
| `ScanCheck`, `CheckResult` | `check_next`: static match, `_find_write_write_overlap`, `_rolling_write_read_dependency` |
| `AdvanceStatement`, `AdvanceFails`, `AdvanceScan` | `_advance_transaction_on_main_and_control` with the strict check of conflict clauses |
| `AcceptHead` | `apply_accepted_transaction` and `_append_replayed_log` |
| `AcceptPair`, `ResolvePair`, `ResolveStandalone`, `Interrupt` | what a prompt can return, and `_resolve_remaining_pair_conflict` |
| `WriteResult` | `_write_working_result`, which may fail |

A replay is one step per statement, so an error in the middle of a transaction is a
state of the model. The probes of one pair run in a savepoint of their own and leave
nothing behind; they are operators, evaluated in one step. MergeSafety holds the
properties.

### AtomicMerge: what the loop implements

The merge a user of Git has in mind, without scans, savepoints or a control database:
the branches take turns; `Take` replays the whole head of a branch on the result, or it
does not happen; `Pass` is the turn of an empty branch; `Revise` lets the user rewrite or
drop what still waits, in place; `Publish` hands out one file. MergeLoop implements it
under the mapping

| AtomicMerge | MergeLoop |
|---|---|
| `waiting` | `queue` |
| `db` | `MergedSoFar`: the working database when no scan or replay is under way, else the one at the bottom of the savepoint stack |
| `taken` | `log` |
| `published` | `merged` |
| `base`, `turn` | the same |

so every step of a scan, of a failed replay and of a prompt is a stutter, and the last
statement of a head is a whole `Take`.

### ForeignKeys, StaticFilter and FilterSafety: what the scan may skip

In front of a scan stands a filter: `RemainingMetadataIndex` counts, per table and
column, what the other queue writes, reads and omits, and
`remaining_individual_check_kinds` asks these counters which kinds of conflict the head
can have at all. A kind it leaves out is looked for by nothing else. ForeignKeys models
the walk over foreign-key actions (`CascadeEffects`, from `_cascade_effects_for_event`)
with its depth limit, and beside it the plain closure `HiddenBy` as a reference.
StaticFilter has the metadata of a statement and a transaction, the six counters with
`AddTransaction` and `RemoveTransaction`, the four tests of the filter, and as actions
the three ways a queue changes: `Replace`, `Delete` (both
`_replace_or_delete_transaction`) and `PopHead` (the end of `_check_accept_current`).
FilterSafety adds the analysis of one pair (`static_analysis.py`) and the properties. A
cell is a table and a column, and `"*"` is a column name, as in the code. Transactions and
schemas are named; which columns a statement mentions is an input.

### BranchReplay: one branch alone

`_resolve_branch_replay_safety` and its prompt. A statement carries what the wrapper
stored about it (nothing, an acceptable reason, a blocking one), whether it is an
`UPDATE ... FROM`, and the warnings accepted for it so far. Statements of a log and typed
ones start without (`Unreviewed`). `IssueOf` follows the
order of the checks in `_branch_transaction_replay_issue`. `validate_database` is a
constant set of databases it rejects. The prompt is modelled command by command
(edit, insert, delete, DELETE, Enter, interrupt) because acceptance of a warning
follows the identity of a statement through the edits. Warnings of one kind are one
value here; their wording is not modelled.

### WrapperLog: the transaction log

`sql[c]` is what SQLite knows about connection `c` (external), `wrap[c]` the fields of
its `SQLiteWrapper`. There is one action per kind of statement `_execute_on` tells
apart. After a commit the wrapper writes one transaction row and one row per statement,
each an autocommitted INSERT and each a step of its own. A `setting`, chosen in Init, says
how many connections there are, bounds the work, and switches on what is to be looked
at: `crash` (the process dies inside a call), `busy` (a lock wait times out), `end` (the
application says `END` for `COMMIT`), `reuse` (a savepoint name is opened again while
still open).

### SqlText: one statement as text

A text is a sequence of words, literals and single marks; a statement is the record
SQLite and sqlglot read from it, and `Render` writes it down. The actions follow the
text:

| Model | Code |
|---|---|
| `Prepare`, `PreparedEntries` | `prepare_logged_sql`: parse, else `DEFAULT VALUES`, else the normalised text; `_unsafe_call` and the replacement of calls; omitted defaults |
| `Load`, `Neutralized` | `neutralize_rollback_conflict_resolution` when a branch is loaded |
| `CheckStrict`, `StrictRewrite` | `strict_conflict_resolution_rewrite` |
| `TopLevelKeywords`, `Matches` | `_top_level_keyword_indexes`, `_top_level_pattern_match` |

Calls in a WITH prefix count neither in `Cells` nor in `Outcome`: a prefix is named there,
not evaluated. What sqlglot parses and what SQLite makes of a text are external (`Parses`,
`Readings`, `Outcome`). What can be written at all is said by `Grammatical`, the assumption on the
constant `Statements`: a value is a literal, one of the calls, or anything in quotes or
brackets; a gap is blanks with at most one comment among them; a comment holds anything
but its end; rows have a value for every column. `Fresh` is what calls of `random()`
return, all different and none of them a value that is written down (a 64-bit number is
taken not to repeat). In the run values and comments are chosen to look like clauses.

### MergeHistory: merges of merged files

Versions of one file in Git, each with its log: people commit transactions, fast-forward
and merge. `Watermark`, `LoadLoggedTransactions` and `ReplayOrder` are
`load_merge_inputs` and the fixed order; a transaction keeps its identity in the model
while its id changes in the code.

### ControlCache: the SQL sent to control

Statement objects at addresses, the cache keyed by address, and the ways a statement
lives and dies: loaded lists hold theirs for the whole merge, typed statements die when
they leave the queue, and the strict form of a clause dies after its probe.

### RowMerge and RowMergeSafety: the row-level driver

One action per branch of the loops in `sqlite_reconcile.py`: `Build`, `LookupDelete`,
`LookupMatch`, `LookupChange`, `SkipInvalid`, `CollectRemaining`, then the foreign-key
pass as far as it is written (`ForeignKeyCheckRaises`), `CopyBase`, one
`ApplyStatement` per statement of the script, and `Finish`, which writes no report when a
statement was refused or when the report has rows of foreign_key_check (`ReportRaises`).
A table is invalid only if one of the diffs touches it. What a foreign key refers to is
not modelled, only which tables are linked. A statement of `sqldiff` is
named by its side and its key; the script is a set of these with the part of the script
they are in, and the next to run is the least (`RunsBefore`). The contents of an instance
have a row or `NoRow` for every key, and indexes are on columns all their tables have
(`InstancesAssumption`). The program sqldiff, the sqlite3 shell and the PRAGMA
checks are external. The dictionaries of removed parents are left out: nothing reads them.

## 3. What the runs check

| Run | Module, config | States | Properties |
|---|---|---|---|
| merge_pairs | MCMerge, MergePairs | 4.7 million | ScanStates, FixedReplayOrder, EffectsKept, ResolutionNotActivated, NoSilentOverwrite |
| merge_edits | MCMerge, MergeEdits | 330 thousand | TypeOK, ControlMatchesMain, IsAtomicMerge, BranchOrderKept, NotAskedTwice, Terminates |
| merge_unfiltered | MCMerge, MergeUnfiltered | violation | EffectsKept |
| static_filter | MCFilter, StaticFilter | 2 thousand | TypeOK, IndexFollowsQueue, FilterCoversPairs, FilterIsPairwise, CascadesCovered |
| branch_replay | MCBranch, BranchReplay | 340 thousand | TypeOK, BranchReplays, NothingUnseen, Finishes |
| wrapper | MCWrapper, Wrapper | 980 thousand | TypeOK, BufferIsWork, EveryCommitLogged, LogFollowsCommits, LoggedIsCommitted, RaisedIsUnsafe, LoggedOnce |
| wrapper_reuse | MCWrapper, WrapperReuse | violation | BufferIsWork |
| sql_text | MCSqlText, SqlText | 110 thousand | TypeOK, SafeIsSettled, ReplayMeansOriginal, ReplayCannotRollBack, StrictIsExact |
| sql_text_upsert | MCSqlText, SqlTextUpsert | violation | SafeReplaysTheSame |
| merge_history | MCHistory, MergeHistory | violation | HistoryKept |
| control_cache | MCCache, ControlCache | violation | ControlRunsOwnSql |
| row_merge | MCRowMerge, RowMerge | 1.1 million | TypeOK, NoStatementLost, ConflictsAreDocumented, CleanMergeIsThreeWay, ConflictingRowKeepsBase, ReportMatchesFile |

### The merge runs

**ScanStates** is the exact state of an open scan: main is the replay of the accepted
log and of the opposite transactions already passed; control is the same with the head
in between. It is the reason why the later probes mean anything.
**FixedReplayOrder** says that an unedited merge replays X1, Y1, X2, Y2, ... and loses
nothing. **EffectsKept** is the main claim about conflict detection: each UPDATE and
DELETE of the merged log meets the rows it met on its own branch and leaves in them
what it left there, unless a conflict on its transaction, or on an earlier one of that
branch, was shown and accepted. The code never checks this; it compares neighbouring
prefixes pair by pair, and the property says that the comparisons add up.
**NoSilentOverwrite** is the lost-update rule for the rows both branches write, and
**ResolutionNotActivated** says that an `OR IGNORE`, `OR REPLACE` or UPSERT does not
silently take its conflict branch in the merge if it did not on its branch. The clause
"or an earlier one of that branch" is needed: once the user has accepted that a
transaction does something else, what follows it in its branch starts from another
state, and the tool does not ask again for the consequences. The properties are stated
for a user who edits nothing, for an edited transaction has no history of its own to
compare with. They are checked for statements that name a key; for UPDATE and DELETE
without WHERE EffectsKept fails, which is the run merge_unfiltered below.

A related weakness stays visible in the model but inside the properties:
`accept_next` passes `check_constraint_resolution=False`, so accepting a write/write
conflict also accepts a conflict clause of the same transaction that becomes active.
The user has reviewed that pair, and ResolutionNotActivated counts it as reviewed.

In merge_edits the user does everything: accepts, retypes either side, deletes either
side, interrupts; and the result may fail to be written. **ControlMatchesMain** says
that on all the ways out of a turn both databases are equal and no savepoint is left;
**IsAtomicMerge** that every step is a step of AtomicMerge or none, so whatever was half
done when a replay failed leaves no trace, and the file handed to Git is the replay of
the log inside it;
**BranchOrderKept** that no edit or deletion reorders or repeats a branch;
**NotAskedTwice** that an accepted conflict is not shown again; **Terminates** that
there is no cycle of prompts and restarts.

*Bounds.* Two rows, one present (with NULL) and one absent in the base, so each
statement form can hit and miss; two values, one per branch, so that a lost update
shows. `MCFamilies` lists families of workloads, a set of statement forms with the
shapes of the two logs (a number is the length of a transaction). merge_pairs takes
every pair of shapes 1+1/1+1, 1/1+1+1 and empty/1+1: two heads per branch make a second
scan run over a prefix that already mixes the branches, and three on one side make a
scan with a past and a future around its position. Its second family has transactions of
two statements (2/1, 1/2, 2/2): a later statement depends on a row an earlier one of the
same transaction made. merge_edits uses fewer statement forms, those without WHERE among
them, shorter logs, and at most two typed edits (`MaxEdits`; deletions are free), one of
them a statement the tool cannot replay. No other bound is needed: only `edits` could
grow. Symmetry is not used: the base is not symmetric in the rows, nor the logs in the
values.

### The filter run

**IndexFollowsQueue**: after any edits, deletions and accepted heads the counters are
those of a fresh index over the queue. **FilterCoversPairs** is the reason why the filter
may exist: whatever read, implicit key or constraint the analysis of the head with one
queued transaction would report, the filter asks for. The head may be any transaction. For
write/write the filter and the analysis differ, and the property says where. Two row
writes, explicit or hidden, that collide (`WritesCollide`) are seen by both. For a pair in
which a statement has foreign-key effects, hidden writes or lookups alone, the analysis
compares all cells written, so it also reports an INSERT, or a DELETE, against a DELETE
with such effects, and an INSERT against an UPDATE with them (`OnlyInsertOrDeletes`). The
filter does not ask for these, and they are reported only when some other queued
transaction enables write/write; the property says that it leaves out nothing else. They
are still compared as reads and constraints, and the tool's documents promise nothing
finer; the case is listed as a hazard. **FilterIsPairwise** is the converse over the
queue: a kind is asked for only if one queued transaction alone calls for it.
**CascadesCovered**: what the walk records covers the closure of the foreign-key actions
and the columns they look up, also when the chain is longer than the walk follows. Walk
and closure share the rule for a single action (`ChildEvents`), which is SQLite's.

*Bounds.* Three tables with three columns; key sets of one and of two columns; a table
with and one without an INTEGER PRIMARY KEY; nine schemas (no key, checks only,
cascades, a chain, a diamond, a two-column key, a table that refers to itself, two that
refer to each other, a chain of four); fifteen transactions, two of them of two
statements. `MaxDepth` is 2 in place of 64, so that the last schema passes it. A queue
of two is enough for a count of two that falls to one, and the pair properties look at
one queued transaction at a time. The properties are quantified over all heads.

### The branch replay run

**BranchReplays** is what the merge takes for granted: the transactions that come out
replay one after the other without error, leave valid databases, and the connection
holds exactly their effects, whatever failed and was retried before.
**NothingUnseen** follows a warning through several prompts: no statement leaves with a
stored warning, a duplicate `UPDATE ... FROM` target or a conflict clause that is
active *in the state in which it finally runs* unless that warning was shown for it.
**Finishes** is termination. Row `r2` refers to row `r1`, so a transaction can be valid
statement by statement and invalid at its end. Logs have at most two transactions and
three statements from an alphabet with each form that can fail, activate a clause, break
the reference or need a warning; the user types at most one statement (`MaxTyped`) and
deletes freely.

Pressing Enter after an edit of *another* statement accepts the displayed warning too
(`terminal_mergetool.py:283`). NothingUnseen holds, because the warning was shown.

### The wrapper runs

Without faults the mirror is exact. **BufferIsWork**: the buffer is what COMMIT would
make permanent. **EveryCommitLogged**: each committed transaction is one record with its
statements in order, or still held by the wrapper to be written. **LogFollowsCommits**:
the log invents nothing and keeps the order of each connection's commits, with two
connections writing their rows interleaved. These three are stated of settings without
faults (`Undisturbed`). Under crashes, timeouts and END three weaker facts remain, checked
in every setting: **LoggedIsCommitted**, nothing reaches the log that SQLite rolled back;
**LoggedOnce**, the rows of a record are in the order in which their statements ran, and
no statement is in two rows unless a write timed out; and **RaisedIsUnsafe**, a
transaction in which a statement raised is in the log as unsafe only. What is committed
may then be missing from the log, or cut short, and after a time-out be there twice (see
*Disagreements*).

*Bounds.* The four settings of the run: two connections that meet at the lock, with
three DML statements; one connection with up to four entries in the savepoint list and
three statements, enough for each order of nested, released and rolled-back names with
work between them; two connections with every fault and two statements; the same
without time-outs, where LoggedOnce allows no repetition. A row written twice takes a
transaction of two statements and a third one that holds the lock, which the
run leaves out for time; the theorems about LoggedIsCommitted, RaisedIsUnsafe and LoggedOnce
are for any number of statements. Connections and savepoint names are symmetric.

### The text run

**SafeIsSettled**: a statement logged as safe leaves, when it runs later, the values it
leaves now: no call and no DEFAULT expression is left to be evaluated again.
**ReplayMeansOriginal**: what the log has is a statement of the same kind, clause and
columns, and the literals put in could have been what the original computed, in
particular one value per row where SQLite evaluates once per row. **ReplayCannotRollBack**
and **StrictIsExact**: the loaded text and the strict text are the logged one without
exactly the clauses they are to lose, whatever quotes, comments, subqueries and prefixes
the statement holds.

*Bounds.* Each verb, conflict clause and UPSERT form, crossed with hostile values,
comments and WITH prefixes (a clause inside a string, a comment, a quoted name or
parentheses; an unbalanced quote inside a comment and the reverse), and separately with
every place of a per-row call, a per-statement call and a call in a subquery, for one or
two rows and two columns. The scanner keeps a mode, a depth and one mark of lookahead, so
one construct in front of a clause and one behind it are enough to derail it. Properties
exclude, by name, what the code gets wrong or does not look at: the statements of
sql_text_upsert below, several conflicting rows sharing one random value in
`DO UPDATE SET` when the parser reads the UPSERT, and a comment between the verb and
`OR` (`BlankGap`; see *Disagreements*).

### The row-level run

**NoStatementLost**: an entry leaves the key index when it is looked up, so each branch of
the lookup must put it somewhere. **ConflictsAreDocumented**: different statements for one
row are a primary-key conflict, and statements that give two rows one unique value a
unique-index conflict, as the documentation of the driver has it and whichever side was
indexed; no other pair is reported. The pair of a primary-key conflict may be entered as
a unique-index conflict too (see *Disagreements*). Foreign-key conflicts are documented as
in progress, and are not looked for.
**CleanMergeIsThreeWay**: with no conflict the assembled rows are the three-way merge
*and satisfy every unique index*, although changed rows are compared with changed rows
only. **ConflictingRowKeepsBase** and **ReportMatchesFile** are about what is left in the
ours file. *Bounds.* All triples of contents of one to three rows of four schemas: a
unique column, a plain column beside it, a composite index set in part, and two linked
tables each of which may be invalid, the child by its foreign key; NULL is among the
values. Conflicts involve two statements and an index one value, so three rows leave one
over.

### Disagreements

The first five have a run that finds the violation.

* **merge_unfiltered.** The rows an UPDATE or DELETE meets count as read only through
  the columns of its WHERE clause. Without one it refers to no column: neither filter
  pairs it with an INSERT, and no probe is run. Ours inserts a row, theirs updates every
  row; the merge overwrites the inserted row with no prompt. The README of the
  repository lists changed reads of a later transaction among the conflicts it models.
* **wrapper_reuse.** `_release_savepoint` pops one entry whatever the name. With `a`
  opened, a change, `a` opened again, `b` opened and `a` released, SQLite keeps the
  first `a` and the wrapper both. `ROLLBACK TO a` undoes the change in SQLite and
  leaves it in the buffer, to be logged at COMMIT. The class docstring says that
  savepoints are tracked so that `ROLLBACK TO` discards the right statements.
  Without reused names the stale entries do no harm: that is a setting of wrapper.
* **sql_text_upsert.** An UPSERT with a WHERE after `DO UPDATE SET` is not parsed; its
  clause is stripped before nondeterministic calls are looked for, and a statement in
  which nothing else changes is logged as safe with `CURRENT_TIMESTAMP` or `random()`
  still in it.
* **merge_history.** Topic merges main, main commits, topic merges main again. Ids above
  the watermark of the second base are not the transactions made since: one is replayed
  twice and one is lost.
* **control_cache.** The cached control SQL of a strict form outlives the form; the next
  statement object at its address runs the SQL of another statement on control.

Met while modelling, and without a run of their own (`PROJECT.json` lists those that are
hazards with their lines):

* A process that dies between COMMIT and the end of `_write` leaves a committed transaction
  without its record, or with part of it. It is a setting of the wrapper run, in which
  EveryCommitLogged is not claimed.
* The log rows of a commit are autocommitted one by one. When the second one times out on
  another connection's lock (`wrapper.py:268`), the wrapper keeps its transaction and its
  buffer; the next SAVEPOINT counts as inside it, and its RELEASE writes the whole old
  buffer again under a new record, so the first statement is in the log twice. The module
  docstring (`wrapper.py:8-9`) promises one transaction row and one log row per statement.
* `END` commits in SQLite and is any other statement to the wrapper (`wrapper.py:378`): the
  buffer is not flushed, and the next `BEGIN`, or the next error outside a transaction,
  drops it. The repository's README (51-52) promises each committed transaction a record.
* A row that both sides change differently but give one unique value is reported as a
  unique-index conflict with itself, beside its primary-key conflict. `row_merge/README.md`
  (67-73) has these conflicts between different rows, and a TODO in the code
  (`sqlite_reconcile.py:566`) calls it a bug. No row is treated otherwise for it.
* A table that fails `foreign_key_check` has its rows in the report as sqlite3.Row objects
  (`sqlite_reconcile.py:162`), which `asdict` (777) cannot copy. The driver fails after it
  has replaced the ours file and before it opens the report, which `row_merge/README.md`
  (10) promises for unresolved cases.
* A comment between the verb and `OR` hides the clause from the patterns, which allow
  blanks only: an `INSERT /**/ OR ROLLBACK` is replayed with its clause.
* A DML statement behind a leading comment is executed and not logged.
* The log rows go through the application's connection, so after an autocommitted INSERT
  `last_insert_rowid()` is that of the log.
* A join `ON` a column named `conflict` is taken for an UPSERT.
* In the row-level driver a unique-value conflict keeps the statement of the side that is
  looked up out of the result but not the other one, which is applied although reported;
  and a merge without conflicts raises in `foreign_key_check`, which unpacks the pairs
  before it tests for them. The child of a parent the other side deletes, which the README
  describes as a conflict and lists as work in progress, is not looked for.
* `accept_next` passes `check_constraint_resolution=False` (see the merge runs), and a
  statement with foreign-key effects against an INSERT of the same table, or one DELETE
  with them against another, is a write/write conflict for the pairwise analysis only (see
  the filter run).

Every passing property also has a mutant: a plausible bug in a mapped definition
(marked `\* mutant` where it is defined, used by nothing else) under which the run
reports that property violated.

## 4. Fairness

The merge loop and the branch check are sequential programs: while they run, the next
statement is executed, which is weak fairness of `Program`. Both wait only for the
user. Liveness assumes that she leaves a prompt some time, in any of the ways the prompt
offers, which is weak fairness of `User`; nothing is assumed about which one. A user
who retypes a transaction for ever is excluded by the bound on edits, not by fairness.
A lock or a file the tool would wait for is not part of these two models: both work on
private copies. All other modules are checked for safety only: the wrapper's calls and a
person's commits need never come, and SqlText, ControlCache and RowMerge run straight
through.

## 5. What is proved

Eight modules hold theorems. Each is proved for all values of the constants that meet the
named assumptions of the component's module: that constants have the right shape (logs
are sequences of sequences of statements, contents have a row for every key, `NoRow` is
not a value), and, of the code's inputs, that the base of a branch is a valid database,
that a statement just loaded or typed has no accepted warning, that the columns of a
unique index are columns of the tables it is for, that a schema has finitely many tables
and columns, that indexes and foreign keys have at least one column, and that an INSERT
or DELETE is recorded as writing every column (`_updated_columns`). Of the texts it is
assumed that a statement is grammatical, that a DEFAULT is not a subquery (SQLite refuses
that), and that random values are fresh (`StatementsAssumption`, `DefaultsAssumption`,
`FreshAssumption`). Logs, queues, buffers, connections, schemas, tables and statements
are of any size.

| Module | Theorem | Statement |
|---|---|---|
| MergeProofs | `TypeCorrect` | `Spec => []TypeOK` |
| | `ControlIsMain` | `Spec => []ControlMatchesMain` |
| | `BranchOrderIsKept` | `Spec => []BranchOrderKept` |
| | `ScanStatesHold` | `Spec => []ScanStates` |
| | `MergeIsAtomic` | `Spec => IsAtomicMerge` |
| | `NeverAskedTwice` | `Spec => NotAskedTwice` |
| | `FixedOrderHolds` | `Spec => []FixedReplayOrder` |
| | `EffectsAreKept` | `Spec => [](RowsNamed => EffectsKept)` |
| | `NoUpdateIsLost` | `Spec => [](RowsNamed => NoSilentOverwrite)` |
| | `NoResolutionActivated` | `Spec => [](RowsNamed => ResolutionNotActivated)` |
| WrapperProofs | `WrapperTypeCorrect` | `Spec => []TypeOK` |
| | `BufferIsWorkHolds` | `Spec => [](NamesOnce => BufferIsWork)` |
| | `LoggedIsCommittedHolds` | `Spec => [](NamesOnce => LoggedIsCommitted)` |
| | `LoggedOnceHolds` | `Spec => []LoggedOnce` |
| | `RaisedIsUnsafeHolds` | `Spec => [](NamesOnce => RaisedIsUnsafe)` |
| | `EveryCommitLoggedHolds` | `Spec => [](NamesOnce => EveryCommitLogged)` |
| | `LogFollowsCommitsHolds` | `Spec => [](NamesOnce => LogFollowsCommits)` |
| RowMergeProofs | `RowMergeTypeCorrect` | `Spec => []TypeOK` |
| | `NoStatementLostHolds` | `Spec => []NoStatementLost` |
| | `ConflictsAreDocumentedHolds` | `Spec => []ConflictsAreDocumented` |
| | `ConflictingRowKeepsBaseHolds` | `Spec => []ConflictingRowKeepsBase` |
| | `ReportMatchesFileHolds` | `Spec => []ReportMatchesFile` |
| | `CleanMergeIsThreeWayHolds` | `Spec => []CleanMergeIsThreeWay` |
| FilterProofs | `FilterTypeCorrect` | `Spec => []TypeOK` |
| | `IndexFollowsQueueHolds` | `Spec => []IndexFollowsQueue` |
| | `FilterCoversPairsHolds` | `Spec => []FilterCoversPairs` |
| | `FilterIsPairwiseHolds` | `Spec => []FilterIsPairwise` |
| | `CascadesCoveredHolds` | `Spec => []CascadesCovered` |
| BranchProofs | `BranchTypeCorrect` | `Spec => []TypeOK` |
| | `BranchReplaysHolds` | `Spec => []BranchReplays` |
| | `NothingUnseenHolds` | `Spec => []NothingUnseen` |
| SqlTextProofs | `SqlTypesAlways` | `Spec => []TypeOK` |
| | `SafeReplaySettled` | `Spec => []SafeIsSettled` |
| | `ReplayKeepsMeaning` | `Spec => []ReplayMeansOriginal` |
| | `LoadsWithoutRollback` | `Spec => []ReplayCannotRollBack` |
| | `StrictTakesClausesOff` | `Spec => []StrictIsExact` |

ReplayProofs and NumberInduction hold the lemmas the others share.

**Induction.** `Replay` and `FlattenSeq`, and in the filter `Tally`, `IndexOf` and
`Repeat`, are recursive functions, and what they compute is an induction over their
argument. The library states induction for a predicate, which the provers cannot take as a
parameter. NumberInduction states it for a *set* of numbers (`Induction`, `LeastNumber`,
`GreatestNumber`, from the well-foundedness of `<` on the naturals), and uses it for what
concatenating a sequence of sequences gives (`FlattenAppend`, `FlattenMembers`).
ReplayProofs uses it too: a run of a replay, with all its intermediate values, exists and
is unique (`RunExists`, `RunUnique`), so `ReplayAppend` and `ReplayConcat` follow: one
statement more is one step more, and replaying two sequences is replaying the second on
what the first leaves.

**The merge loop.** `ControlMatchesMain` speaks of the states in which no scan is open
and says nothing of what happens inside; it is not inductive. The first invariant is
`Inv == TypeOK /\ Positions /\ Savepoints`. *Positions* ties the program counter to what
must be there: a head in the queue, an open scan, a scan position inside the other
queue, a replay with a statement left. *Savepoints* describes the stack: in an open scan
its bottom holds two equal databases, a replay adds one entry on top, and outside both it
is empty and the databases are equal. The step that carries the theorem is
`AdvanceStatement` with purpose `apply`: main runs the statement and control runs its
control form, and the two stay equal because of `ControlFormAgrees` (where the control
form of a statement succeeds, the statement does too, with the same result). An UPSERT
that finds its row fails on control, and then both are rolled back.

`ScanStates` needs more: what the databases hold *while* a replay or the start of a scan
is half done. `Replayed` says it for every value of the program counter. `LogReplayed`
counts from the merged database, which is the working one or the bottom of the savepoint
stack, so rolling back or closing a scan is no event for it; `ScanReplayed` has the scan
point, `StartReplayed` and `WalkReplayed` the statements run so far, the latter on top of
what the savepoint of the replay holds. `Bookkeeping` has what is left: a scan is opened
only for a head with statements and never runs past the other queue, and only reviewable
conflicts are accepted.

`MergeIsAtomic` is the refinement under the mapping of section 2. Every action is
classified: accepting a head is a `Take`, and here `LogReplayed` and `WalkReplayed` give
that the merged database becomes the replay of the whole head on the old one; an empty
turn is a `Pass`; a prompt's answer is a `Revise` of what waits, or a stutter; writing the
result is a `Publish`, or a stutter when it fails; the rest are stutters because the
merged database is the bottom of the stack. `NeverAskedTwice` is an action property: a
pair is shown by `ScanCheck`, which looks it up in `accepted`, or by a replay that fails,
and where that one does not look, what it adds is an integrity conflict, which nobody can
have accepted. `FixedOrderHolds` is proved from what holds as long as nothing is edited
(`FollowsOrder`): the queues are the ends of the logs, one branch is at most one turn
ahead, and the merged log is the beginning of the fixed order. `BranchOrderIsKept` adds to
`Inv` that a queue holds transactions of its own branch, and reasons about the positions
in a sequence from which an element is deleted.

**Effects.** The code compares a waiting transaction in two states that differ by one
head, and the three properties about effects compare its state on its branch with the one
in the finished merge. What lies between is a chain of such pairs. For a transaction in the
queue of branch `b`, `Ahead(b, k)` is the replay, on the database merged so far, of those
that wait before it, and `Behind(k)` the same with the head of the turn in front. When the
head of its own branch is accepted, `Ahead` stays what it was; when the head of the other
branch is, `Ahead` becomes what `Behind` was (`HeadTaken`). So it is enough that each turn
leaves every waiting transaction of the other branch `Clear`: it succeeds behind the head,
with the same effects, silent nowhere it was not, and in no row that the head writes, or a
conflict on it was accepted. `Settled` then says of every waiting transaction that what it
would do now is what it did on its branch, and `LogFacts` the same of the accepted ones;
both are part of `EffectInv`, with `Checked`, which follows a turn through its scan.

That a transaction is `Clear` has two reasons. Either the scan passed it. Then its replay
on both databases went through, the write/write probes of the head, taken while the head
ran (`Probed`), met none of its rows, and `CheckFindsNothing` shows that its reads are the
same and so, by `EffectSame`, its effects; the strict checks of its clauses are collected
statement by statement in `WalkFacts`. Or no check, or not this check, was needed by the
metadata. Then the argument is about the head and all that waits (`UnscannedClear`,
`NothingSilent`): statements that write no key leave the same rows present
(`SamePresence`), statements that can create no key leave fewer (`Fewer`), and a replay
runs in step on two databases so related (`ReplayTogether`). A statement not among the
candidates for a read conflict is unaffected for the same reason (`UnreadEffect`).

`RowsNamed` (no statement of a loaded log is an UPDATE or DELETE without WHERE) is a
hypothesis, because such a statement is recorded as referring to no column and is not
probed, and EffectsKept is then false: run merge_unfiltered finds it. The workloads of
merge_pairs satisfy it.

**The wrapper.** The invariant has layers, each proved with the ones below. `Shaped`:
types, and savepoint positions that nest within the buffer. `Mirrored`: in an open
transaction SQLite's work is the end of the buffer, and SQLite's savepoint stack lies
within the wrapper's. The wrapper may have more of both: the buffer of a transaction that
ended behind its back, and savepoints that RELEASE left in its list. `StackInside` says
where each of SQLite's savepoints is in the wrapper's list: it is the last one of its
name, which is where the wrapper looks.
`Numbered` and `Accounted`: no statement is committed twice or in two transactions, and
all that is buffered, in writing or logged is committed or in the open transaction, and
marked if one with it raised. `InStep`: without faults both are in a transaction or
neither is. `InOrder` and `Once` are about what can be written twice: statements are
numbered as they run, a buffer and a record climb, a connection that is writing has its
record to itself, and an entry some wrapper has still to write is in no row and with no
other wrapper. A flush moves entries from the buffer to the rows and drops the buffer in the
step of the last row, so only a time-out leaves both; a crash drops both. On top of these
`Recorded` assigns to every record of the log its commit: the
assignment keeps the order of each connection, every record is complete or being written,
and every commit has a record or its wrapper is about to open one. `RowsIn`, which picks a
record's rows from the table, is recursive, and its lemmas (`RowsInAppend`, `RowsInAre`)
are inductions as above.

`NamesOnce` (the setting does not have `reuse`) is a hypothesis, because without it the
layer `Mirrored` is false: the run wrapper_reuse finds the violation in the code. All
other situations, crashes, timeouts and `END` among them, are covered by
`LoggedIsCommitted` and `RaisedIsUnsafe`, and `LoggedOnce` does without it; the properties
about records carry `Undisturbed` in their own statement.

**The row-level driver.** The two loops run over sets in any order, so the invariant is a
function of what has been read: `Indexed(read)` is the state of the indexes after the
build statements in `read`, `Compared(read, rest)` that of the indexes, buckets and
conflicts after the lookup statements in `read`, where entries are removed as they are
found. One lemma says what one more statement does to each (`IndexOneMore`,
`CompareOneMore`), with `MatchIsAlone` behind it: a statement equal on both sides clashes
with no other of the build side, because each side is unique by itself. That is the reason
why dropping it from the index early is harmless. `FoundPairs` then reads the last
`Compared` as two sets of pairs, whichever side was indexed, and `ConflictsAreDocumented`
follows pair by pair: a shared value of one row is a difference there too.
`Assembling` follows the script: the file stays unique whatever the database refuses, and
what no executed statement names is as in base. `CleanMergeIsThreeWay` needs that two rows
of the assembled table never share a unique value, although changed rows are only compared
with changed rows: an unchanged row is a row of the *other* side too (`UntouchedIndex`),
where it is unique, and two rows changed on different sides were compared
(`ChangedApart`).

**The branch check.** `Typed` adds to the types that what has been accepted was shown:
`Reviewed(n)` are the statements of a transaction all of whose accepted warnings are in
`seen`, and a draft is made of these and of new ones. `ReplayKept` says that the resolved
transactions replay, each to a valid database, that the connection holds the last of
these, the savepoint too while a transaction is tried, and in between what its first
statements have done. `ClearedSoFar` follows a transaction under replay: each statement
behind the position had no issue in the state it ran in. When the transaction is released
that state is its state in the resolved branch, by `ReplayConcat`, and `NothingUnseen`
follows.

**The filter.** The invariant is `FilterInv`: what was parsed is of the schema and sums up
(`ParsedWell`), and `IndexFollowsQueue`. The latter has to survive the removal of a
transaction from the *middle* of the queue, while the index of a queue is built from the
front. `IndexWithout` says that the index of a queue is that of the queue without its i-th
transaction, and that transaction added: an induction along the queue that moves the i-th
to the end with `AddCommutes`. `RemoveAdded` then takes it back out; the rule that a count
below zero is dropped never applies. For the two properties about kinds of conflict,
`CountedIs` reads the index: a column is counted under a counter exactly if a statement of
a queued transaction counts it (`CountIs`, `TallyIs`). Each test of the filter is a
disjunction in which the index is asked once, so what the queue answers, one transaction
alone answers (`KindsPairwise`). Conversely each conflict of a pair has a write, read or
omitted key that is counted (`WrittenIsFound`, `OmittedIsCounted`, `KeyIsWritten`); here it
is needed that keys have columns and that an INSERT or DELETE writes all of them. What the
pair analysis reports and the filter does not ask for comes from cells written
(`LeftOutWriteWrite`): each has a row write behind it, and if no two of these collide one
is an INSERT or both are deletions.

`CascadesCovered` is the correctness of the walk over foreign keys. `Closing` is its loop
invariant: what was found waits or is expanded, and what is expanded has its hidden writes
and its looked-up columns in the result. The walk ends because there are at most two
events per foreign key and the first one (`CandidatesFew`), each expanded once: `Remaining`
falls in every round (`StepCloses`), so the number of rounds in `CascadeEffects` is enough
(`WalkEnds`). When nothing waits the result is closed under the actions, and `HiddenBy` is
within every closed set (`HiddenWithin`). When the depth limit strikes first, every table
counts as updated and read, which covers anything.

**The statement texts.** The four edits are made on a sequence of words, by matching
patterns at the words the scanner finds, and the properties speak of statements, so the
proof goes from one to the other. *The scanner.* `StateAt(text, i)` is its state behind
the first `i` marks. A piece of text is `Passes`ed if the scanner, entering it in code at
any depth, leaves it in code at the same depth with nothing to skip, and finds in it, at
depth zero, exactly the named ones among the words a pattern begins with (`Keys`); what is
inside quotes, brackets, a comment or parentheses is passed with none. This has to be
relative to what follows, because of the one mark of lookahead: a string followed by
another quote is not over. So a piece is
`Quiet` if it is passed as long as no quote follows, `Loose` if it is passed in any case,
and both are closed under concatenation (`QuietConcat`, `LooseConcat`), lists and groups.
Walking through `Render` with these gives where each word the patterns begin with stands
in the text of *any* statement, and that strings and comments add none (`VerbAt`,
`ClauseAt`, `UpsertAt`). *The edits.* `Placed` and the `Cut` lemmas
turn an edit of the text at such a place into `Render` of an edited record: `NoClause`,
`AsInsert`, `WithoutUpsert`. The gap between the verb and `OR` must be blank
for that, which is `BlankGap`.

The invariant `Staged` only says that each stage is computed from the one before; it is
inductive at once, and what carries the theorems is that whatever `PreparedEntries` can
make of a statement is the text of a statement again (`EntryReads`: the statement itself,
or a tree of it with literals in the place of calls, read back by the same grammar).
`LoadsWithoutRollback` and `StrictTakesClausesOff` follow from the edits above.

For the other two the tree must have the clauses of the statement (`MeaningKept`). This is
less than obvious when the tree was parsed from a rewritten text: two different statements
might have the same text, so that the tree of a statement would be another one's. Here the
*length* of the text decides (`RenderLength`): what is taken off or put in changes it by a
known number of words, and a statement that is like the original, but for its clauses, has
the length its clauses give it. An UPSERT that the parser does not see has been stripped,
and then nothing but the original text is logged. `InPlace` relates each value to what
stands in its place: itself, the literal of the clock, or the literal of the call with the
number of its row and column (`ChangedValues`, `DefaultValuesSame` for `DEFAULT VALUES`).
What stands in place is `Settled`, so it is the same whenever it runs, which is
`SafeReplaySettled`; and since the numbers of different places differ, values are equal
exactly if they were (`Kinds`, `KindsTell`), which is `ReplayKeepsMeaning`. A statement
that is kept as it is had no call, or it would have changed (`KeptSettled`); here the
hypothesis of SafeIsSettled is needed, that a `DO UPDATE` with a call was parsed. Without
it the claim is false, as the run sql_text_upsert shows.

The proofs have one lemma per action or group of actions, one step per conjunct it
disturbs, and one lemma that puts them together. The runs of section 3 check the proved
properties on small instances, and the mutants there show that the properties can fail.

## 6. What the project does not show

*Only model-checked.* Liveness under fairness (Terminates, Finishes), which is out of the
prover's reach. All invariants and action properties of the passing runs are proved as
well, five of the wrapper under `NamesOnce` and three of the merge loop under `RowsNamed`.

*Abstracted.* The merge model has one table with one key: no foreign keys, no second
unique index, no cascades and no triggers; foreign keys and several tables are in the
filter model, which has no rows. An UPDATE or DELETE names its row by the key or has no
WHERE. Read probes that SQLite cannot prepare do not occur. Strings, wording, colours and
the editor process are not modelled.

SqlText has one table, and SQL of the few shapes named there; functions are of two kinds,
one value per statement and one per row, and the clock does not tick between two calls
of one preparation. Schemas and the columns a statement mentions are inputs of the filter
model. MergeHistory has histories in which the best common ancestor is unique, and nobody
edits in its merges.

*Not modelled.* The resolution of names in `merge/sql_metadata.py` (scopes, CTEs, aliases)
and the rewriting of table references in `merge/control_db.py` walk sqlglot trees: a
model would have to restate the parser's classes, which are not in the repository, and
what could go wrong is in their shape. `executemany` and `executescript` loop over what
is modelled; of several spellings of a statement only `END` is told apart. Foreign keys
in the merge loop, where they are checked per statement in one place and per transaction
in another, need a second table in ReplaySql and are left out (hazard at
`accepted_replay.py:168`). Evaluation and command line have no logic of their own.

## 7. Plan

Done: ReplaySql, MergeLoop with MergeSafety and its proofs, AtomicMerge and the
refinement, WrapperLog, BranchReplay, ForeignKeys and StaticFilter with FilterSafety,
SqlText, MergeHistory, ControlCache, RowMerge with RowMergeSafety.

What is proved is in section 5: all invariants of the merge loop, the wrapper, the branch
check, the filter, the row-level driver and the statement texts, and the refinement.

What is left would be new model: a second table in ReplaySql, with foreign keys checked at
both times the code checks them; hazards without a property, in `PROJECT.json`, say what
each would need.
