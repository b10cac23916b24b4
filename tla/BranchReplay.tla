----------------------------- MODULE BranchReplay -----------------------------
(***************************************************************************)
(* _resolve_branch_replay_safety (src/src/merge/terminal_mergetool.py):    *)
(* before the branches are compared, each is replayed alone on a copy of   *)
(* the base.  A transaction that fails, leaves the database invalid or     *)
(* carries a warning is put to the user, who accepts, edits or deletes it; *)
(* it is then replayed again from its first statement.  The model has one  *)
(* branch; the other one starts from a fresh copy.                         *)
(***************************************************************************)
EXTENDS ReplaySql

CONSTANTS Logs,      \* the branch logs to replay
          Bases,     \* databases of the merge base
          Broken,    \* databases validate_database rejects (foreign keys)
          Typable,   \* the statements the user may type
          MaxTyped   \* how many of them she types

(* reason: what the wrapper recorded: nothing, a reason the user may accept*)
(* (an acknowledgeable prefix) or one she may not.  from: UPDATE ... FROM  *)
(* the table itself.  accepted: accepted_replay_warnings.                  *)
Warnings == {"stored", "duplicate", "resolution"}
Logged == [sql : Statements, reason : {"none", "warning", "block"}, from : BOOLEAN,
           accepted : SUBSET Warnings]
Transactions == [n : Nat, stmts : Seq(Logged)]

(* A statement read from a log or typed has no accepted warning yet.       *)
Unreviewed == {s \in Logged : s.accepted = {}}

ASSUME LogsAssumption == Logs \subseteq Seq(Seq(Unreviewed))
ASSUME BasesAssumption == Bases \subseteq Databases \ Broken
ASSUME TypableAssumption == Typable \subseteq Unreviewed /\ MaxTyped \in Nat

VARIABLES
  base,      \* the merge base
  todo,      \* the branch's transactions still to replay
  current,   \* the transaction being replayed, as edited so far
  at,        \* index of its next statement
  db,        \* the branch connection's database
  saved,     \* what the savepoint of this replay restores
  pc,        \* where the program is
  issue,     \* what the prompt shows: a warning of statement at, or an error
  draft,     \* the prompt's statements, with their index in current or 0
  changed,   \* changed_any of the prompt
  resolved,  \* the transactions that replayed
  typed,     \* statements the user typed (bounded by MaxTyped)
  seen       \* the statements and warnings she was shown

vars == <<base, todo, current, at, db, saved, pc, issue, draft, changed, resolved, typed,
          seen>>
prompting == <<draft, changed, typed, seen>>

NoIssue == "none"
Errors == {"block", "replay", "invalid"}
NoTransaction == [n |-> 0, stmts |-> <<>>]
Sqls(stmts) == [i \in DOMAIN stmts |-> stmts[i].sql]
SqlsOf(txs) == FlattenSeq([i \in DOMAIN txs |-> Sqls(txs[i].stmts)])
Numbered(l) == [i \in DOMAIN l |-> [n |-> i, stmts |-> l[i]]]

-----------------------------------------------------------------------------
(* update_from_has_duplicate_target_rows: the source has several rows for  *)
(* one target row.                                                         *)
DuplicateTarget(s, d) ==
  s.from /\ Present(d, s.sql.row) /\ \E r \in Rows \ {s.sql.row} : Present(d, r)

(* conflict_resolution_branch_warning: the statement's conflict clause is  *)
(* what keeps it from failing.                                             *)
ActiveResolution(s, d) ==
  HasReviewableResolution(s.sql) /\ ~Succeeds(StrictForm(s.sql), d)

(* The loop body of _branch_transaction_replay_issue, in its order.        *)
IssueOf(s, d) ==
  IF s.reason = "warning" /\ "stored" \notin s.accepted THEN "stored"
  ELSE IF s.reason = "block" THEN "block"
  ELSE IF DuplicateTarget(s, d) /\ "duplicate" \notin s.accepted THEN "duplicate"
  ELSE IF ActiveResolution(s, d) /\ "resolution" \notin s.accepted THEN "resolution"
  ELSE IF ~Succeeds(s.sql, d) THEN "replay"
  ELSE NoIssue

-----------------------------------------------------------------------------
Init ==
  /\ base \in Bases
  /\ todo \in {Numbered(l) : l \in Logs}
  /\ current = NoTransaction /\ at = 1 /\ db = base /\ saved = base
  /\ pc = "next" /\ issue = NoIssue /\ draft = <<>> /\ changed = FALSE
  /\ resolved = <<>> /\ typed = 0 /\ seen = {}

KeepsPosition(t) == /\ current' = t /\ at' = at /\ pc' = "replay" /\ issue' = NoIssue   \* mutant
                    /\ draft' = <<>> /\ changed' = FALSE
(* SAVEPOINT and the first statement of a transaction.                     *)
Replaying(t) == /\ current' = t /\ at' = 1 /\ pc' = "replay" /\ issue' = NoIssue
                /\ draft' = <<>> /\ changed' = FALSE

NextTransaction ==
  /\ pc = "next" /\ todo # <<>>
  /\ Replaying(Head(todo)) /\ saved' = db /\ todo' = Tail(todo)
  /\ UNCHANGED <<base, db, resolved, typed, seen>>

Finish ==
  /\ pc = "next" /\ todo = <<>>
  /\ pc' = "done"
  /\ UNCHANGED <<base, todo, current, at, db, saved, issue, resolved, prompting>>

ReplayStatement ==
  /\ pc = "replay" /\ at <= Len(current.stmts)
  /\ IssueOf(current.stmts[at], db) = NoIssue
  /\ db' = Result(current.stmts[at].sql, db) /\ at' = at + 1
  /\ UNCHANGED <<base, todo, current, saved, pc, issue, resolved, prompting>>

Shown(n, s, w) == <<n, [s EXCEPT !.accepted = {}], w>>
Statement(i) == [sql |-> current.stmts[i], from |-> i]
PromptFor(what) ==
  /\ pc' = "prompt" /\ issue' = what
  /\ draft' = [i \in DOMAIN current.stmts |-> Statement(i)] /\ changed' = FALSE
  /\ seen' = IF what \in Warnings THEN seen \cup {Shown(current.n, current.stmts[at], what)}
             ELSE seen

KeepsEffects(what) == PromptFor(what) /\ UNCHANGED db   \* mutant
(* rollback_savepoint, then the prompt.                                    *)
RollBackAndAsk(what) == PromptFor(what) /\ db' = saved

StatementIssue ==
  /\ pc = "replay" /\ at <= Len(current.stmts)
  /\ IssueOf(current.stmts[at], db) # NoIssue
  /\ RollBackAndAsk(IssueOf(current.stmts[at], db))
  /\ UNCHANGED <<base, todo, current, at, saved, resolved, typed>>

(* validate_database after the last statement.                             *)
InvalidResult ==
  /\ pc = "replay" /\ at > Len(current.stmts) /\ db \in Broken
  /\ RollBackAndAsk("invalid")
  /\ UNCHANGED <<base, todo, current, at, saved, resolved, typed>>

KeepsInvalid ==   \* mutant
  /\ pc = "replay" /\ at > Len(current.stmts)
  /\ resolved' = Append(resolved, current) /\ pc' = "next"
  /\ UNCHANGED <<base, todo, current, at, db, saved, issue, prompting>>
Replayed ==
  /\ pc = "replay" /\ at > Len(current.stmts) /\ db \notin Broken
  /\ resolved' = Append(resolved, current) /\ pc' = "next"
  /\ UNCHANGED <<base, todo, current, at, db, saved, issue, prompting>>

-----------------------------------------------------------------------------
(* The prompt.  Commands edit the draft until Enter.                       *)
InsertAfter(s, i, x) == SubSeq(s, 1, i) \o <<x>> \o SubSeq(s, i + 1, Len(s))

Type(new) ==
  /\ pc = "prompt" /\ draft # <<>> /\ typed < MaxTyped
  /\ LET x == [sql |-> new, from |-> 0] IN
     \/ \E i \in DOMAIN draft : draft' = [draft EXCEPT ![i] = x]
     \/ \E i \in 0..Len(draft) : draft' = InsertAfter(draft, i, x)
  /\ changed' = TRUE /\ typed' = typed + 1
  /\ UNCHANGED <<base, todo, current, at, db, saved, pc, issue, resolved, seen>>

DeleteStatement ==
  /\ pc = "prompt"
  /\ \E i \in DOMAIN draft : draft' = RemoveAt(draft, i)
  /\ changed' = TRUE
  /\ UNCHANGED <<base, todo, current, at, db, saved, pc, issue, resolved, typed, seen>>

(* DELETE, or no statement left: the transaction is skipped.               *)
Skip ==
  /\ pc = "prompt"
  /\ pc' = "next" /\ draft' = <<>> /\ changed' = FALSE /\ issue' = NoIssue
  /\ UNCHANGED <<base, todo, current, at, db, saved, resolved, typed, seen>>

RestartsAll(d, w) ==   \* mutant
  [i \in DOMAIN d |-> [d[i].sql EXCEPT !.accepted = {}]]
AcceptAnywhere(d, w) ==   \* mutant
  [i \in DOMAIN d |-> [d[i].sql EXCEPT !.accepted = @ \cup {w}]]

(* Enter.  The warning is accepted if its statement is still in the draft, *)
(* whatever else was edited.                                               *)
AcceptIfPresent(d, w) ==
  [i \in DOMAIN d |-> IF d[i].from = at THEN [d[i].sql EXCEPT !.accepted = @ \cup {w}]
                      ELSE d[i].sql]
Enter ==
  /\ pc = "prompt" /\ draft # <<>>
  /\ changed \/ issue \in Warnings
  /\ Replaying([current EXCEPT !.stmts =
       IF issue \in Warnings THEN AcceptIfPresent(draft, issue)
       ELSE [i \in DOMAIN draft |-> draft[i].sql]])
  /\ UNCHANGED <<base, todo, db, saved, resolved, typed, seen>>

Interrupt ==
  /\ pc = "prompt"
  /\ pc' = "aborted"
  /\ UNCHANGED <<base, todo, current, at, db, saved, issue, resolved, prompting>>

Program == NextTransaction \/ Finish \/ ReplayStatement \/ StatementIssue
             \/ InvalidResult \/ Replayed
User == (\E new \in Typable : Type(new)) \/ DeleteStatement \/ Skip \/ Enter \/ Interrupt
Exited == pc \in {"done", "aborted"} /\ UNCHANGED vars

Next == Program \/ User \/ Exited
Spec == Init /\ [][Next]_vars

(* The program runs, and the user leaves every prompt.                     *)
FairSpec == Spec /\ WF_vars(Program) /\ WF_vars(User)

-----------------------------------------------------------------------------
(* Types of all variables.                                                 *)
TypeOK ==
  /\ base \in Databases /\ db \in Databases /\ saved \in Databases
  /\ todo \in Seq(Transactions) /\ resolved \in Seq(Transactions)
  /\ current \in Transactions /\ at \in 1..Len(current.stmts) + 1
  /\ pc \in {"next", "replay", "prompt", "done", "aborted"}
  /\ issue \in {NoIssue} \cup Warnings \cup Errors
  /\ draft \in Seq([sql : Logged, from : Nat]) /\ changed \in BOOLEAN
  /\ typed \in 0..MaxTyped
  /\ seen \subseteq Nat \X Logged \X Warnings

(* A branch comes out of the check replayable: its transactions run on the *)
(* base one after the other without error, each leaves a valid database,   *)
(* and the connection holds exactly their effects.  This is what the pair  *)
(* merge takes for granted (_resolve_merge_transactions).                  *)
StateAfter(k) == Replay(SqlsOf(SubSeq(resolved, 1, k)), base)
BranchReplays ==
  /\ \A k \in 0..Len(resolved) : StateAfter(k).ok /\ StateAfter(k).db \notin Broken
  /\ pc \in {"next", "prompt", "done"} => db = StateAfter(Len(resolved)).db

(* No statement leaves the check with something the user has not seen: no  *)
(* blocked statement, and a stored warning, a duplicate target or an       *)
(* active conflict clause, in the state where the statement really runs,   *)
(* only if she was shown that warning of that statement and went on        *)
(* (accepted_replay_warnings, kept and lost over several prompts).         *)
StateBefore(k, j) ==
  Replay(SqlsOf(SubSeq(resolved, 1, k - 1)) \o Before(Sqls(resolved[k].stmts), j), base).db
WarningsOf(s, d) ==
  {w \in Warnings : \/ w = "stored" /\ s.reason = "warning"
                    \/ w = "duplicate" /\ DuplicateTarget(s, d)
                    \/ w = "resolution" /\ ActiveResolution(s, d)}
NothingUnseen ==
  \A k \in DOMAIN resolved : \A j \in DOMAIN resolved[k].stmts :
    LET s == resolved[k].stmts[j]
    IN  /\ s.reason # "block"
        /\ \A w \in WarningsOf(s, StateBefore(k, j)) : Shown(resolved[k].n, s, w) \in seen

(* The check ends, one way or another.                                     *)
Finishes == <>(pc \in {"done", "aborted"})
=============================================================================
