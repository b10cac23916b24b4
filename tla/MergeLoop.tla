------------------------------ MODULE MergeLoop ------------------------------
(***************************************************************************)
(* The interactive merge of two branch logs: _resolve_merge_transactions   *)
(* and _check_accept_current of src/src/merge/terminal_mergetool.py with   *)
(* the rolling scan they drive (_RemainingCurrentConflictScan,             *)
(* OrderedRemainingConflictScanner, OrderedRemainingExecutionScanner) and  *)
(* the replay of accepted_replay.py.                                       *)
(*                                                                         *)
(* The head of one queue (the current transaction) is checked against      *)
(* every remaining transaction of the other branch, in order, on two       *)
(* databases: main, without the current transaction, and control, with it. *)
(* Everything a scan does is undone before the head is accepted.  The user *)
(* is an actor of the model: she may accept, edit or delete at a prompt.   *)
(***************************************************************************)
EXTENDS ReplaySql

CONSTANTS Workloads,  \* the pairs of branch logs to merge
          Bases,      \* the databases of the merge base
          Edits,      \* statement sequences the user may type for a transaction
          MaxEdits    \* how often she types one (deletions are not bounded)

Branches == {"ours", "theirs"}
Other(b) == IF b = "ours" THEN "theirs" ELSE "ours"

Transactions == [branch : Branches, n : Nat, stmts : Seq(Statements)]

ASSUME WorkloadsAssumption == \A w \in Workloads : w \in [Branches -> Seq(Seq(Statements))]
ASSUME BasesAssumption == Bases \subseteq Databases
ASSUME EditsAssumption == Edits \subseteq Seq(Statements) /\ MaxEdits \in Nat

ReviewableKinds == {"write_write", "write_read", "constraint_resolution"}
Kinds == ReviewableKinds \cup {"integrity", "replay_error"}
Conflicts == [kind : Kinds, about : SUBSET (Nat \X Nat)]

VARIABLES
  base,      \* the merge base; the tool's own copies start from it
  origin,    \* the two branch logs as loaded, before any edit
  queue,     \* remaining_ours, remaining_theirs
  turn,      \* the branch whose _check_accept_current is running
  pc,        \* where the program is; see PCs
  main,      \* the working database
  control,   \* the attached control database
  saves,     \* SQLite's savepoint stack: what each ROLLBACK TO restores
  kinds,     \* enabled_kinds of the open scan
  next,      \* _next_other_index of the open scan, from 1
  probes,    \* _current_write_probe_tables: rows per current statement
  walk,      \* the transaction replay in progress
  prompt,    \* the conflict set on the screen
  accepted,  \* accepted_pair_keys of this turn
  log,       \* the transactions appended to the working merge log
  merged,    \* what the merged file holds, <<>> until it is written
  edits,     \* how often the user typed an edit (bounded by MaxEdits)
  touched,   \* whether she ever edited or deleted anything
  reviewed   \* the pair conflicts she accepted

vars == <<base, origin, queue, turn, pc, main, control, saves, kinds, next, probes,
          walk, prompt, accepted, log, merged, edits, touched, reviewed>>
scanVars == <<kinds, next, probes>>
dbVars == <<main, control, saves>>
userVars == <<edits, touched, reviewed>>
fixed == <<base, origin>>

PCs == {"turn", "start", "scan", "advance", "pair", "standalone", "write",
        "done", "failed", "aborted"}
Idle == [purpose |-> "none", at |-> 1, conflicts |-> {}]

Head0 == Head(queue[turn])
OtherQueue == queue[Other(turn)]
Candidate == OtherQueue[next]
ScanOpen == kinds # {}

Conflict(kind, about) == [kind |-> kind, about |-> about]

-----------------------------------------------------------------------------
(* Which checks can matter at all: remaining_individual_check_kinds over   *)
(* the metadata index of the other queue (its counters are the sums of     *)
(* the statements' columns over the queue).                                *)
StmtsOf(txs) == UNION {ToSet(txs[i].stmts) : i \in DOMAIN txs}

WriteWritePossible(mine, theirs) ==
  \E s \in mine, t \in theirs : DirectWriteWriteOverlap(s, t)
WriteReadPossible(mine, theirs) ==
  \E s \in mine, t \in theirs : WrittenColumns(s) \cap ReferencedColumns(t) # {}
SameKeyPossible(mine, theirs) ==
  (\E s \in mine : MayCreateKey(s)) /\ (\E t \in theirs : MayCreateKey(t))

NeededKinds(current, others) ==
  LET mine   == ToSet(current.stmts)
      theirs == StmtsOf(others)
  IN  {k \in {"write_write", "write_read", "integrity"} :
         \/ k = "write_write" /\ WriteWritePossible(mine, theirs)
         \/ k = "write_read" /\ WriteReadPossible(mine, theirs)
         \/ k = "integrity" /\ SameKeyPossible(mine, theirs)}

-----------------------------------------------------------------------------
(* check_next before it advances: static_analysis_matching refined by the  *)
(* write/write and write/read probes.  The probe walks run in a savepoint  *)
(* of their own and leave no trace.                                        *)
WriteWritePairs(ss, tt) ==
  {p \in (DOMAIN ss) \X (DOMAIN tt) : DirectWriteWriteOverlap(ss[p[1]], tt[p[2]])}

ReadIndexes(ss, tt) ==
  {j \in DOMAIN tt : \E s \in ToSet(ss) : WrittenColumns(s) \cap ReferencedColumns(tt[j]) # {}}

StaticKinds(ss, tt) ==
  {k \in kinds : \/ k = "write_write" /\ WriteWritePairs(ss, tt) # {}
                 \/ k = "write_read" /\ ReadIndexes(ss, tt) # {}}

(* _find_write_write_overlap: the first candidate pair, in the order of    *)
(* the other transaction, whose rows meet.  A statement that fails on main *)
(* stops the walk: "not_refined" keeps the static conflict.                *)
FirstWriteOnly(ss, tt, db) ==   \* mutant
  IF \E p \in WriteWritePairs(ss, tt) : p[1] = 1 /\ p[2] = 1 /\ probes[1] \cap AffectedRows(tt[1], db) # {}
  THEN {Conflict("write_write", {<<1, 1>>})}
  ELSE IF Replay(tt, db).ok THEN {} ELSE {Conflict("write_write", {})}

WriteWriteResult(ss, tt, db) ==
  LET pairs == WriteWritePairs(ss, tt)
      meets == {p \in pairs : /\ Replay(Before(tt, p[2]), db).ok
                              /\ probes[p[1]] \cap
                                 AffectedRows(tt[p[2]], Replay(Before(tt, p[2]), db).db) # {}}
      first == {p \in meets : \A q \in meets : p[2] < q[2] \/ (p[2] = q[2] /\ p[1] <= q[1])}
  IN  IF meets # {} THEN {Conflict("write_write", first)}
      ELSE IF Replay(tt, db).ok THEN {} ELSE {Conflict("write_write", {})}

(* _rolling_write_read_dependency: run the reader on both databases and    *)
(* compare what each candidate statement reads.                            *)
WriteReadResult(ss, tt) ==
  LET onControl == OnControl(tt)
      changed   == {j \in ReadIndexes(ss, tt) :
                      /\ HasReadProbe(tt[j])
                      /\ ReadProbe(tt[j], Replay(Before(tt, j), main).db)
                         # ReadProbe(tt[j], Replay(Before(onControl, j), control).db)}
  IN  IF ~(Replay(tt, main).ok /\ Replay(onControl, control).ok)
      THEN {Conflict("write_read", {})}
      ELSE IF changed = {} THEN {} ELSE {Conflict("write_read", {<<0, j>> : j \in changed})}

CheckResult ==
  LET ss == Head0.stmts
      tt == Candidate.stmts
      static == StaticKinds(ss, tt)
      ww == IF "write_write" \in static THEN WriteWriteResult(ss, tt, main) ELSE {}
  IN  IF ww # {} THEN ww \cup {Conflict(k, {}) : k \in static \ {"write_write"}}
      ELSE IF "write_read" \in static THEN WriteReadResult(ss, tt) ELSE {}

(* conflict_resolution_key: both transactions and what is said of them.    *)
PairKey(conflicts) == <<Head0, Candidate, conflicts>>

-----------------------------------------------------------------------------
(* SAVEPOINT, RELEASE and rollback_savepoint (ROLLBACK TO, then RELEASE).  *)
Savepoint == saves' = Append(saves, [main |-> main, control |-> control])
Release == saves' = Front(saves) /\ UNCHANGED <<main, control>>
ReleasedOnly == Release   \* mutant
ControlKept ==            \* mutant
  main' = Last(saves).main /\ saves' = Front(saves) /\ UNCHANGED control
RollbackTop ==
  /\ main' = Last(saves).main
  /\ control' = Last(saves).control
  /\ saves' = Front(saves)

ForgetToZero == kinds' = {} /\ next' = 0 /\ probes' = <<>>   \* mutant
ForgetScan == kinds' = {} /\ next' = 1 /\ probes' = <<>>

ForgetOnly == ForgetScan /\ UNCHANGED dbVars   \* mutant
(* scan.close(), a no-op when no scan is open.                             *)
CloseScan ==
  /\ IF ScanOpen THEN RollbackTop ELSE UNCHANGED dbVars
  /\ ForgetScan

StopsEarly(q) ==   \* mutant
  /\ accepted' = {}
  /\ turn' = Other(turn)
  /\ pc' = IF turn = "theirs" /\ (q["ours"] = <<>> \/ q["theirs"] = <<>>)
           THEN "write" ELSE "turn"

(* The turn passes: the for loop over ("ours", "theirs") inside the while  *)
(* loop that tests both queues before each round.                          *)
PassTurn(q) ==
  /\ accepted' = {}
  /\ turn' = Other(turn)
  /\ pc' = IF turn = "theirs" /\ q["ours"] = <<>> /\ q["theirs"] = <<>>
           THEN "write" ELSE "turn"

Ask(where, conflicts) == pc' = where /\ prompt' = conflicts
BeginWalk(purpose, conflicts) ==
  /\ pc' = "advance"
  /\ walk' = [purpose |-> purpose, at |-> 1, conflicts |-> conflicts]

-----------------------------------------------------------------------------
NumberedLog(b, w) == [i \in DOMAIN w[b] |-> [branch |-> b, n |-> i, stmts |-> w[b][i]]]
StatementsOfLog(txs) == FlattenSeq([i \in DOMAIN txs |-> txs[i].stmts])

(* A branch log replays on its base: the branch ran it, and                *)
(* _resolve_branch_replay_safety has repaired it where it does not.        *)
Init ==
  /\ base \in Bases
  /\ origin \in {[b \in Branches |-> NumberedLog(b, w)] : w \in Workloads}
  /\ \A b \in Branches : Replay(StatementsOfLog(origin[b]), base).ok
  /\ queue = origin
  /\ turn = "ours"
  /\ pc = IF \A b \in Branches : origin[b] = <<>> THEN "write" ELSE "turn"
  /\ main = base /\ control = base /\ saves = <<>>
  /\ kinds = {} /\ next = 1 /\ probes = <<>>
  /\ walk = Idle /\ prompt = {} /\ accepted = {}
  /\ log = <<>> /\ merged = <<>>
  /\ edits = 0 /\ touched = FALSE /\ reviewed = {}

(* while current_queue: nothing left on this branch.                       *)
EmptyTurn ==
  /\ pc = "turn" /\ queue[turn] = <<>>
  /\ PassTurn(queue)
  /\ UNCHANGED <<fixed, queue, dbVars, scanVars, walk, prompt, log, merged, userVars>>

(* _unresolved_replay_safety_conflict: an edit left an unsafe statement.   *)
UnsafeHead ==
  /\ pc = "turn" /\ queue[turn] # <<>>
  /\ \E s \in ToSet(Head0.stmts) : ~s.safe
  /\ CloseScan
  /\ Ask("standalone", {Conflict("replay_error", {})})
  /\ UNCHANGED <<fixed, queue, turn, walk, accepted, log, merged, userVars>>

SafeHead == pc = "turn" /\ queue[turn] # <<>> /\ \A s \in ToSet(Head0.stmts) : s.safe

(* The metadata index rules out every check: the head is applied at once.  *)
ApplyUnscanned ==
  /\ SafeHead /\ ~ScanOpen
  /\ NeededKinds(Head0, OtherQueue) = {}
  /\ Savepoint /\ BeginWalk("apply", {})
  /\ UNCHANGED <<fixed, queue, turn, main, control, scanVars, prompt, accepted, log,
                 merged, userVars>>

OpenScan ==
  /\ SafeHead /\ ~ScanOpen
  /\ kinds' = NeededKinds(Head0, OtherQueue)
  /\ kinds' # {}
  /\ next' = 1 /\ probes' = <<>>
  /\ Savepoint
  /\ pc' = "start" /\ walk' = [Idle EXCEPT !.purpose = "start"]
  /\ UNCHANGED <<fixed, queue, turn, main, control, prompt, accepted, log, merged,
                 userVars>>

ResumeScan ==
  /\ SafeHead /\ ScanOpen
  /\ pc' = "scan"
  /\ UNCHANGED <<fixed, queue, turn, dbVars, scanVars, walk, prompt, accepted, log,
                 merged, userVars>>

(* _start_control_with_current_write_probes, one statement: save the rows  *)
(* it is about to write, then replay it on control only.                   *)
StartStatement ==
  /\ pc = "start" /\ walk.at <= Len(Head0.stmts)
  /\ LET s == Head0.stmts[walk.at] IN
     /\ probes' = Append(probes, AffectedRows(s, control))
     /\ \/ /\ Succeeds(ControlForm(s), control)
           /\ control' = Result(ControlForm(s), control)
           /\ walk' = [walk EXCEPT !.at = @ + 1]
           /\ UNCHANGED <<pc, prompt>>
        \/ /\ ~Succeeds(ControlForm(s), control)
           /\ walk' = Idle
           /\ Ask("standalone", {Conflict("integrity", {})})
           /\ UNCHANGED control
  /\ UNCHANGED <<fixed, queue, turn, main, saves, kinds, next, accepted, log, merged,
                 userVars>>

Started ==
  /\ pc = "start" /\ walk.at > Len(Head0.stmts)
  /\ pc' = "scan" /\ walk' = Idle
  /\ UNCHANGED <<fixed, queue, turn, dbVars, scanVars, prompt, accepted, log, merged,
                 userVars>>

AskAlways(conflicts) ==   \* mutant
  Ask("pair", conflicts) /\ UNCHANGED <<dbVars, walk>>

(* A conflict at the scan position: a pair the user has already accepted   *)
(* in this turn is passed with accept_next, any other is shown.            *)
Meet(conflicts) ==
  \/ /\ PairKey(conflicts) \in accepted
     /\ Savepoint /\ BeginWalk("accept", conflicts)
     /\ UNCHANGED <<main, control, prompt>>
  \/ /\ PairKey(conflicts) \notin accepted
     /\ Ask("pair", conflicts)
     /\ UNCHANGED <<dbVars, walk>>

ScanCheck ==
  /\ pc = "scan" /\ next <= Len(OtherQueue)
  /\ LET found == CheckResult IN
     \/ found # {} /\ Meet(found)
     \/ /\ found = {}
        /\ Savepoint /\ BeginWalk("check", {})
        /\ UNCHANGED <<main, control, prompt>>
  /\ UNCHANGED <<fixed, queue, turn, scanVars, accepted, log, merged, userVars>>

ScanLeftOpen ==   \* mutant
  /\ pc = "scan" /\ next > Len(OtherQueue)
  /\ ForgetScan
  /\ saves' = Append(Front(saves), [main |-> main, control |-> control])
  /\ BeginWalk("apply", {})
  /\ UNCHANGED <<fixed, queue, turn, main, control, prompt, accepted, log, merged, userVars>>

(* next_conflict is None: close the scan, then apply_accepted_transaction. *)
ScanExhausted ==
  /\ pc = "scan" /\ next > Len(OtherQueue)
  /\ ForgetScan
  /\ main' = Last(saves).main /\ control' = Last(saves).control
  /\ saves' = Append(Front(saves), [main |-> main', control |-> control'])
  /\ BeginWalk("apply", {})
  /\ UNCHANGED <<fixed, queue, turn, prompt, accepted, log, merged, userVars>>

-----------------------------------------------------------------------------
(* _advance_transaction_on_main_and_control, one statement at a time.      *)
Walked == IF walk.purpose = "apply" THEN Head0 ELSE Candidate

StrictOnMain(s) ==   \* mutant
  /\ walk.purpose = "check" /\ "integrity" \in kinds
  /\ HasReviewableResolution(s)
  /\ ~Succeeds(StrictForm(s), main)

(* _strict_constraint_resolution_failure: without its conflict-resolution  *)
(* syntax the statement fails after the current transaction, not before.   *)
StrictFailure(s) ==
  /\ walk.purpose = "check" /\ "integrity" \in kinds
  /\ HasReviewableResolution(s)
  /\ ~Succeeds(StrictForm(s), control)
  /\ Succeeds(StrictForm(s), main)

AdvanceStatement ==
  /\ pc = "advance" /\ walk.at <= Len(Walked.stmts)
  /\ LET s == Walked.stmts[walk.at] IN
     /\ Succeeds(ControlForm(s), control) /\ Succeeds(s, main)
     /\ ~StrictFailure(s)
     /\ control' = Result(ControlForm(s), control)
     /\ main' = Result(s, main)
  /\ walk' = [walk EXCEPT !.at = @ + 1]
  /\ UNCHANGED <<fixed, queue, turn, pc, saves, scanVars, prompt, accepted, log, merged,
                 userVars>>

(* A statement fails on control or on main: everything since the savepoint *)
(* is undone, and what happens next depends on who asked.                  *)
AdvanceFails ==
  /\ pc = "advance" /\ walk.at <= Len(Walked.stmts)
  /\ LET s      == Walked.stmts[walk.at]
         strict == Succeeds(ControlForm(s), control) /\ Succeeds(s, main)
         found  == {Conflict(IF strict THEN "constraint_resolution" ELSE "integrity", {})}
     IN
     /\ ~strict \/ StrictFailure(s)
     /\ \/ /\ walk.purpose = "check" /\ PairKey(found) \in accepted
           /\ main' = Last(saves).main /\ control' = Last(saves).control
           /\ UNCHANGED <<saves, prompt>>
           /\ BeginWalk("accept", found)
        \/ /\ walk.purpose = "check" /\ PairKey(found) \notin accepted
           /\ RollbackTop /\ walk' = Idle /\ Ask("pair", found)
        \/ /\ walk.purpose = "accept"
           /\ RollbackTop /\ walk' = Idle /\ Ask("pair", walk.conflicts \cup found)
        \/ /\ walk.purpose = "apply"
           /\ RollbackTop /\ walk' = Idle /\ Ask("standalone", found)
  /\ UNCHANGED <<fixed, queue, turn, scanVars, accepted, log, merged, userVars>>

StuckScan ==   \* mutant
  /\ pc = "advance" /\ walk.purpose # "apply" /\ walk.at > Len(Walked.stmts)
  /\ Release
  /\ pc' = "scan" /\ walk' = Idle
  /\ UNCHANGED <<fixed, queue, turn, scanVars, prompt, accepted, log, merged, userVars>>

(* The opposite transaction went through: the scan moves past it.          *)
AdvanceScan ==
  /\ pc = "advance" /\ walk.purpose # "apply" /\ walk.at > Len(Walked.stmts)
  /\ Release
  /\ next' = next + 1
  /\ pc' = "scan" /\ walk' = Idle
  /\ UNCHANGED <<fixed, queue, turn, kinds, probes, prompt, accepted, log, merged,
                 userVars>>

(* The head went through: record it in the log, drop it from its queue and *)
(* return from _check_accept_current.                                      *)
AcceptHead ==
  /\ pc = "advance" /\ walk.purpose = "apply" /\ walk.at > Len(Walked.stmts)
  /\ Release
  /\ log' = Append(log, Head0)
  /\ queue' = [queue EXCEPT ![turn] = Tail(@)]
  /\ walk' = Idle
  /\ PassTurn(queue')
  /\ UNCHANGED <<fixed, scanVars, prompt, merged, userVars>>

-----------------------------------------------------------------------------
(* The user.  Deleting a transaction is always possible; typing new SQL    *)
(* for one is bounded by MaxEdits.                                         *)
Deleted == <<>>
Replacements(t) == {t.stmts, Deleted} \cup Edits
Typed(t, new) == new # t.stmts /\ new # Deleted

PutLast(txs, i, new) ==   \* mutant
  IF new = Deleted THEN RemoveAt(txs, i)
  ELSE Append(RemoveAt(txs, i), [txs[i] EXCEPT !.stmts = new])
PutAt(txs, i, new) ==
  IF new = Deleted THEN RemoveAt(txs, i) ELSE [txs EXCEPT ![i].stmts = new]

Reviewable(conflicts) == \A c \in conflicts : c.kind \in ReviewableKinds

(* Enter on a reviewable pair conflict: remember the key, then accept_next.*)
AcceptPair ==
  /\ pc = "pair" /\ Reviewable(prompt)
  /\ accepted' = accepted \cup {PairKey(prompt)}
  /\ reviewed' = reviewed \cup
       {[first |-> <<turn, Head0.n>>, second |-> <<Other(turn), Candidate.n>>, kind |-> c.kind]
          : c \in prompt}
  /\ prompt' = {}
  /\ Savepoint /\ BeginWalk("accept", prompt)
  /\ UNCHANGED <<fixed, queue, turn, main, control, scanVars, log, merged, edits, touched>>

(* Enter after edit, insert or delete commands, or DELETE: _resolve_       *)
(* remaining_pair_conflict puts the results into the queues.               *)
ResolvePair ==
  /\ pc = "pair"
  /\ \E cur \in Replacements(Head0), oth \in Replacements(Candidate) :
     /\ cur # Head0.stmts \/ oth # Candidate.stmts
     /\ edits' = edits + (IF Typed(Head0, cur) THEN 1 ELSE 0)
                       + (IF Typed(Candidate, oth) THEN 1 ELSE 0)
     /\ edits' <= MaxEdits
     /\ queue' = [queue EXCEPT ![turn] = IF cur = Head0.stmts THEN @ ELSE PutAt(@, 1, cur),
                               ![Other(turn)] = IF oth = Candidate.stmts THEN @
                                                ELSE PutAt(@, next, oth)]
     /\ \/ /\ cur = Deleted
           /\ CloseScan /\ PassTurn(queue')
        \/ /\ Typed(Head0, cur)
           /\ CloseScan /\ pc' = "turn" /\ UNCHANGED <<turn, accepted>>
        \/ /\ cur = Head0.stmts
           /\ kinds' = kinds \cup (IF Typed(Candidate, oth)
                                   THEN NeededKinds(Head0, queue'[Other(turn)]) ELSE {})
           /\ pc' = "turn" /\ UNCHANGED <<turn, accepted, dbVars, next, probes>>
  /\ prompt' = {} /\ touched' = TRUE
  /\ UNCHANGED <<fixed, walk, log, merged, reviewed>>

(* _resolve_standalone_replay, then scan.close() where a scan is open.     *)
ResolveStandalone ==
  /\ pc = "standalone"
  /\ \E new \in Replacements(Head0) \ {Head0.stmts} :
     /\ edits' = edits + (IF Typed(Head0, new) THEN 1 ELSE 0)
     /\ edits' <= MaxEdits
     /\ queue' = [queue EXCEPT ![turn] = PutAt(@, 1, new)]
     /\ \/ new = Deleted /\ PassTurn(queue')
        \/ new # Deleted /\ pc' = "turn" /\ UNCHANGED <<turn, accepted>>
  /\ CloseScan
  /\ prompt' = {} /\ touched' = TRUE
  /\ UNCHANGED <<fixed, walk, log, merged, reviewed>>

(* Ctrl-C or end of input at a prompt ends the program.                    *)
Interrupt ==
  /\ pc \in {"pair", "standalone"}
  /\ pc' = "aborted"
  /\ UNCHANGED <<fixed, queue, turn, dbVars, scanVars, walk, prompt, accepted, log, merged,
                 userVars>>

(* _write_working_result: the backup either completes or leaves the file.  *)
WriteResult ==
  /\ pc = "write"
  /\ \/ pc' = "done" /\ merged' = <<[db |-> main, log |-> log]>>
     \/ pc' = "failed" /\ UNCHANGED merged
  /\ UNCHANGED <<fixed, queue, turn, dbVars, scanVars, walk, prompt, accepted, log, userVars>>

Program == \/ EmptyTurn \/ UnsafeHead \/ ApplyUnscanned \/ OpenScan \/ ResumeScan
           \/ StartStatement \/ Started \/ ScanCheck \/ ScanExhausted
           \/ AdvanceStatement \/ AdvanceFails \/ AdvanceScan \/ AcceptHead
           \/ WriteResult
User == AcceptPair \/ ResolvePair \/ ResolveStandalone \/ Interrupt

(* The process has exited. *)
Exited == pc \in {"done", "failed", "aborted"} /\ UNCHANGED vars

Next == Program \/ User \/ Exited
Spec == Init /\ [][Next]_vars

(* The program runs, and the user eventually answers a prompt.             *)
FairSpec == Spec /\ WF_vars(Program) /\ WF_vars(User)
=============================================================================
