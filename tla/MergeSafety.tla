----------------------------- MODULE MergeSafety -----------------------------
(* What the merge loop must guarantee; see MergeLoop for the program.      *)
EXTENDS MergeLoop

Saves == [main : Databases, control : Databases]
Logs == Seq(Transactions)
Walks == [purpose : {"none", "start", "check", "accept", "apply"}, at : Nat \ {0},
          conflicts : SUBSET Conflicts]
Reviews == [first : Branches \X Nat, second : Branches \X Nat, kind : Kinds]

(* Types of all variables.                                                 *)
LogTypes == /\ base \in Databases
            /\ origin \in [Branches -> Logs] /\ queue \in [Branches -> Logs]
            /\ log \in Logs /\ merged \in Seq([db : Databases, log : Logs])
DbTypes == main \in Databases /\ control \in Databases /\ saves \in Seq(Saves)
ScanTypes == kinds \subseteq Kinds /\ next \in Nat \ {0} /\ probes \in Seq(SUBSET Rows)
TurnTypes == /\ turn \in Branches /\ pc \in PCs /\ walk \in Walks
             /\ prompt \subseteq Conflicts
             /\ accepted \subseteq Transactions \X Transactions \X SUBSET Conflicts
UserTypes == edits \in Nat /\ touched \in BOOLEAN /\ reviewed \subseteq Reviews
TypeOK == LogTypes /\ DbTypes /\ ScanTypes /\ TurnTypes /\ UserTypes

-----------------------------------------------------------------------------
(* Between scans and replays the two databases hold the same rows and no   *)
(* savepoint is left open, so every head is checked from one common prefix *)
(* (accepted_replay.py advances both, conflict_detection closes every scan *)
(* it opened, on each of the ways out of _check_accept_current).           *)
ControlMatchesMain ==
  pc \in {"turn", "standalone", "write", "done", "failed", "aborted"} /\ ~ScanOpen
    => main = control /\ saves = <<>>

(* The working database is what replaying the accepted log on the base     *)
(* gives; during a scan, main is that plus the opposite transactions       *)
(* already passed, and control is the same with the current head first.    *)
ScanStates ==
  LET prefix == StatementsOfLog(log)
      passed == StatementsOfLog(SubSeq(OtherQueue, 1, next - 1))
      Reached(db, ss) == Replay(ss, base) = Ok(db)
  IN  /\ pc \in {"scan", "pair"} =>
           /\ Reached(main, prefix \o passed)
           /\ Reached(control, prefix \o OnControl(Head0.stmts \o passed))
      /\ pc = "turn" /\ ~ScanOpen => Reached(main, prefix)

(* Nothing is lost: when the program finishes and the user deleted or      *)
(* edited nothing, the log holds every transaction of both branches, in    *)
(* the fixed order X1, Y1, X2, Y2, ... (README "How the Merge Works").     *)
Min2(a, b) == IF a < b THEN a ELSE b
FixedOrder ==
  LET x == origin["ours"]  y == origin["theirs"]
      m == Min2(Len(x), Len(y))
      zipped == [i \in 1..2 * m |-> IF i % 2 = 1 THEN x[(i + 1) \div 2] ELSE y[i \div 2]]
  IN  zipped \o SubSeq(x, m + 1, Len(x)) \o SubSeq(y, m + 1, Len(y))

FixedReplayOrder ==
  ~touched => /\ log = SubSeq(FixedOrder, 1, Len(log))
              /\ pc \in {"write", "done"} => log = FixedOrder

(* Edits and deletions never reorder a branch and never replay one of its  *)
(* transactions twice: per branch the log, and after it the queue, follow  *)
(* the branch's own order strictly.                                        *)
BranchOrderKept ==
  \A b \in Branches :
    LET done == {i \in DOMAIN log : log[i].branch = b}
        left == DOMAIN queue[b]
    IN  /\ \A i, j \in done : i < j => log[i].n < log[j].n
        /\ \A i, j \in left : i < j => queue[b][i].n < queue[b][j].n
        /\ \A i \in done, j \in left : log[i].n < queue[b][j].n

-----------------------------------------------------------------------------
(* What an UPDATE or DELETE does when replayed from db: the rows it meets   *)
(* and what it leaves in each.  A statement's own reads show only there.   *)
BranchState(b, n) == Replay(StatementsOfLog(SubSeq(origin[b], 1, n - 1)), base).db
MergedState(i) == Replay(StatementsOfLog(SubSeq(log, 1, i - 1)), base).db
Met(s, db) == {r \in Targets(s) : Present(db, r) /\ ~IsInsert(s)}
Left(s, db, r) == IF s.op = "move" THEN s.src ELSE Result(s, db)[r]
Effect(s, db) == {<<r, Left(s, db, r)>> : r \in Met(s, db)}
Effects(t, db) == [j \in DOMAIN t.stmts |-> Effect(t.stmts[j], Replay(Before(t.stmts, j), db).db)]
MetBy(t, j, db) == Met(t.stmts[j], Replay(Before(t.stmts, j), db).db)

(* A conflict accepted on t or on an earlier transaction of its branch.    *)
ReviewedUpTo(t) == {r \in reviewed : r.second[1] = t.branch /\ r.second[2] <= t.n}

(* The point of the whole check: every UPDATE and DELETE of the merged log *)
(* meets the rows it met on its own branch and writes there what it wrote  *)
(* there, unless the user was shown a conflict on its transaction, or on   *)
(* an earlier one of that branch, and accepted it.  Per pair the code only *)
(* compares two neighbouring prefixes (_rolling_write_read_dependency);    *)
(* the property is that these comparisons add up.                          *)
EffectsKept ==
  ~touched =>
    \A i \in DOMAIN log :
      \/ Effects(log[i], MergedState(i)) = Effects(log[i], BranchState(log[i].branch, log[i].n))
      \/ ReviewedUpTo(log[i]) # {}

(* No lost update: two branches never update or delete the same row of the *)
(* merged history, the static rule for rows and columns applying, without  *)
(* an accepted conflict on the pair or a read conflict accepted before it. *)
NoSilentOverwrite ==
  ~touched =>
    \A i, k \in DOMAIN log :
      i < k /\ log[i].branch # log[k].branch =>
        \A p \in WriteWritePairs(log[i].stmts, log[k].stmts) :
          \/ MetBy(log[i], p[1], MergedState(i)) \cap MetBy(log[k], p[2], MergedState(k)) = {}
          \/ ReviewedUpTo(log[k]) # {}

(* An INSERT OR IGNORE or OR REPLACE that inserted on its branch still     *)
(* inserts in the merge, unless a conflict on it was accepted: the silent  *)
(* branch of the statement is never taken unseen.                          *)
Hidden(t, j, db) == /\ t.stmts[j].op \in {"ignore", "replace", "upsert"}
                    /\ ~Succeeds(StrictForm(t.stmts[j]), Replay(Before(t.stmts, j), db).db)
ResolutionNotActivated ==
  ~touched =>
    \A i \in DOMAIN log : \A j \in DOMAIN log[i].stmts :
      Hidden(log[i], j, MergedState(i)) =>
        \/ Hidden(log[i], j, BranchState(log[i].branch, log[i].n))
        \/ ReviewedUpTo(log[i]) # {}

-----------------------------------------------------------------------------
(* The refinement.  What has been merged so far is what the bottom of the  *)
(* savepoint stack would restore: a scan and a replay in progress are not  *)
(* part of it yet.                                                         *)
MergedSoFar == IF saves = <<>> THEN main ELSE saves[1].main
Atomic == INSTANCE AtomicMerge WITH
  waiting <- queue, db <- MergedSoFar, taken <- log, published <- merged

(* However a scan, a replay, an error half-way or a prompt interleave, the *)
(* tool behaves as a merge that takes whole transactions in turn, or drops *)
(* them, and publishes their replay once: no partial effect of a statement *)
(* list, a probe or a scan ever reaches the merged database                *)
(* (apply_accepted_transaction, rollback_savepoint, scan.close).           *)
IsAtomicMerge == Atomic!Spec

-----------------------------------------------------------------------------
(* A pair conflict the user accepted in this turn is not put to her again  *)
(* (conflict_detection.py: "advance the scanner instead of prompting       *)
(* forever").                                                              *)
NotAskedTwice ==
  [][pc # "pair" /\ pc' = "pair" => PairKey(prompt)' \notin accepted']_vars

(* The merge ends: there is no cycle of prompts, restarts and accepted     *)
(* conflicts, whatever the user answers (she types finitely many edits).   *)
Terminates == <>(pc \in {"done", "failed", "aborted"})
=============================================================================
