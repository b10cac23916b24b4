------------------------------- MODULE MCMerge -------------------------------
(* Workloads for model checking MergeLoop.                                 *)
EXTENDS MergeSafety

CONSTANTS r1, r2, va, vb,
          MCFamilies   \* sets of branch logs: their statement forms, and the
                       \* shapes of the pairs of logs

Stmt(op, r, v, src, safe) == [op |-> op, row |-> r, val |-> v, src |-> src, safe |-> safe]

(* Each branch writes a value of its own, so a lost update shows.          *)
BranchVal(b) == IF b = "ours" THEN va ELSE vb
TwoRowOps == {"copy", "move"}
Alphabet(b, ops) ==
  {Stmt(op, r, BranchVal(b), r, TRUE) : op \in ops \ TwoRowOps, r \in Rows}
    \cup {Stmt(op, r, BranchVal(b), src, TRUE) :
            op \in ops \cap TwoRowOps, r \in Rows, src \in Rows}
Usable(b, ops) ==
  {s \in Alphabet(b, ops) : /\ s.op \in TwoRowOps => s.src # s.row
                            /\ s.op \in WholeTableOps => s.row = r1}

(* The shape of a branch log: how many statements each transaction has.    *)
LogsOf(b, ops, shape) ==
  {l \in [DOMAIN shape -> UNION {[1..n -> Usable(b, ops)] : n \in ToSet(shape)}] :
     \A i \in DOMAIN shape : Len(l[i]) = shape[i]}
MCWorkloads ==
  {[b \in Branches |-> IF b = "ours" THEN p[1] ELSE p[2]] :
     p \in UNION {UNION {LogsOf("ours", f.ops, sh[1]) \X LogsOf("theirs", f.ops, sh[2]) :
                           sh \in f.shapes} : f \in MCFamilies}}

(* Transactions of one statement; transactions of two, where a later       *)
(* statement's rows depend on an earlier one; statements without WHERE,    *)
(* for a user who edits; and a branch with nothing to say.                 *)
MCReviewed ==
  {[ops |-> {"insert", "ignore", "upsert", "update", "copy", "move", "delete"},
    shapes |-> {<<<<1, 1>>, <<1, 1>>>>, <<<<1>>, <<1, 1, 1>>>>, <<<<>>, <<1, 1>>>>}],
   [ops |-> {"insert", "upsert", "replace", "update", "copy", "move", "delete"},
    shapes |-> {<<<<2>>, <<1>>>>, <<<<1>>, <<2>>>>, <<<<2>>, <<2>>>>}]}
MCEdited ==
  {[ops |-> {"insert", "upsert", "update", "all", "wipe"},
    shapes |-> {<<<<1>>, <<1, 1>>>>, <<<<1, 1>>, <<1>>>>}]}
MCUnfiltered == {[ops |-> {"insert", "all"}, shapes |-> {<<<<1>>, <<1>>>>}]}

(* One row present and one absent: every statement form can hit and miss.  *)
MCBases == {[r \in Rows |-> IF r = r1 THEN Null ELSE NoRow]}

(* What the user may type: a harmless update, one that clashes with an     *)
(* insert, and one the tool cannot replay automatically.                   *)
MCNoEdits == {}
MCEdits == {<<Stmt("update", r1, va, r1, TRUE)>>,
            <<Stmt("insert", r2, va, r2, TRUE)>>,
            <<Stmt("update", r2, vb, r2, FALSE)>>}
=============================================================================
