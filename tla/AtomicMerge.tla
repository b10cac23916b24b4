----------------------------- MODULE AtomicMerge -----------------------------
(***************************************************************************)
(* What a merge promises to the user of Git, without scans, savepoints or  *)
(* a control database: the branches take turns; a turn replays the whole   *)
(* first transaction of its branch or nothing; the user may rewrite or     *)
(* drop what is still waiting but never reorder it; and one file is        *)
(* published at the end, the replay of everything that was taken.          *)
(* MergeLoop implements this module (MergeSafety, IsAtomicMerge).          *)
(***************************************************************************)
EXTENDS ReplaySql

VARIABLES
  base,      \* the merge base
  waiting,   \* per branch, the transactions not taken yet
  turn,      \* the branch whose turn it is
  db,        \* the merged database so far
  taken,     \* the transactions replayed on it, in order
  published  \* the file handed to Git: <<>> or one record

mergeVars == <<base, waiting, turn, db, taken, published>>

Sides == {"ours", "theirs"}
Opposite(b) == IF b = "ours" THEN "theirs" ELSE "ours"
Queued == [branch : Sides, n : Nat, stmts : Seq(Statements)]

Init ==
  /\ base \in Databases /\ db = base
  /\ waiting \in [Sides -> Seq(Queued)]
  /\ turn = "ours" /\ taken = <<>> /\ published = <<>>

(* The head of the branch is replayed, all of it and without error.        *)
Take ==
  /\ waiting[turn] # <<>>
  /\ LET run == Replay(Head(waiting[turn]).stmts, db) IN run.ok /\ db' = run.db
  /\ taken' = Append(taken, Head(waiting[turn]))
  /\ waiting' = [waiting EXCEPT ![turn] = Tail(@)]
  /\ turn' = Opposite(turn)
  /\ UNCHANGED <<base, published>>

Pass ==
  /\ waiting[turn] = <<>>
  /\ turn' = Opposite(turn)
  /\ UNCHANGED <<base, waiting, db, taken, published>>

(* q is p with some transactions dropped and others rewritten in place.    *)
Revises(q, p) ==
  \E at \in [DOMAIN q -> DOMAIN p] :
    /\ \A i, j \in DOMAIN q : i < j => at[i] < at[j]
    /\ \A i \in DOMAIN q : q[i].branch = p[at[i]].branch /\ q[i].n = p[at[i]].n

(* The user revises the head and at most one transaction of the other      *)
(* branch; dropping the head ends the turn.                                *)
Revise ==
  /\ \A b \in Sides : Revises(waiting'[b], waiting[b])
  /\ \A b \in Sides : Len(waiting'[b]) >= Len(waiting[b]) - 1
  /\ \/ Len(waiting'[turn]) = Len(waiting[turn]) /\ turn' = turn
     \/ waiting'[turn] = Tail(waiting[turn]) /\ turn' = Opposite(turn)
  /\ UNCHANGED <<base, db, taken, published>>

Publish ==
  /\ published = <<>> /\ \A b \in Sides : waiting[b] = <<>>
  /\ published' = <<[db |-> db, log |-> taken]>>
  /\ UNCHANGED <<base, waiting, turn, db, taken>>

Next == Take \/ Pass \/ Revise \/ Publish
Spec == Init /\ [][Next]_mergeVars
=============================================================================
