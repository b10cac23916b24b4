---------------------------- MODULE MergeHistory ----------------------------
(***************************************************************************)
(* A logged database under version control: branches commit transactions,  *)
(* catch up and merge, and each merge is the base of later ones.           *)
(*                                                                         *)
(* A version is what Git keeps of the file: its log, the transactions the  *)
(* wrapper and the mergetool recorded, in the order of their ids.  The log *)
(* of a merge is the base's, followed by the transactions that             *)
(* load_merge_inputs reads from the two sides (those with an id above the  *)
(* base's largest), in the fixed replay order.  Git, external, chooses the *)
(* base: the best common ancestor, which is unique in the histories here.  *)
(***************************************************************************)
EXTENDS Naturals, Sequences, FiniteSets, SequencesExt

CONSTANTS
    Lines,        \* the branches people work on
    MaxCommits,   \* bound on transactions committed
    MaxMerges     \* bound on merges with the mergetool

VARIABLES
    versions,     \* sequence of [log, parents]; version 1 is the root
    head,         \* the version each branch is at
    merges        \* number of merges so far

historyVars == <<versions, head, merges>>

Log(v) == versions[v].log

(* A version comes after its parents, so the ancestors, the version itself *)
(* included, need no more than one pass down the sequence.                 *)
Ancestors(v) ==
    LET upTo[n \in 0..Len(versions)] ==
          IF n = 0 THEN {v}
          ELSE LET found == upTo[n - 1]
                   m == Len(versions) + 1 - n
               IN IF m \in found THEN found \cup versions[m].parents ELSE found
    IN upTo[Len(versions)]

MergeBases(v, w) ==
    LET common == Ancestors(v) \cap Ancestors(w)
    IN {b \in common : \A c \in common \ {b} : b \notin Ancestors(c)}

Diverged(v, w) == v \notin Ancestors(w) /\ w \notin Ancestors(v)

Transactions == UNION {ToSet(Log(v)) : v \in DOMAIN versions}

-----------------------------------------------------------------------------
(* The largest id in the base: ids are given out one by one from 1.        *)
Watermark(base) == Len(Log(base))

LoadLoggedTransactions(v, since) == SubSeq(Log(v), since + 1, Len(Log(v)))

(* Local X1, remote Y1, local X2, and so on, until both queues are empty.  *)
ReplayOrder(ours, theirs) ==
    LET take[i \in 0..(Len(ours) + Len(theirs))] ==
          IF i = 0 THEN <<>>
          ELSE take[i - 1] \o (IF i <= Len(ours) THEN <<ours[i]>> ELSE <<>>)
                           \o (IF i <= Len(theirs) THEN <<theirs[i]>> ELSE <<>>)
    IN take[Len(ours) + Len(theirs)]

MergedLog(base, ours, theirs) ==
    Log(base) \o ReplayOrder(LoadLoggedTransactions(ours, Watermark(base)),
                             LoadLoggedTransactions(theirs, Watermark(base)))

-----------------------------------------------------------------------------
Init ==
    /\ versions = <<[log |-> <<>>, parents |-> {}]>>
    /\ head = [l \in Lines |-> 1]
    /\ merges = 0

(* Add a version on top of a branch.                                       *)
Record(l, log, parents) ==
    /\ versions' = Append(versions, [log |-> log, parents |-> parents])
    /\ head' = [head EXCEPT ![l] = Len(versions) + 1]

(* One transaction through the wrapper, and git commit.                    *)
CommitTransaction(l) ==
    /\ Cardinality(Transactions) < MaxCommits
    /\ Record(l, Append(Log(head[l]), Cardinality(Transactions) + 1), {head[l]})
    /\ UNCHANGED merges

(* git merge --ff of a branch that is behind: the mergetool is not run.    *)
FastForward(l, m) ==
    /\ head[l] # head[m] /\ head[l] \in Ancestors(head[m])
    /\ head' = [head EXCEPT ![l] = head[m]]
    /\ UNCHANGED <<versions, merges>>

(* git merge, then the mergetool on the base's, the local and the remote   *)
(* file.  Nobody edits or deletes a transaction while it runs.             *)
MergeBranch(l, m) ==
    /\ merges < MaxMerges
    /\ Diverged(head[l], head[m])
    /\ \E base \in MergeBases(head[l], head[m]) :
          /\ MergeBases(head[l], head[m]) = {base}
          /\ Record(l, MergedLog(base, head[l], head[m]), {head[l], head[m]})
    /\ merges' = merges + 1

Next == \E l, m \in Lines : \/ CommitTransaction(l)
                            \/ FastForward(l, m)
                            \/ MergeBranch(l, m)

Spec == Init /\ [][Next]_historyVars

-----------------------------------------------------------------------------
(* A version holds the transactions of all its ancestors, each once: none  *)
(* is lost in a merge and none is replayed on a state that had it.         *)
HistoryKept ==
    \A v \in DOMAIN versions :
        /\ IsInjective(Log(v))
        /\ \A p \in versions[v].parents : ToSet(Log(p)) \subseteq ToSet(Log(v))
=============================================================================
