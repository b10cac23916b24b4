---------------------------- MODULE ReplayProofs -----------------------------
(***************************************************************************)
(* What the replay of a sequence of statements computes, for sequences of  *)
(* any length.  Replay is a recursive function: a theorem about it is an   *)
(* induction over its argument (NumberInduction).                          *)
(***************************************************************************)
EXTENDS ReplaySql, SequenceTheorems, NumberInduction, TLAPS

-----------------------------------------------------------------------------
(* A replayed statement leaves a database.                                 *)
LEMMA ResultType ==
  ASSUME NEW s \in Statements, NEW db \in Databases
  PROVE  Result(s, db) \in Databases
<1>1. Selected(s, db) \in Values \cup {NoRow}
  BY DEF Selected, Databases, Statements, Values
<1>2. s.val \in Values \cup {NoRow} /\ s.row \in Rows
  BY DEF Statements, Values
<1> QED
  BY <1>1, <1>2 DEF Result, Databases

(* The control form of a statement is a statement too.                     *)
LEMMA ControlFormType ==
  ASSUME NEW s \in Statements
  PROVE  ControlForm(s) \in Statements
BY DEF ControlForm, Statements, Ops, InsertOps

(* Where the form sent to the control copy succeeds, the original succeeds *)
(* as well and does the same: replaying an UPSERT as a strict INSERT can   *)
(* raise a false alarm but never lets the two databases drift apart.       *)
LEMMA ControlFormAgrees ==
  ASSUME NEW s \in Statements, NEW db \in Databases, Succeeds(ControlForm(s), db)
  PROVE  Succeeds(s, db) /\ Result(ControlForm(s), db) = Result(s, db)
<1>1. CASE s.op = "upsert"
  <2>1. ControlForm(s) = [s EXCEPT !.op = "insert"]
    BY <1>1 DEF ControlForm
  <2>2. /\ ControlForm(s).op = "insert"
        /\ ControlForm(s).row = s.row /\ ControlForm(s).val = s.val
    BY <2>1 DEF Statements
  <2> QED
    BY <1>1, <2>2 DEF Result, Succeeds
<1>2. CASE s.op # "upsert"
  BY <1>2 DEF ControlForm
<1> QED
  BY <1>1, <1>2

-----------------------------------------------------------------------------
(* The states a replay of the first n statements goes through.             *)
Run(run, ss, db, n) ==
  run = [i \in 0..n |-> IF i = 0 THEN Ok(db) ELSE Continue(run[i - 1], ss[i])]

(* Such a function exists for every n.                                     *)
LEMMA RunExists ==
  ASSUME NEW ss, NEW db, NEW n \in Nat
  PROVE  \E run : Run(run, ss, db, n)
<1> DEFINE H == {k \in 0..n : \E run : Run(run, ss, db, k)}
<1>1. 0 \in H
  <2>1. Run([i \in 0..0 |-> Ok(db)], ss, db, 0)
    BY DEF Run
  <2> QED
    BY <2>1
<1>2. ASSUME NEW k \in 0..n, k < n, k \in H PROVE k + 1 \in H
  <2>1. PICK run : Run(run, ss, db, k)
    BY <1>2
  <2> DEFINE more == [i \in 0..(k + 1) |-> IF i = k + 1 THEN Continue(run[k], ss[i])
                                           ELSE run[i]]
  <2>2. Run(more, ss, db, k + 1)
    BY <2>1 DEF Run
  <2>3. k + 1 \in 0..n
    BY <1>2
  <2> QED
    BY <2>2, <2>3
<1> HIDE DEF H
<1>3. n \in H
  BY <1>1, <1>2, Induction
<1> QED
  BY <1>3 DEF H

(* Two of them agree as far as both go, and on sequences that agree there. *)
LEMMA RunUnique ==
  ASSUME NEW ss, NEW tt, NEW db, NEW m \in Nat, NEW n \in Nat, m <= n,
         \A i \in 1..m : ss[i] = tt[i],
         NEW run, Run(run, ss, db, m), NEW rum, Run(rum, tt, db, n)
  PROVE  run[m] = rum[m]
<1> DEFINE H == {i \in 0..m : run[i] = rum[i]}
<1>1. 0 \in H
  BY DEF Run
<1>2. ASSUME NEW i \in 0..m, i < m, i \in H PROVE i + 1 \in H
  <2>1. i + 1 \in 1..m /\ i + 1 \in 0..n /\ i + 1 # 0 /\ (i + 1) - 1 = i
    BY <1>2
  <2>2. run[i + 1] = Continue(run[i], ss[i + 1])
    BY <2>1 DEF Run
  <2>3. rum[i + 1] = Continue(rum[i], tt[i + 1])
    BY <2>1 DEF Run
  <2> QED
    BY <1>2, <2>1, <2>2, <2>3
<1> HIDE DEF H
<1>3. m \in H
  BY <1>1, <1>2, Induction
<1> QED
  BY <1>3 DEF H

(* Replay is the last state of its run.                                    *)
LEMMA ReplayRun ==
  ASSUME NEW ss, NEW db, Len(ss) \in Nat,
         NEW run, Run(run, ss, db, Len(ss))
  PROVE  Replay(ss, db) = run[Len(ss)]
<1> DEFINE n == Len(ss)
           it == CHOOSE f : Run(f, ss, db, n)
<1>1. Run(it, ss, db, n)
  BY Zenon
<1>2. Replay(ss, db) = it[n]
  BY DEF Replay, Run
<1> QED
  BY <1>1, <1>2, RunUnique

(* Nothing to replay.                                                      *)
LEMMA ReplayEmpty ==
  ASSUME NEW db
  PROVE  Replay(<<>>, db) = Ok(db)
<1>1. PICK run : Run(run, <<>>, db, 0)
  BY RunExists
<1>2. run[0] = Ok(db)
  BY <1>1 DEF Run
<1> QED
  BY <1>1, <1>2, ReplayRun

(* One statement more.                                                     *)
LEMMA ReplayAppend ==
  ASSUME NEW S, NEW ss \in Seq(S), NEW s \in S, NEW db
  PROVE  Replay(Append(ss, s), db) = Continue(Replay(ss, db), s)
<1> DEFINE n == Len(ss)
           tt == Append(ss, s)
<1>1. /\ n \in Nat /\ Len(tt) = n + 1 /\ tt[n + 1] = s
      /\ \A i \in 1..n : tt[i] = ss[i]
  BY AppendProperties, LenProperties
<1> HIDE DEF n, tt
<1>2. PICK short : Run(short, ss, db, n)
  BY <1>1, RunExists
<1>3. PICK long : Run(long, tt, db, n + 1)
  <2>1. n + 1 \in Nat
    BY <1>1
  <2> QED
    BY <2>1, RunExists
<1>4. short[n] = long[n]
  BY <1>1, <1>2, <1>3, RunUnique
<1>5. long[n + 1] = Continue(long[n], tt[n + 1])
  BY <1>1, <1>3 DEF Run
<1>6. Replay(ss, db) = short[n]
  BY <1>1, <1>2, ReplayRun DEF n
<1>7. Replay(tt, db) = long[n + 1]
  BY <1>1, <1>3, ReplayRun
<1> QED
  BY <1>1, <1>4, <1>5, <1>6, <1>7 DEF tt

(* The same along a sequence: the first i statements.                      *)
LEMMA ReplayNext ==
  ASSUME NEW S, NEW ss \in Seq(S), NEW i \in 1..Len(ss), NEW db
  PROVE  /\ Replay(SubSeq(ss, 1, i), db) = Continue(Replay(SubSeq(ss, 1, i - 1), db), ss[i])
         /\ SubSeq(ss, 1, i) = Append(SubSeq(ss, 1, i - 1), ss[i])
<1>1. SubSeq(ss, 1, i - 1) \in Seq(S) /\ ss[i] \in S
  BY ElementOfSeq
<1>2. SubSeq(ss, 1, i) = Append(SubSeq(ss, 1, i - 1), ss[i])
  OBVIOUS
<1> QED
  BY <1>1, <1>2, ReplayAppend

(* Replaying one sequence after another one that went through.             *)
LEMMA ReplayConcat ==
  ASSUME NEW S, NEW ss \in Seq(S), NEW tt \in Seq(S), NEW db, NEW mid,
         Replay(ss, db) = Ok(mid)
  PROVE  Replay(ss \o tt, db) = Replay(tt, mid)
<1> DEFINE n == Len(tt)
           first(k) == SubSeq(tt, 1, k)
           H == {k \in 0..n : Replay(ss \o first(k), db) = Replay(first(k), mid)}
<1>1. n \in Nat /\ first(n) = tt
  BY LenProperties
<1>2. 0 \in H
  <2>1. first(0) = <<>> /\ ss \o first(0) = ss
    OBVIOUS
  <2>2. Replay(ss \o first(0), db) = Replay(first(0), mid)
    BY <2>1, ReplayEmpty
  <2> QED
    BY <1>1, <2>2
<1>3. ASSUME NEW k \in 0..n, k < n, k \in H PROVE k + 1 \in H
  <2>1. k + 1 \in 1..Len(tt) /\ (k + 1) - 1 = k
    BY <1>1, <1>3
  <2>2. /\ Replay(first(k + 1), mid) = Continue(Replay(first(k), mid), tt[k + 1])
        /\ first(k + 1) = Append(first(k), tt[k + 1])
    BY <2>1, ReplayNext
  <2>3. first(k) \in Seq(S) /\ tt[k + 1] \in S
    BY <1>1, <2>1, ElementOfSeq
  <2>4. ss \o first(k) \in Seq(S) /\ ss \o first(k + 1) = Append(ss \o first(k), tt[k + 1])
    BY <2>2, <2>3
  <2>5. Replay(ss \o first(k + 1), db) = Continue(Replay(ss \o first(k), db), tt[k + 1])
    BY <2>3, <2>4, ReplayAppend
  <2>6. Replay(ss \o first(k), db) = Replay(first(k), mid)
    BY <1>3
  <2> QED
    BY <1>1, <2>1, <2>2, <2>5, <2>6
<1> HIDE DEF H, n, first
<1>4. n \in H
  <2>1. \A k \in 0..n : k < n /\ k \in H => k + 1 \in H
    BY <1>3
  <2>2. \A k \in 0..n : k \in H
    BY <1>1, <1>2, <2>1, Induction
  <2> QED
    BY <1>1, <2>2
<1> QED
  BY <1>1, <1>4 DEF H

-----------------------------------------------------------------------------
(* The control forms of a sequence of statements.                          *)
LEMMA OnControlSeq ==
  ASSUME NEW S, NEW ss \in Seq(S)
  PROVE  /\ OnControl(ss) \in Seq({ControlForm(s) : s \in S})
         /\ Len(OnControl(ss)) = Len(ss)
         /\ \A i \in 1..Len(ss) : OnControl(ss)[i] = ControlForm(ss[i])
BY DEF OnControl

(* Statements go to the control copy one by one,                           *)
LEMMA OnControlConcat ==
  ASSUME NEW S, NEW ss \in Seq(S), NEW tt \in Seq(S)
  PROVE  OnControl(ss \o tt) = OnControl(ss) \o OnControl(tt)
<1> DEFINE C == {ControlForm(s) : s \in S}
           both == ss \o tt
           cs == OnControl(ss)
           ct == OnControl(tt)
           halves == cs \o ct
<1>1. /\ both \in Seq(S) /\ Len(both) = Len(ss) + Len(tt) /\ Len(ss) \in Nat /\ Len(tt) \in Nat
      /\ \A i \in 1..Len(both) : both[i] = IF i <= Len(ss) THEN ss[i] ELSE tt[i - Len(ss)]
  BY ConcatProperties
<1>2. /\ cs \in Seq(C) /\ Len(cs) = Len(ss) /\ ct \in Seq(C) /\ Len(ct) = Len(tt)
      /\ \A i \in 1..Len(ss) : cs[i] = ControlForm(ss[i])
      /\ \A i \in 1..Len(tt) : ct[i] = ControlForm(tt[i])
  BY OnControlSeq
<1>3. /\ OnControl(both) \in Seq(C) /\ Len(OnControl(both)) = Len(both)
      /\ \A i \in 1..Len(both) : OnControl(both)[i] = ControlForm(both[i])
  BY <1>1, OnControlSeq
<1> HIDE DEF both, C, cs, ct
<1>4. /\ halves \in Seq(C) /\ Len(halves) = Len(cs) + Len(ct)
      /\ \A i \in 1..Len(cs) + Len(ct) :
            halves[i] = IF i <= Len(cs) THEN cs[i] ELSE ct[i - Len(cs)]
  <2>1. cs \in Seq(C) /\ ct \in Seq(C)
    BY <1>2
  <2> QED
    BY <2>1, ConcatProperties
<1> HIDE DEF halves
<1>5. ASSUME NEW i \in 1..Len(both) PROVE OnControl(both)[i] = halves[i]
  <2>1. CASE i <= Len(ss)
    <3>1. i \in 1..Len(ss) /\ both[i] = ss[i] /\ halves[i] = cs[i]
      BY <1>1, <1>2, <1>4, <2>1
    <3> QED
      BY <1>2, <1>3, <3>1
  <2>2. CASE i > Len(ss)
    <3>1. /\ i - Len(ss) \in 1..Len(tt) /\ both[i] = tt[i - Len(ss)]
          /\ halves[i] = ct[i - Len(ss)]
      BY <1>1, <1>2, <1>4, <2>2
    <3> QED
      BY <1>2, <1>3, <3>1
  <2> QED
    BY <1>1, <2>1, <2>2
<1>6. OnControl(both) = halves
  BY <1>1, <1>2, <1>3, <1>4, <1>5, SeqEqual
<1> QED
  BY <1>6 DEF both, halves, cs, ct

(* so that the first of them are the first on the control copy.            *)
LEMMA OnControlPrefix ==
  ASSUME NEW S, NEW ss \in Seq(S), NEW i \in 0..Len(ss)
  PROVE  OnControl(SubSeq(ss, 1, i)) = SubSeq(OnControl(ss), 1, i)
BY DEF OnControl

(* A replay ends in a database, whether it went through or not.            *)
LEMMA ReplayType ==
  ASSUME NEW ss \in Seq(Statements), NEW db \in Databases
  PROVE  Replay(ss, db) \in [ok : BOOLEAN, db : Databases]
<1> DEFINE n == Len(ss)
           first(k) == SubSeq(ss, 1, k)
           Runs == [ok : BOOLEAN, db : Databases]
           H == {k \in 0..n : Replay(first(k), db) \in Runs}
<1>1. n \in Nat /\ first(n) = ss /\ first(0) = <<>>
  BY LenProperties
<1>2. 0 \in H
  <2>1. Ok(db) \in Runs
    BY DEF Ok
  <2>2. Replay(first(0), db) \in Runs
    BY <1>1, <2>1, ReplayEmpty, Zenon
  <2> QED
    BY <1>1, <2>2
<1>3. ASSUME NEW k \in 0..n, k < n, k \in H PROVE k + 1 \in H
  <2>1. k + 1 \in 1..Len(ss) /\ (k + 1) - 1 = k
    BY <1>1, <1>3
  <2>2. Replay(first(k + 1), db) = Continue(Replay(first(k), db), ss[k + 1])
    BY <2>1, ReplayNext
  <2>3. ss[k + 1] \in Statements /\ Replay(first(k), db) \in Runs
    BY <1>1, <1>3, <2>1, ElementOfSeq
  <2>4. \A run \in Runs, s \in Statements : Continue(run, s) \in Runs
    BY ResultType DEF Continue
  <2>5. Replay(first(k + 1), db) \in Runs
    BY <2>2, <2>3, <2>4
  <2> QED
    BY <1>1, <2>1, <2>5
<1> HIDE DEF H
<1>4. n \in Nat /\ n \in 0..n
  BY <1>1
<1>5. \A k \in 0..n : k < n /\ k \in H => k + 1 \in H
  BY <1>3, Zenon
<1>6. n \in H
  BY <1>2, <1>4, <1>5, Induction, Zenon
<1> QED
  BY <1>1, <1>6 DEF H
=============================================================================
