----------------------------- MODULE MergeProofs -----------------------------
(***************************************************************************)
(* The properties of MergeSafety hold of every behaviour, for every        *)
(* workload, base and set of edits.  TypeOK and ControlMatchesMain are not *)
(* inductive: what they rest on is which queue positions are valid at      *)
(* which program counter (Positions) and what each open savepoint holds    *)
(* (Savepoints).  The other invariants add to these, layer by layer.       *)
(***************************************************************************)
EXTENDS MergeSafety, ReplayProofs

(* Every place of the program that looks at a transaction has one.         *)
Positions ==
  /\ pc \in {"start", "scan", "advance", "pair", "standalone"} => queue[turn] # <<>>
  /\ pc \in {"start", "scan", "pair"} => ScanOpen
  /\ pc = "write" => ~ScanOpen
  /\ ScanOpen => queue[turn] # <<>>
  /\ pc = "pair" => next <= Len(OtherQueue)
  /\ pc = "start" => walk.purpose = "start"
  /\ pc = "advance" => walk.purpose \in {"check", "accept", "apply"}
  /\ pc = "advance" /\ walk.purpose = "apply" => ~ScanOpen
  /\ pc = "advance" /\ walk.purpose # "apply" => ScanOpen /\ next <= Len(OtherQueue)

(* One savepoint per open scan and one per replay in progress; the         *)
(* outermost always restores two equal databases.                          *)
Savepoints ==
  /\ Len(saves) = (IF ScanOpen THEN 1 ELSE 0) + (IF pc = "advance" THEN 1 ELSE 0)
  /\ saves # <<>> => saves[1].main = saves[1].control
  /\ saves = <<>> \/ (pc = "advance" /\ walk.purpose = "apply") => main = control

Inv == TypeOK /\ Positions /\ Savepoints

-----------------------------------------------------------------------------
(* Dropping the last element of a sequence keeps its type.                 *)
LEMMA FrontType ==
  ASSUME NEW S, NEW t \in Seq(S), t # <<>>
  PROVE  /\ Front(t) \in Seq(S) /\ Len(Front(t)) = Len(t) - 1
         /\ Last(t) \in S
         /\ Front(t) # <<>> => Front(t)[1] = t[1]
         /\ Front(t) = <<>> => Last(t) = t[1]
<1> DEFINE n == Len(t)
<1>1. n \in Nat /\ n >= 1 /\ 1..n = DOMAIN t
  BY EmptySeq, LenProperties
<1> HIDE DEF n
<1>2. /\ SubSeq(t, 1, n - 1) \in Seq(S)
      /\ Len(SubSeq(t, 1, n - 1)) = n - 1
      /\ \A j \in 1..(n - 1) : SubSeq(t, 1, n - 1)[j] = t[j]
  <2>1. \A j \in 1..(n - 1) : t[j] \in S
    BY <1>1
  <2>2. n - 1 \in Int /\ (1 <= n - 1 \/ n - 1 = 0)
    BY <1>1
  <2> QED
    BY <1>1, <2>1, <2>2, SubSeqProperties
<1>3. Front(t) = SubSeq(t, 1, n - 1) /\ Last(t) = t[n]
  BY DEF Front, Last, n
<1>4. Front(t) # <<>> => Front(t)[1] = t[1]
  BY <1>1, <1>2, <1>3, EmptySeq
<1>5. Front(t) = <<>> => n = 1
  BY <1>1, <1>2, <1>3, EmptySeq
<1> QED
  BY <1>1, <1>2, <1>3, <1>4, <1>5 DEF n

(* What the user leaves in a queue are transactions.                       *)
LEMMA PutAtType ==
  ASSUME NEW txs \in Logs, NEW i \in 1..Len(txs), NEW new \in Replacements(txs[i])
  PROVE  PutAt(txs, i, new) \in Logs
<1>1. txs \in Seq(Transactions) /\ txs[i] \in Transactions
  BY DEF Logs
<1>2. new \in Seq(Statements)
  <2>1. txs[i].stmts \in Seq(Statements) /\ <<>> \in Seq(Statements)
    BY <1>1 DEF Transactions
  <2>2. \A e \in Edits : e \in Seq(Statements)
    BY EditsAssumption
  <2>3. new = txs[i].stmts \/ new = <<>> \/ new \in Edits
    BY DEF Replacements, Deleted
  <2> QED
    BY <2>1, <2>2, <2>3
<1>3. RemoveAt(txs, i) \in Seq(Transactions)
  BY <1>1, RemoveAtType
<1>4. [txs[i] EXCEPT !.stmts = new] \in Transactions
  BY <1>1, <1>2 DEF Transactions
<1>5. [txs EXCEPT ![i].stmts = new] \in Seq(Transactions)
  BY <1>1, <1>4
<1> QED
  BY <1>3, <1>5 DEF PutAt, Logs

(* What a check of the scan reports are conflicts.                         *)
LEMMA CheckResultType ==
  ASSUME Head0 \in Transactions, Candidate \in Transactions
  PROVE  CheckResult \subseteq Conflicts
<1> DEFINE ss == Head0.stmts
           tt == Candidate.stmts
<1>1. ss \in Seq(Statements) /\ tt \in Seq(Statements)
  BY DEF Transactions
<1>2. WriteWritePairs(ss, tt) \subseteq Nat \X Nat
  BY <1>1 DEF WriteWritePairs
<1>3. WriteWriteResult(ss, tt, main) \subseteq Conflicts
  BY <1>2 DEF WriteWriteResult, Conflict, Conflicts, Kinds, ReviewableKinds
<1>4. \A j \in ReadIndexes(ss, tt) : <<0, j>> \in Nat \X Nat
  BY <1>1 DEF ReadIndexes
<1>5. WriteReadResult(ss, tt) \subseteq Conflicts
  BY <1>4 DEF WriteReadResult, Conflict, Conflicts, Kinds, ReviewableKinds
<1>6. \A k \in StaticKinds(ss, tt) : Conflict(k, {}) \in Conflicts
  BY DEF StaticKinds, Conflict, Conflicts, Kinds, ReviewableKinds
<1> QED
  BY <1>3, <1>5, <1>6 DEF CheckResult

-----------------------------------------------------------------------------
(* The transaction under a valid queue position.                           *)
LEMMA HeadType ==
  ASSUME TypeOK, queue[turn] # <<>>
  PROVE  /\ Head0 \in Transactions /\ Head0 = queue[turn][1]
         /\ Tail(queue[turn]) \in Logs /\ 1 \in 1..Len(queue[turn])
<1>1. queue[turn] \in Seq(Transactions)
  BY DEF TypeOK, LogTypes, TurnTypes, Logs
<1> QED
  BY <1>1, HeadTailProperties, EmptySeq DEF Head0, Logs

(* The transaction the scan looks at is one of the opposite queue.         *)
LEMMA CandidateType ==
  ASSUME TypeOK, next <= Len(OtherQueue)
  PROVE  Candidate \in Transactions /\ next \in 1..Len(OtherQueue)
<1>1. OtherQueue \in Seq(Transactions) /\ next \in Nat \ {0}
  BY DEF TypeOK, LogTypes, ScanTypes, TurnTypes, Logs, OtherQueue, Other, Branches
<1>2. next \in 1..Len(OtherQueue)
  BY <1>1, LenProperties
<1> QED
  BY <1>1, <1>2, ElementOfSeq DEF Candidate

(* The replays that can be in progress.                                    *)
LEMMA WalkType ==
  /\ Idle \in Walks /\ [Idle EXCEPT !.purpose = "start"] \in Walks
  /\ \A p \in {"check", "accept", "apply"}, c \in SUBSET Conflicts :
       [purpose |-> p, at |-> 1, conflicts |-> c] \in Walks
<1>1. [Idle EXCEPT !.purpose = "start"] = [purpose |-> "start", at |-> 1, conflicts |-> {}]
  BY DEF Idle
<1>2. \A p \in {"none", "start", "check", "accept", "apply"}, c \in SUBSET Conflicts :
       [purpose |-> p, at |-> 1, conflicts |-> c] \in Walks
  BY DEF Walks
<1>3. {} \in SUBSET Conflicts
  OBVIOUS
<1> QED
  BY <1>1, <1>2, <1>3 DEF Idle

(* The loop starts in the invariant.                                       *)
LEMMA InitInv == Init => Inv
<1> SUFFICES ASSUME Init PROVE Inv
  OBVIOUS
<1>1. base \in Databases
  BY BasesAssumption DEF Init
<1>2. origin \in [Branches -> Logs]
  <2>1. PICK w \in Workloads : origin = [b \in Branches |-> NumberedLog(b, w)]
    BY DEF Init
  <2>2. \A b \in Branches : w[b] \in Seq(Seq(Statements))
    BY WorkloadsAssumption
  <2>3. \A b \in Branches : NumberedLog(b, w) \in Logs
    <3> SUFFICES ASSUME NEW b \in Branches PROVE NumberedLog(b, w) \in Logs
      OBVIOUS
    <3>1. /\ DOMAIN w[b] = 1..Len(w[b]) /\ Len(w[b]) \in Nat
          /\ \A i \in 1..Len(w[b]) : w[b][i] \in Seq(Statements)
      BY <2>2, LenProperties, ElementOfSeq
    <3>2. \A i \in 1..Len(w[b]) : [branch |-> b, n |-> i, stmts |-> w[b][i]] \in Transactions
      BY <3>1 DEF Transactions
    <3> QED
      BY <3>1, <3>2 DEF NumberedLog, Logs
  <2> QED
    BY <2>1, <2>3
<1>3. TypeOK
  <2>1. LogTypes
    BY <1>1, <1>2, EmptySeq DEF Init, LogTypes, Logs
  <2>2. DbTypes
    BY <1>1, EmptySeq DEF Init, DbTypes
  <2>3. ScanTypes
    BY EmptySeq DEF Init, ScanTypes
  <2>4. TurnTypes
    BY WalkType DEF Init, TurnTypes, PCs, Branches
  <2>5. UserTypes
    <3>1. edits \in Nat /\ reviewed \subseteq Reviews
      BY DEF Init
    <3>2. touched \in BOOLEAN
      BY Zenon DEF Init
    <3> QED
      BY <3>1, <3>2 DEF UserTypes
  <2> QED
    BY <2>1, <2>2, <2>3, <2>4, <2>5 DEF TypeOK
<1>4. Positions
  BY DEF Init, Positions, ScanOpen
<1>5. Savepoints
  BY EmptySeq DEF Init, Savepoints, ScanOpen
<1> QED
  BY <1>3, <1>4, <1>5 DEF Inv

-----------------------------------------------------------------------------
(* The savepoint statements, on a stack whose bottom is saves[1].          *)
LEMMA SavepointStep ==
  ASSUME DbTypes, Savepoint, UNCHANGED <<main, control>>
  PROVE  /\ DbTypes' /\ Len(saves') = Len(saves) + 1
         /\ saves # <<>> => saves'[1] = saves[1]
         /\ saves = <<>> => saves'[1].main = main /\ saves'[1].control = control
<1>1. [main |-> main, control |-> control] \in Saves
  BY DEF DbTypes, Saves
<1>2. saves \in Seq(Saves) /\ saves' = Append(saves, [main |-> main, control |-> control])
  BY DEF DbTypes, Savepoint
<1>3. /\ saves' \in Seq(Saves) /\ Len(saves') = Len(saves) + 1
      /\ \A i \in 1..Len(saves) : saves'[i] = saves[i]
      /\ saves'[Len(saves) + 1] = [main |-> main, control |-> control]
  BY <1>1, <1>2, AppendProperties
<1>4. Len(saves) \in Nat /\ (saves # <<>> => Len(saves) >= 1) /\ (saves = <<>> => Len(saves) = 0)
  BY <1>2, EmptySeq, LenProperties
<1>5. saves # <<>> => saves'[1] = saves[1]
  BY <1>3, <1>4
<1>6. saves = <<>> => saves'[1] = [main |-> main, control |-> control]
  BY <1>3, <1>4
<1> QED
  BY <1>3, <1>5, <1>6 DEF DbTypes

(* RELEASE drops the top savepoint and leaves both databases.              *)
LEMMA ReleaseStep ==
  ASSUME DbTypes, saves # <<>>, Release
  PROVE  /\ DbTypes' /\ Len(saves') = Len(saves) - 1
         /\ saves' # <<>> => saves'[1] = saves[1]
         /\ UNCHANGED <<main, control>>
BY FrontType DEF DbTypes, Release

(* ROLLBACK TO and RELEASE put both databases back to the top savepoint.   *)
LEMMA RollbackStep ==
  ASSUME DbTypes, saves # <<>>, RollbackTop
  PROVE  /\ DbTypes' /\ Len(saves') = Len(saves) - 1
         /\ saves' # <<>> => saves'[1] = saves[1]
         /\ saves' = <<>> => main' = saves[1].main /\ control' = saves[1].control
<1>1. saves \in Seq(Saves)
  BY DEF DbTypes
<1>2. /\ saves' = Front(saves) /\ main' = Last(saves).main
      /\ control' = Last(saves).control
  BY DEF RollbackTop
<1>3. Last(saves) \in Saves
  BY <1>1, FrontType
<1>4. main' \in Databases /\ control' \in Databases
  BY <1>2, <1>3 DEF Saves
<1>5. /\ saves' \in Seq(Saves) /\ Len(saves') = Len(saves) - 1
      /\ saves' # <<>> => saves'[1] = saves[1]
      /\ saves' = <<>> => Last(saves) = saves[1]
  BY <1>1, <1>2, FrontType
<1> QED
  BY <1>2, <1>4, <1>5 DEF DbTypes

(* Closing the scan, where no replay is in progress, leaves no savepoint   *)
(* and two equal databases.                                                *)
LEMMA CloseScanStep ==
  ASSUME Inv, pc # "advance", CloseScan
  PROVE  /\ DbTypes' /\ ScanTypes' /\ ~ScanOpen' /\ Len(saves') = 0
         /\ saves' = <<>> /\ main' = control'
<1>1. Len(saves) = (IF ScanOpen THEN 1 ELSE 0) /\ saves \in Seq(Saves) /\ DbTypes
  BY DEF Inv, Savepoints, TypeOK, DbTypes
<1>2. ScanTypes' /\ ~ScanOpen'
  BY EmptySeq DEF CloseScan, ForgetScan, ScanTypes, ScanOpen
<1>3. CASE ScanOpen
  <2>0. RollbackTop
    BY <1>3, Zenon DEF CloseScan
  <2>1. saves # <<>>
    BY <1>1, <1>3
  <2>2. DbTypes' /\ Len(saves') = 0 /\ (saves' = <<>> => main' = control')
    <3>1. Len(saves) = 1
      BY <1>1, <1>3
    <3>2. saves[1].main = saves[1].control
      BY <2>1 DEF Inv, Savepoints
    <3>3. /\ DbTypes' /\ Len(saves') = Len(saves) - 1
          /\ saves' = <<>> => main' = saves[1].main /\ control' = saves[1].control
      BY <1>1, <2>0, <2>1, RollbackStep
    <3> QED
      BY <3>1, <3>2, <3>3
  <2>3. saves' = <<>>
    BY <2>2, EmptySeq DEF DbTypes
  <2> QED
    BY <1>2, <2>2, <2>3
<1>4. CASE ~ScanOpen
  <2>1. UNCHANGED <<main, control, saves>>
    BY <1>4 DEF CloseScan, dbVars
  <2>2. saves = <<>>
    BY <1>1, <1>4, EmptySeq
  <2>3. main = control
    BY <2>2 DEF Inv, Savepoints
  <2> QED
    BY <1>1, <1>2, <2>1, <2>2, <2>3, EmptySeq DEF DbTypes
<1> QED
  BY <1>3, <1>4

(* The turn passes to a branch, and no replay or prompt survives it.       *)
LEMMA PassTurnStep ==
  ASSUME TurnTypes, NEW q, PassTurn(q)
  PROVE  turn' \in Branches /\ pc' \in {"turn", "write"} /\ accepted' = {}
BY DEF PassTurn, TurnTypes, Branches, Other

-----------------------------------------------------------------------------
(* Every action preserves the invariant.                                   *)
(* A turn whose queue is empty passes.                                     *)
LEMMA EmptyTurnInv == ASSUME Inv, EmptyTurn PROVE Inv'
<1>1. LogTypes' /\ DbTypes' /\ ScanTypes' /\ UserTypes'
  BY DEF Inv, TypeOK, EmptyTurn, LogTypes, DbTypes, ScanTypes, UserTypes, fixed, dbVars,
         scanVars, userVars
<1>2. TurnTypes'
  BY PassTurnStep DEF Inv, TypeOK, EmptyTurn, TurnTypes, PCs
<1>3. saves = <<>> /\ ~ScanOpen
  <2>1. ~ScanOpen
    BY DEF Inv, Positions, EmptyTurn
  <2>2. Len(saves) = 0 /\ saves \in Seq(Saves)
    BY <2>1 DEF Inv, Savepoints, EmptyTurn, TypeOK, DbTypes
  <2> QED
    BY <2>1, <2>2, EmptySeq
<1>4. /\ pc' \in {"turn", "write"} /\ ~ScanOpen'
      /\ saves' = saves /\ main' = main /\ control' = control
  BY <1>3, PassTurnStep DEF Inv, TypeOK, EmptyTurn, scanVars, ScanOpen, dbVars
<1>5. Positions'
  BY <1>4 DEF Positions
<1>6. Savepoints'
  BY <1>3, <1>4, EmptySeq DEF Inv, Savepoints
<1> QED
  BY <1>1, <1>2, <1>5, <1>6 DEF Inv, TypeOK

(* A head that is not replay-safe is reported without touching a database. *)
LEMMA UnsafeHeadInv == ASSUME Inv, UnsafeHead PROVE Inv'
<1>1. LogTypes' /\ UserTypes'
  BY DEF Inv, TypeOK, UnsafeHead, LogTypes, UserTypes, fixed, userVars
<1>2. /\ DbTypes' /\ ScanTypes' /\ ~ScanOpen' /\ Len(saves') = 0 /\ saves' = <<>>
      /\ main' = control'
  BY CloseScanStep DEF UnsafeHead
<1>3. TurnTypes'
  BY DEF Inv, TypeOK, UnsafeHead, Ask, TurnTypes, PCs, Conflict, Conflicts, Kinds
<1>4. Positions'
  BY <1>2 DEF UnsafeHead, Ask, Positions
<1>5. Savepoints'
  BY <1>2 DEF UnsafeHead, Ask, Savepoints
<1> QED
  BY <1>1, <1>2, <1>3, <1>4, <1>5 DEF Inv, TypeOK

(* A head that needs no check goes straight to its replay.                 *)
LEMMA ApplyUnscannedInv == ASSUME Inv, ApplyUnscanned PROVE Inv'
<1>1. LogTypes' /\ ScanTypes' /\ UserTypes'
  BY DEF Inv, TypeOK, ApplyUnscanned, LogTypes, ScanTypes, UserTypes, fixed, scanVars, userVars
<1>2. TurnTypes'
  BY WalkType DEF Inv, TypeOK, ApplyUnscanned, BeginWalk, TurnTypes, PCs
<1>3. ~ScanOpen /\ ~ScanOpen' /\ pc = "turn" /\ pc' = "advance" /\ walk'.purpose = "apply"
  BY DEF ApplyUnscanned, SafeHead, BeginWalk, ScanOpen, scanVars
<1>4. Len(saves) = 0 /\ saves = <<>> /\ main = control
  BY <1>3, EmptySeq DEF Inv, Savepoints, TypeOK, DbTypes
<1>5. /\ DbTypes' /\ Len(saves') = 1 /\ saves'[1].main = main /\ saves'[1].control = control
      /\ UNCHANGED <<main, control>>
  BY <1>4, SavepointStep DEF Inv, TypeOK, ApplyUnscanned
<1>6. Positions'
  BY <1>3 DEF ApplyUnscanned, SafeHead, Positions
<1>7. Savepoints'
  BY <1>3, <1>4, <1>5 DEF Savepoints
<1> QED
  BY <1>1, <1>2, <1>5, <1>6, <1>7 DEF Inv, TypeOK

(* The scan opens its savepoint over two equal databases.                  *)
LEMMA OpenScanInv == ASSUME Inv, OpenScan PROVE Inv'
<1>1. LogTypes' /\ UserTypes'
  BY DEF Inv, TypeOK, OpenScan, LogTypes, UserTypes, fixed, userVars
<1>2. ScanTypes'
  BY EmptySeq DEF OpenScan, ScanTypes, NeededKinds, Kinds, ReviewableKinds
<1>3. TurnTypes'
  BY WalkType DEF Inv, TypeOK, OpenScan, TurnTypes, PCs
<1>4. ~ScanOpen /\ ScanOpen' /\ pc = "turn" /\ pc' = "start" /\ walk'.purpose = "start"
  BY DEF OpenScan, SafeHead, ScanOpen, Idle
<1>5. Len(saves) = 0 /\ saves = <<>> /\ main = control
  BY <1>4, EmptySeq DEF Inv, Savepoints, TypeOK, DbTypes
<1>6. /\ DbTypes' /\ Len(saves') = 1 /\ saves'[1].main = main /\ saves'[1].control = control
      /\ UNCHANGED <<main, control>>
  BY <1>5, SavepointStep DEF Inv, TypeOK, OpenScan
<1>7. Positions'
  BY <1>4 DEF OpenScan, SafeHead, Positions
<1>8. Savepoints'
  BY <1>4, <1>5, <1>6, EmptySeq DEF Savepoints
<1> QED
  BY <1>1, <1>2, <1>3, <1>6, <1>7, <1>8 DEF Inv, TypeOK

(* A scan goes on behind the transaction the user has judged.              *)
LEMMA ResumeScanInv == ASSUME Inv, ResumeScan PROVE Inv'
<1>1. LogTypes' /\ DbTypes' /\ ScanTypes' /\ UserTypes'
  BY DEF Inv, TypeOK, ResumeScan, LogTypes, DbTypes, ScanTypes, UserTypes, fixed, dbVars,
         scanVars, userVars
<1>2. TurnTypes'
  BY DEF Inv, TypeOK, ResumeScan, TurnTypes, PCs
<1>3. pc = "turn" /\ pc' = "scan" /\ ScanOpen /\ queue[turn] # <<>>
  BY DEF ResumeScan, SafeHead
<1>4. Positions'
  BY <1>3 DEF ResumeScan, Positions, ScanOpen, scanVars
<1>5. Savepoints'
  BY <1>3 DEF Inv, ResumeScan, Savepoints, ScanOpen, scanVars, dbVars
<1> QED
  BY <1>1, <1>2, <1>4, <1>5 DEF Inv, TypeOK

(* One statement of the head is replayed on control and its probe kept.    *)
LEMMA StartStatementInv == ASSUME Inv, StartStatement PROVE Inv'
<1> DEFINE s == Head0.stmts[walk.at]
<1>0. pc = "start" /\ walk.at <= Len(Head0.stmts) /\ queue[turn] # <<>> /\ ScanOpen
  BY DEF Inv, Positions, StartStatement
<1>1. s \in Statements
  <2>1. Head0.stmts \in Seq(Statements) /\ walk.at \in Nat \ {0}
    BY <1>0, HeadType DEF Inv, TypeOK, TurnTypes, Walks, Transactions
  <2>2. walk.at \in 1..Len(Head0.stmts)
    BY <1>0, <2>1, LenProperties
  <2> QED
    BY <2>1, <2>2, ElementOfSeq
<1>2. LogTypes' /\ UserTypes'
  BY DEF Inv, TypeOK, StartStatement, LogTypes, UserTypes, fixed, userVars
<1>3. ScanTypes'
  <2>1. AffectedRows(s, control) \in SUBSET Rows
    BY <1>1 DEF AffectedRows, Targets, Statements
  <2>2. probes' = Append(probes, AffectedRows(s, control)) /\ UNCHANGED <<kinds, next>>
    BY DEF StartStatement
  <2> QED
    BY <2>1, <2>2, AppendProperties DEF Inv, TypeOK, ScanTypes
<1>4. DbTypes'
  <2>1. control' = control \/ control' = Result(ControlForm(s), control)
    BY DEF StartStatement
  <2> QED
    BY <1>1, <2>1, ControlFormType, ResultType DEF Inv, TypeOK, DbTypes, StartStatement
<1>5. \/ pc' = "start" /\ walk'.purpose = "start" /\ walk' \in Walks /\ prompt' = prompt
      \/ pc' = "standalone" /\ walk' \in Walks /\ prompt' \subseteq Conflicts
  <2>1. CASE Succeeds(ControlForm(s), control)
    <3>1. pc' = "start" /\ prompt' = prompt /\ walk' = [walk EXCEPT !.at = @ + 1]
      BY <1>0, <2>1 DEF StartStatement
    <3>2. walk \in Walks /\ walk.purpose = "start"
      BY <1>0 DEF Inv, TypeOK, TurnTypes, Positions
    <3> QED
      BY <3>1, <3>2 DEF Walks
  <2>2. CASE ~Succeeds(ControlForm(s), control)
    <3>1. pc' = "standalone" /\ walk' = Idle /\ prompt' = {Conflict("integrity", {})}
      BY <2>2 DEF StartStatement, Ask
    <3> QED
      BY <3>1, WalkType DEF Conflict, Conflicts, Kinds
  <2> QED
    BY <2>1, <2>2
<1>6. TurnTypes'
  BY <1>5 DEF Inv, TypeOK, StartStatement, TurnTypes, PCs
<1>7. ScanOpen' /\ queue' = queue /\ turn' = turn /\ saves' = saves
  BY <1>0 DEF StartStatement, ScanOpen, fixed
<1>8. Positions'
  BY <1>0, <1>5, <1>7 DEF Positions
<1>9. Savepoints'
  <2>1. Len(saves) = 1 /\ saves # <<>> /\ saves[1].main = saves[1].control
    BY <1>0, EmptySeq DEF Inv, Savepoints
  <2> QED
    BY <1>5, <1>7, <2>1 DEF Savepoints
<1> QED
  BY <1>2, <1>3, <1>4, <1>6, <1>8, <1>9 DEF Inv, TypeOK

(* The head has been replayed on control: the walk over the queue begins.  *)
LEMMA StartedInv == ASSUME Inv, Started PROVE Inv'
<1>1. LogTypes' /\ DbTypes' /\ ScanTypes' /\ UserTypes'
  BY DEF Inv, TypeOK, Started, LogTypes, DbTypes, ScanTypes, UserTypes, fixed, dbVars,
         scanVars, userVars
<1>2. TurnTypes'
  BY WalkType DEF Inv, TypeOK, Started, TurnTypes, PCs
<1>3. pc = "start" /\ pc' = "scan" /\ ScanOpen /\ queue[turn] # <<>>
  BY DEF Inv, Positions, Started
<1>4. Positions'
  BY <1>3 DEF Started, Positions, ScanOpen, scanVars
<1>5. Savepoints'
  BY <1>3 DEF Inv, Started, Savepoints, ScanOpen, scanVars, dbVars
<1> QED
  BY <1>1, <1>2, <1>4, <1>5 DEF Inv, TypeOK

(* One opposite transaction is checked; what is found becomes the prompt.  *)
LEMMA ScanCheckInv == ASSUME Inv, ScanCheck PROVE Inv'
<1>0. /\ pc = "scan" /\ next <= Len(OtherQueue) /\ queue[turn] # <<>> /\ ScanOpen
      /\ UNCHANGED <<queue, turn, kinds, next, accepted>>
  BY DEF Inv, Positions, ScanCheck, fixed, scanVars
<1>1. CheckResult \subseteq Conflicts
  BY <1>0, HeadType, CandidateType, CheckResultType DEF Inv
<1>2. LogTypes' /\ ScanTypes' /\ UserTypes'
  BY DEF Inv, TypeOK, ScanCheck, LogTypes, ScanTypes, UserTypes, fixed, scanVars, userVars
<1>3. ScanOpen' /\ OtherQueue' = OtherQueue
  BY <1>0 DEF ScanOpen, OtherQueue
<1> DEFINE Asks == Ask("pair", CheckResult) /\ UNCHANGED <<dbVars, walk>>
           Replays == /\ Savepoint /\ UNCHANGED <<main, control, prompt>>
                      /\ \E p \in {"accept", "check"}, c \in SUBSET Conflicts : BeginWalk(p, c)
<1>4. Asks \/ Replays
  <2>1. CASE CheckResult = {}
    <3>1. Savepoint /\ BeginWalk("check", {}) /\ UNCHANGED <<main, control, prompt>>
      BY <2>1, Zenon DEF ScanCheck
    <3> QED
      BY <3>1, Zenon
  <2>2. CASE CheckResult # {}
    <3>1. Meet(CheckResult)
      BY <2>2, Zenon DEF ScanCheck
    <3> QED
      BY <1>1, <3>1, Zenon DEF Meet
  <2> QED
    BY <2>1, <2>2
<1>5. Len(saves) = 1 /\ saves # <<>> /\ saves[1].main = saves[1].control
  BY <1>0, EmptySeq DEF Inv, Savepoints
<1>6. CASE Asks
  <2>1. DbTypes' /\ TurnTypes'
    BY <1>0, <1>1, <1>6 DEF Inv, TypeOK, DbTypes, TurnTypes, dbVars, Ask, PCs
  <2>2. Positions'
    BY <1>0, <1>3, <1>6 DEF Positions, Ask
  <2>3. Savepoints'
    BY <1>3, <1>5, <1>6 DEF Savepoints, Ask, dbVars
  <2> QED
    BY <1>2, <2>1, <2>2, <2>3 DEF Inv, TypeOK
<1>7. CASE Replays
  <2>1. pc' = "advance" /\ walk'.purpose \in {"accept", "check"} /\ walk' \in Walks
    BY <1>7, WalkType DEF BeginWalk
  <2>2. TurnTypes'
    BY <1>0, <1>7, <2>1 DEF Inv, TypeOK, TurnTypes, PCs
  <2>3. DbTypes' /\ Len(saves') = 2 /\ saves'[1].main = saves'[1].control
    BY <1>5, <1>7, SavepointStep DEF Inv, TypeOK
  <2>4. Positions'
    BY <1>0, <1>3, <2>1 DEF Positions
  <2>5. Savepoints'
    <3>1. saves' # <<>>
      BY <2>3
    <3> QED
      BY <1>3, <2>1, <2>3, <3>1 DEF Savepoints
  <2> QED
    BY <1>2, <2>2, <2>3, <2>4, <2>5 DEF Inv, TypeOK
<1> HIDE DEF Asks, Replays
<1> QED
  BY <1>4, <1>6, <1>7, Zenon

(* No opposite transaction is left: the scan closes, the head is replayed. *)
LEMMA ScanExhaustedInv == ASSUME Inv, ScanExhausted PROVE Inv'
<1>0. /\ pc = "scan" /\ queue[turn] # <<>> /\ ScanOpen /\ UNCHANGED <<queue, turn>>
      /\ ~ScanOpen'
  BY DEF Inv, Positions, ScanExhausted, fixed, ForgetScan, ScanOpen
<1>1. Len(saves) = 1 /\ saves # <<>> /\ saves[1].main = saves[1].control /\ saves \in Seq(Saves)
  BY <1>0, EmptySeq DEF Inv, Savepoints, TypeOK, DbTypes
<1>2. Last(saves) = saves[1] /\ Last(saves) \in Saves /\ Front(saves) = <<>>
  <2>1. Len(Front(saves)) = 0 /\ Front(saves) \in Seq(Saves) /\ Last(saves) \in Saves
    BY <1>1, FrontType
  <2>2. Front(saves) = <<>>
    BY <2>1, EmptySeq
  <2> QED
    BY <1>1, <2>1, <2>2, FrontType
<1>3. main' = control' /\ main' \in Databases /\ control' \in Databases
  BY <1>1, <1>2 DEF ScanExhausted, Saves
<1>4. saves' = <<[main |-> main', control |-> control']>>
  BY <1>2 DEF ScanExhausted
<1>5. DbTypes' /\ Len(saves') = 1 /\ saves'[1].main = saves'[1].control
  BY <1>3, <1>4 DEF DbTypes, Saves
<1>6. LogTypes' /\ ScanTypes' /\ UserTypes'
  BY EmptySeq DEF Inv, TypeOK, ScanExhausted, LogTypes, ForgetScan, ScanTypes, UserTypes, fixed,
                  userVars
<1>7. pc' = "advance" /\ walk'.purpose = "apply" /\ walk' \in Walks
  BY WalkType DEF ScanExhausted, BeginWalk
<1>8. TurnTypes'
  BY <1>7 DEF Inv, TypeOK, TurnTypes, PCs, ScanExhausted
<1>9. Positions' /\ Savepoints'
  BY <1>0, <1>3, <1>5, <1>7 DEF Positions, Savepoints
<1> QED
  BY <1>5, <1>6, <1>8, <1>9 DEF Inv, TypeOK

(* Where a replay in progress has a statement left, it is a statement.     *)
LEMMA WalkedType ==
  ASSUME Inv, pc = "advance"
  PROVE  /\ queue[turn] # <<>> /\ Walked \in Transactions
         /\ walk.purpose \in {"check", "accept", "apply"} /\ walk.at \in Nat \ {0}
         /\ walk.at <= Len(Walked.stmts) => Walked.stmts[walk.at] \in Statements
<1>1. /\ queue[turn] # <<>> /\ walk.purpose \in {"check", "accept", "apply"}
      /\ walk.purpose # "apply" => next <= Len(OtherQueue)
  BY DEF Inv, Positions
<1>2. Walked \in Transactions
  BY <1>1, HeadType, CandidateType DEF Inv, Walked
<1>3. Walked.stmts \in Seq(Statements) /\ walk.at \in Nat \ {0}
  BY <1>2 DEF Transactions, Inv, TypeOK, TurnTypes, Walks
<1>4. walk.at <= Len(Walked.stmts) => walk.at \in 1..Len(Walked.stmts)
  BY <1>3, LenProperties
<1> QED
  BY <1>1, <1>2, <1>3, <1>4, ElementOfSeq

(* One statement of an opposite transaction is replayed on both databases. *)
LEMMA AdvanceStatementInv == ASSUME Inv, AdvanceStatement PROVE Inv'
<1> DEFINE s == Walked.stmts[walk.at]
<1>0. /\ pc = "advance" /\ walk.at <= Len(Walked.stmts) /\ s \in Statements
      /\ Succeeds(ControlForm(s), control) /\ Succeeds(s, main)
      /\ control' = Result(ControlForm(s), control) /\ main' = Result(s, main)
      /\ walk' = [walk EXCEPT !.at = @ + 1]
      /\ UNCHANGED <<queue, turn, pc, saves, kinds, next>>
  BY WalkedType DEF AdvanceStatement, fixed, scanVars
<1>1. LogTypes' /\ ScanTypes' /\ UserTypes'
  BY DEF Inv, TypeOK, AdvanceStatement, LogTypes, ScanTypes, UserTypes, fixed, scanVars, userVars
<1>2. DbTypes'
  <2>1. main \in Databases /\ control \in Databases /\ saves \in Seq(Saves)
    BY DEF Inv, TypeOK, DbTypes
  <2>2. ControlForm(s) \in Statements
    BY <1>0, ControlFormType
  <2> QED
    BY <1>0, <2>1, <2>2, ResultType DEF DbTypes
<1>3. walk' \in Walks /\ walk'.purpose = walk.purpose
  BY <1>0 DEF Inv, TypeOK, TurnTypes, Walks
<1>4. TurnTypes'
  BY <1>0, <1>3 DEF Inv, TypeOK, TurnTypes, AdvanceStatement
<1>5. Positions'
  BY <1>0, <1>3 DEF Inv, Positions, ScanOpen, OtherQueue
<1>6. Savepoints'
  <2>1. main = control => main' = control'
    BY <1>0, ControlFormAgrees DEF Inv, TypeOK, DbTypes
  <2>2. Len(saves) = (IF ScanOpen THEN 2 ELSE 1)
    BY <1>0 DEF Inv, Savepoints
  <2>3. saves # <<>>
    BY <2>2
  <2>4. /\ saves[1].main = saves[1].control
        /\ walk.purpose = "apply" => main = control
    BY <1>0, <2>3 DEF Inv, Savepoints
  <2>5. ScanOpen' = ScanOpen
    BY <1>0 DEF ScanOpen
  <2> QED
    BY <1>0, <1>3, <2>1, <2>2, <2>3, <2>4, <2>5 DEF Savepoints
<1> QED
  BY <1>1, <1>2, <1>4, <1>5, <1>6 DEF Inv, TypeOK

(* An opposite transaction has been replayed: the scan moves behind it.    *)
LEMMA AdvanceScanInv == ASSUME Inv, AdvanceScan PROVE Inv'
<1>0. /\ pc = "advance" /\ ScanOpen /\ queue[turn] # <<>> /\ pc' = "scan"
      /\ UNCHANGED <<queue, turn, kinds>> /\ next' = next + 1 /\ walk' = Idle
  BY DEF Inv, Positions, AdvanceScan, fixed
<1>1. LogTypes' /\ ScanTypes' /\ UserTypes'
  BY DEF Inv, TypeOK, AdvanceScan, LogTypes, ScanTypes, UserTypes, fixed, userVars
<1>2. TurnTypes'
  BY WalkType DEF Inv, TypeOK, AdvanceScan, TurnTypes, PCs
<1>3. Len(saves) = 2 /\ saves # <<>> /\ saves[1].main = saves[1].control
  BY <1>0, EmptySeq DEF Inv, Savepoints
<1>4. DbTypes' /\ Len(saves') = 1 /\ (saves' # <<>> => saves'[1].main = saves'[1].control)
  BY <1>3, ReleaseStep DEF Inv, TypeOK, AdvanceScan
<1>5. saves' # <<>>
  BY <1>4
<1>6. Positions'
  BY <1>0 DEF Positions, ScanOpen
<1>7. Savepoints'
  BY <1>0, <1>4, <1>5 DEF Savepoints, ScanOpen
<1> QED
  BY <1>1, <1>2, <1>4, <1>6, <1>7 DEF Inv, TypeOK

(* The scanned head replays on main and is appended to the merged log.     *)
LEMMA AcceptHeadInv == ASSUME Inv, AcceptHead PROVE Inv'
<1>0. /\ pc = "advance" /\ ~ScanOpen /\ queue[turn] # <<>> /\ ~ScanOpen'
      /\ walk.purpose = "apply" /\ walk' = Idle
  BY DEF Inv, Positions, AcceptHead, ScanOpen, scanVars
<1>1. ScanTypes' /\ UserTypes'
  BY DEF Inv, TypeOK, AcceptHead, ScanTypes, UserTypes, scanVars, userVars
<1>2. LogTypes'
  <2>1. Head0 \in Transactions /\ Tail(queue[turn]) \in Logs
    BY <1>0, HeadType DEF Inv
  <2>2. log' \in Logs
    BY <2>1, AppendProperties DEF Inv, TypeOK, LogTypes, AcceptHead, Logs
  <2>3. queue' \in [Branches -> Logs]
    BY <2>1 DEF Inv, TypeOK, LogTypes, AcceptHead
  <2> QED
    BY <2>2, <2>3 DEF Inv, TypeOK, LogTypes, AcceptHead, fixed
<1>3. turn' \in Branches /\ pc' \in {"turn", "write"} /\ accepted' = {}
  BY PassTurnStep DEF Inv, TypeOK, AcceptHead
<1>4. TurnTypes'
  BY <1>0, <1>3, WalkType DEF Inv, TypeOK, AcceptHead, TurnTypes, PCs
<1>5. Len(saves) = 1 /\ saves # <<>> /\ main = control
  BY <1>0, EmptySeq DEF Inv, Savepoints
<1>6. DbTypes' /\ Len(saves') = 0 /\ UNCHANGED <<main, control>>
  BY <1>5, ReleaseStep DEF Inv, TypeOK, AcceptHead
<1>7. saves' = <<>>
  BY <1>6, EmptySeq DEF DbTypes
<1>8. Positions' /\ Savepoints'
  BY <1>0, <1>3, <1>5, <1>6, <1>7 DEF Positions, Savepoints
<1> QED
  BY <1>1, <1>2, <1>4, <1>6, <1>8 DEF Inv, TypeOK

(* A statement fails: both databases return to the transaction's savepoint.*)
LEMMA AdvanceFailsInv == ASSUME Inv, AdvanceFails PROVE Inv'
<1> DEFINE Again == /\ walk.purpose = "check"
                    /\ main' = Last(saves).main /\ control' = Last(saves).control
                    /\ saves' = saves /\ prompt' = prompt /\ pc' = "advance"
                    /\ walk' \in Walks /\ walk'.purpose = "accept"
           Asked == /\ RollbackTop /\ walk' = Idle /\ prompt' \subseteq Conflicts
                    /\ \/ pc' = "standalone" /\ walk.purpose = "apply"
                       \/ pc' = "pair" /\ walk.purpose # "apply"
<1>0. /\ pc = "advance" /\ queue[turn] # <<>>
      /\ UNCHANGED <<queue, turn, kinds, next, accepted>>
      /\ walk.purpose # "apply" => ScanOpen /\ next <= Len(OtherQueue)
      /\ walk.purpose = "apply" => ~ScanOpen
  BY DEF Inv, Positions, AdvanceFails, fixed, scanVars
<1>1. Again \/ Asked
  <2> DEFINE strict == /\ Succeeds(ControlForm(Walked.stmts[walk.at]), control)
                       /\ Succeeds(Walked.stmts[walk.at], main)
             found == {Conflict(IF strict THEN "constraint_resolution" ELSE "integrity", {})}
  <2>1. found \subseteq Conflicts /\ walk.conflicts \subseteq Conflicts
    BY DEF Conflict, Conflicts, Kinds, ReviewableKinds, Inv, TypeOK, TurnTypes, Walks
  <2>2. \/ /\ walk.purpose = "check"
           /\ main' = Last(saves).main /\ control' = Last(saves).control
           /\ UNCHANGED <<saves, prompt>>
           /\ BeginWalk("accept", found)
        \/ /\ walk.purpose = "check"
           /\ RollbackTop /\ walk' = Idle /\ Ask("pair", found)
        \/ /\ walk.purpose = "accept"
           /\ RollbackTop /\ walk' = Idle /\ Ask("pair", walk.conflicts \cup found)
        \/ /\ walk.purpose = "apply"
           /\ RollbackTop /\ walk' = Idle /\ Ask("standalone", found)
    BY Zenon DEF AdvanceFails
  <2> HIDE DEF found
  <2> QED
    BY <2>1, <2>2, WalkType DEF BeginWalk, Ask
<1>2. LogTypes' /\ ScanTypes' /\ UserTypes'
  BY DEF Inv, TypeOK, AdvanceFails, LogTypes, ScanTypes, UserTypes, fixed, scanVars, userVars
<1>3. ScanOpen' = ScanOpen /\ OtherQueue' = OtherQueue
  BY <1>0 DEF ScanOpen, OtherQueue
<1>4. Len(saves) = (IF ScanOpen THEN 2 ELSE 1) /\ saves \in Seq(Saves)
  BY <1>0 DEF Inv, Savepoints, TypeOK, DbTypes
<1>5. saves # <<>> /\ saves[1].main = saves[1].control
  <2>1. saves # <<>>
    BY <1>4
  <2> QED
    BY <2>1 DEF Inv, Savepoints
<1>6. CASE Again
  <2>1. Last(saves) \in Saves
    BY <1>4, <1>5, FrontType
  <2>2. DbTypes'
    BY <1>4, <1>6, <2>1 DEF DbTypes, Saves
  <2>3. TurnTypes'
    BY <1>0, <1>6 DEF Inv, TypeOK, TurnTypes, PCs
  <2>4. Positions'
    BY <1>0, <1>3, <1>6 DEF Positions
  <2>5. Savepoints'
    BY <1>0, <1>3, <1>4, <1>5, <1>6 DEF Savepoints
  <2> QED
    BY <1>2, <2>2, <2>3, <2>4, <2>5 DEF Inv, TypeOK
<1>7. CASE Asked
  <2>1. RollbackTop
    BY <1>7
  <2>2. /\ DbTypes' /\ Len(saves') = Len(saves) - 1
        /\ saves' # <<>> => saves'[1] = saves[1]
        /\ saves' = <<>> => main' = saves[1].main /\ control' = saves[1].control
    BY <1>5, <2>1, RollbackStep DEF Inv, TypeOK
  <2>3. TurnTypes'
    BY <1>0, <1>7, WalkType DEF Inv, TypeOK, TurnTypes, PCs
  <2>4. Positions'
    BY <1>0, <1>3, <1>7 DEF Positions
  <2>5. Savepoints'
    BY <1>0, <1>3, <1>4, <1>5, <1>7, <2>2 DEF Savepoints
  <2> QED
    BY <1>2, <2>2, <2>3, <2>4, <2>5 DEF Inv, TypeOK
<1> HIDE DEF Again, Asked
<1> QED
  BY <1>1, <1>6, <1>7, Zenon

(* The user accepts a conflict between the head and a transaction.         *)
LEMMA AcceptPairInv == ASSUME Inv, AcceptPair PROVE Inv'
<1>0. /\ pc = "pair" /\ queue[turn] # <<>> /\ ScanOpen /\ next <= Len(OtherQueue)
      /\ UNCHANGED <<queue, turn, kinds, next>>
  BY DEF Inv, Positions, AcceptPair, fixed, scanVars
<1>1. ScanOpen' /\ OtherQueue' = OtherQueue
  BY <1>0 DEF ScanOpen, OtherQueue
<1>2. Head0 \in Transactions /\ Candidate \in Transactions /\ prompt \subseteq Conflicts
  BY <1>0, HeadType, CandidateType DEF Inv, TypeOK, TurnTypes
<1>3. LogTypes' /\ ScanTypes'
  BY DEF Inv, TypeOK, AcceptPair, LogTypes, ScanTypes, fixed, scanVars
<1>4. UserTypes'
  <2>1. \A c \in prompt : [first |-> <<turn, Head0.n>>,
                          second |-> <<Other(turn), Candidate.n>>, kind |-> c.kind] \in Reviews
    BY <1>2 DEF Conflicts, Transactions, Reviews, Branches, Other, Inv, TypeOK, TurnTypes
  <2>2. reviewed' \subseteq Reviews
    BY <2>1 DEF AcceptPair, Inv, TypeOK, UserTypes
  <2> QED
    BY <2>2 DEF AcceptPair, Inv, TypeOK, UserTypes
<1>5. pc' = "advance" /\ walk'.purpose = "accept" /\ walk' \in Walks
  BY <1>2, WalkType DEF AcceptPair, BeginWalk
<1>6. TurnTypes'
  BY <1>2, <1>5 DEF Inv, TypeOK, TurnTypes, AcceptPair, PCs, PairKey
<1>7. Len(saves) = 1 /\ saves # <<>> /\ saves[1].main = saves[1].control
  BY <1>0, EmptySeq DEF Inv, Savepoints
<1>8. DbTypes' /\ Len(saves') = 2 /\ saves'[1].main = saves'[1].control
  BY <1>7, SavepointStep DEF Inv, TypeOK, AcceptPair
<1>9. saves' # <<>>
  BY <1>8
<1>10. Positions' /\ Savepoints'
  BY <1>0, <1>1, <1>5, <1>8, <1>9 DEF Positions, Savepoints
<1> QED
  BY <1>3, <1>4, <1>6, <1>8, <1>10 DEF Inv, TypeOK

(* The user edits or deletes the head that cannot be replayed.             *)
LEMMA ResolveStandaloneInv == ASSUME Inv, ResolveStandalone PROVE Inv'
<1>1. PICK new \in Replacements(Head0) :
        /\ edits' = edits + (IF Typed(Head0, new) THEN 1 ELSE 0)
        /\ queue' = [queue EXCEPT ![turn] = PutAt(@, 1, new)]
        /\ \/ PassTurn(queue')
           \/ pc' = "turn" /\ UNCHANGED <<turn, accepted>>
  BY Zenon DEF ResolveStandalone
<1>2. pc = "standalone" /\ queue[turn] # <<>>
  BY DEF Inv, Positions, ResolveStandalone
<1>3. LogTypes'
  <2>1. queue[turn] \in Logs /\ 1 \in 1..Len(queue[turn]) /\ Head0 = queue[turn][1]
    BY <1>2, HeadType DEF Inv, TypeOK, LogTypes, TurnTypes
  <2>2. PutAt(queue[turn], 1, new) \in Logs
    BY <2>1, PutAtType
  <2> QED
    BY <1>1, <2>2 DEF Inv, TypeOK, LogTypes, ResolveStandalone, fixed
<1>4. /\ DbTypes' /\ ScanTypes' /\ ~ScanOpen' /\ Len(saves') = 0 /\ saves' = <<>>
      /\ main' = control'
  BY <1>2, CloseScanStep DEF ResolveStandalone
<1>5. /\ turn' \in Branches /\ pc' \in {"turn", "write"}
      /\ accepted' \subseteq Transactions \X Transactions \X SUBSET Conflicts
  <2>1. CASE PassTurn(queue')
    BY <2>1, PassTurnStep DEF Inv, TypeOK
  <2>2. CASE pc' = "turn" /\ UNCHANGED <<turn, accepted>>
    BY <2>2 DEF Inv, TypeOK, TurnTypes
  <2> QED
    BY <1>1, <2>1, <2>2
<1>6. TurnTypes'
  BY <1>5 DEF Inv, TypeOK, TurnTypes, ResolveStandalone, PCs
<1>7. UserTypes'
  <2>1. edits' \in Nat /\ reviewed' \subseteq Reviews
    BY <1>1 DEF Inv, TypeOK, UserTypes, ResolveStandalone
  <2>2. touched' \in BOOLEAN
    BY Zenon DEF ResolveStandalone
  <2> QED
    BY <2>1, <2>2 DEF UserTypes
<1>8. Positions' /\ Savepoints'
  BY <1>4, <1>5 DEF Positions, Savepoints
<1> QED
  BY <1>3, <1>4, <1>6, <1>7, <1>8 DEF Inv, TypeOK

(* The user edits or deletes either side of a conflict.                    *)
LEMMA ResolvePairInv == ASSUME Inv, ResolvePair PROVE Inv'
<1>1. PICK cur \in Replacements(Head0), oth \in Replacements(Candidate) :
        /\ edits' = edits + (IF Typed(Head0, cur) THEN 1 ELSE 0)
                          + (IF Typed(Candidate, oth) THEN 1 ELSE 0)
        /\ queue' = [queue EXCEPT
                       ![turn] = IF cur = Head0.stmts THEN @ ELSE PutAt(@, 1, cur),
                       ![Other(turn)] = IF oth = Candidate.stmts THEN @
                                        ELSE PutAt(@, next, oth)]
        /\ \/ CloseScan /\ PassTurn(queue')
           \/ CloseScan /\ pc' = "turn" /\ UNCHANGED <<turn, accepted>>
           \/ /\ cur = Head0.stmts
              /\ kinds' = kinds \cup (IF Typed(Candidate, oth)
                                      THEN NeededKinds(Head0, queue'[Other(turn)]) ELSE {})
              /\ pc' = "turn" /\ UNCHANGED <<turn, accepted, dbVars, next, probes>>
  BY Zenon DEF ResolvePair
<1>2. pc = "pair" /\ queue[turn] # <<>> /\ ScanOpen /\ next <= Len(OtherQueue)
  BY DEF Inv, Positions, ResolvePair
<1>3. /\ queue \in [Branches -> Logs] /\ turn \in Branches /\ Other(turn) \in Branches
      /\ Other(turn) # turn
  BY DEF Inv, TypeOK, LogTypes, TurnTypes, Other, Branches
<1>4. queue' \in [Branches -> Logs]
  <2>1. queue[turn] \in Logs /\ 1 \in 1..Len(queue[turn]) /\ Head0 = queue[turn][1]
    BY <1>2, <1>3, HeadType DEF Inv
  <2>2. /\ OtherQueue \in Logs /\ next \in 1..Len(OtherQueue)
        /\ OtherQueue = queue[Other(turn)] /\ Candidate = OtherQueue[next]
    BY <1>2, <1>3, CandidateType DEF Inv, OtherQueue, Candidate
  <2>3. PutAt(queue[turn], 1, cur) \in Logs /\ PutAt(queue[Other(turn)], next, oth) \in Logs
    BY <2>1, <2>2, PutAtType
  <2> QED
    BY <1>1, <1>3, <2>3
<1>5. LogTypes'
  BY <1>4 DEF Inv, TypeOK, LogTypes, ResolvePair, fixed
<1>6. UserTypes'
  <2>1. edits' \in Nat /\ reviewed' \subseteq Reviews
    BY <1>1 DEF Inv, TypeOK, UserTypes, ResolvePair
  <2>2. touched' \in BOOLEAN
    BY Zenon DEF ResolvePair
  <2> QED
    BY <2>1, <2>2 DEF UserTypes
<1>7. TurnTypes' /\ pc' \in {"turn", "write"}
  <2>1. walk' \in Walks /\ prompt' \subseteq Conflicts
    BY DEF Inv, TypeOK, TurnTypes, ResolvePair
  <2>2. CASE PassTurn(queue')
    BY <2>1, <2>2, PassTurnStep DEF Inv, TypeOK, TurnTypes, PCs
  <2>3. CASE pc' = "turn" /\ UNCHANGED <<turn, accepted>>
    BY <2>1, <2>3 DEF Inv, TypeOK, TurnTypes, PCs
  <2> QED
    BY <1>1, <2>2, <2>3
<1>8. CASE CloseScan
  <2>1. /\ DbTypes' /\ ScanTypes' /\ ~ScanOpen' /\ Len(saves') = 0 /\ saves' = <<>>
        /\ main' = control'
    BY <1>2, <1>8, CloseScanStep
  <2>2. Positions' /\ Savepoints'
    BY <1>7, <2>1 DEF Positions, Savepoints
  <2> QED
    BY <1>5, <1>6, <1>7, <2>1, <2>2 DEF Inv, TypeOK
<1>9. CASE /\ cur = Head0.stmts
           /\ kinds' = kinds \cup (IF Typed(Candidate, oth)
                                   THEN NeededKinds(Head0, queue'[Other(turn)]) ELSE {})
           /\ pc' = "turn" /\ UNCHANGED <<turn, accepted, dbVars, next, probes>>
  <2>1. DbTypes' /\ ScanTypes'
    BY <1>9 DEF Inv, TypeOK, DbTypes, ScanTypes, dbVars, NeededKinds, Kinds, ReviewableKinds
  <2>2. ScanOpen' /\ queue'[turn'] = queue[turn]
    BY <1>1, <1>2, <1>3, <1>9 DEF ScanOpen
  <2>3. Positions'
    BY <1>2, <1>9, <2>2 DEF Positions
  <2>4. Savepoints'
    BY <1>2, <1>9, <2>2 DEF Inv, Savepoints, dbVars
  <2> QED
    BY <1>5, <1>6, <1>7, <2>1, <2>3, <2>4 DEF Inv, TypeOK
<1> QED
  BY <1>1, <1>8, <1>9

(* The merge is interrupted, or its result written or not.                 *)
LEMMA EndInv == ASSUME Inv, Interrupt \/ WriteResult PROVE Inv'
<1>1. /\ pc # "advance" /\ pc' \in {"aborted", "done", "failed"}
      /\ UNCHANGED <<base, origin, queue, turn, main, control, saves, kinds, next, probes, walk,
                     prompt, accepted, log>>
  BY DEF Interrupt, WriteResult, fixed, dbVars, scanVars
<1>2. DbTypes' /\ ScanTypes' /\ TurnTypes'
  BY <1>1 DEF Inv, TypeOK, DbTypes, ScanTypes, TurnTypes, PCs
<1>3. UserTypes'
  BY DEF Inv, TypeOK, UserTypes, Interrupt, WriteResult, userVars
<1>4. LogTypes'
  <2>1. [db |-> main, log |-> log] \in [db : Databases, log : Logs]
    BY DEF Inv, TypeOK, LogTypes, DbTypes
  <2>2. merged' = merged \/ merged' = <<[db |-> main, log |-> log]>>
    BY DEF Interrupt, WriteResult
  <2>3. <<[db |-> main, log |-> log]>> \in Seq([db : Databases, log : Logs])
    BY <2>1
  <2> QED
    BY <1>1, <2>2, <2>3 DEF Inv, TypeOK, LogTypes
<1>5. Positions' /\ Savepoints'
  BY <1>1 DEF Inv, Positions, Savepoints, ScanOpen
<1> QED
  BY <1>2, <1>3, <1>4, <1>5 DEF Inv, TypeOK

(* No step of the merge loop leaves the invariant.                         *)
LEMMA NextInv == Inv /\ [Next]_vars => Inv'
<1> SUFFICES ASSUME Inv, [Next]_vars PROVE Inv'
  OBVIOUS
<1>1. CASE UNCHANGED vars
  <2>1. LogTypes' /\ DbTypes' /\ ScanTypes' /\ TurnTypes' /\ UserTypes'
    BY <1>1 DEF Inv, TypeOK, LogTypes, DbTypes, ScanTypes, TurnTypes, UserTypes, vars
  <2>2. Positions' /\ Savepoints'
    BY <1>1 DEF Inv, Positions, Savepoints, ScanOpen, OtherQueue, vars
  <2> QED
    BY <2>1, <2>2 DEF Inv, TypeOK
<1>2. CASE Program
  BY <1>2, EmptyTurnInv, UnsafeHeadInv, ApplyUnscannedInv, OpenScanInv, ResumeScanInv,
     StartStatementInv, StartedInv, ScanCheckInv, ScanExhaustedInv, AdvanceStatementInv,
     AdvanceFailsInv, AdvanceScanInv, AcceptHeadInv, EndInv, Zenon DEF Program
<1>3. CASE User
  BY <1>3, AcceptPairInv, ResolvePairInv, ResolveStandaloneInv, EndInv, Zenon DEF User
<1> QED
  BY <1>1, <1>2, <1>3, Zenon DEF Next, Exited

-----------------------------------------------------------------------------
(* Every variable keeps its type, whatever the branches hold and whatever  *)
(* the user types.                                                         *)
THEOREM TypeCorrect == Spec => []TypeOK
<1>1. Inv => TypeOK
  BY DEF Inv
<1> QED
  BY InitInv, NextInv, <1>1, PTL DEF Spec

(* Every head is checked from one common prefix: whenever no scan is open  *)
(* and no replay in progress, the working database and its control copy    *)
(* are equal and no savepoint is left, on each way out of                  *)
(* _check_accept_current.                                                  *)
THEOREM ControlIsMain == Spec => []ControlMatchesMain
<1>1. Inv => ControlMatchesMain
  <2> SUFFICES ASSUME Inv, ~ScanOpen, pc # "advance"
               PROVE  main = control /\ saves = <<>>
    BY DEF ControlMatchesMain
  <2>1. Len(saves) = 0 /\ saves \in Seq(Saves)
    BY DEF Inv, Savepoints, TypeOK, DbTypes
  <2>2. saves = <<>>
    BY <2>1, EmptySeq
  <2> QED
    BY <2>2 DEF Inv, Savepoints
<1> QED
  BY InitInv, NextInv, <1>1, PTL DEF Spec

-----------------------------------------------------------------------------
(* The order of a branch.  A queue holds transactions of its own branch,   *)
(* and replacing or deleting one keeps the others in order.                *)
QueueBranches == \A b \in Branches : \A i \in DOMAIN queue[b] : queue[b][i].branch = b
OrderInv == Inv /\ QueueBranches /\ BranchOrderKept

(* Deleting or rewriting a queued transaction keeps the others in order.   *)
LEMMA PutAtOrder ==
  ASSUME NEW txs \in Logs, NEW i \in 1..Len(txs), NEW new,
         \A k, l \in DOMAIN txs : k < l => txs[k].n < txs[l].n
  PROVE  LET out == PutAt(txs, i, new)
         IN  /\ \A k, l \in DOMAIN out : k < l => out[k].n < out[l].n
             /\ \A k \in DOMAIN out : \E m \in DOMAIN txs :
                  out[k].n = txs[m].n /\ out[k].branch = txs[m].branch
<1>1. /\ txs \in Seq(Transactions) /\ Len(txs) \in Nat /\ DOMAIN txs = 1..Len(txs)
      /\ \A k \in 1..Len(txs) : txs[k] \in Transactions
  BY LenProperties, ElementOfSeq DEF Logs
<1>2. CASE new = Deleted
  <2>1. PutAt(txs, i, new) = RemoveAt(txs, i)
    BY <1>2 DEF PutAt
  <2>2. /\ DOMAIN RemoveAt(txs, i) = 1..(Len(txs) - 1)
        /\ \A k \in 1..(Len(txs) - 1) :
             RemoveAt(txs, i)[k] = IF k < i THEN txs[k] ELSE txs[k + 1]
    BY <1>1, RemoveAtIndex
  <2>3. \A k \in 1..(Len(txs) - 1) : k \in 1..Len(txs) /\ k + 1 \in 1..Len(txs)
    BY <1>1
  <2>4. \A k, l \in 1..(Len(txs) - 1) : k < l =>
          (IF k < i THEN txs[k] ELSE txs[k + 1]).n < (IF l < i THEN txs[l] ELSE txs[l + 1]).n
    <3> SUFFICES ASSUME NEW k \in 1..(Len(txs) - 1), NEW l \in 1..(Len(txs) - 1), k < l
                 PROVE  (IF k < i THEN txs[k] ELSE txs[k + 1]).n
                          < (IF l < i THEN txs[l] ELSE txs[l + 1]).n
      OBVIOUS
    <3>0. /\ k \in 1..Len(txs) /\ l \in 1..Len(txs) /\ k + 1 \in 1..Len(txs)
          /\ l + 1 \in 1..Len(txs) /\ k < l + 1 /\ k + 1 < l + 1 /\ i \in Nat
          /\ l < i => k < i
      BY <1>1, <2>3
    <3>1. txs[k].n < txs[l].n /\ txs[k].n < txs[l + 1].n /\ txs[k + 1].n < txs[l + 1].n
      BY <1>1, <3>0
    <3> QED
      BY <3>0, <3>1
  <2> QED
    BY <1>1, <2>1, <2>2, <2>3, <2>4
<1>3. CASE new # Deleted
  <2>1. PutAt(txs, i, new) = [txs EXCEPT ![i].stmts = new]
    BY <1>3 DEF PutAt
  <2>2. DOMAIN [txs EXCEPT ![i].stmts = new] = DOMAIN txs
    OBVIOUS
  <2>3. \A k \in DOMAIN txs : /\ [txs EXCEPT ![i].stmts = new][k].n = txs[k].n
                              /\ [txs EXCEPT ![i].stmts = new][k].branch = txs[k].branch
    BY <1>1 DEF Transactions
  <2> QED
    BY <2>1, <2>2, <2>3
<1> QED
  BY <1>2, <1>3

(* The queues start in branch order, the log empty.                        *)
LEMMA InitOrder == Init => QueueBranches /\ BranchOrderKept
<1> SUFFICES ASSUME Init PROVE QueueBranches /\ BranchOrderKept
  OBVIOUS
<1>1. PICK w \in Workloads : origin = [b \in Branches |-> NumberedLog(b, w)]
  BY DEF Init
<1>2. \A b \in Branches : /\ queue[b] = NumberedLog(b, w)
                         /\ w[b] \in Seq(Seq(Statements))
  BY <1>1, WorkloadsAssumption DEF Init
<1>3. \A b \in Branches : /\ DOMAIN queue[b] = 1..Len(w[b]) /\ Len(w[b]) \in Nat
                         /\ \A i \in DOMAIN queue[b] : queue[b][i].n = i /\ queue[b][i].branch = b
  <2> SUFFICES ASSUME NEW b \in Branches
               PROVE  /\ DOMAIN queue[b] = 1..Len(w[b]) /\ Len(w[b]) \in Nat
                      /\ \A i \in DOMAIN queue[b] : queue[b][i].n = i /\ queue[b][i].branch = b
    OBVIOUS
  <2>1. DOMAIN w[b] = 1..Len(w[b]) /\ Len(w[b]) \in Nat
    BY <1>2, LenProperties
  <2>2. queue[b] = [i \in DOMAIN w[b] |-> [branch |-> b, n |-> i, stmts |-> w[b][i]]]
    BY <1>2 DEF NumberedLog
  <2> QED
    BY <2>1, <2>2
<1>4. DOMAIN log = {}
  BY DEF Init
<1> QED
  BY <1>3, <1>4 DEF QueueBranches, BranchOrderKept

(* Nothing but the head's acceptance and the user's edits touches the log  *)
(* or a queue.                                                             *)
LEMMA NextOrder ==
  ASSUME Inv, QueueBranches, BranchOrderKept, [Next]_vars
  PROVE  QueueBranches' /\ BranchOrderKept'
<1> DEFINE Sorted(txs) == \A i, j \in DOMAIN txs : i < j => txs[i].n < txs[j].n
<1>0. /\ queue \in [Branches -> Logs] /\ log \in Seq(Transactions) /\ turn \in Branches
      /\ Other(turn) \in Branches /\ Other(turn) # turn
      /\ \A b \in Branches : b = turn \/ b = Other(turn)
  BY DEF Inv, TypeOK, LogTypes, TurnTypes, Logs, Branches, Other
<1>1. CASE UNCHANGED <<queue, log>>
  BY <1>1 DEF QueueBranches, BranchOrderKept
<1>2. CASE AcceptHead
  <2>1. /\ queue[turn] # <<>> /\ Head0 \in Transactions /\ Head0 = queue[turn][1]
        /\ queue[turn] \in Seq(Transactions) /\ 1 \in DOMAIN queue[turn]
    BY <1>0, <1>2, HeadType, LenProperties DEF Inv, Positions, AcceptHead, Logs
  <2>2. /\ log' = Append(log, Head0)
        /\ queue' = [queue EXCEPT ![turn] = Tail(queue[turn])]
    BY <1>2 DEF AcceptHead
  <2>3. /\ DOMAIN log' = 1..(Len(log) + 1) /\ DOMAIN log = 1..Len(log) /\ Len(log) \in Nat
        /\ \A i \in 1..Len(log) : log'[i] = log[i]
        /\ log'[Len(log) + 1] = Head0
    BY <1>0, <2>1, <2>2, AppendProperties, LenProperties
  <2>4. /\ DOMAIN Tail(queue[turn]) = 1..(Len(queue[turn]) - 1)
        /\ DOMAIN queue[turn] = 1..Len(queue[turn]) /\ Len(queue[turn]) \in Nat
        /\ \A i \in DOMAIN Tail(queue[turn]) : Tail(queue[turn])[i] = queue[turn][i + 1]
    BY <2>1, HeadTailProperties, LenProperties
  <2>5. \A b \in Branches \ {turn} : queue'[b] = queue[b]
    BY <1>0, <2>2
  <2>6. queue'[turn] = Tail(queue[turn]) /\ Head0.branch = turn
    BY <1>0, <2>1, <2>2 DEF QueueBranches
  <2>7. QueueBranches'
    <3>1. \A i \in DOMAIN Tail(queue[turn]) : i + 1 \in DOMAIN queue[turn]
      BY <2>4
    <3>2. \A i \in DOMAIN queue'[turn] : queue'[turn][i].branch = turn
      BY <1>0, <2>4, <2>6, <3>1 DEF QueueBranches
    <3>3. \A b \in Branches \ {turn} : \A i \in DOMAIN queue'[b] : queue'[b][i].branch = b
      BY <2>5 DEF QueueBranches
    <3> QED
      BY <3>2, <3>3 DEF QueueBranches
  <2>8. BranchOrderKept'
    <3> SUFFICES ASSUME NEW b \in Branches
                 PROVE  LET done == {i \in DOMAIN log' : log'[i].branch = b}
                            left == DOMAIN queue'[b]
                        IN  /\ \A i, j \in done : i < j => log'[i].n < log'[j].n
                            /\ \A i, j \in left : i < j => queue'[b][i].n < queue'[b][j].n
                            /\ \A i \in done, j \in left : log'[i].n < queue'[b][j].n
      BY DEF BranchOrderKept
    <3>1. /\ \A i, j \in 1..Len(log) : i < j /\ log[i].branch = b /\ log[j].branch = b
                                      => log[i].n < log[j].n
          /\ Sorted(queue[b])
          /\ \A i \in 1..Len(log), j \in DOMAIN queue[b] :
                log[i].branch = b => log[i].n < queue[b][j].n
      BY <2>3 DEF BranchOrderKept
    <3>2. CASE b = turn
      <4>1. \A i \in DOMAIN queue'[b] : /\ i + 1 \in DOMAIN queue[turn] /\ i \in Nat /\ 1 < i + 1
                                       /\ queue'[b][i] = queue[turn][i + 1]
        <5>1. /\ DOMAIN queue'[b] = 1..(Len(queue[turn]) - 1)
              /\ \A i \in DOMAIN queue'[b] : queue'[b][i] = queue[turn][i + 1]
          BY <2>4, <2>6, <3>2
        <5>2. \A i \in 1..(Len(queue[turn]) - 1) :
                i \in Nat /\ 1 < i + 1 /\ i + 1 \in 1..Len(queue[turn])
          BY <2>4
        <5> QED
          BY <2>4, <5>1, <5>2
      <4>2. \A i \in DOMAIN queue'[b] : Head0.n < queue'[b][i].n
        BY <2>1, <3>1, <3>2, <4>1
      <4>3. \A i, j \in DOMAIN queue'[b] : i < j => queue'[b][i].n < queue'[b][j].n
        BY <3>1, <3>2, <4>1
      <4>4. \A i \in 1..Len(log) : log[i].branch = b => log[i].n < Head0.n
        BY <2>1, <3>1, <3>2
      <4>5. \A i \in 1..Len(log), j \in DOMAIN queue'[b] :
              log[i].branch = b => log[i].n < queue'[b][j].n
        BY <3>1, <3>2, <4>1
      <4> QED
        BY <2>3, <3>1, <4>2, <4>3, <4>4, <4>5
    <3>3. CASE b # turn
      BY <2>3, <2>5, <2>6, <3>1, <3>3
    <3> QED
      BY <3>2, <3>3
  <2> QED
    BY <2>7, <2>8
<1>3. CASE /\ log' = log
           /\ \A b \in Branches :
                \/ queue'[b] = queue[b]
                \/ \E i \in 1..Len(queue[b]) : \E new : queue'[b] = PutAt(queue[b], i, new)
  <2> SUFFICES ASSUME NEW b \in Branches
               PROVE  /\ Sorted(queue'[b])
                      /\ \A k \in DOMAIN queue'[b] : \E m \in DOMAIN queue[b] :
                           /\ queue'[b][k].n = queue[b][m].n
                           /\ queue'[b][k].branch = queue[b][m].branch
    BY <1>3 DEF QueueBranches, BranchOrderKept
  <2>1. Sorted(queue[b])
    BY DEF BranchOrderKept
  <2>2. CASE queue'[b] = queue[b]
    BY <2>1, <2>2
  <2>3. ASSUME NEW i \in 1..Len(queue[b]), NEW new, queue'[b] = PutAt(queue[b], i, new)
        PROVE  /\ Sorted(queue'[b])
               /\ \A k \in DOMAIN queue'[b] : \E m \in DOMAIN queue[b] :
                    /\ queue'[b][k].n = queue[b][m].n
                    /\ queue'[b][k].branch = queue[b][m].branch
    BY <1>0, <2>1, <2>3, PutAtOrder
  <2> QED
    BY <1>3, <2>2, <2>3
<1>4. CASE ResolvePair
  <2>1. /\ queue[turn] # <<>> /\ 1 \in 1..Len(queue[turn])
        /\ next \in 1..Len(queue[Other(turn)])
    BY <1>4, HeadType, CandidateType DEF Inv, Positions, ResolvePair, OtherQueue
  <2>2. PICK cur, oth :
          queue' = [queue EXCEPT
                     ![turn] = IF cur = Head0.stmts THEN @ ELSE PutAt(@, 1, cur),
                     ![Other(turn)] = IF oth = Candidate.stmts THEN @ ELSE PutAt(@, next, oth)]
    BY <1>4 DEF ResolvePair
  <2>3. /\ queue'[turn] = IF cur = Head0.stmts THEN queue[turn] ELSE PutAt(queue[turn], 1, cur)
        /\ queue'[Other(turn)] = IF oth = Candidate.stmts THEN queue[Other(turn)]
                                 ELSE PutAt(queue[Other(turn)], next, oth)
    BY <1>0, <2>2
  <2>4. log' = log
    BY <1>4 DEF ResolvePair
  <2> QED
    BY <1>0, <1>3, <2>1, <2>3, <2>4
<1>5. CASE ResolveStandalone
  <2>1. 1 \in 1..Len(queue[turn])
    BY <1>5, HeadType DEF Inv, Positions, ResolveStandalone
  <2>2. PICK new : queue' = [queue EXCEPT ![turn] = PutAt(@, 1, new)]
    BY <1>5 DEF ResolveStandalone
  <2>3. /\ queue'[turn] = PutAt(queue[turn], 1, new)
        /\ queue'[Other(turn)] = queue[Other(turn)]
    BY <1>0, <2>2
  <2>4. log' = log
    BY <1>5 DEF ResolveStandalone
  <2> QED
    BY <1>0, <1>3, <2>1, <2>3, <2>4
<1>6. CASE \/ EmptyTurn \/ UnsafeHead \/ ApplyUnscanned \/ OpenScan \/ ResumeScan
           \/ StartStatement \/ Started \/ ScanCheck \/ ScanExhausted \/ AdvanceStatement
           \/ AdvanceFails \/ AdvanceScan \/ WriteResult \/ AcceptPair \/ Interrupt
  <2>1. UNCHANGED <<queue, log>>
    BY <1>6 DEF EmptyTurn, UnsafeHead, ApplyUnscanned, OpenScan, ResumeScan, StartStatement,
       Started, ScanCheck, ScanExhausted, AdvanceStatement, AdvanceFails, AdvanceScan,
       WriteResult, AcceptPair, Interrupt
  <2> QED
    BY <1>1, <2>1
<1>7. CASE UNCHANGED vars
  BY <1>1, <1>7 DEF vars
<1> QED
  BY <1>2, <1>4, <1>5, <1>6, <1>7, Zenon DEF Next, Program, User, Exited

(* Whatever the user deletes or rewrites, and in whatever turn, the merge  *)
(* never replays a branch's transactions out of their own order, nor one   *)
(* of them twice.                                                          *)
THEOREM BranchOrderIsKept == Spec => []BranchOrderKept
<1>1. Init => OrderInv
  BY InitInv, InitOrder DEF OrderInv
<1>2. OrderInv /\ [Next]_vars => OrderInv'
  BY NextInv, NextOrder DEF OrderInv
<1>3. OrderInv => BranchOrderKept
  BY DEF OrderInv
<1> QED
  BY <1>1, <1>2, <1>3, PTL DEF Spec

-----------------------------------------------------------------------------
(***************************************************************************)
(* What the two databases of the merge loop hold, as replays of the        *)
(* transactions the loop has taken: ScanStates.  It is proved from         *)
(* Replayed, which counts from the merged database (the bottom of the      *)
(* savepoint stack) and says what every replay in progress has done so     *)
(* far.                                                                    *)
(***************************************************************************)

(* The opposite transactions the open scan has passed.                     *)
Passed == StatementsOfLog(SubSeq(OtherQueue, 1, next - 1))

(* m and c are what the scan has made of the merged database: the passed   *)
(* transactions on m, and the same behind the current head on c.           *)
AtScanPoint(m, c) ==
  /\ Replay(Passed, MergedSoFar) = Ok(m)
  /\ Replay(OnControl(Head0.stmts \o Passed), MergedSoFar) = Ok(c)

(* The merged database is the replay of the log, whatever is in progress.  *)
LogReplayed == Replay(StatementsOfLog(log), base) = Ok(MergedSoFar)

(* Between its checks an open scan stands at its scan point.               *)
ScanReplayed ==
  pc \in {"scan", "pair"} \/ (pc = "turn" /\ ScanOpen) => AtScanPoint(main, control)

(* The control copy has the first statements of the head, main has none.   *)
StartReplayed ==
  pc = "start" =>
    /\ next = 1 /\ walk.at <= Len(Head0.stmts) + 1 /\ main = MergedSoFar
    /\ Replay(OnControl(Before(Head0.stmts, walk.at)), MergedSoFar) = Ok(control)

(* A replay in progress has run the first statements of its transaction on *)
(* what its savepoint holds.                                               *)
WalkReplayed ==
  pc = "advance" =>
    /\ walk.at <= Len(Walked.stmts) + 1
    /\ walk.purpose = "apply" =>
         Replay(Before(Head0.stmts, walk.at), MergedSoFar) = Ok(main)
    /\ walk.purpose # "apply" =>
         /\ AtScanPoint(saves[2].main, saves[2].control)
         /\ Replay(Before(Candidate.stmts, walk.at), saves[2].main) = Ok(main)
         /\ Replay(OnControl(Before(Candidate.stmts, walk.at)), saves[2].control) = Ok(control)

Replayed == LogReplayed /\ ScanReplayed /\ StartReplayed /\ WalkReplayed

(* A scan is only opened for a head with statements and never runs past    *)
(* the end of the other queue, the result is written when nothing is left, *)
(* once, and the user accepts only reviewable conflicts.                   *)
Bookkeeping ==
  /\ ScanOpen => Head0.stmts # <<>> /\ next <= Len(OtherQueue) + 1
  /\ pc = "write" => \A b \in Branches : queue[b] = <<>>
  /\ merged # <<>> => pc = "done"
  /\ \A key \in accepted : Reviewable(key[3])

-----------------------------------------------------------------------------
(* The statements of a log, transaction after transaction.                 *)
LEMMA LogStatements ==
  ASSUME NEW txs \in Logs, NEW t \in Transactions
  PROVE  /\ StatementsOfLog(txs) \in Seq(Statements)
         /\ StatementsOfLog(Append(txs, t)) = StatementsOfLog(txs) \o t.stmts
<1> DEFINE lists(q) == [i \in DOMAIN q |-> q[i].stmts]
<1>1. txs \in Seq(Transactions) /\ t.stmts \in Seq(Statements)
  BY DEF Logs, Transactions
<1>2. /\ DOMAIN txs = 1..Len(txs) /\ Len(txs) \in Nat
      /\ \A i \in 1..Len(txs) : txs[i].stmts \in Seq(Statements)
  <2>1. DOMAIN txs = 1..Len(txs) /\ Len(txs) \in Nat
    BY <1>1, LenProperties
  <2>2. \A i \in 1..Len(txs) : txs[i] \in Transactions
    BY <1>1, ElementOfSeq
  <2> QED
    BY <2>1, <2>2 DEF Transactions
<1>3. lists(txs) \in Seq(Seq(Statements))
  BY <1>2
<1>4. lists(Append(txs, t)) = Append(lists(txs), t.stmts)
  BY <1>1, <1>2
<1>5. FlattenSeq(lists(txs)) \in Seq(Statements)
  BY <1>3, FlattenType
<1>6. FlattenSeq(Append(lists(txs), t.stmts)) = FlattenSeq(lists(txs)) \o t.stmts
  BY <1>1, <1>3, FlattenAppend
<1> QED
  BY <1>4, <1>5, <1>6 DEF StatementsOfLog

(* An empty log has no statements.                                         *)
LEMMA EmptyLog == StatementsOfLog(<<>>) = <<>>
<1>1. [i \in DOMAIN <<>> |-> <<>>[i].stmts] = <<>>
  OBVIOUS
<1> QED
  BY <1>1, FlattenEmpty DEF StatementsOfLog

(* Nothing comes before the first statement, everything before the end.    *)
LEMMA BeforeEnds ==
  ASSUME NEW ss \in Seq(Statements)
  PROVE  /\ Before(ss, 1) = <<>> /\ OnControl(Before(ss, 1)) = <<>>
         /\ Before(ss, Len(ss) + 1) = ss /\ Len(ss) \in Nat
<1>1. Before(ss, 1) = <<>> /\ Before(ss, Len(ss) + 1) = ss /\ Len(ss) \in Nat
  BY LenProperties DEF Before
<1>2. OnControl(<<>>) = <<>>
  BY DEF OnControl
<1> QED
  BY <1>1, <1>2

(* A statement that succeeds takes the replay one step further, on main in *)
(* its own form and on the control copy in its control form.               *)
LEMMA BeforeNext ==
  ASSUME NEW ss \in Seq(Statements), NEW i \in 1..Len(ss), NEW db, NEW m
  PROVE  /\ Replay(Before(ss, i), db) = Ok(m) /\ Succeeds(ss[i], m)
              => Replay(Before(ss, i + 1), db) = Ok(Result(ss[i], m))
         /\ Replay(OnControl(Before(ss, i)), db) = Ok(m) /\ Succeeds(ControlForm(ss[i]), m)
              => Replay(OnControl(Before(ss, i + 1)), db) = Ok(Result(ControlForm(ss[i]), m))
<1>1. \A s : Succeeds(s, m) => Continue(Ok(m), s) = Ok(Result(s, m))
  BY DEF Continue, Ok
<1>2. i \in Nat /\ (i + 1) - 1 = i /\ i - 1 \in 0..Len(ss) /\ i \in 0..Len(ss)
  BY LenProperties
<1>3. Replay(Before(ss, i + 1), db) = Continue(Replay(Before(ss, i), db), ss[i])
  BY <1>2, ReplayNext DEF Before
<1> DEFINE cc == OnControl(ss)
           C == {ControlForm(s) : s \in Statements}
<1>4. cc \in Seq(C) /\ Len(cc) = Len(ss) /\ cc[i] = ControlForm(ss[i])
  BY OnControlSeq
<1>5. /\ OnControl(Before(ss, i)) = SubSeq(cc, 1, i - 1)
      /\ OnControl(Before(ss, i + 1)) = SubSeq(cc, 1, i)
  BY <1>2, OnControlPrefix DEF Before
<1> HIDE DEF cc, C
<1>6. Replay(SubSeq(cc, 1, i), db) = Continue(Replay(SubSeq(cc, 1, i - 1), db), cc[i])
  BY <1>4, ReplayNext
<1> QED
  BY <1>1, <1>3, <1>4, <1>5, <1>6

-----------------------------------------------------------------------------
(* The bottom of the savepoint stack is the merged database.               *)
LEMMA MergedFacts ==
  ASSUME Inv
  PROVE  /\ MergedSoFar \in Databases /\ saves \in Seq(Saves)
         /\ saves = <<>> => MergedSoFar = main /\ main = control
         /\ saves # <<>> => /\ MergedSoFar = saves[1].main /\ MergedSoFar = saves[1].control
                            /\ Len(saves) \in Nat \ {0}
<1>1. saves \in Seq(Saves) /\ main \in Databases
  BY DEF Inv, TypeOK, DbTypes
<1>2. saves # <<>> => Len(saves) \in Nat \ {0} /\ saves[1] \in Saves
  BY <1>1, EmptySeq, LenProperties, ElementOfSeq
<1>3. saves # <<>> => saves[1].main \in Databases
  BY <1>2 DEF Saves
<1> QED
  BY <1>1, <1>2, <1>3 DEF Inv, Savepoints, MergedSoFar

(* How many savepoints there are, by what is open.                         *)
LEMMA StackFacts ==
  ASSUME Inv
  PROVE  /\ pc # "advance" /\ ScanOpen => saves # <<>> /\ Len(saves) = 1
         /\ pc # "advance" /\ ~ScanOpen => saves = <<>>
         /\ pc = "advance" => /\ saves # <<>>
                              /\ Len(saves) = IF walk.purpose = "apply" THEN 1 ELSE 2
<1>1. Len(saves) = (IF ScanOpen THEN 1 ELSE 0) + (IF pc = "advance" THEN 1 ELSE 0)
  BY DEF Inv, Savepoints
<1>2. pc = "advance" => (walk.purpose = "apply" <=> ~ScanOpen)
  BY DEF Inv, Positions
<1>3. saves = <<>> <=> Len(saves) = 0
  BY EmptySeq DEF Inv, TypeOK, DbTypes
<1> QED
  BY <1>1, <1>2, <1>3

(* A savepoint on top of it does not change it.                            *)
LEMMA PushKeeps ==
  ASSUME Inv, Savepoint, UNCHANGED <<main, control>>
  PROVE  /\ MergedSoFar' = MergedSoFar /\ saves' # <<>>
         /\ saves'[Len(saves) + 1] = [main |-> main, control |-> control]
<1>1. /\ DbTypes' /\ Len(saves') = Len(saves) + 1
      /\ saves # <<>> => saves'[1] = saves[1]
      /\ saves = <<>> => saves'[1].main = main
  BY SavepointStep DEF Inv, TypeOK
<1>2. saves \in Seq(Saves) /\ [main |-> main, control |-> control] \in Saves
  BY DEF Inv, TypeOK, DbTypes, Saves
<1>3. saves' # <<>> /\ saves'[Len(saves) + 1] = [main |-> main, control |-> control]
  BY <1>2, AppendProperties, EmptySeq, LenProperties DEF Savepoint
<1> QED
  BY <1>1, <1>3, MergedFacts DEF MergedSoFar

(* Nor does rolling back to one; the databases are then what it held.      *)
LEMMA RollbackKeeps ==
  ASSUME Inv, saves # <<>>, RollbackTop
  PROVE  /\ MergedSoFar' = MergedSoFar
         /\ main' = saves[Len(saves)].main /\ control' = saves[Len(saves)].control
<1>1. /\ saves' # <<>> => saves'[1] = saves[1]
      /\ saves' = <<>> => main' = saves[1].main
  BY RollbackStep DEF Inv, TypeOK
<1>2. main' = saves[Len(saves)].main /\ control' = saves[Len(saves)].control
  BY DEF RollbackTop, Last
<1> QED
  BY <1>1, <1>2, MergedFacts DEF MergedSoFar

(* Closing the scan puts both databases back to it.                        *)
LEMMA CloseKeeps ==
  ASSUME Inv, pc # "advance", CloseScan
  PROVE  MergedSoFar' = MergedSoFar /\ ~ScanOpen'
<1>1. saves' = <<>> /\ ~ScanOpen'
  BY CloseScanStep
<1>2. CASE ScanOpen
  <2>1. RollbackTop
    BY <1>2, Zenon DEF CloseScan
  <2>2. saves # <<>>
    BY <1>2, EmptySeq DEF Inv, Savepoints
  <2> QED
    BY <1>1, <2>1, <2>2, RollbackKeeps
<1>3. CASE ~ScanOpen
  BY <1>1, <1>3 DEF CloseScan, dbVars, MergedSoFar
<1> QED
  BY <1>1, <1>2, <1>3

(* The scan point is made of the head and of what the scan has passed.     *)
LEMMA ScanPointKept ==
  ASSUME UNCHANGED <<queue, turn, next>>
  PROVE  /\ Head0' = Head0 /\ OtherQueue' = OtherQueue /\ Candidate' = Candidate
         /\ Passed' = Passed
<1>1. Head0' = Head0 /\ OtherQueue' = OtherQueue
  BY DEF Head0, OtherQueue
<1>2. Candidate' = Candidate /\ Passed' = Passed
  BY <1>1 DEF Candidate, Passed, StatementsOfLog
<1> QED
  BY <1>1, <1>2

(* The log stays replayed while log, base and merged database stay.        *)
LEMMA LogKept ==
  ASSUME Replayed, UNCHANGED <<base, log>>, MergedSoFar' = MergedSoFar
  PROVE  LogReplayed'
BY DEF Replayed, LogReplayed, StatementsOfLog

(* Steps that end in a state of which only the log is said.                *)
LEMMA QuietStep ==
  ASSUME Replayed, UNCHANGED <<base, log>>, MergedSoFar' = MergedSoFar,
         pc' \in {"turn", "standalone", "write", "done", "failed", "aborted"},
         pc' = "turn" => ~ScanOpen'
  PROVE  Replayed'
<1>1. LogReplayed'
  BY LogKept
<1>2. pc' \notin {"scan", "pair", "start", "advance"} /\ ~(pc' = "turn" /\ ScanOpen')
  OBVIOUS
<1> QED
  BY <1>1, <1>2 DEF Replayed, ScanReplayed, StartReplayed, WalkReplayed

-----------------------------------------------------------------------------
(* Every action keeps the databases what they are said to be.              *)
(* Actions that replay nothing.                                            *)
LEMMA EmptyTurnReplayed == ASSUME Inv, Replayed, EmptyTurn PROVE Replayed'
<1>1. UNCHANGED <<base, log>> /\ MergedSoFar' = MergedSoFar
  BY DEF EmptyTurn, fixed, dbVars, MergedSoFar
<1>2. pc' \in {"turn", "write"} /\ ~ScanOpen'
  BY PassTurnStep DEF Inv, TypeOK, Positions, EmptyTurn, scanVars, ScanOpen
<1> QED
  BY <1>1, <1>2, QuietStep

(* A head that cannot be replayed: an open scan is closed.                 *)
LEMMA UnsafeHeadReplayed == ASSUME Inv, Replayed, UnsafeHead PROVE Replayed'
<1>1. UNCHANGED <<base, log>> /\ pc' = "standalone"
  BY DEF UnsafeHead, fixed, Ask
<1>2. MergedSoFar' = MergedSoFar
  BY CloseKeeps DEF UnsafeHead
<1> QED
  BY <1>1, <1>2, QuietStep

(* The program is interrupted at a prompt.                                 *)
LEMMA InterruptReplayed == ASSUME Inv, Replayed, Interrupt PROVE Replayed'
<1>1. UNCHANGED <<base, log>> /\ pc' = "aborted" /\ MergedSoFar' = MergedSoFar
  BY DEF Interrupt, fixed, dbVars, MergedSoFar
<1> QED
  BY <1>1, QuietStep

(* The result is written, or not.                                          *)
LEMMA WriteResultReplayed == ASSUME Inv, Replayed, WriteResult PROVE Replayed'
<1>1. /\ UNCHANGED <<base, log>> /\ pc' \in {"done", "failed"}
      /\ MergedSoFar' = MergedSoFar
  BY DEF WriteResult, fixed, dbVars, MergedSoFar
<1> QED
  BY <1>1, QuietStep

(* The scan goes on where an edit of the candidate left it.                *)
LEMMA ResumeScanReplayed == ASSUME Inv, Replayed, ResumeScan PROVE Replayed'
<1>1. /\ UNCHANGED <<base, log, queue, turn, next, main, control>> /\ pc' = "scan"
      /\ pc = "turn" /\ ScanOpen /\ MergedSoFar' = MergedSoFar
  BY DEF ResumeScan, SafeHead, fixed, dbVars, scanVars, MergedSoFar
<1>2. AtScanPoint(main, control)
  BY <1>1 DEF Replayed, ScanReplayed
<1>3. AtScanPoint(main, control)'
  BY <1>1, <1>2, ScanPointKept DEF AtScanPoint
<1>4. LogReplayed'
  BY <1>1, LogKept
<1> QED
  BY <1>1, <1>3, <1>4 DEF Replayed, ScanReplayed, StartReplayed, WalkReplayed

(* The transactions a replay can be about are sequences of statements.     *)
LEMMA WalkedStatements ==
  ASSUME Inv
  PROVE  /\ queue[turn] # <<>> => Head0.stmts \in Seq(Statements)
         /\ next <= Len(OtherQueue) => Candidate.stmts \in Seq(Statements)
<1>1. queue[turn] # <<>> => Head0 \in Transactions
  BY HeadType DEF Inv
<1>2. next <= Len(OtherQueue) => Candidate \in Transactions
  BY CandidateType DEF Inv
<1> QED
  BY <1>1, <1>2 DEF Transactions

(* The replay of the head begins.                                          *)
LEMMA ApplyUnscannedReplayed == ASSUME Inv, Replayed, ApplyUnscanned PROVE Replayed'
<1>1. /\ UNCHANGED <<base, log, queue, turn, next, main, control>> /\ Savepoint
      /\ pc = "turn" /\ ~ScanOpen /\ pc' = "advance" /\ queue[turn] # <<>>
      /\ walk'.purpose = "apply" /\ walk'.at = 1
  BY DEF ApplyUnscanned, SafeHead, BeginWalk, fixed, scanVars
<1>2. MergedSoFar' = MergedSoFar
  BY <1>1, PushKeeps
<1>3. LogReplayed'
  BY <1>1, <1>2, LogKept
<1>4. MergedSoFar = main
  BY <1>1, EmptySeq, MergedFacts DEF Inv, Savepoints
<1>5. Head0.stmts \in Seq(Statements)
  BY <1>1, WalkedStatements
<1>6. Head0' = Head0 /\ Walked' = Head0
  BY <1>1, ScanPointKept DEF Walked
<1>7. /\ Replay(Before(Head0.stmts, 1), MergedSoFar) = Ok(MergedSoFar)
      /\ Len(Head0.stmts) \in Nat
  BY <1>5, BeforeEnds, ReplayEmpty
<1>8. WalkReplayed'
  <2>1. walk'.at <= Len(Head0.stmts) + 1
    BY <1>1, <1>7
  <2>2. Replay(Before(Head0'.stmts, walk'.at), MergedSoFar') = Ok(main')
    BY <1>1, <1>2, <1>4, <1>6, <1>7
  <2> QED
    BY <1>1, <1>6, <2>1, <2>2 DEF WalkReplayed
<1> QED
  BY <1>1, <1>3, <1>8 DEF Replayed, ScanReplayed, StartReplayed

(* The scan opens: nothing has been replayed yet.                          *)
LEMMA OpenScanReplayed == ASSUME Inv, Replayed, OpenScan PROVE Replayed'
<1>1. /\ UNCHANGED <<base, log, queue, turn, main, control>> /\ Savepoint
      /\ pc = "turn" /\ ~ScanOpen /\ pc' = "start" /\ queue[turn] # <<>>
      /\ walk'.at = 1 /\ next' = 1
  BY DEF OpenScan, SafeHead, fixed, Idle
<1>2. MergedSoFar' = MergedSoFar
  BY <1>1, PushKeeps
<1>3. LogReplayed'
  BY <1>1, <1>2, LogKept
<1>4. MergedSoFar = main /\ main = control
  BY <1>1, EmptySeq, MergedFacts DEF Inv, Savepoints
<1>5. Head0.stmts \in Seq(Statements) /\ Head0' = Head0
  BY <1>1, WalkedStatements DEF Head0
<1>6. /\ Replay(OnControl(Before(Head0.stmts, 1)), MergedSoFar) = Ok(MergedSoFar)
      /\ Len(Head0.stmts) \in Nat
  BY <1>5, BeforeEnds, ReplayEmpty
<1>7. StartReplayed'
  <2>1. walk'.at <= Len(Head0'.stmts) + 1
    BY <1>1, <1>5, <1>6
  <2>2. Replay(OnControl(Before(Head0'.stmts, walk'.at)), MergedSoFar') = Ok(control')
    BY <1>1, <1>2, <1>4, <1>5, <1>6
  <2> QED
    BY <1>1, <1>2, <1>4, <2>1, <2>2 DEF StartReplayed
<1> QED
  BY <1>1, <1>3, <1>7 DEF Replayed, ScanReplayed, WalkReplayed

(* One statement of the head on the control copy.                          *)
LEMMA StartStatementReplayed == ASSUME Inv, Replayed, StartStatement PROVE Replayed'
<1> DEFINE ss == Head0.stmts
           s == ss[walk.at]
<1>1. /\ UNCHANGED <<base, log, queue, turn, main, saves, next, kinds>>
      /\ pc = "start" /\ walk.at <= Len(ss)
  BY DEF StartStatement, fixed
<1>2. queue[turn] # <<>> /\ ScanOpen /\ walk \in Walks /\ saves # <<>>
  <2>1. queue[turn] # <<>> /\ ScanOpen
    BY <1>1 DEF Inv, Positions
  <2>2. walk \in Walks
    BY DEF Inv, TypeOK, TurnTypes
  <2> QED
    BY <1>1, <2>1, <2>2, StackFacts
<1>3. MergedSoFar' = MergedSoFar
  BY <1>1, <1>2 DEF MergedSoFar
<1>4. ss \in Seq(Statements) /\ Head0' = Head0
  BY <1>1, <1>2, WalkedStatements DEF Head0
<1>5. walk.at \in 1..Len(ss)
  BY <1>1, <1>2, <1>4, LenProperties DEF Walks
<1>6. CASE /\ Succeeds(ControlForm(s), control)
           /\ control' = Result(ControlForm(s), control)
           /\ walk' = [walk EXCEPT !.at = @ + 1]
           /\ UNCHANGED <<pc, prompt>>
  <2>1. walk'.at = walk.at + 1
    BY <1>2, <1>6 DEF Walks
  <2>2. Replay(OnControl(Before(ss, walk.at)), MergedSoFar) = Ok(control)
    BY <1>1 DEF Replayed, StartReplayed
  <2>3. Replay(OnControl(Before(ss, walk'.at)), MergedSoFar) = Ok(control')
    <3> HIDE DEF ss
    <3>1. Replay(OnControl(Before(ss, walk.at + 1)), MergedSoFar)
            = Ok(Result(ControlForm(ss[walk.at]), control))
      BY <1>4, <1>5, <1>6, <2>2, BeforeNext
    <3> QED
      BY <1>6, <2>1, <3>1
  <2>4. next = 1 /\ main = MergedSoFar
    BY <1>1 DEF Replayed, StartReplayed
  <2>5. walk'.at <= Len(ss) + 1
    BY <1>4, <1>5, <2>1, LenProperties
  <2>6. StartReplayed'
    BY <1>1, <1>3, <1>4, <2>3, <2>4, <2>5 DEF StartReplayed
  <2>7. LogReplayed'
    BY <1>1, <1>3, LogKept
  <2> QED
    BY <1>1, <1>6, <2>6, <2>7 DEF Replayed, ScanReplayed, WalkReplayed
<1>7. CASE Ask("standalone", {Conflict("integrity", {})})
  <2>1. pc' = "standalone"
    BY <1>7 DEF Ask
  <2> QED
    BY <1>1, <1>3, <2>1, QuietStep
<1> QED
  BY <1>6, <1>7 DEF StartStatement

(* The whole head is on the control copy: the scan point of an empty scan. *)
LEMMA StartedReplayed == ASSUME Inv, Replayed, Started PROVE Replayed'
<1>1. /\ UNCHANGED <<base, log, queue, turn, next, main, control, saves>>
      /\ pc = "start" /\ walk.at > Len(Head0.stmts) /\ pc' = "scan"
  BY DEF Started, fixed, dbVars, scanVars
<1>2. queue[turn] # <<>> /\ walk.at \in Nat /\ OtherQueue \in Logs
  BY <1>1 DEF Inv, Positions, TypeOK, TurnTypes, LogTypes, Walks, OtherQueue, Other, Branches
<1>3. Head0.stmts \in Seq(Statements)
  BY <1>2, WalkedStatements
<1>4. MergedSoFar' = MergedSoFar
  BY <1>1 DEF MergedSoFar
<1>5. walk.at = Len(Head0.stmts) + 1
  BY <1>1, <1>2, <1>3, LenProperties DEF Replayed, StartReplayed
<1>6. Passed = <<>>
  <2>1. next = 1
    BY <1>1 DEF Replayed, StartReplayed
  <2>2. SubSeq(OtherQueue, 1, next - 1) = <<>>
    BY <1>2, <2>1 DEF Logs
  <2> QED
    BY <2>2, EmptyLog DEF Passed
<1>7. Replay(Passed, MergedSoFar) = Ok(main)
  BY <1>1, <1>6, ReplayEmpty DEF Replayed, StartReplayed
<1>8. Replay(OnControl(Head0.stmts \o Passed), MergedSoFar) = Ok(control)
  <2>1. Head0.stmts \o Passed = Head0.stmts
    BY <1>3, <1>6
  <2>2. Before(Head0.stmts, walk.at) = Head0.stmts
    BY <1>3, <1>5, BeforeEnds
  <2>3. Replay(OnControl(Before(Head0.stmts, walk.at)), MergedSoFar) = Ok(control)
    BY <1>1 DEF Replayed, StartReplayed
  <2> QED
    BY <2>1, <2>2, <2>3
<1>9. AtScanPoint(main, control)'
  BY <1>1, <1>4, <1>7, <1>8, ScanPointKept DEF AtScanPoint
<1>10. LogReplayed'
  BY <1>1, <1>4, LogKept
<1> QED
  BY <1>1, <1>9, <1>10 DEF Replayed, ScanReplayed, StartReplayed, WalkReplayed

(* A walk over the candidate begins at the scan point, which its savepoint *)
(* keeps.                                                                  *)
LEMMA WalkBegins ==
  ASSUME Inv, Replayed, pc \in {"scan", "pair"}, next <= Len(OtherQueue),
         UNCHANGED <<base, log, queue, turn, next, main, control>>, Savepoint,
         pc' = "advance", walk'.at = 1, walk'.purpose # "apply"
  PROVE  Replayed'
<1>1. ScanOpen /\ Candidate.stmts \in Seq(Statements)
  BY WalkedStatements DEF Inv, Positions
<1>2. MergedSoFar' = MergedSoFar /\ saves'[2] = [main |-> main, control |-> control]
  <2>0. pc # "advance"
    OBVIOUS
  <2>1. Len(saves) + 1 = 2
    <3>1. Len(saves) = 1
      BY <1>1, <2>0, StackFacts, Zenon
    <3> QED
      BY <3>1
  <2>2. UNCHANGED <<main, control>>
    OBVIOUS
  <2> QED
    BY <2>1, <2>2, PushKeeps
<1>3. LogReplayed'
  BY <1>2, LogKept
<1>4. /\ Head0' = Head0 /\ Candidate' = Candidate /\ Passed' = Passed
      /\ Walked' = Candidate
  BY ScanPointKept DEF Walked
<1>5. AtScanPoint(main, control)
  BY DEF Replayed, ScanReplayed
<1>6. AtScanPoint(saves[2].main, saves[2].control)'
  BY <1>2, <1>4, <1>5 DEF AtScanPoint
<1>7. /\ Replay(Before(Candidate.stmts, 1), main) = Ok(main)
      /\ Replay(OnControl(Before(Candidate.stmts, 1)), control) = Ok(control)
      /\ Len(Candidate.stmts) \in Nat
  BY <1>1, BeforeEnds, ReplayEmpty
<1>8. WalkReplayed'
  <2>1. walk'.at <= Len(Walked'.stmts) + 1
    BY <1>4, <1>7
  <2>2. /\ Replay(Before(Candidate'.stmts, walk'.at), saves'[2].main) = Ok(main')
        /\ Replay(OnControl(Before(Candidate'.stmts, walk'.at)), saves'[2].control) = Ok(control')
    BY <1>2, <1>4, <1>7
  <2> QED
    BY <1>6, <2>1, <2>2 DEF WalkReplayed
<1> QED
  BY <1>3, <1>8 DEF Replayed, ScanReplayed, StartReplayed

(* A check finds a conflict or starts a walk.                              *)
LEMMA ScanCheckReplayed == ASSUME Inv, Replayed, ScanCheck PROVE Replayed'
<1>1. /\ UNCHANGED <<base, log, queue, turn, next, kinds>>
      /\ pc = "scan" /\ next <= Len(OtherQueue)
  BY DEF ScanCheck, fixed, scanVars
<1>2. CASE /\ UNCHANGED <<main, control>> /\ Savepoint /\ pc' = "advance"
           /\ walk'.at = 1 /\ walk'.purpose \in {"check", "accept"}
  BY <1>1, <1>2, WalkBegins
<1>3. CASE pc' = "pair" /\ UNCHANGED dbVars
  <2>1. MergedSoFar' = MergedSoFar /\ UNCHANGED <<main, control>>
    BY <1>3 DEF dbVars, MergedSoFar
  <2>2. AtScanPoint(main, control)
    BY <1>1 DEF Replayed, ScanReplayed
  <2>3. AtScanPoint(main, control)'
    BY <1>1, <2>1, <2>2, ScanPointKept DEF AtScanPoint
  <2>4. LogReplayed'
    BY <1>1, <2>1, LogKept
  <2> QED
    BY <1>3, <2>3, <2>4 DEF Replayed, ScanReplayed, StartReplayed, WalkReplayed
<1>4. \/ /\ UNCHANGED <<main, control>> /\ Savepoint /\ pc' = "advance"
         /\ walk'.at = 1 /\ walk'.purpose \in {"check", "accept"}
      \/ pc' = "pair" /\ UNCHANGED dbVars
  BY DEF ScanCheck, Meet, BeginWalk, Ask
<1> QED
  BY <1>2, <1>3, <1>4

(* The user accepts a pair conflict: the candidate is replayed.            *)
LEMMA AcceptPairReplayed == ASSUME Inv, Replayed, AcceptPair PROVE Replayed'
<1>1. /\ UNCHANGED <<base, log, queue, turn, next, main, control>> /\ Savepoint
      /\ pc = "pair" /\ pc' = "advance" /\ walk'.at = 1 /\ walk'.purpose = "accept"
  BY DEF AcceptPair, BeginWalk, fixed, scanVars
<1>2. next <= Len(OtherQueue)
  BY <1>1 DEF Inv, Positions
<1> QED
  BY <1>1, <1>2, WalkBegins

(* The scan is undone and the head is replayed from the merged database.   *)
LEMMA ScanExhaustedReplayed == ASSUME Inv, Replayed, ScanExhausted PROVE Replayed'
<1>1. /\ UNCHANGED <<base, log, queue, turn>>
      /\ pc = "scan" /\ pc' = "advance" /\ walk'.at = 1 /\ walk'.purpose = "apply"
      /\ main' = Last(saves).main /\ control' = Last(saves).control
      /\ saves' = Append(Front(saves), [main |-> main', control |-> control'])
  BY DEF ScanExhausted, BeginWalk, fixed
<1>2. queue[turn] # <<>> /\ ScanOpen
  BY <1>1 DEF Inv, Positions
<1>3. saves # <<>> /\ Len(saves) = 1 /\ saves \in Seq(Saves)
  BY <1>1, <1>2, StackFacts, MergedFacts
<1>4. main' = MergedSoFar
  BY <1>1, <1>3, MergedFacts DEF Last
<1>5. MergedSoFar' = MergedSoFar
  <2>1. Front(saves) = <<>>
    BY <1>3, FrontType, EmptySeq
  <2>2. saves' = <<[main |-> main', control |-> control']>>
    BY <1>1, <2>1
  <2> QED
    BY <1>4, <2>2 DEF MergedSoFar
<1>6. LogReplayed'
  BY <1>1, <1>5, LogKept
<1>7. Head0' = Head0 /\ Walked' = Head0' /\ Head0.stmts \in Seq(Statements)
  BY <1>1, <1>2, WalkedStatements DEF Walked, Head0
<1>8. /\ Replay(Before(Head0.stmts, 1), MergedSoFar) = Ok(MergedSoFar)
      /\ Len(Head0.stmts) \in Nat
  BY <1>7, BeforeEnds, ReplayEmpty
<1>9. WalkReplayed'
  <2>1. walk'.at <= Len(Walked'.stmts) + 1
    BY <1>1, <1>7, <1>8
  <2>2. Replay(Before(Head0'.stmts, walk'.at), MergedSoFar') = Ok(main')
    BY <1>1, <1>4, <1>5, <1>7, <1>8
  <2> QED
    BY <1>1, <2>1, <2>2 DEF WalkReplayed
<1> QED
  BY <1>1, <1>6, <1>9 DEF Replayed, ScanReplayed, StartReplayed

(* A replay in progress reads a statement of its transaction.              *)
LEMMA WalkedAt ==
  ASSUME Inv, pc = "advance"
  PROVE  /\ Walked.stmts \in Seq(Statements) /\ walk \in Walks
         /\ walk.purpose = "apply" => Walked = Head0
         /\ walk.purpose # "apply" => Walked = Candidate
         /\ walk.at <= Len(Walked.stmts) => walk.at \in 1..Len(Walked.stmts)
<1>1. /\ walk.purpose = "apply" => Walked = Head0
      /\ walk.purpose # "apply" => Walked = Candidate
  BY DEF Walked
<1>2. queue[turn] # <<>> /\ (walk.purpose # "apply" => next <= Len(OtherQueue))
  BY DEF Inv, Positions
<1>3. Walked.stmts \in Seq(Statements)
  BY <1>1, <1>2, WalkedStatements
<1>4. walk \in Walks /\ walk.at \in Nat \ {0}
  BY DEF Inv, TypeOK, TurnTypes, Walks
<1>5. Len(Walked.stmts) \in Nat
  BY <1>3, LenProperties
<1> QED
  BY <1>1, <1>3, <1>4, <1>5

(* One statement on both databases.                                        *)
LEMMA AdvanceStatementReplayed == ASSUME Inv, Replayed, AdvanceStatement PROVE Replayed'
<1> DEFINE ss == Walked.stmts
           i == walk.at
<1>1. /\ UNCHANGED <<base, log, queue, turn, next, saves, pc>>
      /\ pc = "advance" /\ i <= Len(ss)
      /\ Succeeds(ControlForm(ss[i]), control) /\ Succeeds(ss[i], main)
      /\ control' = Result(ControlForm(ss[i]), control) /\ main' = Result(ss[i], main)
      /\ walk' = [walk EXCEPT !.at = @ + 1]
  BY DEF AdvanceStatement, fixed, scanVars
<1>2. /\ ss \in Seq(Statements) /\ i \in 1..Len(ss) /\ Len(ss) \in Nat
      /\ walk'.at = i + 1 /\ walk'.purpose = walk.purpose
  BY <1>1, WalkedAt, LenProperties DEF Walks
<1>3. MergedSoFar' = MergedSoFar /\ saves # <<>>
  BY <1>1, StackFacts DEF MergedSoFar
<1>4. LogReplayed'
  BY <1>1, <1>3, LogKept
<1>5. /\ Head0' = Head0 /\ Candidate' = Candidate /\ Passed' = Passed /\ Walked' = Walked
  BY <1>1, <1>2, ScanPointKept DEF Walked
<1>6. walk'.at <= Len(Walked'.stmts) + 1
  BY <1>2, <1>5
<1>7. CASE walk.purpose = "apply"
  <2>1. Replay(Before(ss, i), MergedSoFar) = Ok(main) /\ Walked = Head0
    BY <1>1, <1>7, WalkedAt DEF Replayed, WalkReplayed
  <2>2. Replay(Before(ss, i + 1), MergedSoFar) = Ok(main')
    <3> HIDE DEF ss, i
    <3> QED
      BY <1>1, <1>2, <2>1, BeforeNext
  <2>3. Replay(Before(Head0'.stmts, walk'.at), MergedSoFar') = Ok(main')
    BY <1>2, <1>3, <1>5, <2>1, <2>2
  <2>4. WalkReplayed'
    BY <1>2, <1>6, <1>7, <2>3 DEF WalkReplayed
  <2> QED
    BY <1>1, <1>4, <2>4 DEF Replayed, ScanReplayed, StartReplayed
<1>8. CASE walk.purpose # "apply"
  <2>1. /\ Replay(Before(ss, i), saves[2].main) = Ok(main) /\ Walked = Candidate
        /\ Replay(OnControl(Before(ss, i)), saves[2].control) = Ok(control)
        /\ AtScanPoint(saves[2].main, saves[2].control)
    BY <1>1, <1>8, WalkedAt DEF Replayed, WalkReplayed
  <2>2. Replay(Before(ss, i + 1), saves[2].main) = Ok(main')
    <3> HIDE DEF ss, i
    <3> QED
      BY <1>1, <1>2, <2>1, BeforeNext
  <2>3. Replay(OnControl(Before(ss, i + 1)), saves[2].control) = Ok(control')
    <3> HIDE DEF ss, i
    <3> QED
      BY <1>1, <1>2, <2>1, BeforeNext
  <2>4. AtScanPoint(saves[2].main, saves[2].control)'
    BY <1>1, <1>3, <1>5, <2>1 DEF AtScanPoint
  <2>5. /\ Replay(Before(Candidate'.stmts, walk'.at), saves'[2].main) = Ok(main')
        /\ Replay(OnControl(Before(Candidate'.stmts, walk'.at)), saves'[2].control) = Ok(control')
    BY <1>1, <1>2, <1>5, <2>1, <2>2, <2>3
  <2>6. WalkReplayed'
    BY <1>2, <1>6, <1>8, <2>4, <2>5 DEF WalkReplayed
  <2> QED
    BY <1>1, <1>4, <2>6 DEF Replayed, ScanReplayed, StartReplayed
<1> QED
  BY <1>7, <1>8

(* A statement fails: both databases are back at the savepoint, which the  *)
(* program keeps to go on with a conflict it has an answer for.            *)
LEMMA AdvanceFailsReplayed == ASSUME Inv, Replayed, AdvanceFails PROVE Replayed'
<1>1. /\ UNCHANGED <<base, log, queue, turn, next, kinds>> /\ pc = "advance"
  BY DEF AdvanceFails, fixed, scanVars
<1>2. saves # <<>> /\ Len(saves) = (IF walk.purpose = "apply" THEN 1 ELSE 2)
  BY <1>1, StackFacts
<1>3. /\ Head0' = Head0 /\ Candidate' = Candidate /\ Passed' = Passed
  BY <1>1, ScanPointKept
<1>4. walk.purpose # "apply" => AtScanPoint(saves[2].main, saves[2].control)
  BY <1>1 DEF Replayed, WalkReplayed
<1>5. CASE /\ walk.purpose = "check"
           /\ main' = Last(saves).main /\ control' = Last(saves).control
           /\ UNCHANGED saves
           /\ pc' = "advance" /\ walk'.at = 1 /\ walk'.purpose = "accept"
  <2>1. /\ MergedSoFar' = MergedSoFar
        /\ main' = saves[2].main /\ control' = saves[2].control
    BY <1>2, <1>5 DEF MergedSoFar, Last
  <2>2. AtScanPoint(saves[2].main, saves[2].control)'
    BY <1>3, <1>4, <1>5, <2>1 DEF AtScanPoint
  <2>3. Walked' = Candidate /\ Candidate.stmts \in Seq(Statements)
    BY <1>1, <1>3, <1>5, WalkedAt DEF Walked
  <2>4. /\ Replay(Before(Candidate.stmts, 1), saves[2].main) = Ok(saves[2].main)
        /\ Replay(OnControl(Before(Candidate.stmts, 1)), saves[2].control)
             = Ok(saves[2].control)
        /\ Len(Candidate.stmts) \in Nat
    BY <2>3, BeforeEnds, ReplayEmpty
  <2>5. /\ Replay(Before(Candidate'.stmts, walk'.at), saves'[2].main) = Ok(main')
        /\ Replay(OnControl(Before(Candidate'.stmts, walk'.at)), saves'[2].control) = Ok(control')
    BY <1>3, <1>5, <2>1, <2>4
  <2>6. walk'.at <= Len(Walked'.stmts) + 1
    BY <1>5, <2>3, <2>4
  <2>7. WalkReplayed'
    BY <1>5, <2>2, <2>5, <2>6 DEF WalkReplayed
  <2>8. LogReplayed'
    BY <1>1, <2>1, LogKept
  <2> QED
    BY <1>5, <2>7, <2>8 DEF Replayed, ScanReplayed, StartReplayed
<1>6. CASE walk.purpose # "apply" /\ RollbackTop /\ pc' = "pair"
  <2>1. /\ MergedSoFar' = MergedSoFar
        /\ main' = saves[2].main /\ control' = saves[2].control
    BY <1>2, <1>6, RollbackKeeps
  <2>2. AtScanPoint(main, control)'
    BY <1>3, <1>4, <1>6, <2>1 DEF AtScanPoint
  <2>3. LogReplayed'
    BY <1>1, <2>1, LogKept
  <2> QED
    BY <1>6, <2>2, <2>3 DEF Replayed, ScanReplayed, StartReplayed, WalkReplayed
<1>7. CASE walk.purpose = "apply" /\ RollbackTop /\ pc' = "standalone"
  BY <1>1, <1>2, <1>7, RollbackKeeps, QuietStep
<1>8. \/ /\ walk.purpose = "check"
         /\ main' = Last(saves).main /\ control' = Last(saves).control
         /\ UNCHANGED saves
         /\ pc' = "advance" /\ walk'.at = 1 /\ walk'.purpose = "accept"
      \/ walk.purpose # "apply" /\ RollbackTop /\ pc' = "pair"
      \/ walk.purpose = "apply" /\ RollbackTop /\ pc' = "standalone"
  BY DEF AdvanceFails, BeginWalk, Ask
<1> QED
  BY <1>5, <1>6, <1>7, <1>8

(* The scan moves past its candidate: the scan point of one more.          *)
LEMMA AdvanceScanReplayed == ASSUME Inv, Replayed, AdvanceScan PROVE Replayed'
<1> DEFINE hh == Head0.stmts
           cc == Candidate.stmts
<1>1. /\ UNCHANGED <<base, log, queue, turn>> /\ Release /\ next' = next + 1
      /\ pc = "advance" /\ walk.purpose # "apply" /\ walk.at > Len(Walked.stmts)
      /\ pc' = "scan"
  BY DEF AdvanceScan, fixed
<1>2. queue[turn] # <<>> /\ next <= Len(OtherQueue)
  BY <1>1 DEF Inv, Positions
<1>3. /\ hh \in Seq(Statements) /\ cc \in Seq(Statements) /\ Candidate \in Transactions
      /\ next \in 1..Len(OtherQueue) /\ OtherQueue \in Seq(Transactions)
  <2>1. OtherQueue \in Seq(Transactions)
    BY DEF Inv, TypeOK, LogTypes, TurnTypes, Logs, OtherQueue, Other, Branches
  <2> QED
    BY <1>2, <2>1, WalkedStatements, CandidateType DEF Inv
<1>4. MergedSoFar' = MergedSoFar /\ UNCHANGED <<main, control>>
  <2>1. saves # <<>> /\ Len(saves) = 2
    BY <1>1, StackFacts
  <2>2. /\ saves' \in Seq(Saves) /\ Len(saves') = 1 /\ UNCHANGED <<main, control>>
        /\ saves' # <<>> => saves'[1] = saves[1]
    BY <1>1, <2>1, ReleaseStep DEF Inv, TypeOK, DbTypes
  <2>3. saves' # <<>>
    BY <2>2, EmptySeq
  <2> QED
    BY <2>1, <2>2, <2>3 DEF MergedSoFar
<1>5. /\ Replay(cc, saves[2].main) = Ok(main)
      /\ Replay(OnControl(cc), saves[2].control) = Ok(control)
      /\ Replay(Passed, MergedSoFar) = Ok(saves[2].main)
      /\ Replay(OnControl(hh \o Passed), MergedSoFar) = Ok(saves[2].control)
  <2>1. /\ walk.at <= Len(cc) + 1 /\ walk.at > Len(cc) /\ walk.at \in Nat
        /\ Replay(Before(cc, walk.at), saves[2].main) = Ok(main)
        /\ Replay(OnControl(Before(cc, walk.at)), saves[2].control) = Ok(control)
        /\ AtScanPoint(saves[2].main, saves[2].control)
    BY <1>1, WalkedAt DEF Replayed, WalkReplayed, Walks
  <2>2. Before(cc, walk.at) = cc
    <3>1. Len(cc) \in Nat /\ Before(cc, Len(cc) + 1) = cc
      BY <1>3, BeforeEnds
    <3>2. walk.at = Len(cc) + 1
      BY <2>1, <3>1
    <3> QED
      BY <3>1, <3>2
  <2> QED
    BY <2>1, <2>2 DEF AtScanPoint
<1>6. Passed' = Passed \o cc /\ Passed \in Seq(Statements)
  <2> DEFINE q == OtherQueue
  <2>1. OtherQueue' = q
    BY <1>1 DEF OtherQueue
  <2>2. SubSeq(q, 1, next - 1) \in Logs
    BY <1>3 DEF Logs
  <2>3. SubSeq(q, 1, next) = Append(SubSeq(q, 1, next - 1), Candidate)
    BY <1>3 DEF Candidate
  <2>4. next' - 1 = next
    BY <1>1, <1>3
  <2>5. Passed' = StatementsOfLog(SubSeq(q, 1, next))
    BY <2>1, <2>4 DEF Passed, StatementsOfLog
  <2> QED
    BY <1>3, <2>2, <2>3, <2>5, LogStatements DEF Passed
<1>7. Replay(Passed', MergedSoFar) = Ok(main)
  BY <1>3, <1>5, <1>6, ReplayConcat
<1>8. Replay(OnControl(hh \o Passed'), MergedSoFar) = Ok(control)
  <2>1. hh \o Passed' = (hh \o Passed) \o cc /\ hh \o Passed \in Seq(Statements)
    <3> HIDE DEF hh, cc
    <3>0. hh \in Seq(Statements) /\ Passed \in Seq(Statements) /\ cc \in Seq(Statements)
      BY <1>3, <1>6
    <3>1. hh \o Passed \in Seq(Statements)
      BY <3>0, ConcatProperties
    <3>2. (hh \o Passed) \o cc = hh \o (Passed \o cc)
      BY <3>0, ConcatAssociative
    <3> QED
      BY <1>6, <3>1, <3>2
  <2>2. OnControl(hh \o Passed') = OnControl(hh \o Passed) \o OnControl(cc)
    BY <1>3, <2>1, OnControlConcat
  <2> DEFINE C == {ControlForm(s) : s \in Statements}
  <2>3. OnControl(hh \o Passed) \in Seq(C) /\ OnControl(cc) \in Seq(C)
    BY <1>3, <2>1, OnControlSeq
  <2> HIDE DEF C
  <2> QED
    BY <1>5, <2>2, <2>3, ReplayConcat
<1>9. AtScanPoint(main, control)'
  <2>1. Head0' = Head0
    BY <1>1 DEF Head0
  <2> QED
    BY <1>4, <1>7, <1>8, <2>1 DEF AtScanPoint
<1>10. LogReplayed'
  BY <1>1, <1>4, LogKept
<1> QED
  BY <1>1, <1>9, <1>10 DEF Replayed, ScanReplayed, StartReplayed, WalkReplayed

(* The head went through: replaying it takes the old merged database to    *)
(* the new one.                                                            *)
LEMMA AcceptHeadReplays ==
  ASSUME Inv, Replayed, AcceptHead
  PROVE  /\ Replay(Head0.stmts, MergedSoFar) = Ok(main)
         /\ MergedSoFar' = main /\ saves' = <<>>
<1>1. /\ Release /\ pc = "advance" /\ walk.purpose = "apply"
      /\ walk.at > Len(Walked.stmts)
  BY DEF AcceptHead
<1>2. Walked = Head0 /\ Walked.stmts \in Seq(Statements) /\ walk.at \in Nat
  BY <1>1, WalkedAt DEF Walks
<1>3. Replay(Head0.stmts, MergedSoFar) = Ok(main)
  <2>1. Len(Head0.stmts) \in Nat /\ Before(Head0.stmts, Len(Head0.stmts) + 1) = Head0.stmts
    BY <1>2, BeforeEnds
  <2>2. walk.at = Len(Head0.stmts) + 1
    BY <1>1, <1>2, <2>1 DEF Replayed, WalkReplayed
  <2>3. Replay(Before(Head0.stmts, walk.at), MergedSoFar) = Ok(main)
    BY <1>1 DEF Replayed, WalkReplayed
  <2> QED
    BY <2>1, <2>2, <2>3
<1>4. MergedSoFar' = main /\ saves' = <<>>
  <2>1. saves # <<>> /\ Len(saves) = 1
    BY <1>1, StackFacts
  <2>2. saves' \in Seq(Saves) /\ Len(saves') = 0 /\ UNCHANGED main
    BY <1>1, <2>1, ReleaseStep DEF Inv, TypeOK, DbTypes
  <2>3. saves' = <<>>
    BY <2>2, EmptySeq
  <2> QED
    BY <2>2, <2>3 DEF MergedSoFar
<1> QED
  BY <1>3, <1>4

(* With it the log grows by the head, and stays replayed.                  *)
LEMMA AcceptHeadReplayed == ASSUME Inv, Replayed, AcceptHead PROVE Replayed'
<1>1. /\ UNCHANGED base /\ log' = Append(log, Head0) /\ PassTurn(queue')
      /\ pc = "advance" /\ walk.purpose = "apply" /\ UNCHANGED kinds
  BY DEF AcceptHead, fixed, scanVars
<1>2. pc' \in {"turn", "write"} /\ ~ScanOpen'
  BY <1>1, PassTurnStep DEF Inv, Positions, TypeOK, ScanOpen
<1>3. Replay(Head0.stmts, MergedSoFar) = Ok(main) /\ MergedSoFar' = main
  BY AcceptHeadReplays
<1>4. Head0 \in Transactions /\ log \in Logs /\ Head0.stmts \in Seq(Statements)
  <2>1. queue[turn] # <<>>
    BY <1>1 DEF Inv, Positions
  <2> QED
    BY <2>1, HeadType, WalkedStatements DEF Inv, TypeOK, LogTypes
<1>5. LogReplayed'
  <2> DEFINE before == StatementsOfLog(log)
  <2>1. before \in Seq(Statements) /\ StatementsOfLog(Append(log, Head0)) = before \o Head0.stmts
    BY <1>4, LogStatements
  <2>2. Replay(before, base) = Ok(MergedSoFar)
    BY DEF Replayed, LogReplayed
  <2> HIDE DEF before
  <2>3. Replay(before \o Head0.stmts, base) = Ok(main)
    BY <1>3, <1>4, <2>1, <2>2, ReplayConcat
  <2>4. StatementsOfLog(log') = before \o Head0.stmts
    BY <1>1, <2>1
  <2>5. LogReplayed' <=> Replay(StatementsOfLog(log'), base') = Ok(MergedSoFar')
    BY DEF LogReplayed, StatementsOfLog
  <2> QED
    BY <1>1, <1>3, <2>3, <2>4, <2>5
<1> QED
  BY <1>2, <1>5 DEF Replayed, ScanReplayed, StartReplayed, WalkReplayed

(* What the scan has passed are statements.                                *)
LEMMA PassedType ==
  ASSUME Inv, next <= Len(OtherQueue) + 1
  PROVE  Passed \in Seq(Statements)
<1>1. OtherQueue \in Seq(Transactions) /\ next \in Nat \ {0}
  BY DEF Inv, TypeOK, LogTypes, ScanTypes, TurnTypes, Logs, OtherQueue, Other, Branches
<1>2. SubSeq(OtherQueue, 1, next - 1) \in Logs
  BY <1>1 DEF Logs
<1>3. [branch |-> "ours", n |-> 0, stmts |-> <<>>] \in Transactions
  BY EmptySeq DEF Transactions, Branches
<1> QED
  BY <1>2, <1>3, LogStatements DEF Passed

(* What the user does to one queued transaction leaves those before it.    *)
LEMMA PutAtBefore ==
  ASSUME NEW S, NEW txs \in Seq(S), NEW i \in 1..Len(txs), NEW new
  PROVE  SubSeq(PutAt(txs, i, new), 1, i - 1) = SubSeq(txs, 1, i - 1)
<1> DEFINE out == PutAt(txs, i, new)
<1>1. Len(txs) \in Nat /\ DOMAIN txs = 1..Len(txs) /\ \A k \in 1..Len(txs) : txs[k] \in S
  BY LenProperties, ElementOfSeq
<1>2. \A k \in 1..(i - 1) : out[k] = txs[k] /\ txs[k] \in S
  <2>1. CASE new = Deleted
    <3>1. out = RemoveAt(txs, i)
      BY <2>1 DEF PutAt
    <3>2. \A k \in 1..(Len(txs) - 1) :
            RemoveAt(txs, i)[k] = IF k < i THEN txs[k] ELSE txs[k + 1]
      BY RemoveAtIndex
    <3> QED
      BY <1>1, <3>1, <3>2
  <2>2. CASE new # Deleted
    <3>1. out = [txs EXCEPT ![i].stmts = new]
      BY <2>2 DEF PutAt
    <3> QED
      BY <1>1, <3>1
  <2> QED
    BY <2>1, <2>2
<1> HIDE DEF out
<1>3. \A k \in 1..(i - 1) : out[k] \in S /\ txs[k] \in S
  BY <1>2
<1>4. i - 1 \in Int /\ 1 \in Int /\ i - 1 - 1 + 1 = i - 1
  BY <1>1
<1>5. /\ SubSeq(out, 1, i - 1) \in Seq(S)
      /\ Len(SubSeq(out, 1, i - 1)) = (IF 1 <= i - 1 THEN i - 1 - 1 + 1 ELSE 0)
      /\ \A k \in 1..(i - 1 - 1 + 1) : SubSeq(out, 1, i - 1)[k] = out[1 + k - 1]
  BY <1>3, <1>4, SubSeqProperties
<1>6. /\ SubSeq(txs, 1, i - 1) \in Seq(S)
      /\ Len(SubSeq(txs, 1, i - 1)) = (IF 1 <= i - 1 THEN i - 1 - 1 + 1 ELSE 0)
      /\ \A k \in 1..(i - 1 - 1 + 1) : SubSeq(txs, 1, i - 1)[k] = txs[1 + k - 1]
  BY <1>3, <1>4, SubSeqProperties
<1>7. \A k \in 1..Len(SubSeq(out, 1, i - 1)) :
        SubSeq(out, 1, i - 1)[k] = SubSeq(txs, 1, i - 1)[k]
  BY <1>1, <1>2, <1>5, <1>6
<1> QED
  BY <1>5, <1>6, <1>7, SeqEqual DEF out

(* The user answers a pair conflict: the scan closes, or stays where it is *)
(* because nothing it has passed was changed.                              *)
LEMMA ResolvePairReplayed == ASSUME Inv, Replayed, ResolvePair PROVE Replayed'
<1>1. PICK cur, oth :
        /\ queue' = [queue EXCEPT
                       ![turn] = IF cur = Head0.stmts THEN @ ELSE PutAt(@, 1, cur),
                       ![Other(turn)] = IF oth = Candidate.stmts THEN @
                                        ELSE PutAt(@, next, oth)]
        /\ \/ CloseScan /\ PassTurn(queue')
           \/ CloseScan /\ pc' = "turn"
           \/ /\ cur = Head0.stmts /\ pc' = "turn"
              /\ UNCHANGED <<turn, accepted, dbVars, next, probes>>
  BY Zenon DEF ResolvePair
<1>2. /\ pc = "pair" /\ UNCHANGED <<base, log>> /\ pc # "advance"
      /\ next <= Len(OtherQueue)
  BY DEF Inv, Positions, ResolvePair, fixed
<1>3. CASE CloseScan /\ (PassTurn(queue') \/ pc' = "turn")
  <2>1. MergedSoFar' = MergedSoFar /\ ~ScanOpen'
    BY <1>2, <1>3, CloseKeeps
  <2>2. pc' \in {"turn", "write"}
    BY <1>3, PassTurnStep DEF Inv, TypeOK
  <2> QED
    BY <1>2, <2>1, <2>2, QuietStep
<1>4. CASE /\ cur = Head0.stmts /\ pc' = "turn"
           /\ UNCHANGED <<turn, accepted, dbVars, next, probes>>
  <2>1. /\ queue \in [Branches -> Logs] /\ turn \in Branches /\ Other(turn) \in Branches
        /\ Other(turn) # turn
    BY DEF Inv, TypeOK, LogTypes, TurnTypes, Other, Branches
  <2>2. /\ MergedSoFar' = MergedSoFar /\ UNCHANGED <<main, control, next, turn>>
    BY <1>4 DEF dbVars, MergedSoFar
  <2>3. /\ queue'[turn] = queue[turn]
        /\ \/ queue'[Other(turn)] = queue[Other(turn)]
           \/ queue'[Other(turn)] = PutAt(queue[Other(turn)], next, oth)
    BY <1>1, <1>4, <2>1
  <2>4. Head0' = Head0
    BY <2>2, <2>3 DEF Head0
  <2>5. OtherQueue = queue[Other(turn)] /\ OtherQueue' = queue'[Other(turn)]
    BY <2>2 DEF OtherQueue
  <2>6. SubSeq(OtherQueue', 1, next' - 1) = SubSeq(OtherQueue, 1, next - 1)
    <3>1. OtherQueue \in Seq(Transactions) /\ next \in 1..Len(OtherQueue)
      BY <1>2, <2>1, <2>5, CandidateType DEF Inv, Logs
    <3>2. SubSeq(PutAt(OtherQueue, next, oth), 1, next - 1) = SubSeq(OtherQueue, 1, next - 1)
      BY <3>1, PutAtBefore
    <3> QED
      BY <2>2, <2>3, <2>5, <3>2
  <2>7. Passed' = Passed
    <3>1. Passed' = StatementsOfLog(SubSeq(OtherQueue', 1, next' - 1))
      BY DEF Passed, StatementsOfLog
    <3> QED
      BY <2>6, <3>1 DEF Passed
  <2>8. AtScanPoint(main, control)
    BY <1>2 DEF Replayed, ScanReplayed
  <2>9. AtScanPoint(main, control)'
    BY <2>2, <2>4, <2>7, <2>8 DEF AtScanPoint
  <2>10. LogReplayed'
    BY <1>2, <2>2, LogKept
  <2> QED
    BY <1>4, <2>9, <2>10 DEF Replayed, ScanReplayed, StartReplayed, WalkReplayed
<1> QED
  BY <1>1, <1>3, <1>4

(* The user answers a standalone conflict: any open scan is closed.        *)
LEMMA ResolveStandaloneReplayed == ASSUME Inv, Replayed, ResolveStandalone PROVE Replayed'
<1>1. UNCHANGED <<base, log>> /\ CloseScan /\ pc # "advance"
  BY DEF ResolveStandalone, fixed
<1>2. pc' \in {"turn", "write"}
  BY PassTurnStep DEF Inv, TypeOK, ResolveStandalone
<1>3. MergedSoFar' = MergedSoFar /\ ~ScanOpen'
  BY <1>1, CloseKeeps
<1> QED
  BY <1>1, <1>2, <1>3, QuietStep

(* Nothing has been replayed at first.                                     *)
LEMMA InitReplayed == Init => Replayed
<1> SUFFICES ASSUME Init PROVE Replayed
  OBVIOUS
<1>1. log = <<>> /\ MergedSoFar = base /\ pc \in {"write", "turn"} /\ ~ScanOpen
  BY DEF Init, MergedSoFar, ScanOpen
<1>2. LogReplayed
  BY <1>1, EmptyLog, ReplayEmpty DEF LogReplayed
<1> QED
  BY <1>1, <1>2 DEF Replayed, ScanReplayed, StartReplayed, WalkReplayed

(* No step of the merge loop leaves what the databases are said to hold.   *)
LEMMA NextReplayed == Inv /\ Replayed /\ [Next]_vars => Replayed'
<1> SUFFICES ASSUME Inv, Replayed, [Next]_vars PROVE Replayed'
  OBVIOUS
<1>1. CASE UNCHANGED vars
  <2>1. UNCHANGED <<base, log, queue, turn, next, main, control, saves, pc, kinds, walk>>
    BY <1>1 DEF vars
  <2>2. MergedSoFar' = MergedSoFar /\ ScanOpen' = ScanOpen
    BY <2>1 DEF MergedSoFar, ScanOpen
  <2>3. /\ Head0' = Head0 /\ Candidate' = Candidate /\ Passed' = Passed /\ Walked' = Walked
    BY <2>1, ScanPointKept DEF Walked
  <2>4. LogReplayed'
    BY <2>1, <2>2, LogKept
  <2>5. ScanReplayed'
    BY <2>1, <2>2, <2>3 DEF Replayed, ScanReplayed, AtScanPoint
  <2>6. StartReplayed'
    BY <2>1, <2>2, <2>3 DEF Replayed, StartReplayed
  <2>7. WalkReplayed'
    BY <2>1, <2>2, <2>3 DEF Replayed, WalkReplayed, AtScanPoint
  <2> QED
    BY <2>4, <2>5, <2>6, <2>7 DEF Replayed
<1>2. CASE Program
  BY <1>2, EmptyTurnReplayed, UnsafeHeadReplayed, ApplyUnscannedReplayed, OpenScanReplayed,
     ResumeScanReplayed, StartStatementReplayed, StartedReplayed, ScanCheckReplayed,
     ScanExhaustedReplayed, AdvanceStatementReplayed, AdvanceFailsReplayed,
     AdvanceScanReplayed, AcceptHeadReplayed, WriteResultReplayed, Zenon DEF Program
<1>3. CASE User
  BY <1>3, AcceptPairReplayed, ResolvePairReplayed, ResolveStandaloneReplayed,
     InterruptReplayed, Zenon DEF User
<1> QED
  BY <1>1, <1>2, <1>3, Zenon DEF Next, Exited

(* Actions that leave the result alone and accept no conflict.             *)
LEMMA BookkeepingKept ==
  ASSUME Bookkeeping, UNCHANGED merged, pc # "done", accepted' \subseteq accepted,
         ScanOpen' => Head0'.stmts # <<>> /\ next' <= Len(OtherQueue') + 1,
         pc' = "write" => \A b \in Branches : queue'[b] = <<>>
  PROVE  Bookkeeping'
<1>1. merged = <<>> /\ \A key \in accepted' : Reviewable(key[3])
  BY DEF Bookkeeping
<1> QED
  BY <1>1 DEF Bookkeeping, Reviewable

(* Passing the turn on leads to the end only when both queues are empty.   *)
LEMMA PassedOn ==
  ASSUME Bookkeeping, UNCHANGED merged, pc # "done", PassTurn(queue'), ~ScanOpen'
  PROVE  Bookkeeping'
<1>1. pc' = "write" => \A b \in Branches : queue'[b] = <<>>
  BY DEF PassTurn, Branches
<1>2. accepted' \subseteq accepted
  BY DEF PassTurn
<1> QED
  BY <1>1, <1>2, BookkeepingKept

(* A head that needs a check has statements.                               *)
LEMMA CheckedHeadHasStatements ==
  ASSUME NEW t \in Transactions, NEW txs, NeededKinds(t, txs) # {}
  PROVE  t.stmts # <<>>
<1> SUFFICES ASSUME t.stmts = <<>> PROVE NeededKinds(t, txs) = {}
  OBVIOUS
<1>1. ToSet(<<>>) = {}
  BY DEF ToSet
<1> QED
  BY <1>1 DEF NeededKinds, WriteWritePossible, WriteReadPossible, SameKeyPossible

(* The user's answer to a pair conflict keeps an open scan within the      *)
(* other queue.                                                            *)
LEMMA ResolvePairBookkeeping == ASSUME Inv, Bookkeeping, ResolvePair PROVE Bookkeeping'
<1>1. PICK cur, oth :
        /\ queue' = [queue EXCEPT
                       ![turn] = IF cur = Head0.stmts THEN @ ELSE PutAt(@, 1, cur),
                       ![Other(turn)] = IF oth = Candidate.stmts THEN @
                                        ELSE PutAt(@, next, oth)]
        /\ \/ CloseScan /\ PassTurn(queue')
           \/ CloseScan /\ pc' = "turn" /\ UNCHANGED <<turn, accepted>>
           \/ /\ cur = Head0.stmts /\ pc' = "turn"
              /\ UNCHANGED <<turn, accepted, dbVars, next, probes>>
  BY Zenon DEF ResolvePair
<1>2. /\ pc = "pair" /\ UNCHANGED merged /\ pc # "done" /\ pc # "advance"
      /\ next <= Len(OtherQueue) /\ ScanOpen
  BY DEF Inv, Positions, ResolvePair
<1>3. CASE CloseScan /\ PassTurn(queue')
  BY <1>2, <1>3, CloseScanStep, PassedOn
<1>4. CASE CloseScan /\ pc' = "turn" /\ UNCHANGED <<turn, accepted>>
  <2>1. ~ScanOpen'
    BY <1>2, <1>4, CloseScanStep
  <2> QED
    BY <1>2, <1>4, <2>1, BookkeepingKept
<1>5. CASE /\ cur = Head0.stmts /\ pc' = "turn"
           /\ UNCHANGED <<turn, accepted, dbVars, next, probes>>
  <2>1. /\ queue \in [Branches -> Logs] /\ turn \in Branches /\ Other(turn) \in Branches
        /\ Other(turn) # turn
    BY DEF Inv, TypeOK, LogTypes, TurnTypes, Other, Branches
  <2>2. /\ queue'[turn] = queue[turn]
        /\ \/ queue'[Other(turn)] = queue[Other(turn)]
           \/ queue'[Other(turn)] = PutAt(queue[Other(turn)], next, oth)
    BY <1>1, <1>5, <2>1
  <2>3. Head0'.stmts # <<>>
    BY <1>2, <1>5, <2>2 DEF Bookkeeping, Head0
  <2>4. OtherQueue = queue[Other(turn)] /\ OtherQueue' = queue'[Other(turn)]
    BY <1>5 DEF OtherQueue
  <2>5. OtherQueue \in Seq(Transactions) /\ next \in 1..Len(OtherQueue)
    BY <1>2, <2>1, <2>4, CandidateType DEF Inv, Logs
  <2>6. Len(PutAt(OtherQueue, next, oth)) >= Len(OtherQueue) - 1
    <3>1. Len(OtherQueue) \in Nat /\ DOMAIN OtherQueue = 1..Len(OtherQueue)
      BY <2>5, LenProperties
    <3>2. CASE oth = Deleted
      <4>1. RemoveAt(OtherQueue, next) \in Seq(Transactions)
        BY <2>5, RemoveAtType
      <4>2. DOMAIN RemoveAt(OtherQueue, next) = 1..(Len(OtherQueue) - 1)
        BY <2>5, RemoveAtIndex
      <4> DEFINE r == RemoveAt(OtherQueue, next)
      <4>3. Len(r) \in Nat /\ DOMAIN r = 1..Len(r) /\ DOMAIN r = 1..(Len(OtherQueue) - 1)
        BY <4>1, <4>2, LenProperties
      <4>4. Len(OtherQueue) - 1 \in Nat
        BY <2>5, <3>1
      <4> HIDE DEF r
      <4>5. Len(r) = Len(OtherQueue) - 1
        BY <4>3, <4>4
      <4> QED
        BY <3>1, <3>2, <4>5 DEF PutAt, r
    <3>3. CASE oth # Deleted
      BY <2>5, <3>1, <3>3 DEF PutAt
    <3> QED
      BY <3>2, <3>3
  <2>7. next' <= Len(OtherQueue') + 1
    BY <1>5, <2>2, <2>4, <2>5, <2>6, LenProperties
  <2> QED
    BY <1>2, <1>5, <2>3, <2>7, BookkeepingKept
<1> QED
  BY <1>1, <1>3, <1>4, <1>5

(* Nothing is open, written or accepted at first.                          *)
LEMMA InitBookkeeping == Init => Bookkeeping
<1> SUFFICES ASSUME Init PROVE Bookkeeping
  OBVIOUS
<1>1. ~ScanOpen /\ merged = <<>> /\ accepted = {} /\ queue = origin
      /\ (pc = "write" => \A b \in Branches : origin[b] = <<>>)
  BY DEF Init, ScanOpen
<1> QED
  BY <1>1 DEF Bookkeeping

(* Every step keeps the books.                                             *)
LEMMA NextBookkeeping == Inv /\ Bookkeeping /\ [Next]_vars => Bookkeeping'
<1> SUFFICES ASSUME Inv, Bookkeeping, [Next]_vars PROVE Bookkeeping'
  OBVIOUS
<1>1. CASE UNCHANGED vars
  <2>1. UNCHANGED <<queue, turn, next, kinds, merged, accepted, pc>>
    BY <1>1 DEF vars
  <2> QED
    BY <2>1 DEF Bookkeeping, ScanOpen, Head0, OtherQueue, Reviewable
<1>2. CASE EmptyTurn
  <2>1. /\ UNCHANGED <<merged, queue>> /\ pc # "done" /\ PassTurn(queue') /\ kinds' = kinds
        /\ queue[turn] = <<>>
    BY <1>2 DEF EmptyTurn, scanVars
  <2>2. ~ScanOpen'
    BY <2>1 DEF Inv, Positions, ScanOpen
  <2> QED
    BY <2>1, <2>2, PassedOn
<1>3. CASE UnsafeHead
  <2>1. /\ UNCHANGED <<merged, accepted>> /\ pc = "turn" /\ CloseScan /\ pc' = "standalone"
    BY <1>3 DEF UnsafeHead, Ask
  <2>2. ~ScanOpen' /\ pc # "done" /\ accepted' \subseteq accepted
    BY <2>1, CloseScanStep
  <2> QED
    BY <2>1, <2>2, BookkeepingKept
<1>4. CASE OpenScan
  <2>1. /\ UNCHANGED <<merged, accepted, queue, turn>> /\ pc # "done" /\ pc' = "start"
        /\ next' = 1 /\ queue[turn] # <<>> /\ NeededKinds(Head0, OtherQueue) # {}
    BY <1>4 DEF OpenScan, SafeHead
  <2>2. Head0 \in Transactions /\ OtherQueue \in Logs
    BY <2>1, HeadType DEF Inv, TypeOK, LogTypes, TurnTypes, OtherQueue, Other, Branches
  <2>3. Head0.stmts # <<>> /\ Head0' = Head0 /\ OtherQueue' = OtherQueue
    BY <2>1, <2>2, CheckedHeadHasStatements DEF Head0, OtherQueue
  <2>4. Len(OtherQueue) \in Nat
    BY <2>2, LenProperties DEF Logs
  <2> QED
    BY <2>1, <2>3, <2>4, BookkeepingKept
<1>5. CASE \/ ApplyUnscanned \/ ResumeScan \/ StartStatement \/ Started \/ ScanCheck
           \/ AdvanceStatement \/ AdvanceFails \/ Interrupt
  <2>1. /\ UNCHANGED <<merged, accepted, queue, turn, next, kinds>>
    BY <1>5 DEF ApplyUnscanned, ResumeScan, StartStatement, Started, ScanCheck,
       AdvanceStatement, AdvanceFails, Interrupt, scanVars
  <2>2. pc # "done" /\ pc # "write"
    BY <1>5 DEF ApplyUnscanned, ResumeScan, StartStatement, Started, ScanCheck,
       AdvanceStatement, AdvanceFails, Interrupt, SafeHead
  <2>3. pc' = pc \/ pc' \in {"advance", "scan", "standalone", "pair", "aborted"}
    BY <1>5 DEF ApplyUnscanned, ResumeScan, StartStatement, Started, ScanCheck, Meet,
       AdvanceStatement, AdvanceFails, Interrupt, Ask, BeginWalk
  <2>4. /\ ScanOpen' = ScanOpen /\ Head0' = Head0 /\ OtherQueue' = OtherQueue
    BY <2>1 DEF ScanOpen, Head0, OtherQueue
  <2>5. ScanOpen' => Head0'.stmts # <<>> /\ next' <= Len(OtherQueue') + 1
    BY <2>1, <2>4 DEF Bookkeeping
  <2> QED
    BY <2>1, <2>2, <2>3, <2>5, BookkeepingKept
<1>6. CASE ScanExhausted
  <2>1. /\ UNCHANGED <<merged, accepted>> /\ pc # "done" /\ pc' = "advance" /\ kinds' = {}
    BY <1>6 DEF ScanExhausted, BeginWalk, ForgetScan
  <2> QED
    BY <2>1, BookkeepingKept DEF ScanOpen
<1>7. CASE AdvanceScan
  <2>1. /\ UNCHANGED <<merged, accepted, queue, turn, kinds>> /\ pc = "advance"
        /\ pc' = "scan" /\ walk.purpose # "apply" /\ next' = next + 1
    BY <1>7 DEF AdvanceScan
  <2>2. /\ Head0' = Head0 /\ OtherQueue' = OtherQueue /\ OtherQueue \in Logs
        /\ ScanOpen /\ next <= Len(OtherQueue) /\ next \in Nat
    BY <2>1 DEF Inv, Positions, TypeOK, ScanTypes, LogTypes, TurnTypes, Head0, OtherQueue,
       Other, Branches
  <2>3. Len(OtherQueue) \in Nat
    BY <2>2, LenProperties DEF Logs
  <2>4. Head0'.stmts # <<>> /\ next' <= Len(OtherQueue') + 1
    BY <2>1, <2>2, <2>3 DEF Bookkeeping
  <2> QED
    BY <2>1, <2>4, BookkeepingKept
<1>8. CASE AcceptHead
  <2>1. /\ UNCHANGED <<merged, kinds>> /\ pc = "advance" /\ PassTurn(queue')
        /\ walk.purpose = "apply"
    BY <1>8 DEF AcceptHead, scanVars
  <2>2. ~ScanOpen' /\ pc # "done"
    BY <2>1 DEF Inv, Positions, ScanOpen
  <2> QED
    BY <2>1, <2>2, PassedOn
<1>9. CASE WriteResult
  <2>1. /\ UNCHANGED <<queue, turn, next, kinds, accepted>> /\ pc = "write"
        /\ pc' = "done" \/ (pc' = "failed" /\ UNCHANGED merged)
    BY <1>9 DEF WriteResult, scanVars
  <2>2. ~ScanOpen' /\ merged = <<>>
    BY <2>1 DEF Inv, Positions, ScanOpen, Bookkeeping
  <2> QED
    BY <2>1, <2>2 DEF Bookkeeping, Reviewable
<1>10. CASE AcceptPair
  <2>1. /\ UNCHANGED <<queue, turn, next, kinds, merged>> /\ pc = "pair" /\ pc' = "advance"
        /\ Reviewable(prompt) /\ accepted' = accepted \cup {<<Head0, Candidate, prompt>>}
    BY <1>10 DEF AcceptPair, BeginWalk, scanVars, PairKey
  <2>2. \A key \in accepted' : Reviewable(key[3])
    BY <2>1 DEF Bookkeeping
  <2>3. ScanOpen' = ScanOpen /\ Head0' = Head0 /\ OtherQueue' = OtherQueue
    BY <2>1 DEF ScanOpen, Head0, OtherQueue
  <2> QED
    BY <2>1, <2>2, <2>3 DEF Bookkeeping, Reviewable
<1>11. CASE ResolvePair
  BY <1>11, ResolvePairBookkeeping
<1>12. CASE ResolveStandalone
  <2>1. UNCHANGED merged /\ pc = "standalone" /\ CloseScan
    BY <1>12 DEF ResolveStandalone
  <2>2. ~ScanOpen' /\ pc # "done"
    BY <2>1, CloseScanStep
  <2>3. PassTurn(queue') \/ (pc' = "turn" /\ UNCHANGED accepted)
    BY <1>12, Zenon DEF ResolveStandalone
  <2> QED
    BY <2>1, <2>2, <2>3, PassedOn, BookkeepingKept
<1> QED
  BY <1>1, <1>2, <1>3, <1>4, <1>5, <1>6, <1>7, <1>8, <1>9, <1>10, <1>11, <1>12, Zenon
     DEF Next, Program, User, Exited

(* What the scan holds, counted from the merge base instead of from the    *)
(* merged database.                                                        *)
LEMMA ReplayedScanStates == Inv /\ Bookkeeping /\ Replayed => ScanStates
<1> SUFFICES ASSUME Inv, Bookkeeping, Replayed PROVE ScanStates
  OBVIOUS
<1> DEFINE prefix == StatementsOfLog(log)
<1>1. prefix \in Seq(Statements) /\ Replay(prefix, base) = Ok(MergedSoFar)
  <2>1. log \in Logs
    BY DEF Inv, TypeOK, LogTypes
  <2>2. PICK t \in Transactions : TRUE
    <3>1. [branch |-> "ours", n |-> 0, stmts |-> <<>>] \in Transactions
      BY EmptySeq DEF Transactions, Branches
    <3> QED
      BY <3>1
  <2> QED
    BY <2>1, <2>2, LogStatements DEF Replayed, LogReplayed
<1>2. ASSUME pc \in {"scan", "pair"}
      PROVE  /\ Replay(prefix \o Passed, base) = Ok(main)
             /\ Replay(prefix \o OnControl(Head0.stmts \o Passed), base) = Ok(control)
  <2>1. /\ Replay(Passed, MergedSoFar) = Ok(main)
        /\ Replay(OnControl(Head0.stmts \o Passed), MergedSoFar) = Ok(control)
    BY <1>2 DEF Replayed, ScanReplayed, AtScanPoint
  <2>2. Head0.stmts \in Seq(Statements) /\ Passed \in Seq(Statements)
    BY <1>2, WalkedStatements, PassedType DEF Inv, Positions, Bookkeeping
  <2>3. OnControl(Head0.stmts \o Passed) \in Seq(Statements)
    <3> DEFINE both == Head0.stmts \o Passed
               C == {ControlForm(s) : s \in Statements}
    <3>1. both \in Seq(Statements)
      BY <2>2, ConcatProperties
    <3>2. C \subseteq Statements
      BY ControlFormType
    <3> HIDE DEF both
    <3>3. OnControl(both) \in Seq(C)
      BY <3>1, OnControlSeq
    <3> HIDE DEF C
    <3> QED
      BY <3>2, <3>3 DEF both
  <2> HIDE DEF prefix
  <2> QED
    BY <1>1, <2>1, <2>2, <2>3, ReplayConcat
<1>3. ASSUME pc = "turn", ~ScanOpen PROVE Replay(prefix, base) = Ok(main)
  BY <1>1, <1>3, StackFacts, MergedFacts
<1> QED
  BY <1>2, <1>3 DEF ScanStates, Passed

(* At every check of the rolling scan the working database is the replay   *)
(* of the accepted log and the opposite transactions passed, the control   *)
(* copy the same with the current head before those; between scans the     *)
(* working database is the replay of the log alone.                        *)
THEOREM ScanStatesHold == Spec => []ScanStates
<1> DEFINE I == Inv /\ Bookkeeping /\ Replayed
<1>1. Init => I
  BY InitInv, InitBookkeeping, InitReplayed
<1>2. I /\ [Next]_vars => I'
  BY NextInv, NextBookkeeping, NextReplayed
<1>3. I => ScanStates
  BY ReplayedScanStates
<1> QED
  BY <1>1, <1>2, <1>3, PTL DEF Spec

-----------------------------------------------------------------------------
(***************************************************************************)
(* The merge loop implements AtomicMerge: whatever scans, savepoints,      *)
(* failing statements and prompts it goes through, what the bottom of the  *)
(* savepoint stack would restore only ever changes by the replay of a      *)
(* whole transaction.  After it, the two other promises about a whole run: *)
(* no accepted conflict is asked again, and branches nobody edits are      *)
(* replayed in the fixed order.                                            *)
(***************************************************************************)

(* Both modules speak of the same replays, sides and transactions.         *)
LEMMA AtomicReplay ==
  ASSUME NEW ss, NEW d
  PROVE  Atomic!Replay(ss, d) = Replay(ss, d)
<1>1. \A s, e : Atomic!Succeeds(s, e) = Succeeds(s, e)
  BY DEF Atomic!Succeeds, Atomic!Present, Succeeds, Present
<1>2. \A s, e : Atomic!Result(s, e) = Result(s, e)
  BY DEF Atomic!Result, Atomic!Targets, Atomic!Present, Atomic!Selected, Atomic!WholeTableOps,
     Result, Targets, Present, Selected, WholeTableOps
<1>3. \A run, s : Atomic!Continue(run, s) = Continue(run, s)
  BY <1>1, <1>2 DEF Atomic!Continue, Continue
<1>4. Atomic!Ok(d) = Ok(d)
  BY DEF Atomic!Ok, Ok
<1> QED
  BY <1>3, <1>4 DEF Atomic!Replay, Replay

(* Both modules give sides and queued transactions the same values.        *)
LEMMA AtomicTypes ==
  /\ Atomic!Sides = Branches /\ Atomic!Queued = Transactions /\ Atomic!Databases = Databases
  /\ \A b \in Branches : Atomic!Opposite(b) = Other(b)
<1>1. Atomic!Statements = Statements
  BY DEF Atomic!Statements, Statements, Atomic!Ops, Ops, Atomic!InsertOps, InsertOps,
     Atomic!WholeTableOps, WholeTableOps
<1> QED
  BY <1>1 DEF Atomic!Sides, Branches, Atomic!Queued, Transactions, Atomic!Databases, Databases,
     Atomic!Values, Values, Atomic!Opposite, Other

-----------------------------------------------------------------------------
(* What the user does to a queue revises it and drops one transaction at   *)
(* most; deleting the first leaves the rest, rewriting keeps them all.     *)
LEMMA QueueRevised ==
  ASSUME NEW txs \in Logs
  PROVE  /\ Atomic!Revises(txs, txs) /\ Len(txs) >= Len(txs) - 1
         /\ \A i \in 1..Len(txs) : \A new :
              /\ Atomic!Revises(PutAt(txs, i, new), txs)
              /\ Len(PutAt(txs, i, new)) >= Len(txs) - 1
              /\ new # Deleted => Len(PutAt(txs, i, new)) = Len(txs)
              /\ new = Deleted /\ i = 1 => PutAt(txs, i, new) = Tail(txs)
<1> DEFINE n == Len(txs)
<1>1. /\ txs \in Seq(Transactions) /\ n \in Nat /\ DOMAIN txs = 1..n
      /\ \A k \in 1..n : txs[k] \in Transactions
  BY LenProperties, ElementOfSeq DEF Logs
<1>2. Atomic!Revises(txs, txs)
  <2> DEFINE at == [k \in 1..n |-> k]
  <2>1. at \in [DOMAIN txs -> DOMAIN txs]
    BY <1>1
  <2>2. \A i, j \in DOMAIN txs : i < j => at[i] < at[j]
    BY <1>1
  <2>3. \A i \in DOMAIN txs : txs[i].branch = txs[at[i]].branch /\ txs[i].n = txs[at[i]].n
    BY <1>1
  <2> HIDE DEF at
  <2> QED
    BY <2>1, <2>2, <2>3 DEF Atomic!Revises
<1>3. ASSUME NEW i \in 1..n, NEW new, new # Deleted
      PROVE  /\ Atomic!Revises(PutAt(txs, i, new), txs)
             /\ Len(PutAt(txs, i, new)) = n
  <2> DEFINE out == [txs EXCEPT ![i].stmts = new]
             at == [k \in 1..n |-> k]
  <2>1. PutAt(txs, i, new) = out
    BY <1>3 DEF PutAt
  <2>2. DOMAIN out = 1..n /\ Len(out) = n
    BY <1>1
  <2>3. \A k \in 1..n : out[k].branch = txs[k].branch /\ out[k].n = txs[k].n
    BY <1>1 DEF Transactions
  <2>4. at \in [DOMAIN out -> DOMAIN txs] /\ \A k \in 1..n : at[k] = k
    BY <1>1, <2>2
  <2> HIDE DEF at, out, n
  <2>5. /\ \A k, j \in DOMAIN out : k < j => at[k] < at[j]
        /\ \A k \in DOMAIN out : /\ out[k].branch = txs[at[k]].branch
                                  /\ out[k].n = txs[at[k]].n
    BY <2>2, <2>3, <2>4
  <2>6. Atomic!Revises(out, txs)
    BY <2>4, <2>5 DEF Atomic!Revises
  <2> QED
    BY <2>1, <2>2, <2>6
<1>4. ASSUME NEW i \in 1..n
      PROVE  /\ Atomic!Revises(RemoveAt(txs, i), txs)
             /\ Len(RemoveAt(txs, i)) = n - 1
             /\ i = 1 => RemoveAt(txs, i) = Tail(txs)
  <2> DEFINE out == RemoveAt(txs, i)
             at == [k \in 1..(n - 1) |-> IF k < i THEN k ELSE k + 1]
  <2>1. /\ out \in Seq(Transactions) /\ DOMAIN out = 1..(n - 1)
        /\ \A k \in 1..(n - 1) : out[k] = IF k < i THEN txs[k] ELSE txs[k + 1]
    BY <1>1, RemoveAtType, RemoveAtIndex
  <2>2. Len(out) \in Nat /\ DOMAIN out = 1..Len(out)
    BY <2>1, LenProperties
  <2>3. n - 1 \in Nat /\ i \in Nat
    BY <1>1
  <2>4. /\ at \in [1..(n - 1) -> 1..n]
        /\ \A k \in 1..(n - 1) : at[k] = IF k < i THEN k ELSE k + 1
    BY <1>1, <2>3
  <2> HIDE DEF at, out, n
  <2>5. Len(out) = n - 1
    BY <2>1, <2>2, <2>3
  <2>6. \A k, j \in 1..(n - 1) : k < j => at[k] < at[j]
    BY <2>3, <2>4
  <2>7. \A k \in 1..(n - 1) : out[k] = txs[at[k]]
    BY <2>1, <2>4
  <2>8. at \in [DOMAIN out -> DOMAIN txs]
    BY <1>1, <2>1, <2>4
  <2>9. /\ \A k, j \in DOMAIN out : k < j => at[k] < at[j]
        /\ \A k \in DOMAIN out : out[k].branch = txs[at[k]].branch /\ out[k].n = txs[at[k]].n
    BY <2>1, <2>6, <2>7
  <2>10. Atomic!Revises(out, txs)
    BY <2>8, <2>9, Zenon DEF Atomic!Revises
  <2>11. i = 1 => out = Tail(txs)
    <3> SUFFICES ASSUME i = 1 PROVE out = Tail(txs)
      OBVIOUS
    <3>1. txs # <<>>
      BY <1>1, <2>3, EmptySeq DEF n
    <3>2. /\ Tail(txs) \in Seq(Transactions) /\ Len(Tail(txs)) = n - 1
          /\ \A k \in 1..Len(Tail(txs)) : Tail(txs)[k] = txs[k + 1]
      BY <1>1, <3>1, HeadTailProperties DEF n
    <3>3. \A k \in 1..(n - 1) : out[k] = txs[k + 1]
      BY <2>1
    <3>4. \A k \in 1..Len(out) : out[k] = Tail(txs)[k]
      BY <2>5, <3>2, <3>3
    <3> QED
      BY <2>1, <2>5, <3>2, <3>4, SeqEqual
  <2> QED
    BY <2>5, <2>10, <2>11 DEF out
<1>5. ASSUME NEW i \in 1..n, NEW new, new = Deleted
      PROVE  PutAt(txs, i, new) = RemoveAt(txs, i)
  BY <1>5 DEF PutAt
<1>6. n >= n - 1
  BY <1>1
<1>7. ASSUME NEW i \in 1..n, NEW new
      PROVE  /\ Atomic!Revises(PutAt(txs, i, new), txs)
             /\ Len(PutAt(txs, i, new)) >= n - 1
             /\ new # Deleted => Len(PutAt(txs, i, new)) = n
             /\ new = Deleted /\ i = 1 => PutAt(txs, i, new) = Tail(txs)
  <2>1. CASE new # Deleted
    BY <1>3, <1>6, <2>1
  <2>2. CASE new = Deleted
    <3>1. PutAt(txs, i, new) = RemoveAt(txs, i)
      BY <1>5, <2>2
    <3>2. /\ Atomic!Revises(PutAt(txs, i, new), txs)
          /\ Len(PutAt(txs, i, new)) = n - 1
          /\ i = 1 => PutAt(txs, i, new) = Tail(txs)
      BY <1>4, <3>1, Zenon
    <3>3. n - 1 >= n - 1
      BY <1>1
    <3> QED
      BY <2>2, <3>2, <3>3
  <2> QED
    BY <2>1, <2>2
<1> QED
  BY <1>2, <1>6, <1>7, Zenon

-----------------------------------------------------------------------------
(* The actions of AtomicMerge the steps of the loop are.                   *)
(* The head is accepted: it is taken.                                      *)
LEMMA AcceptHeadTakes == ASSUME Inv, Replayed, AcceptHead PROVE Atomic!Take
<1>1. /\ log' = Append(log, Head0) /\ queue' = [queue EXCEPT ![turn] = Tail(queue[turn])]
      /\ turn' = Other(turn) /\ UNCHANGED <<base, merged>> /\ pc = "advance"
  BY DEF AcceptHead, PassTurn, fixed
<1>2. queue[turn] # <<>> /\ turn \in Branches
  BY <1>1 DEF Inv, Positions, TypeOK, TurnTypes
<1>3. Atomic!Replay(Head(queue[turn]).stmts, MergedSoFar) = Ok(MergedSoFar')
  BY AcceptHeadReplays, AtomicReplay DEF Head0
<1>4. turn' = Atomic!Opposite(turn)
  BY <1>1, <1>2, AtomicTypes
<1> QED
  BY <1>1, <1>2, <1>3, <1>4 DEF Atomic!Take, Head0, Ok

(* A branch without a transaction passes.                                  *)
LEMMA EmptyTurnPasses == ASSUME Inv, EmptyTurn PROVE Atomic!Pass
<1>1. /\ queue[turn] = <<>> /\ turn' = Other(turn)
      /\ UNCHANGED <<base, queue, main, saves, log, merged>>
  BY DEF EmptyTurn, PassTurn, fixed, dbVars
<1>2. turn' = Atomic!Opposite(turn)
  BY <1>1, AtomicTypes DEF Inv, TypeOK, TurnTypes
<1> QED
  BY <1>1, <1>2 DEF Atomic!Pass, MergedSoFar

(* Any answer that edits or deletes revises the queues and ends the turn   *)
(* only where the head was deleted.                                        *)
LEMMA AnswerRevises ==
  ASSUME Inv, UNCHANGED <<base, log, merged>>, MergedSoFar' = MergedSoFar,
         queue[turn] # <<>>, queue' \in [Branches -> Logs],
         NEW cur, NEW oth, NEW i \in Nat,
         queue'[turn] = queue[turn] \/ queue'[turn] = PutAt(queue[turn], 1, cur),
         \/ queue'[Other(turn)] = OtherQueue
         \/ i \in 1..Len(OtherQueue) /\ queue'[Other(turn)] = PutAt(OtherQueue, i, oth),
         \/ turn' = turn /\ (queue'[turn] = queue[turn] \/ cur # Deleted)
         \/ /\ turn' = Other(turn) /\ cur = Deleted
            /\ queue'[turn] = PutAt(queue[turn], 1, cur)
  PROVE  Atomic!Revise
<1>1. /\ queue \in [Branches -> Logs] /\ turn \in Branches /\ Other(turn) \in Branches
      /\ OtherQueue = queue[Other(turn)] /\ \A b \in Branches : b = turn \/ b = Other(turn)
  BY DEF Inv, TypeOK, LogTypes, TurnTypes, Other, Branches, OtherQueue
<1>2. queue[turn] \in Logs /\ OtherQueue \in Logs
  BY <1>1
<1>3. 1 \in 1..Len(queue[turn])
  BY HeadType DEF Inv
<1>4. /\ Atomic!Revises(queue'[turn], queue[turn])
      /\ Len(queue'[turn]) >= Len(queue[turn]) - 1
      /\ Atomic!Revises(queue'[Other(turn)], queue[Other(turn)])
      /\ Len(queue'[Other(turn)]) >= Len(queue[Other(turn)]) - 1
  BY <1>1, <1>2, <1>3, QueueRevised
<1>5. \/ Len(queue'[turn]) = Len(queue[turn]) /\ turn' = turn
      \/ queue'[turn] = Tail(queue[turn]) /\ turn' = Other(turn)
  BY <1>2, <1>3, QueueRevised
<1>6. \A b \in Branches : /\ Atomic!Revises(queue'[b], queue[b])
                          /\ Len(queue'[b]) >= Len(queue[b]) - 1
  BY <1>1, <1>4
<1> QED
  BY <1>1, <1>5, <1>6, AtomicTypes DEF Atomic!Revise

(* The answer to a pair conflict is such a revision.                       *)
LEMMA ResolvePairRevises == ASSUME Inv, Bookkeeping, ResolvePair PROVE Atomic!Revise
<1>1. PICK cur, oth :
        /\ queue' = [queue EXCEPT
                       ![turn] = IF cur = Head0.stmts THEN @ ELSE PutAt(@, 1, cur),
                       ![Other(turn)] = IF oth = Candidate.stmts THEN @
                                        ELSE PutAt(@, next, oth)]
        /\ \/ cur = Deleted /\ CloseScan /\ PassTurn(queue')
           \/ Typed(Head0, cur) /\ CloseScan /\ pc' = "turn" /\ UNCHANGED <<turn, accepted>>
           \/ /\ cur = Head0.stmts
              /\ UNCHANGED <<turn, accepted, dbVars, next, probes>>
  BY Zenon DEF ResolvePair
<1>2. /\ pc = "pair" /\ pc # "advance" /\ UNCHANGED <<base, log, merged>> /\ ScanOpen
      /\ queue[turn] # <<>> /\ next <= Len(OtherQueue)
  BY DEF ResolvePair, fixed, Inv, Positions
<1>3. MergedSoFar' = MergedSoFar
  BY <1>1, <1>2, CloseKeeps DEF dbVars, MergedSoFar
<1>4. /\ queue \in [Branches -> Logs] /\ turn \in Branches /\ Other(turn) \in Branches
      /\ Other(turn) # turn /\ OtherQueue = queue[Other(turn)]
      /\ next \in 1..Len(OtherQueue) /\ next \in Nat
  BY <1>2, CandidateType DEF Inv, TypeOK, LogTypes, TurnTypes, ScanTypes, Other, Branches,
       OtherQueue
<1>5. /\ queue'[turn] = IF cur = Head0.stmts THEN queue[turn] ELSE PutAt(queue[turn], 1, cur)
      /\ \/ queue'[Other(turn)] = OtherQueue
         \/ queue'[Other(turn)] = PutAt(OtherQueue, next, oth)
  BY <1>1, <1>4
<1>6. queue' \in [Branches -> Logs]
  BY ResolvePairInv DEF Inv, TypeOK, LogTypes
<1>7. Head0.stmts # Deleted
  BY <1>2 DEF Bookkeeping, Deleted
<1>8. \/ turn' = turn /\ (queue'[turn] = queue[turn] \/ cur # Deleted)
      \/ /\ turn' = Other(turn) /\ cur = Deleted
         /\ queue'[turn] = PutAt(queue[turn], 1, cur)
  BY <1>1, <1>5, <1>7 DEF PassTurn, Typed
<1> QED
  BY <1>2, <1>3, <1>4, <1>5, <1>6, <1>8, AnswerRevises

(* So is the answer to a standalone conflict.                              *)
LEMMA ResolveStandaloneRevises ==
  ASSUME Inv, ResolveStandalone
  PROVE  Atomic!Revise
<1>1. PICK new :
        /\ queue' = [queue EXCEPT ![turn] = PutAt(@, 1, new)]
        /\ \/ new = Deleted /\ PassTurn(queue')
           \/ new # Deleted /\ pc' = "turn" /\ UNCHANGED <<turn, accepted>>
  BY Zenon DEF ResolveStandalone
<1>2. /\ pc = "standalone" /\ pc # "advance" /\ UNCHANGED <<base, log, merged>>
      /\ queue[turn] # <<>> /\ CloseScan
  BY DEF ResolveStandalone, fixed, Inv, Positions
<1>3. MergedSoFar' = MergedSoFar
  BY <1>2, CloseKeeps
<1>4. /\ queue \in [Branches -> Logs] /\ turn \in Branches /\ Other(turn) \in Branches
      /\ Other(turn) # turn /\ OtherQueue = queue[Other(turn)]
  BY DEF Inv, TypeOK, LogTypes, TurnTypes, Other, Branches, OtherQueue
<1>5. queue'[turn] = PutAt(queue[turn], 1, new) /\ queue'[Other(turn)] = OtherQueue
  BY <1>1, <1>4
<1>6. queue' \in [Branches -> Logs]
  BY ResolveStandaloneInv DEF Inv, TypeOK, LogTypes
<1>7. \/ turn' = turn /\ new # Deleted
      \/ turn' = Other(turn) /\ new = Deleted
  BY <1>1 DEF PassTurn
<1> QED
  BY <1>2, <1>3, <1>4, <1>5, <1>6, <1>7, AnswerRevises

(* The result is written: it is published.                                 *)
LEMMA WriteResultPublishes ==
  ASSUME Inv, Bookkeeping, WriteResult
  PROVE  Atomic!Publish \/ UNCHANGED Atomic!mergeVars
<1>1. /\ pc = "write" /\ UNCHANGED <<base, queue, turn, main, saves, log>>
      /\ merged' = <<[db |-> main, log |-> log]>> \/ merged' = merged
  BY DEF WriteResult, fixed, dbVars
<1>2. merged = <<>> /\ \A b \in Branches : queue[b] = <<>>
  BY <1>1 DEF Bookkeeping
<1>3. saves = <<>> /\ MergedSoFar' = MergedSoFar
  <2>1. ~ScanOpen /\ pc # "advance"
    BY <1>1 DEF Inv, Positions
  <2>2. saves = <<>>
    BY <2>1, StackFacts, Zenon
  <2> QED
    BY <1>1, <2>2 DEF MergedSoFar
<1>4. MergedSoFar = main
  BY <1>3 DEF MergedSoFar
<1> QED
  BY <1>1, <1>2, <1>3, <1>4, AtomicTypes DEF Atomic!Publish, Atomic!mergeVars

(* Everything else changes nothing a user of Git could see.                *)
LEMMA OtherStepsStutter ==
  ASSUME Inv,
         \/ UnsafeHead \/ ApplyUnscanned \/ OpenScan \/ ResumeScan \/ StartStatement
         \/ Started \/ ScanCheck \/ ScanExhausted \/ AdvanceStatement \/ AdvanceFails
         \/ AdvanceScan \/ AcceptPair \/ Interrupt
  PROVE  UNCHANGED Atomic!mergeVars
<1>1. UNCHANGED <<base, queue, turn, log, merged>>
  BY DEF UnsafeHead, ApplyUnscanned, OpenScan, ResumeScan, StartStatement, Started, ScanCheck,
     ScanExhausted, AdvanceStatement, AdvanceFails, AdvanceScan, AcceptPair, Interrupt, fixed
<1>2. MergedSoFar' = MergedSoFar
  <2>1. CASE UnsafeHead
    <3>1. pc # "advance" /\ CloseScan
      BY <2>1 DEF UnsafeHead
    <3> QED
      BY <3>1, CloseKeeps
  <2>2. CASE Savepoint /\ UNCHANGED <<main, control>>
    BY <2>2, PushKeeps
  <2>3. CASE UNCHANGED dbVars
    BY <2>3 DEF dbVars, MergedSoFar
  <2>4. CASE StartStatement
    <3>1. pc = "start" /\ UNCHANGED saves
      BY <2>4 DEF StartStatement
    <3>2. saves # <<>>
      BY <3>1, StackFacts DEF Inv, Positions
    <3> QED
      BY <3>1, <3>2 DEF MergedSoFar
  <2>5. CASE ScanExhausted
    <3>1. /\ pc = "scan" /\ pc # "advance" /\ main' = Last(saves).main
          /\ saves' = Append(Front(saves), [main |-> main', control |-> control'])
      BY <2>5 DEF ScanExhausted
    <3>2. saves # <<>> /\ Len(saves) = 1 /\ saves \in Seq(Saves)
      <4>1. ScanOpen
        BY <3>1 DEF Inv, Positions
      <4> QED
        BY <3>1, <4>1, StackFacts, MergedFacts
    <3>3. Front(saves) = <<>>
      BY <3>2, FrontType, EmptySeq
    <3>4. saves' = <<[main |-> main', control |-> control']>>
      BY <3>1, <3>3
    <3>5. main' = MergedSoFar
      BY <3>1, <3>2, MergedFacts DEF Last
    <3> QED
      BY <3>4, <3>5 DEF MergedSoFar
  <2>6. CASE pc = "advance" /\ UNCHANGED saves
    <3>1. saves # <<>>
      BY <2>6, StackFacts
    <3> QED
      BY <2>6, <3>1 DEF MergedSoFar
  <2>7. CASE pc = "advance" /\ RollbackTop
    BY <2>7, StackFacts, RollbackKeeps
  <2>8. CASE AdvanceScan
    <3>1. Release /\ pc = "advance" /\ walk.purpose # "apply"
      BY <2>8 DEF AdvanceScan
    <3>2. saves # <<>> /\ Len(saves) = 2
      BY <3>1, StackFacts
    <3>3. /\ saves' \in Seq(Saves) /\ Len(saves') = 1
          /\ saves' # <<>> => saves'[1] = saves[1]
      BY <3>1, <3>2, ReleaseStep DEF Inv, TypeOK, DbTypes
    <3>4. saves' # <<>>
      BY <3>3, EmptySeq
    <3> QED
      BY <3>2, <3>3, <3>4 DEF MergedSoFar
  <2>9. CASE ApplyUnscanned \/ OpenScan \/ AcceptPair
    BY <2>2, <2>9 DEF ApplyUnscanned, OpenScan, AcceptPair
  <2>10. CASE ResumeScan \/ Started \/ Interrupt
    BY <2>3, <2>10 DEF ResumeScan, Started, Interrupt
  <2>11. CASE ScanCheck
    BY <2>2, <2>3, <2>11 DEF ScanCheck, Meet
  <2>12. CASE AdvanceStatement \/ AdvanceFails
    BY <2>6, <2>7, <2>12 DEF AdvanceStatement, AdvanceFails
  <2> QED
    BY <2>1, <2>4, <2>5, <2>8, <2>9, <2>10, <2>11, <2>12
<1> QED
  BY <1>1, <1>2 DEF Atomic!mergeVars

(* The loop starts as AtomicMerge does.                                    *)
LEMMA InitAtomic == Init => Atomic!Init
<1> SUFFICES ASSUME Init PROVE Atomic!Init
  OBVIOUS
<1>1. base \in Databases /\ queue \in [Branches -> Logs]
  BY InitInv DEF Inv, TypeOK, LogTypes
<1>2. MergedSoFar = base /\ turn = "ours" /\ log = <<>> /\ merged = <<>>
  BY DEF Init, MergedSoFar
<1> QED
  BY <1>1, <1>2, AtomicTypes DEF Atomic!Init, Logs

(* Every step of the loop is one of AtomicMerge or shows nothing.          *)
LEMMA NextAtomic ==
  Inv /\ Bookkeeping /\ Replayed /\ [Next]_vars => [Atomic!Next]_(Atomic!mergeVars)
<1> SUFFICES ASSUME Inv, Bookkeeping, Replayed, [Next]_vars
             PROVE  Atomic!Next \/ UNCHANGED Atomic!mergeVars
  OBVIOUS
<1>1. CASE UNCHANGED vars
  BY <1>1 DEF vars, Atomic!mergeVars, MergedSoFar
<1>2. CASE AcceptHead
  BY <1>2, AcceptHeadTakes DEF Atomic!Next
<1>3. CASE EmptyTurn
  BY <1>3, EmptyTurnPasses DEF Atomic!Next
<1>4. CASE ResolvePair \/ ResolveStandalone
  BY <1>4, ResolvePairRevises, ResolveStandaloneRevises DEF Atomic!Next
<1>5. CASE WriteResult
  BY <1>5, WriteResultPublishes DEF Atomic!Next
<1>6. CASE \/ UnsafeHead \/ ApplyUnscanned \/ OpenScan \/ ResumeScan \/ StartStatement
           \/ Started \/ ScanCheck \/ ScanExhausted \/ AdvanceStatement \/ AdvanceFails
           \/ AdvanceScan \/ AcceptPair \/ Interrupt
  BY <1>6, OtherStepsStutter
<1> QED
  BY <1>1, <1>2, <1>3, <1>4, <1>5, <1>6, Zenon DEF Next, Program, User, Exited

(* The tool behaves as a merge that takes whole transactions in turn, lets *)
(* the user revise what still waits, and publishes one replay: no scan,    *)
(* probe, failed statement or prompt leaves a trace in the merged          *)
(* database.                                                               *)
THEOREM MergeIsAtomic == Spec => IsAtomicMerge
<1> DEFINE I == Inv /\ Bookkeeping /\ Replayed
<1>1. Init => I /\ Atomic!Init
  BY InitInv, InitBookkeeping, InitReplayed, InitAtomic
<1>2. I /\ [Next]_vars => I'
  BY NextInv, NextBookkeeping, NextReplayed
<1>3. I /\ [Next]_vars => [Atomic!Next]_(Atomic!mergeVars)
  BY NextAtomic
<1> QED
  BY <1>1, <1>2, <1>3, PTL DEF Spec, IsAtomicMerge, Atomic!Spec

-----------------------------------------------------------------------------
(* A conflict is put to the user only if she has not accepted it in this   *)
(* turn: a failing replay that adds to an accepted conflict makes it one   *)
(* that cannot be accepted.                                                *)
LEMMA AskedOnce ==
  ASSUME Inv, Bookkeeping, [Next]_vars, pc # "pair", pc' = "pair"
  PROVE  PairKey(prompt)' \notin accepted'
<1>1. ScanCheck \/ AdvanceFails
  <2>1. ~UNCHANGED vars
    BY DEF vars
  <2>2. ~( \/ UnsafeHead \/ ApplyUnscanned \/ OpenScan \/ ResumeScan \/ StartStatement
           \/ Started \/ ScanExhausted \/ AdvanceStatement \/ AdvanceScan
           \/ AcceptPair \/ Interrupt \/ WriteResult)
    BY DEF UnsafeHead, ApplyUnscanned, OpenScan, ResumeScan, StartStatement, Started,
       ScanExhausted, AdvanceStatement, AdvanceScan, AcceptPair, Interrupt, WriteResult, Ask,
       BeginWalk
  <2>3. ~(EmptyTurn \/ AcceptHead \/ ResolvePair \/ ResolveStandalone)
    BY DEF EmptyTurn, AcceptHead, ResolvePair, ResolveStandalone, PassTurn
  <2> QED
    BY <2>1, <2>2, <2>3, Zenon DEF Next, Program, User, Exited
<1>2. UNCHANGED <<queue, turn, next, accepted>>
  BY <1>1 DEF ScanCheck, AdvanceFails, scanVars
<1>3. PairKey(prompt)' = <<Head0, Candidate, prompt'>>
  BY <1>2, ScanPointKept DEF PairKey
<1>4. \/ \E found : prompt' = found /\ <<Head0, Candidate, found>> \notin accepted
      \/ \E c \in prompt' : c.kind = "integrity"
  <2>1. CASE ScanCheck
    <3>1. \E found : prompt' = found /\ PairKey(found) \notin accepted
      BY <2>1 DEF ScanCheck, Meet, Ask, BeginWalk
    <3> QED
      BY <3>1 DEF PairKey
  <2>2. CASE AdvanceFails
    <3> DEFINE s == Walked.stmts[walk.at]
               strict == Succeeds(ControlForm(s), control) /\ Succeeds(s, main)
               found == {Conflict(IF strict THEN "constraint_resolution" ELSE "integrity", {})}
    <3>1. /\ ~strict \/ StrictFailure(s)
          /\ \/ PairKey(found) \notin accepted /\ prompt' = found
             \/ walk.purpose = "accept" /\ prompt' = walk.conflicts \cup found
      BY <2>2 DEF AdvanceFails, BeginWalk, Ask
    <3>2. walk.purpose = "accept" => ~strict
      BY <3>1 DEF StrictFailure
    <3>3. ~strict => /\ Conflict("integrity", {}) \in found
                     /\ Conflict("integrity", {}).kind = "integrity"
      BY DEF Conflict
    <3> HIDE DEF strict, found
    <3> QED
      BY <3>1, <3>2, <3>3 DEF PairKey
  <2> QED
    BY <1>1, <2>1, <2>2
<1>5. \A c \in prompt' : <<Head0, Candidate, prompt'>> \in accepted => c.kind \in ReviewableKinds
  BY DEF Bookkeeping, Reviewable
<1> QED
  BY <1>2, <1>3, <1>4, <1>5 DEF ReviewableKinds

(* An accepted pair conflict does not come back in the same turn: the scan *)
(* passes it or meets something the user cannot accept.                    *)
THEOREM NeverAskedTwice == Spec => NotAskedTwice
<1>1. Init => Inv /\ Bookkeeping
  BY InitInv, InitBookkeeping
<1>2. Inv /\ Bookkeeping /\ [Next]_vars => (Inv /\ Bookkeeping)'
  BY NextInv, NextBookkeeping
<1>3. Inv /\ Bookkeeping /\ [Next]_vars
        => [pc # "pair" /\ pc' = "pair" => PairKey(prompt)' \notin accepted']_vars
  BY AskedOnce
<1> QED
  BY <1>1, <1>2, <1>3, PTL DEF Spec, NotAskedTwice

-----------------------------------------------------------------------------
(* The fixed order, place by place: the branches alternate as long as both *)
(* have transactions, then the longer one goes on alone.                   *)
LEMMA FixedOrderPlaces ==
  ASSUME Inv
  PROVE  LET x == origin["ours"]  y == origin["theirs"]  m == Min2(Len(x), Len(y))
         IN  /\ FixedOrder \in Seq(Transactions) /\ Len(FixedOrder) = Len(x) + Len(y)
             /\ \A j \in 1..m : FixedOrder[2 * j - 1] = x[j] /\ FixedOrder[2 * j] = y[j]
             /\ m = Len(y) => \A j \in (m + 1)..Len(x) : FixedOrder[m + j] = x[j]
             /\ m = Len(x) => \A j \in (m + 1)..Len(y) : FixedOrder[m + j] = y[j]
<1> DEFINE x == origin["ours"]
           y == origin["theirs"]
           m == Min2(Len(x), Len(y))
           zipped == [i \in 1..2 * m |-> IF i % 2 = 1 THEN x[(i + 1) \div 2] ELSE y[i \div 2]]
           restX == SubSeq(x, m + 1, Len(x))
           restY == SubSeq(y, m + 1, Len(y))
<1>1. /\ x \in Seq(Transactions) /\ y \in Seq(Transactions)
      /\ Len(x) \in Nat /\ Len(y) \in Nat
      /\ \A j \in 1..Len(x) : x[j] \in Transactions
      /\ \A j \in 1..Len(y) : y[j] \in Transactions
  <2>1. x \in Seq(Transactions) /\ y \in Seq(Transactions)
    BY DEF Inv, TypeOK, LogTypes, Logs, Branches
  <2> QED
    BY <2>1, LenProperties, ElementOfSeq
<1>2. /\ m \in Nat /\ m <= Len(x) /\ m <= Len(y) /\ (m = Len(x) \/ m = Len(y))
  BY <1>1 DEF Min2
<1>3. FixedOrder = zipped \o restX \o restY
  BY DEF FixedOrder
<1> HIDE DEF x, y, m
<1>4. /\ zipped \in Seq(Transactions) /\ Len(zipped) = 2 * m
      /\ \A j \in 1..m : zipped[2 * j - 1] = x[j] /\ zipped[2 * j] = y[j]
  <2>1. \A i \in 1..2 * m : /\ i % 2 = 1 => (i + 1) \div 2 \in 1..m
                            /\ i % 2 # 1 => i \div 2 \in 1..m
    BY <1>2
  <2>2. \A i \in 1..2 * m : (IF i % 2 = 1 THEN x[(i + 1) \div 2] ELSE y[i \div 2]) \in Transactions
    BY <1>1, <1>2, <2>1
  <2>3. 2 * m \in Nat
    BY <1>2
  <2>4. zipped \in Seq(Transactions) /\ Len(zipped) = 2 * m
    BY <2>2, <2>3
  <2>5. \A j \in 1..m : /\ 2 * j - 1 \in 1..2 * m /\ 2 * j \in 1..2 * m
                        /\ (2 * j - 1) % 2 = 1 /\ (2 * j) % 2 # 1
                        /\ ((2 * j - 1) + 1) \div 2 = j /\ (2 * j) \div 2 = j
    BY <1>2
  <2> QED
    BY <2>4, <2>5
<1>5. /\ restX \in Seq(Transactions) /\ Len(restX) = Len(x) - m
      /\ \A k \in 1..(Len(x) - m) : restX[k] = x[m + k]
  <2>1. \A i \in (m + 1)..Len(x) : x[i] \in Transactions
    BY <1>1, <1>2
  <2>2. m + 1 \in Int /\ Len(x) \in Int
    BY <1>1, <1>2
  <2>3. /\ restX \in Seq(Transactions)
        /\ Len(restX) = IF m + 1 <= Len(x) THEN Len(x) - (m + 1) + 1 ELSE 0
        /\ \A k \in 1..(Len(x) - (m + 1) + 1) : restX[k] = x[m + 1 + k - 1]
    BY <2>1, <2>2, SubSeqProperties
  <2> HIDE DEF restX
  <2>4. /\ Len(x) - (m + 1) + 1 = Len(x) - m /\ (m + 1 <= Len(x) \/ Len(x) - m = 0)
        /\ \A k \in 1..(Len(x) - m) : m + 1 + k - 1 = m + k
    BY <1>1, <1>2
  <2> QED
    BY <2>3, <2>4
<1>6. /\ restY \in Seq(Transactions) /\ Len(restY) = Len(y) - m
      /\ \A k \in 1..(Len(y) - m) : restY[k] = y[m + k]
  <2>1. \A i \in (m + 1)..Len(y) : y[i] \in Transactions
    BY <1>1, <1>2
  <2>2. m + 1 \in Int /\ Len(y) \in Int
    BY <1>1, <1>2
  <2>3. /\ restY \in Seq(Transactions)
        /\ Len(restY) = IF m + 1 <= Len(y) THEN Len(y) - (m + 1) + 1 ELSE 0
        /\ \A k \in 1..(Len(y) - (m + 1) + 1) : restY[k] = y[m + 1 + k - 1]
    BY <2>1, <2>2, SubSeqProperties
  <2> HIDE DEF restY
  <2>4. /\ Len(y) - (m + 1) + 1 = Len(y) - m /\ (m + 1 <= Len(y) \/ Len(y) - m = 0)
        /\ \A k \in 1..(Len(y) - m) : m + 1 + k - 1 = m + k
    BY <1>1, <1>2
  <2> QED
    BY <2>3, <2>4
<1> HIDE DEF zipped, restX, restY
<1> DEFINE front == zipped \o restX
<1>7. /\ front \in Seq(Transactions) /\ Len(front) = m + Len(x)
      /\ \A i \in 1..(m + Len(x)) : front[i] = IF i <= 2 * m THEN zipped[i] ELSE restX[i - 2 * m]
  <2>1. 2 * m + (Len(x) - m) = m + Len(x)
    BY <1>1, <1>2
  <2>2. /\ front \in Seq(Transactions) /\ Len(front) = Len(zipped) + Len(restX)
        /\ \A i \in 1..(Len(zipped) + Len(restX)) :
             front[i] = IF i <= Len(zipped) THEN zipped[i] ELSE restX[i - Len(zipped)]
    BY <1>4, <1>5, ConcatProperties
  <2>3. Len(zipped) = 2 * m /\ Len(zipped) + Len(restX) = m + Len(x)
    BY <1>4, <1>5, <2>1
  <2> HIDE DEF front
  <2> QED
    BY <2>2, <2>3
<1> HIDE DEF front
<1>8. /\ FixedOrder \in Seq(Transactions) /\ Len(FixedOrder) = Len(x) + Len(y)
      /\ \A i \in 1..(Len(x) + Len(y)) :
           FixedOrder[i] = IF i <= m + Len(x) THEN front[i] ELSE restY[i - (m + Len(x))]
  <2>1. m + Len(x) + (Len(y) - m) = Len(x) + Len(y)
    BY <1>1, <1>2
  <2>2. FixedOrder = front \o restY
    BY <1>3 DEF front
  <2>3. /\ FixedOrder \in Seq(Transactions) /\ Len(FixedOrder) = Len(front) + Len(restY)
        /\ \A i \in 1..(Len(front) + Len(restY)) :
             FixedOrder[i] = IF i <= Len(front) THEN front[i] ELSE restY[i - Len(front)]
    BY <1>6, <1>7, <2>2, ConcatProperties
  <2>4. Len(front) = m + Len(x) /\ Len(front) + Len(restY) = Len(x) + Len(y)
    BY <1>6, <1>7, <2>1
  <2> QED
    BY <2>3, <2>4
<1>9. \A j \in 1..m : FixedOrder[2 * j - 1] = x[j] /\ FixedOrder[2 * j] = y[j]
  <2> SUFFICES ASSUME NEW j \in 1..m PROVE FixedOrder[2 * j - 1] = x[j] /\ FixedOrder[2 * j] = y[j]
    OBVIOUS
  <2>1. /\ 2 * j - 1 \in 1..(Len(x) + Len(y)) /\ 2 * j \in 1..(Len(x) + Len(y))
        /\ 2 * j - 1 \in 1..(m + Len(x)) /\ 2 * j \in 1..(m + Len(x))
        /\ 2 * j - 1 <= m + Len(x) /\ 2 * j <= m + Len(x) /\ 2 * j - 1 <= 2 * m /\ 2 * j <= 2 * m
    BY <1>1, <1>2
  <2> QED
    BY <1>4, <1>7, <1>8, <2>1
<1>10. ASSUME m = Len(y), NEW j \in (m + 1)..Len(x) PROVE FixedOrder[m + j] = x[j]
  <2>1. /\ m + j \in 1..(Len(x) + Len(y)) /\ m + j \in 1..(m + Len(x)) /\ m + j <= m + Len(x)
        /\ ~(m + j <= 2 * m) /\ (m + j) - 2 * m \in 1..(Len(x) - m)
        /\ m + ((m + j) - 2 * m) = j
    BY <1>1, <1>2, <1>10
  <2> QED
    BY <1>5, <1>7, <1>8, <2>1
<1>11. ASSUME m = Len(x), NEW j \in (m + 1)..Len(y) PROVE FixedOrder[m + j] = y[j]
  <2>1. /\ m + j \in 1..(Len(x) + Len(y)) /\ ~(m + j <= m + Len(x))
        /\ (m + j) - (m + Len(x)) \in 1..(Len(y) - m) /\ m + ((m + j) - (m + Len(x))) = j
    BY <1>1, <1>2, <1>11
  <2> QED
    BY <1>6, <1>8, <2>1
<1> QED
  BY <1>8, <1>9, <1>10, <1>11 DEF x, y, m

(* What the branches have contributed, as long as nothing was edited: the  *)
(* queues are the ends of the logs, ours is at most one turn ahead, and    *)
(* the merged log is the beginning of the fixed order.                     *)
Taken(b) == Len(origin[b]) - Len(queue[b])
QueueIsRest ==
  \A b \in Branches : /\ Len(queue[b]) <= Len(origin[b])
                      /\ queue[b] = SubSeq(origin[b], Taken(b) + 1, Len(origin[b]))
Alternating ==
  LET a == Taken("ours")  c == Taken("theirs")
      ahead == IF turn = "theirs" THEN 1 ELSE 0
  IN  \/ a = c + ahead
      \/ a < c + ahead /\ queue["ours"] = <<>>
      \/ a > c + ahead /\ queue["theirs"] = <<>>
LogIsOrder == /\ Len(log) = Taken("ours") + Taken("theirs")
              /\ log = SubSeq(FixedOrder, 1, Len(log))

(* Where the head of the turn is in the order.                             *)
LEMMA NextPlace ==
  ASSUME Inv, QueueIsRest, Alternating, queue[turn] # <<>>
  PROVE  LET k == Taken("ours") + Taken("theirs") + 1
         IN  k \in 1..Len(FixedOrder) /\ FixedOrder[k] = origin[turn][Taken(turn) + 1]
<1> DEFINE x == origin["ours"]
           y == origin["theirs"]
           a == Taken("ours")
           c == Taken("theirs")
           m == Min2(Len(x), Len(y))
<1>1. /\ Len(x) \in Nat /\ Len(y) \in Nat /\ Len(queue["ours"]) \in Nat
      /\ Len(queue["theirs"]) \in Nat /\ turn \in Branches
      /\ queue["ours"] = <<>> <=> Len(queue["ours"]) = 0
      /\ queue["theirs"] = <<>> <=> Len(queue["theirs"]) = 0
  <2>1. /\ x \in Seq(Transactions) /\ y \in Seq(Transactions) /\ turn \in Branches
        /\ queue["ours"] \in Seq(Transactions) /\ queue["theirs"] \in Seq(Transactions)
    BY DEF Inv, TypeOK, LogTypes, TurnTypes, Logs, Branches
  <2> QED
    BY <2>1, LenProperties, EmptySeq
<1>2. /\ a = Len(x) - Len(queue["ours"]) /\ c = Len(y) - Len(queue["theirs"])
      /\ Len(queue["ours"]) <= Len(x) /\ Len(queue["theirs"]) <= Len(y)
  BY DEF QueueIsRest, Taken, Branches
<1>3. /\ m \in Nat /\ m <= Len(x) /\ m <= Len(y)
      /\ Len(x) <= Len(y) => m = Len(x)
      /\ Len(y) <= Len(x) => m = Len(y)
  BY <1>1 DEF Min2
<1>4. /\ FixedOrder \in Seq(Transactions) /\ Len(FixedOrder) = Len(x) + Len(y)
      /\ \A j \in 1..m : FixedOrder[2 * j - 1] = x[j] /\ FixedOrder[2 * j] = y[j]
      /\ m = Len(y) => \A j \in (m + 1)..Len(x) : FixedOrder[m + j] = x[j]
      /\ m = Len(x) => \A j \in (m + 1)..Len(y) : FixedOrder[m + j] = y[j]
  BY FixedOrderPlaces
<1>5. CASE turn = "ours"
  <2>0. /\ queue["ours"] # <<>>
        /\ a = c \/ (a < c /\ queue["ours"] = <<>>) \/ (a > c /\ queue["theirs"] = <<>>)
    <3>1. (IF turn = "theirs" THEN 1 ELSE 0) = 0
      BY <1>5
    <3> HIDE DEF a, c
    <3>2. a + 0 = a /\ c + 0 = c
      BY <1>1, <1>2
    <3> QED
      BY <1>5, <3>1, <3>2, Zenon DEF Alternating, a, c
  <2>1. /\ a < Len(x) /\ a \in Nat /\ c \in Nat /\ c <= Len(y)
        /\ a = c \/ (a > c /\ c = Len(y))
    <3> HIDE DEF a, c, x, y, m
    <3> QED
      BY <1>1, <1>2, <2>0
  <2> HIDE DEF a, c, x, y, m
  <2>2. CASE a = c /\ c < Len(y)
    <3>1. a + 1 \in 1..m /\ 2 * (a + 1) - 1 = a + c + 1
      BY <1>1, <1>3, <2>1, <2>2
    <3>2. FixedOrder[a + c + 1] = x[a + 1]
      BY <1>4, <3>1
    <3>3. a + c + 1 \in 1..(Len(x) + Len(y))
      BY <1>1, <2>1, <2>2
    <3> QED
      BY <1>4, <1>5, <3>2, <3>3 DEF a, c, x
  <2>3. CASE c = Len(y)
    <3>1. m = Len(y) /\ a + 1 \in (m + 1)..Len(x) /\ m + (a + 1) = a + c + 1
      BY <1>1, <1>3, <2>1, <2>3
    <3>2. FixedOrder[a + c + 1] = x[a + 1]
      BY <1>4, <3>1
    <3>3. a + c + 1 \in 1..(Len(x) + Len(y))
      BY <1>1, <2>1, <2>3
    <3> QED
      BY <1>4, <1>5, <3>2, <3>3 DEF a, c, x
  <2> QED
    BY <1>1, <2>1, <2>2, <2>3
<1>6. CASE turn = "theirs"
  <2>0. /\ queue["theirs"] # <<>>
        /\ a = c + 1 \/ (a < c + 1 /\ queue["ours"] = <<>>) \/ (a > c + 1 /\ queue["theirs"] = <<>>)
    <3>1. (IF turn = "theirs" THEN 1 ELSE 0) = 1
      BY <1>6
    <3> HIDE DEF a, c
    <3>2. a + 0 = a /\ c + 0 = c
      BY <1>1, <1>2
    <3> QED
      BY <1>6, <3>1, <3>2, Zenon DEF Alternating, a, c
  <2>1. /\ c < Len(y) /\ a \in Nat /\ c \in Nat /\ a <= Len(x)
        /\ a = c + 1 \/ (a < c + 1 /\ a = Len(x))
    <3> HIDE DEF a, c, x, y, m
    <3>1. c < Len(y) /\ a \in Nat /\ c \in Nat /\ a <= Len(x)
      BY <1>1, <1>2, <2>0
    <3>2. queue["ours"] = <<>> => a = Len(x)
      BY <1>1, <1>2
    <3> QED
      BY <2>0, <3>1, <3>2, Zenon
  <2> HIDE DEF a, c, x, y, m
  <2>2. CASE a = c + 1
    <3>1. c + 1 \in 1..m /\ 2 * (c + 1) = a + c + 1
      BY <1>1, <1>3, <2>1, <2>2
    <3>2. FixedOrder[a + c + 1] = y[c + 1]
      BY <1>4, <3>1
    <3>3. a + c + 1 \in 1..(Len(x) + Len(y))
      BY <1>1, <2>1, <2>2
    <3> QED
      BY <1>4, <1>6, <3>2, <3>3 DEF a, c, y
  <2>3. CASE a < c + 1 /\ a = Len(x)
    <3>1. m = Len(x) /\ c + 1 \in (m + 1)..Len(y) /\ m + (c + 1) = a + c + 1
      BY <1>1, <1>3, <2>1, <2>3
    <3>2. FixedOrder[a + c + 1] = y[c + 1]
      BY <1>4, <3>1
    <3>3. a + c + 1 \in 1..(Len(x) + Len(y))
      BY <1>1, <2>1, <2>3
    <3> QED
      BY <1>4, <1>6, <3>2, <3>3 DEF a, c, y
  <2> QED
    BY <2>1, <2>2, <2>3
<1> QED
  BY <1>1, <1>5, <1>6 DEF Branches

(* What holds as long as nothing was edited.                               *)
FollowsOrder ==
  /\ QueueIsRest /\ Alternating /\ LogIsOrder
  /\ pc \in {"write", "done"} => \A b \in Branches : queue[b] = <<>>

(* Accepting a head takes the next transaction of the order.               *)
LEMMA AcceptHeadInOrder ==
  ASSUME Inv, FollowsOrder, AcceptHead
  PROVE  QueueIsRest' /\ Alternating' /\ LogIsOrder'
<1>1. /\ log' = Append(log, Head0) /\ queue' = [queue EXCEPT ![turn] = Tail(queue[turn])]
      /\ turn' = Other(turn) /\ origin' = origin /\ queue[turn] # <<>>
  BY DEF AcceptHead, PassTurn, fixed, Inv, Positions
<1>2. /\ queue \in [Branches -> Logs] /\ turn \in Branches /\ log \in Logs
      /\ origin \in [Branches -> Logs]
  BY DEF Inv, TypeOK, LogTypes, TurnTypes
<1>3. \A b \in Branches : /\ queue[b] \in Seq(Transactions) /\ origin[b] \in Seq(Transactions)
                          /\ Len(queue[b]) \in Nat /\ Len(origin[b]) \in Nat
                          /\ queue[b] = <<>> <=> Len(queue[b]) = 0
                          /\ Len(queue[b]) <= Len(origin[b])
                          /\ queue[b] = SubSeq(origin[b], Taken(b) + 1, Len(origin[b]))
  BY <1>2, LenProperties, EmptySeq DEF Logs, FollowsOrder, QueueIsRest
<1> DEFINE i == Taken(turn) + 1
           o == origin[turn]
<1>4. /\ i \in 1..Len(o) /\ Taken(turn) \in Nat /\ Len(o) \in Len(o)..Len(o)
      /\ Len(o) - Len(queue[turn]) = Taken(turn)
  BY <1>1, <1>2, <1>3 DEF Taken
<1>5. Head0 = o[i] /\ Tail(queue[turn]) = SubSeq(o, i + 1, Len(o))
  <2>1. Len(o) \in i..Len(o) /\ o \in Seq(Transactions)
    BY <1>2, <1>3, <1>4
  <2>2. queue[turn] = SubSeq(o, i, Len(o))
    BY <1>2, <1>3
  <2> HIDE DEF i, o
  <2> QED
    BY <1>4, <2>1, <2>2, HeadTailOfSubSeq DEF Head0
<1>6. Len(Tail(queue[turn])) = Len(queue[turn]) - 1
  BY <1>1, <1>2, <1>3, HeadTailProperties
<1>7. \A b \in Branches : Taken(b)' = IF b = turn THEN Taken(b) + 1 ELSE Taken(b)
  <2>1. \A b \in Branches : Taken(b)' = Len(origin[b]) - Len(queue'[b])
    BY <1>1 DEF Taken
  <2>2. queue'[turn] = Tail(queue[turn]) /\ \A b \in Branches \ {turn} : queue'[b] = queue[b]
    BY <1>1, <1>2
  <2>3. \A b \in Branches : b = turn => Taken(b)' = Taken(b) + 1
    BY <1>1, <1>2, <1>3, <1>6, <2>1, <2>2 DEF Taken
  <2>4. \A b \in Branches \ {turn} : Taken(b)' = Taken(b)
    BY <2>1, <2>2 DEF Taken
  <2> QED
    BY <2>3, <2>4
<1>8. QueueIsRest'
  <2> SUFFICES ASSUME NEW b \in Branches
               PROVE  /\ Len(queue'[b]) <= Len(origin[b])
                      /\ queue'[b] = SubSeq(origin[b], Taken(b)' + 1, Len(origin[b]))
    BY <1>1 DEF QueueIsRest, Taken
  <2>1. CASE b = turn
    <3>1. queue'[b] = Tail(queue[turn]) /\ Taken(b)' + 1 = i + 1
      BY <1>1, <1>2, <1>7, <2>1
    <3>2. Len(queue'[b]) <= Len(origin[b])
      BY <1>3, <1>6, <2>1, <3>1
    <3> QED
      BY <1>5, <2>1, <3>1, <3>2
  <2>2. CASE b # turn
    BY <1>1, <1>2, <1>3, <1>7, <2>2
  <2> QED
    BY <2>1, <2>2
<1>9. Alternating'
  <2> DEFINE a == Taken("ours")
             c == Taken("theirs")
  <2>1. /\ a \in Int /\ c \in Int
        /\ \/ a = c + (IF turn = "theirs" THEN 1 ELSE 0)
           \/ a < c + (IF turn = "theirs" THEN 1 ELSE 0) /\ queue["ours"] = <<>>
           \/ a > c + (IF turn = "theirs" THEN 1 ELSE 0) /\ queue["theirs"] = <<>>
    <3>1. a \in Int /\ c \in Int
      BY <1>3 DEF Taken, Branches
    <3> QED
      BY <3>1, Zenon DEF FollowsOrder, Alternating
  <2>2. CASE turn = "ours"
    <3>1. /\ turn' = "theirs" /\ queue'["theirs"] = queue["theirs"]
          /\ Taken("ours")' = a + 1 /\ Taken("theirs")' = c
      BY <1>1, <1>2, <1>7, <2>2 DEF Other, Branches
    <3>2. (IF turn = "theirs" THEN 1 ELSE 0) = 0 /\ (IF turn' = "theirs" THEN 1 ELSE 0) = 1
      BY <2>2, <3>1
    <3> HIDE DEF a, c
    <3>3. a = c \/ (a > c /\ queue["theirs"] = <<>>)
      BY <1>1, <2>1, <2>2, <3>2
    <3>4. a + 1 = c + 1 \/ (a + 1 > c + 1 /\ queue'["theirs"] = <<>>)
      BY <2>1, <3>1, <3>3
    <3> QED
      BY <3>1, <3>2, <3>4, Zenon DEF Alternating
  <2>3. CASE turn = "theirs"
    <3>1. /\ turn' = "ours" /\ queue'["ours"] = queue["ours"]
          /\ Taken("ours")' = a /\ Taken("theirs")' = c + 1
      BY <1>1, <1>2, <1>7, <2>3 DEF Other, Branches
    <3>2. /\ (IF turn = "theirs" THEN 1 ELSE 0) = 1 /\ (IF turn' = "theirs" THEN 1 ELSE 0) = 0
          /\ c + 1 + 0 = c + 1
      BY <2>1, <2>3, <3>1
    <3> HIDE DEF a, c
    <3>3. a = c + 1 \/ (a < c + 1 /\ queue["ours"] = <<>>)
      BY <1>1, <2>1, <2>3, <3>2
    <3>4. a = c + 1 + 0 \/ (a < c + 1 + 0 /\ queue'["ours"] = <<>>)
      BY <3>1, <3>2, <3>3
    <3> QED
      BY <3>1, <3>2, <3>4, Zenon DEF Alternating
  <2> QED
    BY <1>2, <2>2, <2>3 DEF Branches
<1>10. LogIsOrder'
  <2> DEFINE k == Taken("ours") + Taken("theirs") + 1
             f == FixedOrder
  <2>1. k \in 1..Len(f) /\ f[k] = Head0 /\ f \in Seq(Transactions)
    BY <1>1, <1>5, NextPlace, FixedOrderPlaces DEF FollowsOrder
  <2>2. Len(log) = k - 1 /\ log = SubSeq(f, 1, Len(log))
    <3>1. Taken("ours") \in Int /\ Taken("theirs") \in Int
      BY <1>3 DEF Taken, Branches
    <3> QED
      BY <3>1 DEF FollowsOrder, LogIsOrder
  <2>3. FixedOrder' = f
    BY <1>1 DEF FixedOrder
  <2>4. Taken("ours")' + Taken("theirs")' = k
    <3>1. Taken("ours") \in Int /\ Taken("theirs") \in Int
      BY <1>3 DEF Taken, Branches
    <3> QED
      BY <1>2, <1>7, <3>1 DEF Branches
  <2> HIDE DEF k, f
  <2>5. SubSeq(f, 1, k) = Append(SubSeq(f, 1, k - 1), f[k])
    BY <2>1
  <2>6. log' = SubSeq(f, 1, k)
    BY <1>1, <2>1, <2>2, <2>5
  <2>7. Len(log') = k
    BY <2>1, <2>6
  <2> QED
    BY <2>3, <2>4, <2>6, <2>7 DEF LogIsOrder
<1> QED
  BY <1>8, <1>9, <1>10

(* An empty turn takes nothing, and the order skips it.                    *)
LEMMA EmptyTurnInOrder ==
  ASSUME Inv, FollowsOrder, EmptyTurn
  PROVE  QueueIsRest' /\ Alternating' /\ LogIsOrder'
<1>1. /\ UNCHANGED <<queue, origin, log>> /\ turn' = Other(turn) /\ queue[turn] = <<>>
  BY DEF EmptyTurn, PassTurn, fixed
<1>2. /\ Taken("ours")' = Taken("ours") /\ Taken("theirs")' = Taken("theirs")
  BY <1>1 DEF Taken
<1>3. QueueIsRest' /\ LogIsOrder'
  BY <1>1 DEF FollowsOrder, QueueIsRest, LogIsOrder, Taken, FixedOrder
<1>4. Alternating'
  <2> DEFINE a == Taken("ours")
             c == Taken("theirs")
  <2>1. a \in Int /\ c \in Int /\ turn \in Branches
    <3>1. queue \in [Branches -> Logs] /\ origin \in [Branches -> Logs] /\ turn \in Branches
      BY DEF Inv, TypeOK, LogTypes, TurnTypes
    <3> QED
      BY <3>1, LenProperties DEF Taken, Branches, Logs
  <2>2. CASE turn = "ours"
    <3>1. /\ (IF turn = "theirs" THEN 1 ELSE 0) = 0 /\ (IF turn' = "theirs" THEN 1 ELSE 0) = 1
          /\ queue'["ours"] = <<>> /\ queue'["theirs"] = queue["theirs"]
      BY <1>1, <2>2 DEF Other
    <3>2. a = c + 0 \/ (a < c + 0 /\ queue["ours"] = <<>>) \/ (a > c + 0 /\ queue["theirs"] = <<>>)
      BY <3>1, Zenon DEF FollowsOrder, Alternating
    <3> HIDE DEF a, c
    <3>3. a = c + 1 \/ a < c + 1 \/ (a > c + 1 /\ queue'["theirs"] = <<>>)
      BY <2>1, <3>1, <3>2
    <3> QED
      BY <1>2, <3>1, <3>3, Zenon DEF Alternating, a, c
  <2>3. CASE turn = "theirs"
    <3>1. /\ (IF turn = "theirs" THEN 1 ELSE 0) = 1 /\ (IF turn' = "theirs" THEN 1 ELSE 0) = 0
          /\ queue'["theirs"] = <<>> /\ queue'["ours"] = queue["ours"]
      BY <1>1, <2>3 DEF Other
    <3>2. a = c + 1 \/ (a < c + 1 /\ queue["ours"] = <<>>) \/ (a > c + 1 /\ queue["theirs"] = <<>>)
      BY <3>1, Zenon DEF FollowsOrder, Alternating
    <3> HIDE DEF a, c
    <3>3. a = c + 0 \/ (a < c + 0 /\ queue'["ours"] = <<>>) \/ a > c + 0
      BY <2>1, <3>1, <3>2
    <3> QED
      BY <1>2, <3>1, <3>3, Zenon DEF Alternating, a, c
  <2> QED
    BY <2>1, <2>2, <2>3 DEF Branches
<1> QED
  BY <1>3, <1>4

(* At first nothing is taken.                                              *)
LEMMA InitInOrder == Init => FollowsOrder
<1> SUFFICES ASSUME Init PROVE FollowsOrder
  OBVIOUS
<1>1. queue = origin /\ log = <<>> /\ turn = "ours"
      /\ (pc \in {"write", "done"} => \A b \in Branches : origin[b] = <<>>)
  BY DEF Init
<1>2. Inv
  BY InitInv
<1>3. \A b \in Branches : origin[b] \in Seq(Transactions) /\ Len(origin[b]) \in Nat
  BY <1>2, LenProperties DEF Inv, TypeOK, LogTypes, Logs
<1>4. \A b \in Branches : Taken(b) = 0
  BY <1>1, <1>3 DEF Taken
<1>5. QueueIsRest
  BY <1>1, <1>3, <1>4, SubSeqFull DEF QueueIsRest
<1>6. Alternating
  BY <1>1, <1>4 DEF Alternating, Branches
<1>7. LogIsOrder
  <2>1. SubSeq(FixedOrder, 1, 0) = <<>>
    BY SubSeqEmpty
  <2> QED
    BY <1>1, <1>4, <2>1, EmptySeq DEF LogIsOrder, Branches
<1> QED
  BY <1>1, <1>5, <1>6, <1>7 DEF FollowsOrder

(* Every step but an edit keeps to the order.                              *)
LEMMA NextInOrder ==
  ASSUME Inv, ~touched => FollowsOrder, [Next]_vars
  PROVE  ~touched' => FollowsOrder'
<1>1. CASE ResolvePair \/ ResolveStandalone
  <2>1. touched' = TRUE
    BY <1>1, Zenon DEF ResolvePair, ResolveStandalone
  <2> QED
    BY <2>1, Zenon
<1>2. CASE AcceptHead
  <2> SUFFICES ASSUME ~touched' PROVE FollowsOrder'
    OBVIOUS
  <2>1. ~touched
    BY <1>2, Zenon DEF AcceptHead, userVars
  <2>2. FollowsOrder
    BY <2>1
  <2>3. pc' \in {"write", "done"} => \A b \in Branches : queue'[b] = <<>>
    BY <1>2 DEF AcceptHead, PassTurn, Branches
  <2> QED
    BY <1>2, <2>2, <2>3, AcceptHeadInOrder DEF FollowsOrder
<1>3. CASE EmptyTurn
  <2> SUFFICES ASSUME ~touched' PROVE FollowsOrder'
    OBVIOUS
  <2>1. ~touched
    BY <1>3, Zenon DEF EmptyTurn, userVars
  <2>2. FollowsOrder
    BY <2>1
  <2>3. pc' \in {"write", "done"} => \A b \in Branches : queue'[b] = <<>>
    BY <1>3 DEF EmptyTurn, PassTurn, Branches
  <2> QED
    BY <1>3, <2>2, <2>3, EmptyTurnInOrder DEF FollowsOrder
<1>4. CASE \/ UnsafeHead \/ ApplyUnscanned \/ OpenScan \/ ResumeScan \/ StartStatement
           \/ Started \/ ScanCheck \/ ScanExhausted \/ AdvanceStatement \/ AdvanceFails
           \/ AdvanceScan \/ WriteResult \/ AcceptPair \/ Interrupt \/ UNCHANGED vars
  <2> SUFFICES ASSUME ~touched' PROVE FollowsOrder'
    OBVIOUS
  <2>1. UNCHANGED <<queue, origin, log, turn, touched>>
    BY <1>4 DEF UnsafeHead, ApplyUnscanned, OpenScan, ResumeScan, StartStatement, Started,
       ScanCheck, ScanExhausted, AdvanceStatement, AdvanceFails, AdvanceScan, WriteResult,
       AcceptPair, Interrupt, fixed, userVars, vars
  <2>2. ~touched
    BY <2>1, Zenon
  <2>3. FollowsOrder
    BY <2>2
  <2>4. pc' \in {"write", "done"} => pc \in {"write", "done"}
    BY <1>4 DEF UnsafeHead, ApplyUnscanned, OpenScan, ResumeScan, StartStatement, Started,
       ScanCheck, ScanExhausted, AdvanceStatement, AdvanceFails, AdvanceScan, WriteResult,
       AcceptPair, Interrupt, Meet, Ask, BeginWalk, vars
  <2> QED
    BY <2>1, <2>3, <2>4 DEF FollowsOrder, QueueIsRest, Alternating, LogIsOrder, Taken, FixedOrder
<1> QED
  BY <1>1, <1>2, <1>3, <1>4, Zenon DEF Next, Program, User, Exited

(* As long as the user edits and deletes nothing, the merged log is a      *)
(* beginning of X1, Y1, X2, Y2, ..., and all of it when the result is      *)
(* written: no transaction is lost, doubled or taken out of turn.          *)
THEOREM FixedOrderHolds == Spec => []FixedReplayOrder
<1> DEFINE I == Inv /\ (~touched => FollowsOrder)
<1>1. Init => I
  BY InitInv, InitInOrder
<1>2. I /\ [Next]_vars => I'
  BY NextInv, NextInOrder
<1>3. I => FixedReplayOrder
  <2> SUFFICES ASSUME Inv, FollowsOrder
               PROVE  /\ log = SubSeq(FixedOrder, 1, Len(log))
                      /\ pc \in {"write", "done"} => log = FixedOrder
    BY Zenon DEF FixedReplayOrder
  <2>1. log = SubSeq(FixedOrder, 1, Len(log)) /\ Len(log) = Taken("ours") + Taken("theirs")
    BY DEF FollowsOrder, LogIsOrder
  <2>2. ASSUME pc \in {"write", "done"} PROVE log = FixedOrder
    <3>1. queue["ours"] = <<>> /\ queue["theirs"] = <<>>
      BY <2>2 DEF FollowsOrder, Branches
    <3>2. Len(origin["ours"]) \in Nat /\ Len(origin["theirs"]) \in Nat
      BY LenProperties DEF Inv, TypeOK, LogTypes, Logs, Branches
    <3>3. Len(log) = Len(origin["ours"]) + Len(origin["theirs"])
      BY <2>1, <3>1, <3>2, EmptySeq DEF Taken
    <3>4. FixedOrder \in Seq(Transactions) /\ Len(FixedOrder) = Len(log)
      BY <3>3, FixedOrderPlaces
    <3> QED
      BY <2>1, <3>4, SubSeqFull
  <2> QED
    BY <2>1, <2>2
<1> QED
  BY <1>1, <1>2, <1>3, PTL DEF Spec

-----------------------------------------------------------------------------
(***************************************************************************)
(* The comparisons of neighbouring prefixes add up: EffectsKept,           *)
(* NoSilentOverwrite and ResolutionNotActivated, for logs of any length.   *)
(*                                                                         *)
(* A transaction that waits is compared in the scan of every head of the   *)
(* other branch that goes before it.  Ahead is the state it would run in   *)
(* if its own branch went on alone from the merged database, Behind the    *)
(* same with the head of the turn in front.  On its own branch's turn      *)
(* Ahead stays, on the other one's it becomes what Behind was, and between *)
(* the two the scan, or the reason not to scan, keeps what the transaction *)
(* does: Clear.  So from the branch to the merged log it never changes:    *)
(* Settled.                                                                *)
(***************************************************************************)

(* b has the rows of a, or only rows of a.                                 *)
SamePresence(a, b) == \A r \in Rows : Present(a, r) <=> Present(b, r)
Fewer(a, b) == \A r \in Rows : Present(b, r) => Present(a, r)

-----------------------------------------------------------------------------
(* Which rows a statement leaves.                                          *)
LEMMA ResultPresence ==
  ASSUME NEW s \in Statements, NEW db \in Databases, NEW r \in Rows
  PROVE  /\ IsInsert(s) => (Present(Result(s, db), r) <=> r = s.row \/ Present(db, r))
         /\ s.op \in {"update", "all", "copy"} =>
              (Present(Result(s, db), r) <=> Present(db, r))
         /\ IsDelete(s) => (Present(Result(s, db), r) <=> r \notin Targets(s) /\ Present(db, r))
         /\ s.op = "move" =>
              (Present(Result(s, db), r) <=>
                 IF Present(db, s.row) THEN r = s.src \/ (r # s.row /\ Present(db, r))
                                       ELSE Present(db, r))
<1>1. /\ s.op \in Ops /\ s.row \in Rows /\ s.src \in Rows /\ s.val \in Vals
      /\ s.val # NoRow /\ Null # NoRow
  BY ValuesAssumption DEF Statements
<1>2. db \in [Rows -> Values \cup {NoRow}]
  BY DEF Databases
<1>3. ASSUME IsInsert(s) PROVE Present(Result(s, db), r) <=> r = s.row \/ Present(db, r)
  <2>1. CASE s.op \in {"insert", "replace", "upsert"}
    BY <1>1, <1>2, <2>1 DEF Result, Present
  <2>2. CASE s.op = "ignore"
    BY <1>1, <1>2, <2>2 DEF Result, Present
  <2> QED
    BY <1>3, <2>1, <2>2 DEF IsInsert, InsertOps
<1>4. ASSUME s.op \in {"update", "all"} PROVE Present(Result(s, db), r) <=> Present(db, r)
  BY <1>1, <1>2, <1>4 DEF Result, Present
<1>5. ASSUME s.op = "copy" PROVE Present(Result(s, db), r) <=> Present(db, r)
  <2>1. Selected(s, db) # NoRow
    BY <1>1 DEF Selected, Present
  <2> QED
    BY <1>1, <1>2, <1>5, <2>1 DEF Result, Present
<1>6. ASSUME IsDelete(s)
      PROVE  Present(Result(s, db), r) <=> r \notin Targets(s) /\ Present(db, r)
  BY <1>1, <1>2, <1>6 DEF Result, Present, IsDelete
<1>7. ASSUME s.op = "move"
      PROVE  Present(Result(s, db), r) <=>
                 IF Present(db, s.row) THEN r = s.src \/ (r # s.row /\ Present(db, r))
                                       ELSE Present(db, r)
  <2>1. CASE Present(db, s.row)
    <3>1. Result(s, db) = [db EXCEPT ![s.row] = NoRow, ![s.src] = db[s.row]]
      BY <1>7, <2>1 DEF Result
    <3> QED
      BY <1>1, <1>2, <2>1, <3>1 DEF Present
  <2>2. CASE ~Present(db, s.row)
    BY <1>7, <2>2 DEF Result
  <2> QED
    BY <2>1, <2>2
<1> QED
  BY <1>3, <1>4, <1>5, <1>6, <1>7

(* The forms there are.                                                    *)
LEMMA Forms ==
  ASSUME NEW s \in Statements
  PROVE  IsInsert(s) \/ s.op \in {"update", "all", "copy"} \/ IsDelete(s) \/ s.op = "move"
BY DEF Statements, Ops, IsInsert, IsDelete, InsertOps, WholeTableOps

(* Whether a statement succeeds and which rows it leaves depends on which  *)
(* rows it finds, and not on what is in them.                              *)
LEMMA PresenceDecides ==
  ASSUME NEW s \in Statements, NEW a \in Databases, NEW b \in Databases, SamePresence(a, b)
  PROVE  /\ Succeeds(s, a) <=> Succeeds(s, b)
         /\ SamePresence(Result(s, a), Result(s, b))
<1>1. s.row \in Rows /\ s.src \in Rows
  BY DEF Statements
<1>2. Succeeds(s, a) <=> Succeeds(s, b)
  BY <1>1 DEF Succeeds, SamePresence
<1>3. ASSUME NEW r \in Rows PROVE Present(Result(s, a), r) <=> Present(Result(s, b), r)
  <2>1. Present(a, r) <=> Present(b, r)
    BY DEF SamePresence
  <2>2. Present(a, s.row) <=> Present(b, s.row)
    BY <1>1 DEF SamePresence
  <2>3. CASE IsInsert(s)
    BY <2>1, <2>3, ResultPresence
  <2>4. CASE s.op \in {"update", "all", "copy"}
    BY <2>1, <2>4, ResultPresence
  <2>5. CASE IsDelete(s)
    BY <2>1, <2>5, ResultPresence
  <2>6. CASE s.op = "move"
    BY <2>1, <2>2, <2>6, ResultPresence
  <2> QED
    BY <2>3, <2>4, <2>5, <2>6, Forms
<1> QED
  BY <1>2, <1>3 DEF SamePresence

(* A statement that goes through on both leaves fewer rows of fewer.       *)
LEMMA FewerStays ==
  ASSUME NEW s \in Statements, NEW a \in Databases, NEW b \in Databases, Fewer(a, b)
  PROVE  /\ Succeeds(s, a) /\ Succeeds(s, b) => Fewer(Result(s, a), Result(s, b))
         /\ IsInsert(s) /\ Succeeds(s, a) => Succeeds(s, b)
<1>1. s.row \in Rows /\ s.src \in Rows
  BY DEF Statements
<1>2. IsInsert(s) /\ Succeeds(s, a) => Succeeds(s, b)
  BY <1>1 DEF Succeeds, Fewer, IsInsert, InsertOps
<1>3. ASSUME Succeeds(s, a), Succeeds(s, b), NEW r \in Rows, Present(Result(s, b), r)
      PROVE  Present(Result(s, a), r)
  <2>1. /\ Present(b, r) => Present(a, r)
        /\ Present(b, s.row) => Present(a, s.row)
    BY <1>1 DEF Fewer
  <2>2. CASE IsInsert(s)
    BY <1>3, <2>1, <2>2, ResultPresence
  <2>3. CASE s.op \in {"update", "all", "copy"}
    BY <1>3, <2>1, <2>3, ResultPresence
  <2>4. CASE IsDelete(s)
    BY <1>3, <2>1, <2>4, ResultPresence
  <2>5. CASE s.op = "move"
    <3>1. CASE Present(b, s.row)
      BY <1>3, <2>1, <2>5, <3>1, ResultPresence
    <3>2. CASE ~Present(b, s.row)
      BY <1>1, <1>3, <2>1, <2>5, <3>2, ResultPresence
    <3> QED
      BY <3>1, <3>2
  <2> QED
    BY <2>2, <2>3, <2>4, <2>5, Forms
<1> QED
  BY <1>2, <1>3 DEF Fewer

(* A statement that does not write the key finds and leaves the same rows; *)
(* one that creates no key leaves no other rows.  Both always succeed.     *)
LEMMA QuietStatement ==
  ASSUME NEW s \in Statements, NEW db \in Databases
  PROVE  /\ "k" \notin WrittenColumns(s) =>
              Succeeds(s, db) /\ SamePresence(db, Result(s, db))
         /\ ~MayCreateKey(s) => Succeeds(s, db) /\ Fewer(db, Result(s, db))
<1>1. "k" \notin WrittenColumns(s) => s.op \in {"update", "all", "copy"}
  BY Forms DEF WrittenColumns, Columns, IsInsert, IsDelete, InsertOps
<1>2. ~MayCreateKey(s) => s.op \in {"update", "all", "copy"} \/ IsDelete(s)
  BY Forms DEF MayCreateKey, WrittenColumns, Columns, IsInsert, IsDelete, InsertOps
<1>3. s.op \in {"update", "all", "copy"} \/ IsDelete(s) => Succeeds(s, db)
  BY DEF Succeeds, IsDelete
<1>4. s.op \in {"update", "all", "copy"} =>
        SamePresence(db, Result(s, db)) /\ Fewer(db, Result(s, db))
  BY ResultPresence DEF SamePresence, Fewer
<1>5. IsDelete(s) => Fewer(db, Result(s, db))
  BY ResultPresence DEF Fewer
<1> QED
  BY <1>1, <1>2, <1>3, <1>4, <1>5

-----------------------------------------------------------------------------
(* One more statement of a replay.                                         *)
Runs == [ok : BOOLEAN, db : Databases]
(* One statement more.                                                     *)
LEMMA ContinueIs ==
  ASSUME NEW run \in Runs, NEW s \in Statements
  PROVE  /\ Continue(run, s) \in Runs
         /\ Continue(run, s).ok <=> run.ok /\ Succeeds(s, run.db)
         /\ run.ok /\ Succeeds(s, run.db) => Continue(run, s) = Ok(Result(s, run.db))
<1>1. run.ok \in BOOLEAN /\ run.db \in Databases /\ run = [ok |-> run.ok, db |-> run.db]
  BY DEF Runs
<1>2. Result(s, run.db) \in Databases
  BY <1>1, ResultType
<1>3. CASE run.ok /\ Succeeds(s, run.db)
  <2>1. Continue(run, s) = [run EXCEPT !.db = Result(s, run.db)]
    BY <1>3 DEF Continue
  <2>2. Continue(run, s) = [ok |-> TRUE, db |-> Result(s, run.db)]
    BY <1>1, <1>3, <2>1 DEF Runs
  <2> QED
    BY <1>2, <1>3, <2>2 DEF Runs, Ok
<1>4. CASE ~(run.ok /\ Succeeds(s, run.db))
  <2>1. Continue(run, s) = [run EXCEPT !.ok = FALSE]
    BY <1>4 DEF Continue
  <2>2. Continue(run, s) = [ok |-> FALSE, db |-> run.db]
    BY <1>1, <2>1 DEF Runs
  <2> QED
    BY <1>1, <1>4, <2>2 DEF Runs
<1> QED
  BY <1>3, <1>4

(* A replay that went through so far.                                      *)
LEMMA OkRuns ==
  ASSUME NEW db
  PROVE  /\ Ok(db).ok /\ Ok(db).db = db
         /\ db \in Databases => Ok(db) \in Runs
BY DEF Ok, Runs

(* A replay that goes through goes through at each of its statements.      *)
LEMMA PrefixOk ==
  ASSUME NEW ss \in Seq(Statements), NEW db \in Databases, Replay(ss, db).ok,
         NEW i \in 0..Len(ss)
  PROVE  /\ Replay(SubSeq(ss, 1, i), db) \in Runs
         /\ Replay(SubSeq(ss, 1, i), db).ok
<1> DEFINE n == Len(ss)
           part(k) == Replay(SubSeq(ss, 1, n - k), db)
           H == {k \in 0..n : part(k).ok}
<1>1. n \in Nat /\ SubSeq(ss, 1, n) = ss
  BY LenProperties
<1>2. 0 \in H
  <2>1. n - 0 = n /\ 0 \in 0..n
    BY <1>1
  <2>2. part(0) = Replay(ss, db)
    BY <1>1, <2>1
  <2> HIDE DEF part, n
  <2> QED
    BY <2>1, <2>2
<1>3. \A k \in 0..n : part(k) \in Runs
  <2> TAKE k \in 0..n
  <2>1. SubSeq(ss, 1, n - k) \in Seq(Statements)
    BY <1>1
  <2> QED
    BY <2>1, ReplayType DEF Runs
<1>4. ASSUME NEW k \in 0..n, k < n, k \in H PROVE k + 1 \in H
  <2>1. n - k \in 1..n /\ (n - k) - 1 = n - (k + 1) /\ k + 1 \in 0..n
    BY <1>1, <1>4
  <2>2. part(k) = Continue(part(k + 1), ss[n - k]) /\ ss[n - k] \in Statements
    BY <2>1, ReplayNext, ElementOfSeq
  <2>3. part(k + 1) \in Runs /\ part(k).ok
    BY <1>3, <1>4, <2>1
  <2> HIDE DEF part
  <2>4. part(k + 1).ok
    BY <2>2, <2>3, ContinueIs
  <2> QED
    BY <2>1, <2>4
<1> HIDE DEF H
<1>5. \A k \in 0..n : k \in H
  BY <1>1, <1>2, <1>4, Induction
<1>6. n - i \in 0..n /\ n - (n - i) = i
  BY <1>1
<1>7. n - i \in H
  BY <1>5, <1>6
<1> QED
  BY <1>3, <1>6, <1>7 DEF H

(* A statement of a replay that goes through succeeds.                     *)
LEMMA StepOk ==
  ASSUME NEW ss \in Seq(Statements), NEW db \in Databases, Replay(ss, db).ok,
         NEW i \in 1..Len(ss)
  PROVE  /\ Replay(Before(ss, i), db) \in Runs /\ Replay(Before(ss, i), db).ok
         /\ Succeeds(ss[i], Replay(Before(ss, i), db).db)
         /\ Replay(SubSeq(ss, 1, i), db) = Ok(Result(ss[i], Replay(Before(ss, i), db).db))
         /\ ss[i] \in Statements
<1>1. i - 1 \in 0..Len(ss) /\ i \in 0..Len(ss) /\ ss[i] \in Statements
  BY LenProperties, ElementOfSeq
<1>2. /\ Replay(Before(ss, i), db) \in Runs /\ Replay(Before(ss, i), db).ok
      /\ Replay(SubSeq(ss, 1, i), db).ok
  BY <1>1, PrefixOk DEF Before
<1>3. Replay(SubSeq(ss, 1, i), db) = Continue(Replay(Before(ss, i), db), ss[i])
  BY ReplayNext DEF Before
<1> DEFINE run == Replay(Before(ss, i), db)
<1>4. run \in Runs /\ run.ok /\ Continue(run, ss[i]).ok
  BY <1>2, <1>3
<1> HIDE DEF run
<1>5. Succeeds(ss[i], run.db) /\ Continue(run, ss[i]) = Ok(Result(ss[i], run.db))
  BY <1>1, <1>4, ContinueIs
<1> QED
  BY <1>1, <1>3, <1>4, <1>5 DEF run

(* What goes through on the control copy goes through everywhere and does  *)
(* the same, statement by statement.                                       *)
LEMMA OnControlReplay ==
  ASSUME NEW ss \in Seq(Statements), NEW db \in Databases, Replay(OnControl(ss), db).ok,
         NEW i \in 0..Len(ss)
  PROVE  /\ Replay(OnControl(SubSeq(ss, 1, i)), db) = Replay(SubSeq(ss, 1, i), db)
         /\ Replay(SubSeq(ss, 1, i), db).ok
<1> DEFINE n == Len(ss)
           cc == OnControl(ss)
           H == {k \in 0..n : Replay(SubSeq(cc, 1, k), db) = Replay(SubSeq(ss, 1, k), db)}
<1>1. n \in Nat /\ cc \in Seq(Statements) /\ Len(cc) = n
      /\ \A k \in 1..n : cc[k] = ControlForm(ss[k])
  <2> DEFINE C == {ControlForm(s) : s \in Statements}
  <2>1. C \subseteq Statements
    BY ControlFormType
  <2>2. cc \in Seq(C) /\ Len(cc) = n /\ \A k \in 1..n : cc[k] = ControlForm(ss[k])
    BY OnControlSeq
  <2> HIDE DEF C, cc
  <2> QED
    BY <2>1, <2>2, LenProperties
<1>2. 0 \in H
  <2>1. SubSeq(cc, 1, 0) = <<>> /\ SubSeq(ss, 1, 0) = <<>>
    BY <1>1
  <2>2. Replay(SubSeq(cc, 1, 0), db) = Replay(SubSeq(ss, 1, 0), db)
    BY <2>1
  <2>3. 0 \in 0..n
    BY <1>1
  <2> HIDE DEF n, cc
  <2> QED
    BY <2>2, <2>3
<1> HIDE DEF cc
<1>3. Replay(cc, db).ok
  BY DEF cc
<1>4. ASSUME NEW k \in 0..n, k < n, k \in H PROVE k + 1 \in H
  <2>1. k + 1 \in 1..Len(cc) /\ k + 1 \in 1..n /\ (k + 1) - 1 = k
    BY <1>1, <1>4
  <2> DEFINE mid == Replay(SubSeq(ss, 1, k), db)
  <2>2. Before(cc, k + 1) = SubSeq(cc, 1, k) /\ Replay(SubSeq(cc, 1, k), db) = mid
    BY <1>4, <2>1 DEF Before
  <2>3. /\ mid \in Runs /\ mid.ok /\ Succeeds(cc[k + 1], mid.db)
        /\ Replay(SubSeq(cc, 1, k + 1), db) = Ok(Result(cc[k + 1], mid.db))
    BY <1>1, <1>3, <2>1, <2>2, StepOk
  <2>4. Replay(SubSeq(ss, 1, k + 1), db) = Continue(mid, ss[k + 1]) /\ ss[k + 1] \in Statements
    BY <2>1, ReplayNext, ElementOfSeq
  <2>5. mid.db \in Databases
    BY <2>3 DEF Runs
  <2> HIDE DEF mid
  <2>6. Succeeds(ss[k + 1], mid.db) /\ Result(cc[k + 1], mid.db) = Result(ss[k + 1], mid.db)
    BY <1>1, <2>1, <2>3, <2>4, <2>5, ControlFormAgrees
  <2>7. Replay(SubSeq(ss, 1, k + 1), db) = Replay(SubSeq(cc, 1, k + 1), db)
    <3>1. Continue(mid, ss[k + 1]) = Ok(Result(ss[k + 1], mid.db))
      BY <2>3, <2>4, <2>6, ContinueIs
    <3> QED
      BY <2>3, <2>4, <2>6, <3>1
  <2> QED
    BY <2>1, <2>7
<1> HIDE DEF H
<1>5. i \in H
  BY <1>1, <1>2, <1>4, Induction
<1>6. OnControl(SubSeq(ss, 1, i)) = SubSeq(cc, 1, i) /\ Replay(SubSeq(cc, 1, i), db).ok
  BY <1>1, <1>3, OnControlPrefix, PrefixOk DEF cc
<1> QED
  BY <1>5, <1>6 DEF H

(* A relation between two databases that every statement keeps holds along *)
(* two replays of the same statements.                                     *)
LEMMA ReplayTogether ==
  ASSUME NEW tt \in Seq(Statements), NEW m \in Databases, NEW c \in Databases,
         NEW R \in SUBSET (Databases \X Databases), <<m, c>> \in R, Replay(tt, m).ok,
         \A i \in 1..Len(tt) : \A a, b \in Databases :
           <<a, b>> \in R /\ Succeeds(tt[i], a) /\ Succeeds(tt[i], b) =>
             <<Result(tt[i], a), Result(tt[i], b)>> \in R,
         \/ Replay(tt, c).ok
         \/ \A i \in 1..Len(tt) : \A a, b \in Databases :
              <<a, b>> \in R /\ Succeeds(tt[i], a) => Succeeds(tt[i], b),
         NEW i \in 0..Len(tt)
  PROVE  /\ Replay(SubSeq(tt, 1, i), c) \in Runs /\ Replay(SubSeq(tt, 1, i), c).ok
         /\ <<Replay(SubSeq(tt, 1, i), m).db, Replay(SubSeq(tt, 1, i), c).db>> \in R
<1> DEFINE n == Len(tt)
           on(k) == Replay(SubSeq(tt, 1, k), m)
           off(k) == Replay(SubSeq(tt, 1, k), c)
           H == {k \in 0..n : off(k) \in Runs /\ off(k).ok /\ <<on(k).db, off(k).db>> \in R}
<1>1. n \in Nat
  BY LenProperties
<1>2. 0 \in H
  <2>1. on(0) = Ok(m) /\ off(0) = Ok(c)
    <3>1. SubSeq(tt, 1, 0) = <<>>
      BY <1>1
    <3> QED
      BY <3>1, ReplayEmpty
  <2> HIDE DEF on, off
  <2>2. /\ off(0) \in Runs /\ off(0).ok
        /\ on(0).db = m /\ off(0).db = c
    BY <2>1, OkRuns
  <2> QED
    BY <1>1, <2>2
<1>3. ASSUME NEW k \in 0..n, k < n, k \in H PROVE k + 1 \in H
  <2>1. k + 1 \in 1..n /\ (k + 1) - 1 = k /\ Before(tt, k + 1) = SubSeq(tt, 1, k)
    BY <1>1, <1>3 DEF Before
  <2> DEFINE s == tt[k + 1]
  <2>2. /\ on(k) \in Runs /\ on(k).ok /\ Succeeds(s, on(k).db) /\ s \in Statements
        /\ on(k + 1) = Ok(Result(s, on(k).db))
    <3>1. Replay(Before(tt, k + 1), m) = on(k)
      BY <2>1
    <3> HIDE DEF n
    <3>2. k + 1 \in 1..Len(tt)
      BY <2>1 DEF n
    <3> QED
      BY <3>1, <3>2, StepOk
  <2>3. off(k + 1) = Continue(off(k), s)
    BY <2>1, ReplayNext
  <2>4. off(k) \in Runs /\ off(k).ok /\ <<on(k).db, off(k).db>> \in R
    BY <1>3
  <2> HIDE DEF on, off
  <2>5. on(k).db \in Databases /\ off(k).db \in Databases
    BY <2>2, <2>4 DEF Runs
  <2>6. Succeeds(s, off(k).db)
    <3>1. CASE Replay(tt, c).ok
      <4>1. Replay(Before(tt, k + 1), c) = off(k)
        BY <2>1 DEF off
      <4> QED
        BY <2>1, <3>1, <4>1, StepOk
    <3>2. CASE \A j \in 1..Len(tt) : \A a, b \in Databases :
                 <<a, b>> \in R /\ Succeeds(tt[j], a) => Succeeds(tt[j], b)
      BY <2>1, <2>2, <2>4, <2>5, <3>2
    <3> QED
      BY <3>1, <3>2
  <2>7. off(k + 1) \in Runs /\ off(k + 1) = Ok(Result(s, off(k).db))
    BY <2>2, <2>3, <2>4, <2>6, ContinueIs
  <2>8. <<Result(s, on(k).db), Result(s, off(k).db)>> \in R
    BY <2>1, <2>2, <2>4, <2>5, <2>6
  <2>9. /\ off(k + 1).ok /\ on(k + 1).db = Result(s, on(k).db)
        /\ off(k + 1).db = Result(s, off(k).db)
    <3>1. \A d : Ok(d).ok /\ Ok(d).db = d
      BY OkRuns
    <3> QED
      BY <2>2, <2>7, <3>1
  <2>10. k + 1 \in 0..n /\ <<on(k + 1).db, off(k + 1).db>> \in R
    BY <1>1, <2>1, <2>8, <2>9
  <2> HIDE DEF n
  <2> QED
    BY <2>7, <2>9, <2>10
<1> HIDE DEF H
<1>4. i \in H
  BY <1>1, <1>2, <1>3, Induction
<1> QED
  BY <1>4 DEF H

-----------------------------------------------------------------------------
(* Statements that always succeed within a set of databases and stay in it *)
(* replay there.                                                           *)
LEMMA ReplayKeeps ==
  ASSUME NEW ss \in Seq(Statements), NEW D \in SUBSET Databases, NEW db \in D,
         \A i \in 1..Len(ss) : \A a \in D : Succeeds(ss[i], a) /\ Result(ss[i], a) \in D
  PROVE  Replay(ss, db) \in Runs /\ Replay(ss, db).ok /\ Replay(ss, db).db \in D
<1> DEFINE n == Len(ss)
           run(k) == Replay(SubSeq(ss, 1, k), db)
           H == {k \in 0..n : run(k) \in Runs /\ run(k).ok /\ run(k).db \in D}
<1>1. n \in Nat /\ SubSeq(ss, 1, 0) = <<>> /\ SubSeq(ss, 1, n) = ss
  BY LenProperties
<1>2. 0 \in H
  <2>1. run(0) = Ok(db)
    BY <1>1, ReplayEmpty
  <2> HIDE DEF run
  <2>2. run(0) \in Runs /\ run(0).ok /\ run(0).db = db
    BY <2>1, OkRuns
  <2> QED
    BY <1>1, <2>2
<1>3. ASSUME NEW k \in 0..n, k < n, k \in H PROVE k + 1 \in H
  <2>1. k + 1 \in 1..n /\ (k + 1) - 1 = k /\ k + 1 \in 0..n
    BY <1>1, <1>3
  <2>2. run(k + 1) = Continue(run(k), ss[k + 1]) /\ ss[k + 1] \in Statements
    BY <2>1, ReplayNext, ElementOfSeq
  <2>3. run(k) \in Runs /\ run(k).ok /\ run(k).db \in D
    BY <1>3
  <2> HIDE DEF run
  <2>4. Succeeds(ss[k + 1], run(k).db) /\ Result(ss[k + 1], run(k).db) \in D
    BY <2>1, <2>3
  <2>5. run(k + 1) = Ok(Result(ss[k + 1], run(k).db)) /\ run(k + 1) \in Runs
    BY <2>2, <2>3, <2>4, ContinueIs
  <2>6. run(k + 1).ok /\ run(k + 1).db \in D
    BY <2>4, <2>5, OkRuns
  <2> QED
    BY <2>1, <2>5, <2>6
<1> HIDE DEF H, n
<1>4. n \in H
  <2>1. \A k \in 0..n : k \in H
    BY <1>1, <1>2, <1>3, Induction
  <2> QED
    BY <1>1, <2>1
<1> QED
  BY <1>1, <1>4 DEF H

(* Statements that write no key, or create none, always replay.            *)
LEMMA QuietReplay ==
  ASSUME NEW ss \in Seq(Statements), NEW db \in Databases
  PROVE  /\ (\A i \in 1..Len(ss) : "k" \notin WrittenColumns(ss[i])) =>
              /\ Replay(ss, db) \in Runs /\ Replay(ss, db).ok
              /\ SamePresence(db, Replay(ss, db).db)
         /\ (\A i \in 1..Len(ss) : ~MayCreateKey(ss[i])) =>
              /\ Replay(ss, db) \in Runs /\ Replay(ss, db).ok
              /\ Fewer(db, Replay(ss, db).db)
<1>1. \A i \in 1..Len(ss) : ss[i] \in Statements
  BY ElementOfSeq
<1>2. ASSUME \A i \in 1..Len(ss) : "k" \notin WrittenColumns(ss[i])
      PROVE  /\ Replay(ss, db) \in Runs /\ Replay(ss, db).ok
             /\ SamePresence(db, Replay(ss, db).db)
  <2> DEFINE D == {a \in Databases : SamePresence(db, a)}
  <2>1. db \in D
    BY DEF SamePresence
  <2>2. ASSUME NEW i \in 1..Len(ss), NEW a \in D
        PROVE  Succeeds(ss[i], a) /\ Result(ss[i], a) \in D
    <3>1. Succeeds(ss[i], a) /\ SamePresence(a, Result(ss[i], a)) /\ Result(ss[i], a) \in Databases
      BY <1>1, <1>2, QuietStatement, ResultType
    <3> QED
      BY <3>1 DEF SamePresence
  <2>3. D \in SUBSET Databases
    OBVIOUS
  <2> HIDE DEF D
  <2>4. Replay(ss, db) \in Runs /\ Replay(ss, db).ok /\ Replay(ss, db).db \in D
    BY <2>1, <2>2, <2>3, ReplayKeeps
  <2> QED
    BY <2>4 DEF D
<1>3. ASSUME \A i \in 1..Len(ss) : ~MayCreateKey(ss[i])
      PROVE  /\ Replay(ss, db) \in Runs /\ Replay(ss, db).ok
             /\ Fewer(db, Replay(ss, db).db)
  <2> DEFINE D == {a \in Databases : Fewer(db, a)}
  <2>1. db \in D
    BY DEF Fewer
  <2>2. ASSUME NEW i \in 1..Len(ss), NEW a \in D
        PROVE  Succeeds(ss[i], a) /\ Result(ss[i], a) \in D
    <3>1. Succeeds(ss[i], a) /\ Fewer(a, Result(ss[i], a)) /\ Result(ss[i], a) \in Databases
      BY <1>1, <1>3, QuietStatement, ResultType
    <3> QED
      BY <3>1 DEF Fewer
  <2>3. D \in SUBSET Databases
    OBVIOUS
  <2> HIDE DEF D
  <2>4. Replay(ss, db) \in Runs /\ Replay(ss, db).ok /\ Replay(ss, db).db \in D
    BY <2>1, <2>2, <2>3, ReplayKeeps
  <2> QED
    BY <2>4 DEF D
<1> QED
  BY <1>2, <1>3

(* From databases with the same rows the same statements succeed.          *)
LEMMA SameTogether ==
  ASSUME NEW tt \in Seq(Statements), NEW m \in Databases, NEW c \in Databases,
         SamePresence(m, c), Replay(tt, m).ok, NEW i \in 0..Len(tt)
  PROVE  /\ Replay(SubSeq(tt, 1, i), c) \in Runs /\ Replay(SubSeq(tt, 1, i), c).ok
         /\ SamePresence(Replay(SubSeq(tt, 1, i), m).db, Replay(SubSeq(tt, 1, i), c).db)
<1> DEFINE R == {p \in Databases \X Databases : SamePresence(p[1], p[2])}
<1>1. \A a, b \in Databases : <<a, b>> \in R <=> SamePresence(a, b)
  OBVIOUS
<1>2. R \in SUBSET (Databases \X Databases)
  OBVIOUS
<1>3. \A j \in 1..Len(tt) : tt[j] \in Statements
  BY ElementOfSeq
<1> HIDE DEF R
<1>4. ASSUME NEW j \in 1..Len(tt), NEW a \in Databases, NEW b \in Databases, <<a, b>> \in R
      PROVE  /\ Succeeds(tt[j], a) => Succeeds(tt[j], b)
             /\ <<Result(tt[j], a), Result(tt[j], b)>> \in R
  BY <1>1, <1>3, <1>4, PresenceDecides, ResultType
<1>5. <<m, c>> \in R
  BY <1>1
<1>6. /\ Replay(SubSeq(tt, 1, i), c) \in Runs /\ Replay(SubSeq(tt, 1, i), c).ok
      /\ <<Replay(SubSeq(tt, 1, i), m).db, Replay(SubSeq(tt, 1, i), c).db>> \in R
  BY <1>2, <1>4, <1>5, ReplayTogether
<1> QED
  BY <1>6 DEF R

(* From one with fewer rows the same statements leave fewer, if they go    *)
(* through; inserts do.                                                    *)
LEMMA FewerTogether ==
  ASSUME NEW tt \in Seq(Statements), NEW m \in Databases, NEW c \in Databases,
         Len(tt) # 0 => Fewer(m, c), Replay(tt, m).ok,
         Replay(tt, c).ok \/ \A j \in 1..Len(tt) : IsInsert(tt[j]), NEW i \in 0..Len(tt)
  PROVE  /\ Replay(SubSeq(tt, 1, i), c) \in Runs /\ Replay(SubSeq(tt, 1, i), c).ok
         /\ Len(tt) # 0 => Fewer(Replay(SubSeq(tt, 1, i), m).db, Replay(SubSeq(tt, 1, i), c).db)
<1> DEFINE R == {p \in Databases \X Databases : Len(tt) # 0 => Fewer(p[1], p[2])}
<1>1. \A a, b \in Databases : <<a, b>> \in R <=> (Len(tt) # 0 => Fewer(a, b))
  OBVIOUS
<1>2. R \in SUBSET (Databases \X Databases)
  OBVIOUS
<1>3. \A j \in 1..Len(tt) : tt[j] \in Statements /\ Len(tt) # 0
  BY ElementOfSeq
<1> HIDE DEF R
<1>4. ASSUME NEW j \in 1..Len(tt), NEW a \in Databases, NEW b \in Databases, <<a, b>> \in R
      PROVE  /\ IsInsert(tt[j]) /\ Succeeds(tt[j], a) => Succeeds(tt[j], b)
             /\ Succeeds(tt[j], a) /\ Succeeds(tt[j], b) =>
                  <<Result(tt[j], a), Result(tt[j], b)>> \in R
  BY <1>1, <1>3, <1>4, FewerStays, ResultType
<1>5. <<m, c>> \in R
  BY <1>1
<1>6. /\ Replay(SubSeq(tt, 1, i), c) \in Runs /\ Replay(SubSeq(tt, 1, i), c).ok
      /\ <<Replay(SubSeq(tt, 1, i), m).db, Replay(SubSeq(tt, 1, i), c).db>> \in R
  BY <1>2, <1>4, <1>5, ReplayTogether
<1> QED
  BY <1>6 DEF R

-----------------------------------------------------------------------------
(* What a statement does to the rows it meets.  A statement over the whole *)
(* table has no WHERE and so no read metadata: here all name their rows.   *)
Named == {s \in Statements : s.op \notin WholeTableOps}

(* Equal effects meet equal rows; inserts have none.                       *)
LEMMA EffectMet ==
  ASSUME NEW s, NEW a, NEW b
  PROVE  /\ Effect(s, a) = Effect(s, b) => Met(s, a) = Met(s, b)
         /\ IsInsert(s) => Effect(s, a) = {} /\ Met(s, a) = {}
         /\ Met(s, a) = AffectedRows(s, a)
<1>1. ASSUME Effect(s, a) = Effect(s, b) PROVE Met(s, a) = Met(s, b)
  <2>1. ASSUME NEW db, NEW r PROVE r \in Met(s, db) <=> \E p \in Effect(s, db) : p[1] = r
    <3>1. ASSUME r \in Met(s, db) PROVE \E p \in Effect(s, db) : p[1] = r
      <4>1. <<r, Left(s, db, r)>> \in Effect(s, db)
        BY <3>1 DEF Effect
      <4> QED
        BY <4>1
    <3>2. ASSUME NEW p \in Effect(s, db), p[1] = r PROVE r \in Met(s, db)
      <4>1. PICK q \in Met(s, db) : p = <<q, Left(s, db, q)>>
        BY DEF Effect
      <4> QED
        BY <3>2, <4>1
    <3> QED
      BY <3>1, <3>2
  <2>2. \A r : r \in Met(s, a) <=> r \in Met(s, b)
    <3> TAKE r
    <3>1. r \in Met(s, a) <=> \E p \in Effect(s, a) : p[1] = r
      BY <2>1
    <3>2. r \in Met(s, b) <=> \E p \in Effect(s, b) : p[1] = r
      BY <2>1
    <3> QED
      BY <1>1, <3>1, <3>2
  <2> QED
    BY <2>2
<1>2. IsInsert(s) => Met(s, a) = {}
  BY DEF Met
<1>3. Met(s, a) = {} => Effect(s, a) = {}
  BY DEF Effect
<1>4. Met(s, a) = AffectedRows(s, a)
  BY DEF Met, AffectedRows
<1> QED
  BY <1>1, <1>2, <1>3, <1>4

(* The effect of a statement that names its row, in terms of that row.     *)
LEMMA NamedEffect ==
  ASSUME NEW s \in Named, NEW db \in Databases
  PROVE  /\ IsInsert(s) \/ ~Present(db, s.row) => Effect(s, db) = {} /\ ReadProbe(s, db) = {}
         /\ ~IsInsert(s) /\ Present(db, s.row) =>
              /\ Effect(s, db) = {<<s.row, Left(s, db, s.row)>>}
              /\ ReadProbe(s, db) = {<<s.row, IF s.op = "copy" THEN Selected(s, db) ELSE Null>>}
<1>1. Targets(s) = {s.row}
  BY DEF Named, Targets
<1>2. CASE IsInsert(s) \/ ~Present(db, s.row)
  <2>1. Met(s, db) = {} /\ AffectedRows(s, db) = {}
    BY <1>1, <1>2 DEF Met, AffectedRows
  <2> QED
    BY <1>2, <2>1 DEF Effect, ReadProbe
<1>3. CASE ~IsInsert(s) /\ Present(db, s.row)
  <2>1. Met(s, db) = {s.row} /\ AffectedRows(s, db) = {s.row}
    BY <1>1, <1>3 DEF Met, AffectedRows
  <2> QED
    BY <1>3, <2>1 DEF Effect, ReadProbe
<1> QED
  BY <1>2, <1>3

(* What it leaves in the row.                                              *)
LEMMA NamedLeft ==
  ASSUME NEW s \in Named, ~IsInsert(s), NEW db \in Databases, Present(db, s.row)
  PROVE  Left(s, db, s.row) = CASE s.op = "move" -> s.src
                                [] s.op = "copy" -> Selected(s, db)
                                [] s.op = "update" -> s.val
                                [] OTHER -> NoRow
<1>1. /\ s \in Statements /\ s.op \in {"update", "copy", "move", "delete"}
      /\ s.row \in Rows /\ s.row \in Targets(s)
  BY DEF Named, Statements, Ops, IsInsert, Targets
<1>2. db \in [Rows -> Values \cup {NoRow}]
  BY DEF Databases
<1>3. CASE s.op = "move"
  BY <1>3 DEF Left
<1>4. CASE s.op = "copy"
  BY <1>1, <1>2, <1>4 DEF Left, Result
<1>5. CASE s.op = "update"
  BY <1>1, <1>2, <1>5 DEF Left, Result
<1>6. CASE s.op = "delete"
  BY <1>1, <1>2, <1>6 DEF Left, Result
<1> QED
  BY <1>1, <1>3, <1>4, <1>5, <1>6

(* What a statement does is decided by what its read probe shows, and,     *)
(* unless it copies, by which rows there are.                              *)
LEMMA EffectSame ==
  ASSUME NEW s \in Named, NEW a \in Databases, NEW b \in Databases
  PROVE  /\ ReadProbe(s, a) = ReadProbe(s, b) => Effect(s, a) = Effect(s, b)
         /\ s.op # "copy" /\ SamePresence(a, b) => Effect(s, a) = Effect(s, b)
<1>1. s.row \in Rows
  BY DEF Named, Statements
<1>2. CASE IsInsert(s)
  BY <1>2, EffectMet
<1>3. CASE ~IsInsert(s)
  <2>1. ASSUME Present(a, s.row), Present(b, s.row),
               s.op = "copy" => Selected(s, a) = Selected(s, b)
        PROVE  Effect(s, a) = Effect(s, b)
    <3>1. Left(s, a, s.row) = Left(s, b, s.row)
      BY <1>3, <2>1, NamedLeft
    <3> QED
      BY <1>3, <2>1, <3>1, NamedEffect
  <2>2. ASSUME ~Present(a, s.row), ~Present(b, s.row) PROVE Effect(s, a) = Effect(s, b)
    BY <2>2, NamedEffect
  <2>3. ASSUME ReadProbe(s, a) = ReadProbe(s, b) PROVE Effect(s, a) = Effect(s, b)
    <3>1. Present(a, s.row) <=> ReadProbe(s, a) # {}
      BY <1>3, NamedEffect
    <3>2. Present(b, s.row) <=> ReadProbe(s, b) # {}
      BY <1>3, NamedEffect
    <3>3. ASSUME Present(a, s.row), Present(b, s.row), s.op = "copy"
          PROVE  Selected(s, a) = Selected(s, b)
      <4>1. /\ ReadProbe(s, a) = {<<s.row, Selected(s, a)>>}
            /\ ReadProbe(s, b) = {<<s.row, Selected(s, b)>>}
        BY <1>3, <3>3, NamedEffect
      <4> DEFINE x == Selected(s, a)
                 y == Selected(s, b)
      <4>2. <<s.row, x>> \in {<<s.row, y>>}
        BY <2>3, <4>1
      <4> HIDE DEF x, y
      <4>3. x = y
        BY <4>2
      <4> QED
        BY <4>3 DEF x, y
    <3> QED
      BY <2>1, <2>2, <2>3, <3>1, <3>2, <3>3
  <2>4. ASSUME s.op # "copy", SamePresence(a, b) PROVE Effect(s, a) = Effect(s, b)
    BY <1>1, <2>1, <2>2, <2>4 DEF SamePresence
  <2> QED
    BY <2>3, <2>4
<1> QED
  BY <1>2, <1>3

-----------------------------------------------------------------------------
(* A replay that went through is what it leaves; two in a row go through   *)
(* when each does.                                                         *)
LEMMA ConcatOk ==
  ASSUME NEW ss \in Seq(Statements), NEW tt \in Seq(Statements), NEW db \in Databases
  PROVE  /\ Replay(ss, db) \in Runs
         /\ Replay(ss, db).ok => /\ Replay(ss, db) = Ok(Replay(ss, db).db)
                                 /\ Replay(ss, db).db \in Databases
                                 /\ Replay(ss \o tt, db) = Replay(tt, Replay(ss, db).db)
         /\ Replay(ss \o tt, db).ok <=>
              Replay(ss, db).ok /\ Replay(tt, Replay(ss, db).db).ok
<1>1. Replay(ss, db) \in Runs
  BY ReplayType DEF Runs
<1> DEFINE run == Replay(ss, db)
<1>2. run.ok => run = Ok(run.db) /\ run.db \in Databases
  <2>1. run \in Runs
    BY <1>1
  <2> HIDE DEF run
  <2> QED
    BY <2>1 DEF Runs, Ok
<1>3. run.ok => Replay(ss \o tt, db) = Replay(tt, run.db)
  BY <1>2, ReplayConcat
<1>4. Replay(ss \o tt, db).ok => run.ok
  <2> DEFINE both == ss \o tt
  <2>1. /\ both \in Seq(Statements) /\ Len(ss) \in 0..Len(both)
        /\ SubSeq(both, 1, Len(ss)) = ss
    OBVIOUS
  <2> HIDE DEF both
  <2>2. Replay(both, db).ok => Replay(ss, db).ok
    BY <2>1, PrefixOk
  <2> QED
    BY <2>2 DEF both
<1> QED
  BY <1>1, <1>2, <1>3, <1>4

(* The statements of the first transactions of a queue, up to the k-th.    *)
Stmts(txs, k) == StatementsOfLog(SubSeq(txs, 1, k - 1))

(* They grow by one transaction's at a time.                               *)
LEMMA StmtsNext ==
  ASSUME NEW txs \in Logs, NEW k \in 1..(Len(txs) + 1)
  PROVE  /\ Stmts(txs, k) \in Seq(Statements) /\ Stmts(txs, 1) = <<>>
         /\ k <= Len(txs) => /\ Stmts(txs, k + 1) = Stmts(txs, k) \o txs[k].stmts
                             /\ txs[k].stmts \in Seq(Statements) /\ txs[k] \in Transactions
<1>1. txs \in Seq(Transactions) /\ Len(txs) \in Nat
  BY LenProperties DEF Logs
<1>2. SubSeq(txs, 1, k - 1) \in Logs /\ SubSeq(txs, 1, 1 - 1) = <<>>
  BY <1>1 DEF Logs
<1>3. [branch |-> "ours", n |-> 0, stmts |-> <<>>] \in Transactions
  BY EmptySeq DEF Transactions, Branches
<1>4. Stmts(txs, k) \in Seq(Statements)
  BY <1>2, <1>3, LogStatements DEF Stmts
<1>5. Stmts(txs, 1) = <<>>
  BY <1>2, EmptyLog DEF Stmts
<1>6. ASSUME k <= Len(txs)
      PROVE  /\ Stmts(txs, k + 1) = Stmts(txs, k) \o txs[k].stmts
             /\ txs[k].stmts \in Seq(Statements) /\ txs[k] \in Transactions
  <2>1. txs[k] \in Transactions /\ k \in 1..Len(txs)
    BY <1>1, <1>6, ElementOfSeq
  <2>2. /\ SubSeq(txs, 1, k) = Append(SubSeq(txs, 1, k - 1), txs[k])
        /\ SubSeq(txs, 1, (k + 1) - 1) = SubSeq(txs, 1, k)
    BY <1>1, <2>1
  <2>3. StatementsOfLog(SubSeq(txs, 1, k)) = Stmts(txs, k) \o txs[k].stmts
    BY <1>2, <2>1, <2>2, LogStatements DEF Stmts
  <2> QED
    BY <2>1, <2>2, <2>3 DEF Stmts, Transactions
<1> QED
  BY <1>4, <1>5, <1>6

(* Taking the head off a queue takes its statements off the front.         *)
LEMMA StmtsTail ==
  ASSUME NEW txs \in Logs, txs # <<>>, NEW k \in 1..Len(txs)
  PROVE  /\ Stmts(txs, k + 1) = Head(txs).stmts \o Stmts(Tail(txs), k)
         /\ Tail(txs) \in Logs /\ Len(Tail(txs)) = Len(txs) - 1
         /\ Head(txs) = txs[1] /\ Head(txs) \in Transactions
         /\ \A i \in 1..(Len(txs) - 1) : Tail(txs)[i] = txs[i + 1]
<1> DEFINE rest == Tail(txs)
           hh == Head(txs).stmts
           n == Len(txs) - 1
           H == {i \in 0..n : Stmts(txs, i + 2) = hh \o Stmts(rest, i + 1)}
<1>1. /\ txs \in Seq(Transactions) /\ Len(txs) \in Nat /\ Len(txs) >= 1 /\ n \in Nat
      /\ rest \in Logs /\ Len(rest) = n /\ Head(txs) = txs[1]
      /\ \A i \in 1..n : rest[i] = txs[i + 1]
  BY EmptySeq, LenProperties DEF Logs
<1>2. Head(txs) \in Transactions /\ hh \in Seq(Statements)
  <2>1. 1 \in 1..Len(txs)
    BY <1>1
  <2>2. txs[1] \in Transactions
    BY <1>1, <2>1, ElementOfSeq
  <2> QED
    BY <1>1, <2>2 DEF Transactions
<1>3. 0 \in H
  <2>1. 1 \in 1..(Len(txs) + 1) /\ 1 <= Len(txs) /\ 1 \in 1..(Len(rest) + 1)
    BY <1>1
  <2>2. Stmts(txs, 1 + 1) = <<>> \o hh /\ Stmts(rest, 1) = <<>>
    BY <1>1, <2>1, StmtsNext
  <2>3. Stmts(txs, 0 + 2) = hh \o Stmts(rest, 0 + 1)
    BY <1>2, <2>2
  <2> HIDE DEF n
  <2> QED
    BY <1>1, <2>3
<1>4. ASSUME NEW i \in 0..n, i < n, i \in H PROVE i + 1 \in H
  <2>1. /\ i + 2 \in 1..(Len(txs) + 1) /\ i + 2 <= Len(txs)
        /\ i + 1 \in 1..(Len(rest) + 1) /\ i + 1 <= Len(rest) /\ i + 1 \in 1..n
        /\ (i + 1) + 1 = i + 2 /\ (i + 2) + 1 = (i + 1) + 2 /\ i + 1 \in 0..n
    BY <1>1, <1>4
  <2> HIDE DEF rest, hh, n
  <2>2. /\ Stmts(txs, (i + 2) + 1) = Stmts(txs, i + 2) \o txs[i + 2].stmts
        /\ txs[i + 2].stmts \in Seq(Statements)
    BY <2>1, StmtsNext
  <2>3. /\ Stmts(rest, (i + 1) + 1) = Stmts(rest, i + 1) \o rest[i + 1].stmts
        /\ Stmts(rest, i + 1) \in Seq(Statements)
    BY <1>1, <2>1, StmtsNext
  <2>4. rest[i + 1] = txs[i + 2]
    BY <1>1, <2>1
  <2>5. Stmts(txs, i + 2) = hh \o Stmts(rest, i + 1)
    BY <1>4
  <2> DEFINE x == Stmts(rest, i + 1)
             y == txs[i + 2].stmts
  <2>6. x \in Seq(Statements) /\ y \in Seq(Statements)
    BY <2>2, <2>3
  <2> HIDE DEF x, y
  <2>7. (hh \o x) \o y = hh \o (x \o y)
    BY <1>2, <2>6
  <2>8. Stmts(txs, (i + 1) + 2) = hh \o Stmts(rest, (i + 1) + 1)
    BY <2>1, <2>2, <2>3, <2>4, <2>5, <2>7 DEF x, y
  <2> QED
    BY <2>1, <2>8
<1> HIDE DEF H
<1>5. k - 1 \in 0..n /\ (k - 1) + 2 = k + 1 /\ (k - 1) + 1 = k
  BY <1>1
<1>6. k - 1 \in H
  BY <1>1, <1>3, <1>4, <1>5, Induction
<1>7. Stmts(txs, k + 1) = hh \o Stmts(rest, k)
  BY <1>5, <1>6 DEF H
<1> QED
  BY <1>1, <1>2, <1>7

(* Replaying one transaction more of a queue.                              *)
LEMMA OneMore ==
  ASSUME NEW txs \in Logs, NEW k \in 1..Len(txs), NEW db \in Databases
  PROVE  /\ Replay(Stmts(txs, k + 1), db).ok <=>
              /\ Replay(Stmts(txs, k), db).ok
              /\ Replay(txs[k].stmts, Replay(Stmts(txs, k), db).db).ok
         /\ Replay(Stmts(txs, k), db) \in Runs
         /\ Replay(Stmts(txs, k), db).db \in Databases
<1>1. k \in 1..(Len(txs) + 1) /\ k <= Len(txs)
  BY LenProperties DEF Logs
<1>2. /\ Stmts(txs, k + 1) = Stmts(txs, k) \o txs[k].stmts
      /\ txs[k].stmts \in Seq(Statements) /\ Stmts(txs, k) \in Seq(Statements)
  BY <1>1, StmtsNext
<1>3. /\ Replay(Stmts(txs, k), db) \in Runs
      /\ Replay(Stmts(txs, k + 1), db).ok <=>
              /\ Replay(Stmts(txs, k), db).ok
              /\ Replay(txs[k].stmts, Replay(Stmts(txs, k), db).db).ok
  BY <1>2, ConcatOk
<1> QED
  BY <1>3 DEF Runs

(* A log that replays replays up to each of its transactions.              *)
LEMMA PrefixesOk ==
  ASSUME NEW txs \in Logs, NEW db \in Databases, Replay(StatementsOfLog(txs), db).ok
  PROVE  \A k \in 1..(Len(txs) + 1) : Replay(Stmts(txs, k), db).ok
<1> DEFINE n == Len(txs)
           H == {i \in 0..n : Replay(Stmts(txs, (n + 1) - i), db).ok}
<1>1. n \in Nat /\ SubSeq(txs, 1, n) = txs
  BY LenProperties DEF Logs
<1>2. 0 \in H
  <2>1. (n + 1) - 0 = n + 1 /\ (n + 1) - 1 = n /\ 0 \in 0..n
    BY <1>1
  <2>2. Stmts(txs, (n + 1) - 0) = StatementsOfLog(txs)
    BY <1>1, <2>1 DEF Stmts
  <2> HIDE DEF n
  <2> QED
    BY <2>1, <2>2
<1>3. ASSUME NEW i \in 0..n, i < n, i \in H PROVE i + 1 \in H
  <2>1. /\ n - i \in 1..Len(txs) /\ (n - i) + 1 = (n + 1) - i
        /\ (n + 1) - (i + 1) = n - i /\ i + 1 \in 0..n
    BY <1>1, <1>3
  <2>2. Replay(Stmts(txs, (n - i) + 1), db).ok => Replay(Stmts(txs, n - i), db).ok
    BY <2>1, OneMore
  <2> HIDE DEF n
  <2> QED
    BY <1>3, <2>1, <2>2
<1> HIDE DEF H
<1>4. ASSUME NEW k \in 1..(n + 1) PROVE Replay(Stmts(txs, k), db).ok
  <2>1. (n + 1) - k \in 0..n /\ (n + 1) - ((n + 1) - k) = k
    BY <1>1
  <2>2. (n + 1) - k \in H
    BY <1>1, <1>2, <1>3, <2>1, Induction
  <2> QED
    BY <2>1, <2>2 DEF H
<1> QED
  BY <1>4

-----------------------------------------------------------------------------
(* No statement of t is turned silent by running on c instead of m, and t  *)
(* on m meets no row that h on d writes in the same columns.               *)
Silent(t, m, c) == \A j \in DOMAIN t.stmts : Hidden(t, j, c) => Hidden(t, j, m)
Apart(h, d, t, m) ==
  \A p \in WriteWritePairs(h.stmts, t.stmts) : MetBy(h, p[1], d) \cap MetBy(t, p[2], m) = {}

(* Equal effects are met in equal rows, so what is apart stays apart.      *)
LEMMA ApartStays ==
  ASSUME NEW h, NEW d, NEW t, NEW m, NEW c, Effects(t, c) = Effects(t, m), Apart(h, d, t, m)
  PROVE  Apart(h, d, t, c)
<1> SUFFICES ASSUME NEW p \in WriteWritePairs(h.stmts, t.stmts)
             PROVE  MetBy(h, p[1], d) \cap MetBy(t, p[2], c) = {}
  BY DEF Apart
<1>1. p[2] \in DOMAIN t.stmts
  BY DEF WriteWritePairs
<1> DEFINE s == t.stmts[p[2]]
           a == Replay(Before(t.stmts, p[2]), m).db
           b == Replay(Before(t.stmts, p[2]), c).db
<1>2. Effects(t, m)[p[2]] = Effect(s, a) /\ Effects(t, c)[p[2]] = Effect(s, b)
  BY <1>1 DEF Effects
<1>3. MetBy(t, p[2], m) = Met(s, a) /\ MetBy(t, p[2], c) = Met(s, b)
  BY DEF MetBy
<1> HIDE DEF s, a, b
<1>4. Met(s, b) = Met(s, a)
  BY <1>2, EffectMet
<1> QED
  BY <1>3, <1>4 DEF Apart

(* Two databases compared statement by statement.                          *)
LEMMA Compared ==
  ASSUME NEW t, t.stmts \in Seq(Statements), NEW m \in Databases, NEW c \in Databases,
         Replay(t.stmts, m).ok, Replay(t.stmts, c).ok
  PROVE  /\ (\A j \in 1..Len(t.stmts) :
               Effect(t.stmts[j], Replay(Before(t.stmts, j), c).db)
                 = Effect(t.stmts[j], Replay(Before(t.stmts, j), m).db))
             => Effects(t, c) = Effects(t, m)
         /\ Fewer(m, c) => Silent(t, m, c)
         /\ (\A j \in 1..Len(t.stmts) : ~MayCreateKey(t.stmts[j])) => Silent(t, m, c)
<1> DEFINE tt == t.stmts
<1>1. DOMAIN tt = 1..Len(tt) /\ Len(tt) \in Nat
  BY LenProperties
<1>2. ASSUME \A j \in 1..Len(tt) : Effect(tt[j], Replay(Before(tt, j), c).db)
                                     = Effect(tt[j], Replay(Before(tt, j), m).db)
      PROVE  Effects(t, c) = Effects(t, m)
  BY <1>1, <1>2 DEF Effects
<1>3. ASSUME Fewer(m, c) PROVE Silent(t, m, c)
  <2> SUFFICES ASSUME NEW j \in 1..Len(tt), Hidden(t, j, c) PROVE Hidden(t, j, m)
    BY <1>1 DEF Silent
  <2>1. j - 1 \in 0..Len(tt) /\ Len(tt) # 0 /\ tt[j] \in Statements
    BY <1>1, ElementOfSeq
  <2> DEFINE a == Replay(Before(tt, j), m).db
             b == Replay(Before(tt, j), c).db
  <2>2. Fewer(a, b)
    <3>1. Fewer(Replay(SubSeq(tt, 1, j - 1), m).db, Replay(SubSeq(tt, 1, j - 1), c).db)
      BY <1>3, <2>1, FewerTogether
    <3> QED
      BY <3>1 DEF Before
  <2>3. tt[j].op \in {"ignore", "replace", "upsert"} /\ ~Succeeds(StrictForm(tt[j]), b)
    BY DEF Hidden
  <2>4. StrictForm(tt[j]).op = "insert" /\ StrictForm(tt[j]).row = tt[j].row /\ tt[j].row \in Rows
    BY <2>1 DEF StrictForm, Statements
  <2> HIDE DEF a, b
  <2>5. ~Succeeds(StrictForm(tt[j]), a)
    BY <2>2, <2>3, <2>4 DEF Succeeds, Fewer
  <2> QED
    BY <2>3, <2>5 DEF Hidden, a
<1>4. ASSUME \A j \in 1..Len(tt) : ~MayCreateKey(tt[j]) PROVE Silent(t, m, c)
  <2>1. \A j \in 1..Len(tt) : ~IsInsert(tt[j])
    BY <1>4 DEF MayCreateKey
  <2> QED
    BY <1>1, <2>1 DEF Silent, Hidden, IsInsert, InsertOps
<1> QED
  BY <1>2, <1>3, <1>4

(* What pp leaves of d and of the database the head hh makes of it.        *)
LEMMA BesideHead ==
  ASSUME NEW hh \in Seq(Statements), NEW d \in Databases, NEW pp \in Seq(Statements),
         Replay(hh, d).ok, Replay(pp, d).ok
  PROVE  LET a == Replay(hh, d).db
             m == Replay(pp, d).db
             c == Replay(pp, a).db
         IN  /\ (\A i \in 1..Len(hh) : "k" \notin WrittenColumns(hh[i])) =>
                  Replay(pp, a).ok /\ SamePresence(m, c)
             /\ /\ \A i \in 1..Len(hh) : ~MayCreateKey(hh[i])
                /\ Replay(pp, a).ok
                => Fewer(m, c)
             /\ hh = <<>> => a = d
<1> DEFINE a == Replay(hh, d).db
<1>1. a \in Databases /\ Len(pp) \in 0..Len(pp) /\ SubSeq(pp, 1, Len(pp)) = pp /\ Len(pp) \in Nat
  BY ConcatOk, LenProperties
<1>2. (\A i \in 1..Len(hh) : "k" \notin WrittenColumns(hh[i])) => SamePresence(d, a)
  BY QuietReplay
<1>3. (\A i \in 1..Len(hh) : ~MayCreateKey(hh[i])) => Fewer(d, a)
  BY QuietReplay
<1>4. hh = <<>> => a = d
  BY ReplayEmpty, OkRuns
<1> HIDE DEF a
<1>5. SamePresence(d, a) => Replay(pp, a).ok /\ SamePresence(Replay(pp, d).db, Replay(pp, a).db)
  BY <1>1, SameTogether
<1>6. ASSUME Fewer(d, a), Replay(pp, a).ok PROVE Fewer(Replay(pp, d).db, Replay(pp, a).db)
  <2>1. CASE Len(pp) = 0
    <3>1. pp = <<>>
      BY <2>1, EmptySeq
    <3>2. Replay(pp, d).db = d /\ Replay(pp, a).db = a
      BY <3>1, ReplayEmpty, OkRuns
    <3> QED
      BY <1>6, <3>2
  <2>2. CASE Len(pp) # 0
    BY <1>1, <1>6, <2>2, FewerTogether
  <2> QED
    BY <2>1, <2>2
<1> QED
  BY <1>2, <1>3, <1>4, <1>5, <1>6 DEF a

(* A statement that reads no column the head writes is an insert, or the   *)
(* head writes no key; one that reads both columns meets an empty head.    *)
LEMMA Unread ==
  ASSUME NEW hh \in Seq(Statements), NEW tt \in Seq(Named), NEW j \in 1..Len(tt),
         j \notin ReadIndexes(hh, tt)
  PROVE  \/ IsInsert(tt[j])
         \/ /\ \A i \in 1..Len(hh) : "k" \notin WrittenColumns(hh[i])
            /\ tt[j].op = "copy" => hh = <<>>
<1>1. DOMAIN tt = 1..Len(tt) /\ tt[j] \in Named /\ DOMAIN hh = 1..Len(hh) /\ Len(hh) \in Nat
  BY LenProperties, ElementOfSeq
<1>2. \A i \in 1..Len(hh) : WrittenColumns(hh[i]) \cap ReferencedColumns(tt[j]) = {}
  <2>1. \A i \in 1..Len(hh) : hh[i] \in ToSet(hh)
    BY <1>1 DEF ToSet
  <2> QED
    BY <1>1, <2>1 DEF ReadIndexes
<1>3. ~IsInsert(tt[j]) => "k" \in ReferencedColumns(tt[j])
  BY <1>1 DEF Named, ReferencedColumns
<1>4. ASSUME ~IsInsert(tt[j]), tt[j].op = "copy" PROVE hh = <<>>
  <2>1. ReferencedColumns(tt[j]) = Columns
    BY <1>4 DEF ReferencedColumns, IsInsert, InsertOps, WholeTableOps, Columns
  <2>2. \A i \in 1..Len(hh) : WrittenColumns(hh[i]) \cap Columns # {}
    BY DEF WrittenColumns, Columns
  <2>3. Len(hh) = 0
    BY <1>1, <1>2, <2>1, <2>2
  <2> QED
    BY <2>3, EmptySeq
<1> QED
  BY <1>2, <1>3, <1>4

(* Such a statement does the same with and without the head in front.      *)
LEMMA UnreadEffect ==
  ASSUME NEW hh \in Seq(Statements), NEW d \in Databases, NEW pp \in Seq(Statements),
         NEW tt \in Seq(Named), Replay(hh, d).ok, Replay(pp, d).ok,
         Replay(tt, Replay(pp, d).db).ok,
         NEW j \in 1..Len(tt), j \notin ReadIndexes(hh, tt)
  PROVE  Effect(tt[j], Replay(Before(tt, j), Replay(pp, Replay(hh, d).db).db).db)
           = Effect(tt[j], Replay(Before(tt, j), Replay(pp, d).db).db)
<1> DEFINE a == Replay(hh, d).db
           m == Replay(pp, d).db
           c == Replay(pp, a).db
<1>1. /\ tt \in Seq(Statements) /\ tt[j] \in Named /\ j - 1 \in 0..Len(tt) /\ Len(tt) \in Nat
      /\ a \in Databases /\ m \in Databases /\ c \in Databases
  <2>1. tt \in Seq(Statements) /\ Len(tt) \in Nat /\ tt[j] \in Named
    BY LenProperties, ElementOfSeq DEF Named
  <2>2. a \in Databases /\ m \in Databases
    BY ConcatOk
  <2> HIDE DEF a, m
  <2>3. c \in Databases
    BY <2>2, ReplayType
  <2> QED
    BY <2>1, <2>2, <2>3
<1>2. CASE IsInsert(tt[j])
  BY <1>2, EffectMet
<1>3. CASE /\ \A i \in 1..Len(hh) : "k" \notin WrittenColumns(hh[i])
           /\ tt[j].op = "copy" => hh = <<>>
  <2>1. SamePresence(m, c) /\ (hh = <<>> => a = d)
    BY <1>3, BesideHead
  <2>2. CASE hh = <<>>
    BY <2>1, <2>2
  <2>3. CASE tt[j].op # "copy"
    <3> DEFINE x == Replay(Before(tt, j), m)
               y == Replay(Before(tt, j), c)
    <3>1. SamePresence(Replay(SubSeq(tt, 1, j - 1), m).db, Replay(SubSeq(tt, 1, j - 1), c).db)
      <4> HIDE DEF m, c
      <4>1. Replay(tt, m).ok
        BY DEF m
      <4> QED
        BY <1>1, <2>1, <4>1, SameTogether
    <3>2. x.db \in Databases /\ y.db \in Databases
      <4> HIDE DEF m, c
      <4>1. Before(tt, j) \in Seq(Statements)
        BY <1>1 DEF Before
      <4> QED
        BY <1>1, <4>1, ReplayType
    <3>3. SamePresence(x.db, y.db)
      BY <3>1 DEF Before
    <3> HIDE DEF x, y
    <3>4. SamePresence(y.db, x.db)
      BY <3>3 DEF SamePresence
    <3>5. Effect(tt[j], y.db) = Effect(tt[j], x.db)
      BY <1>1, <2>3, <3>2, <3>4, EffectSame
    <3> QED
      BY <3>5 DEF x, y
  <2> QED
    BY <1>3, <2>2, <2>3
<1> QED
  BY <1>2, <1>3, Unread

-----------------------------------------------------------------------------
(* The statements of a queue have the type of those of its transactions.   *)
LEMMA StmtsIn ==
  ASSUME NEW txs \in Logs, NEW S, \A q \in 1..Len(txs) : txs[q].stmts \in Seq(S),
         NEW k \in 1..(Len(txs) + 1)
  PROVE  Stmts(txs, k) \in Seq(S)
<1> DEFINE part == SubSeq(txs, 1, k - 1)
           lists == [i \in DOMAIN part |-> part[i].stmts]
<1>1. txs \in Seq(Transactions) /\ Len(txs) \in Nat
  BY LenProperties DEF Logs
<1>2. /\ part \in Seq(Transactions) /\ Len(part) = k - 1 /\ DOMAIN part = 1..(k - 1)
      /\ \A i \in 1..(k - 1) : part[i] = txs[i] /\ i \in 1..Len(txs)
  BY <1>1
<1>3. k - 1 \in Nat
  BY <1>1
<1> HIDE DEF part
<1>4. \A i \in 1..(k - 1) : part[i].stmts \in Seq(S)
  BY <1>2
<1>5. lists \in Seq(Seq(S))
  BY <1>2, <1>3, <1>4
<1> HIDE DEF lists
<1>6. FlattenSeq(lists) \in Seq(S)
  BY <1>5, FlattenType
<1> QED
  BY <1>6 DEF Stmts, StatementsOfLog, lists, part

(* What a kind of check that is not needed rules out.                      *)
LEMMA NotNeeded ==
  ASSUME NEW h \in Transactions, NEW others \in Logs, NEW k \in 1..Len(others)
  PROVE  /\ "write_write" \notin NeededKinds(h, others) =>
              WriteWritePairs(h.stmts, others[k].stmts) = {}
         /\ "write_read" \notin NeededKinds(h, others) =>
              ReadIndexes(h.stmts, others[k].stmts) = {}
         /\ "integrity" \notin NeededKinds(h, others) =>
              \/ \A i \in 1..Len(h.stmts) : ~MayCreateKey(h.stmts[i])
              \/ \A q \in 1..Len(others) : \A j \in 1..Len(others[q].stmts) :
                   ~MayCreateKey(others[q].stmts[j])
<1> DEFINE mine == ToSet(h.stmts)
           theirs == StmtsOf(others)
<1>1. /\ h.stmts \in Seq(Statements) /\ DOMAIN h.stmts = 1..Len(h.stmts)
      /\ \A q \in 1..Len(others) : /\ others[q].stmts \in Seq(Statements)
                                   /\ DOMAIN others[q].stmts = 1..Len(others[q].stmts)
      /\ DOMAIN others = 1..Len(others)
  <2>1. h.stmts \in Seq(Statements)
    BY DEF Transactions
  <2>2. \A q \in 1..Len(others) : others[q].stmts \in Seq(Statements)
    <3>1. others \in Seq(Transactions)
      BY DEF Logs
    <3>2. \A q \in 1..Len(others) : others[q] \in Transactions
      BY <3>1, ElementOfSeq
    <3> QED
      BY <3>2 DEF Transactions
  <2>3. DOMAIN others = 1..Len(others)
    BY LenProperties DEF Logs
  <2> QED
    BY <2>1, <2>2, <2>3, LenProperties
<1>2. \A i \in 1..Len(h.stmts) : h.stmts[i] \in mine
  BY <1>1 DEF ToSet
<1>3. \A q \in 1..Len(others) : \A j \in 1..Len(others[q].stmts) : others[q].stmts[j] \in theirs
  <2> TAKE q \in 1..Len(others)
  <2> TAKE j \in 1..Len(others[q].stmts)
  <2>1. others[q].stmts[j] \in ToSet(others[q].stmts)
    BY <1>1 DEF ToSet
  <2>2. ToSet(others[q].stmts) \in {ToSet(others[i].stmts) : i \in DOMAIN others}
    BY <1>1
  <2> QED
    BY <2>1, <2>2 DEF StmtsOf
<1> HIDE DEF mine, theirs
<1>4. ASSUME "write_write" \notin NeededKinds(h, others)
      PROVE  WriteWritePairs(h.stmts, others[k].stmts) = {}
  <2>1. ~WriteWritePossible(mine, theirs)
    BY <1>4 DEF NeededKinds, mine, theirs
  <2> QED
    BY <1>1, <1>2, <1>3, <2>1 DEF WriteWritePossible, WriteWritePairs
<1>5. ASSUME "write_read" \notin NeededKinds(h, others)
      PROVE  ReadIndexes(h.stmts, others[k].stmts) = {}
  <2>1. ~WriteReadPossible(mine, theirs)
    BY <1>5 DEF NeededKinds, mine, theirs
  <2> QED
    BY <1>1, <1>3, <2>1 DEF WriteReadPossible, ReadIndexes, mine
<1>6. ASSUME "integrity" \notin NeededKinds(h, others)
      PROVE  \/ \A i \in 1..Len(h.stmts) : ~MayCreateKey(h.stmts[i])
             \/ \A q \in 1..Len(others) : \A j \in 1..Len(others[q].stmts) :
                  ~MayCreateKey(others[q].stmts[j])
  <2>1. ~SameKeyPossible(mine, theirs)
    BY <1>6 DEF NeededKinds, mine, theirs
  <2> QED
    BY <1>2, <1>3, <2>1 DEF SameKeyPossible
<1> QED
  BY <1>4, <1>5, <1>6

-----------------------------------------------------------------------------
(* The merged database and, on it, the k-1 first waiting transactions of a *)
(* branch; the same behind the head of the turn.                           *)
Ahead(b, k) == Replay(Stmts(queue[b], k), MergedSoFar)
After == Replay(Head0.stmts, MergedSoFar).db
Behind(k) == Replay(Stmts(OtherQueue, k), After)

(* The user accepted a conflict on t or before; every statement of the     *)
(* logs names its rows, and those that wait in the queues do as well.      *)
Reviewed(t) == ReviewedUpTo(t) # {}
RowsNamed == \A b \in Branches : \A i \in DOMAIN origin[b] : \A j \in DOMAIN origin[b][i].stmts :
               origin[b][i].stmts[j].op \notin WholeTableOps
NamedQueues == \A b \in Branches : \A i \in 1..Len(queue[b]) : queue[b][i].stmts \in Seq(Named)

(* Each branch could still go on alone.                                    *)
AheadOk == \A b \in Branches : \A k \in 1..(Len(queue[b]) + 1) : Ahead(b, k).ok

(* And would do then what it did before, next to what was merged since.    *)
SettledOn(t, b, m) ==
  \/ Reviewed(t)
  \/ /\ Effects(t, m) = Effects(t, BranchState(b, t.n))
     /\ Silent(t, BranchState(b, t.n), m)
     /\ \A i \in DOMAIN log : log[i].branch # b => Apart(log[i], MergedState(i), t, m)
Settled == \A b \in Branches : \A k \in 1..Len(queue[b]) :
             SettledOn(queue[b][k], b, Ahead(b, k).db)

(* The head of the turn may go before the k-th transaction opposite.       *)
Undisturbed(t, m, c) == /\ Effects(t, c) = Effects(t, m) /\ Silent(t, m, c)
                        /\ Apart(Head0, MergedSoFar, t, m)
Clear(k) ==
  /\ Behind(k + 1).ok
  /\ Reviewed(OtherQueue[k]) \/ Undisturbed(OtherQueue[k], Ahead(Other(turn), k).db, Behind(k).db)

(* The queues, in these terms.                                             *)
LEMMA QueueFacts ==
  ASSUME Inv, NamedQueues, AheadOk, queue[turn] # <<>>
  PROVE  /\ turn \in Branches /\ Other(turn) \in Branches /\ Other(turn) # turn
         /\ OtherQueue = queue[Other(turn)] /\ OtherQueue \in Logs /\ queue[turn] \in Logs
         /\ Head0 \in Transactions /\ Head0.stmts \in Seq(Statements) /\ Len(queue[turn]) >= 1
         /\ MergedSoFar \in Databases /\ After \in Databases
         /\ Replay(Head0.stmts, MergedSoFar).ok
         /\ \A k \in 1..Len(OtherQueue) :
              /\ OtherQueue[k] \in Transactions /\ OtherQueue[k].stmts \in Seq(Named)
              /\ OtherQueue[k].stmts \in Seq(Statements)
              /\ Stmts(OtherQueue, k) \in Seq(Statements)
              /\ Ahead(Other(turn), k).ok /\ Ahead(Other(turn), k).db \in Databases
              /\ Replay(OtherQueue[k].stmts, Ahead(Other(turn), k).db).ok
              /\ Behind(k) \in Runs /\ Behind(k).db \in Databases
              /\ Behind(k + 1).ok <=>
                   Behind(k).ok /\ Replay(OtherQueue[k].stmts, Behind(k).db).ok
<1>1. /\ turn \in Branches /\ Other(turn) \in Branches /\ Other(turn) # turn
      /\ OtherQueue = queue[Other(turn)] /\ OtherQueue \in Logs /\ queue[turn] \in Logs
  BY DEF Inv, TypeOK, LogTypes, TurnTypes, Other, Branches, OtherQueue
<1>2. Head0 \in Transactions /\ Head0.stmts \in Seq(Statements)
  BY HeadType, WalkedStatements DEF Inv
<1>3. MergedSoFar \in Databases
  BY MergedFacts
<1>4. Len(queue[turn]) >= 1 /\ Len(queue[turn]) \in Nat /\ Len(OtherQueue) \in Nat
  BY <1>1, EmptySeq, LenProperties DEF Logs
<1>5. Stmts(queue[turn], 2) = Head0.stmts
  <2>1. 1 \in 1..Len(queue[turn]) /\ 1 \in 1..(Len(Tail(queue[turn])) + 1)
    BY <1>1, <1>4 DEF Logs
  <2>2. /\ Stmts(queue[turn], 1 + 1) = Head(queue[turn]).stmts \o Stmts(Tail(queue[turn]), 1)
        /\ Tail(queue[turn]) \in Logs
    BY <1>1, <2>1, StmtsTail
  <2>3. Stmts(Tail(queue[turn]), 1) = <<>>
    BY <2>1, <2>2, StmtsNext
  <2>4. Stmts(queue[turn], 2) = Head0.stmts \o <<>>
    <3>1. 1 + 1 = 2
      OBVIOUS
    <3>2. Stmts(queue[turn], 2) = Head(queue[turn]).stmts \o Stmts(Tail(queue[turn]), 1)
      BY <2>2, <3>1
    <3> QED
      BY <2>3, <3>2 DEF Head0
  <2>5. \A x \in Seq(Statements) : x \o <<>> = x
    OBVIOUS
  <2> QED
    BY <1>2, <2>4, <2>5
<1>6. Replay(Head0.stmts, MergedSoFar).ok
  <2>1. 2 \in 1..(Len(queue[turn]) + 1)
    BY <1>4
  <2> QED
    BY <1>1, <1>5, <2>1 DEF AheadOk, Ahead
<1>7. After \in Databases
  BY <1>2, <1>3, <1>6, ConcatOk DEF After
<1>8. ASSUME NEW k \in 1..Len(OtherQueue)
      PROVE  /\ OtherQueue[k] \in Transactions /\ OtherQueue[k].stmts \in Seq(Named)
             /\ OtherQueue[k].stmts \in Seq(Statements)
             /\ Stmts(OtherQueue, k) \in Seq(Statements)
             /\ Ahead(Other(turn), k).ok /\ Ahead(Other(turn), k).db \in Databases
             /\ Replay(OtherQueue[k].stmts, Ahead(Other(turn), k).db).ok
             /\ Behind(k) \in Runs /\ Behind(k).db \in Databases
             /\ Behind(k + 1).ok <=>
                  Behind(k).ok /\ Replay(OtherQueue[k].stmts, Behind(k).db).ok
  <2>1. k \in 1..(Len(OtherQueue) + 1) /\ k + 1 \in 1..(Len(OtherQueue) + 1) /\ k <= Len(OtherQueue)
    BY <1>4
  <2>2. /\ OtherQueue[k] \in Transactions /\ OtherQueue[k].stmts \in Seq(Statements)
        /\ Stmts(OtherQueue, k) \in Seq(Statements)
    BY <1>1, <2>1, StmtsNext
  <2>3. OtherQueue[k].stmts \in Seq(Named)
    BY <1>1 DEF NamedQueues
  <2>4. Ahead(Other(turn), k).ok /\ Ahead(Other(turn), k + 1).ok
    BY <1>1, <2>1 DEF AheadOk
  <2>5. /\ Ahead(Other(turn), k).db \in Databases
        /\ Replay(OtherQueue[k].stmts, Ahead(Other(turn), k).db).ok
    BY <1>1, <1>3, <2>4, OneMore DEF Ahead
  <2>6. /\ Behind(k) \in Runs /\ Behind(k).db \in Databases
        /\ Behind(k + 1).ok <=>
             Behind(k).ok /\ Replay(OtherQueue[k].stmts, Behind(k).db).ok
    BY <1>1, <1>7, OneMore DEF Behind
  <2> QED
    BY <2>2, <2>3, <2>4, <2>5, <2>6
<1> QED
  BY <1>1, <1>2, <1>3, <1>4, <1>6, <1>7, <1>8

-----------------------------------------------------------------------------
(* Without a common key to create, nothing goes silent.                    *)
LEMMA NothingSilent ==
  ASSUME Inv, NamedQueues, AheadOk, queue[turn] # <<>>, NEW k \in 1..Len(OtherQueue),
         "integrity" \notin NeededKinds(Head0, OtherQueue), Behind(k + 1).ok
  PROVE  Silent(OtherQueue[k], Ahead(Other(turn), k).db, Behind(k).db)
<1> DEFINE hh == Head0.stmts
           t == OtherQueue[k]
           pp == Stmts(OtherQueue, k)
           m == Ahead(Other(turn), k)
           c == Behind(k)
<1>1. /\ Head0 \in Transactions /\ hh \in Seq(Statements) /\ OtherQueue \in Logs
      /\ MergedSoFar \in Databases /\ Replay(hh, MergedSoFar).ok
      /\ t.stmts \in Seq(Statements) /\ pp \in Seq(Statements)
      /\ m.ok /\ m.db \in Databases /\ Replay(t.stmts, m.db).ok
      /\ c.ok /\ c.db \in Databases /\ Replay(t.stmts, c.db).ok
  BY QueueFacts
<1>2. m = Replay(pp, MergedSoFar) /\ c = Replay(pp, Replay(hh, MergedSoFar).db)
  BY QueueFacts DEF Ahead, Behind, After
<1> HIDE DEF hh, pp, m, c
<1>3. (\A i \in 1..Len(hh) : ~MayCreateKey(hh[i])) => Fewer(m.db, c.db)
  BY <1>1, <1>2, BesideHead
<1> HIDE DEF t
<1>4. Fewer(m.db, c.db) => Silent(t, m.db, c.db)
  BY <1>1, Compared
<1>5. (\A j \in 1..Len(t.stmts) : ~MayCreateKey(t.stmts[j])) => Silent(t, m.db, c.db)
  BY <1>1, Compared
<1>6. \/ \A i \in 1..Len(hh) : ~MayCreateKey(hh[i])
      \/ \A j \in 1..Len(t.stmts) : ~MayCreateKey(t.stmts[j])
  BY <1>1, NotNeeded DEF hh, t
<1> QED
  BY <1>3, <1>4, <1>5, <1>6 DEF t, m, c

(* A head that needs no check leaves what waits opposite as it was: it     *)
(* writes no key, or what waits only inserts and it creates no key.        *)
LEMMA UnscannedOk ==
  ASSUME Inv, NamedQueues, AheadOk, queue[turn] # <<>>, NeededKinds(Head0, OtherQueue) = {},
         NEW k \in 1..Len(OtherQueue)
  PROVE  Behind(k + 1).ok
<1> DEFINE hh == Head0.stmts
           pp == Stmts(OtherQueue, k + 1)
           d == MergedSoFar
<1>1. /\ Head0 \in Transactions /\ hh \in Seq(Statements) /\ OtherQueue \in Logs
      /\ d \in Databases /\ Replay(hh, d).ok /\ After \in Databases
      /\ \A q \in 1..Len(OtherQueue) : OtherQueue[q].stmts \in Seq(Named)
  BY QueueFacts
<1>2. /\ k + 1 \in 1..(Len(OtherQueue) + 1) /\ Len(OtherQueue) \in Nat
  BY <1>1, LenProperties DEF Logs
<1>3. pp \in Seq(Statements) /\ Replay(pp, d).ok /\ Len(pp) \in 0..Len(pp)
      /\ SubSeq(pp, 1, Len(pp)) = pp
  <2>1. pp \in Seq(Statements)
    BY <1>1, <1>2, StmtsNext
  <2>2. Replay(pp, d).ok
    BY <1>2, QueueFacts DEF AheadOk, Ahead
  <2> HIDE DEF pp
  <2> QED
    BY <2>1, <2>2, LenProperties
<1>4. ASSUME NEW q \in 1..Len(OtherQueue), NEW j \in 1..Len(OtherQueue[q].stmts)
      PROVE  \/ IsInsert(OtherQueue[q].stmts[j])
             \/ \A i \in 1..Len(hh) : "k" \notin WrittenColumns(hh[i])
  <2>1. ReadIndexes(hh, OtherQueue[q].stmts) = {}
    BY <1>1, NotNeeded
  <2> HIDE DEF hh
  <2> QED
    BY <1>1, <2>1, Unread
<1>5. \/ \A i \in 1..Len(hh) : ~MayCreateKey(hh[i])
      \/ \A q \in 1..Len(OtherQueue) : \A j \in 1..Len(OtherQueue[q].stmts) :
           ~MayCreateKey(OtherQueue[q].stmts[j])
  BY <1>1, NotNeeded
<1>6. After = Replay(hh, d).db
  BY DEF After
<1>7. CASE \A i \in 1..Len(hh) : "k" \notin WrittenColumns(hh[i])
  <2> HIDE DEF hh, pp, d
  <2>1. Replay(pp, After).ok
    BY <1>1, <1>3, <1>6, <1>7, BesideHead
  <2> QED
    BY <2>1 DEF Behind, pp
<1>8. CASE \A q \in 1..Len(OtherQueue) : \A j \in 1..Len(OtherQueue[q].stmts) :
             IsInsert(OtherQueue[q].stmts[j])
  <2> DEFINE Inserts == {s \in Statements : IsInsert(s)}
  <2>1. pp \in Seq(Inserts)
    <3>1. \A q \in 1..Len(OtherQueue) : OtherQueue[q].stmts \in Seq(Inserts)
      <4> TAKE q \in 1..Len(OtherQueue)
      <4>1. OtherQueue[q].stmts \in Seq(Statements)
        BY QueueFacts
      <4> QED
        BY <1>8, <4>1
    <3> HIDE DEF Inserts
    <3> QED
      BY <1>1, <1>2, <3>1, StmtsIn
  <2>2. \A i \in 1..Len(pp) : IsInsert(pp[i])
    <3> HIDE DEF pp
    <3>1. \A i \in 1..Len(pp) : pp[i] \in Inserts
      BY <2>1, ElementOfSeq
    <3> QED
      BY <3>1
  <2>3. Len(pp) # 0 => Fewer(d, After)
    <3>1. CASE \A i \in 1..Len(hh) : ~MayCreateKey(hh[i])
      <4> HIDE DEF hh, d
      <4> QED
        BY <1>1, <1>6, <3>1, QuietReplay
    <3>2. CASE \A q \in 1..Len(OtherQueue) : \A j \in 1..Len(OtherQueue[q].stmts) :
                 ~MayCreateKey(OtherQueue[q].stmts[j])
      <4>1. \A q \in 1..Len(OtherQueue) : OtherQueue[q].stmts \in Seq({})
        <5> TAKE q \in 1..Len(OtherQueue)
        <5>1. \A j \in 1..Len(OtherQueue[q].stmts) : FALSE
          BY <1>8, <3>2 DEF MayCreateKey
        <5>2. OtherQueue[q].stmts \in Seq(Statements)
          BY QueueFacts
        <5> QED
          BY <5>1, <5>2
      <4>2. pp \in Seq({})
        BY <1>1, <1>2, <4>1, StmtsIn
      <4> HIDE DEF pp
      <4>3. \A i \in 1..Len(pp) : pp[i] \in {}
        BY <4>2, ElementOfSeq
      <4> QED
        BY <1>3, <4>3
    <3> QED
      BY <1>5, <3>1, <3>2
  <2> HIDE DEF hh, pp, d
  <2>4. Replay(SubSeq(pp, 1, Len(pp)), After).ok
    BY <1>1, <1>3, <2>2, <2>3, FewerTogether
  <2> QED
    BY <1>3, <2>4 DEF Behind, pp
<1> QED
  BY <1>4, <1>7, <1>8

(* ... and is undisturbed by the head.                                     *)
LEMMA UnscannedClear ==
  ASSUME Inv, NamedQueues, AheadOk, queue[turn] # <<>>, NeededKinds(Head0, OtherQueue) = {},
         NEW k \in 1..Len(OtherQueue)
  PROVE  Clear(k)
<1> DEFINE hh == Head0.stmts
           t == OtherQueue[k]
           pp == Stmts(OtherQueue, k)
           d == MergedSoFar
           m == Ahead(Other(turn), k)
           c == Behind(k)
<1>1. Behind(k + 1).ok
  BY UnscannedOk
<1>2. Silent(t, m.db, c.db)
  BY <1>1, NothingSilent
<1>3. /\ Head0 \in Transactions /\ hh \in Seq(Statements) /\ OtherQueue \in Logs
      /\ d \in Databases /\ Replay(hh, d).ok
      /\ t.stmts \in Seq(Statements) /\ t.stmts \in Seq(Named) /\ pp \in Seq(Statements)
      /\ m.ok /\ m.db \in Databases /\ Replay(t.stmts, m.db).ok
      /\ c.db \in Databases /\ Replay(t.stmts, c.db).ok
  BY <1>1, QueueFacts
<1>4. m = Replay(pp, d) /\ c = Replay(pp, Replay(hh, d).db)
  BY QueueFacts DEF Ahead, Behind, After
<1>5. WriteWritePairs(hh, t.stmts) = {} /\ ReadIndexes(hh, t.stmts) = {}
  BY <1>3, NotNeeded
<1>6. Effects(t, c.db) = Effects(t, m.db)
  <2> HIDE DEF hh, t, pp, d, m, c
  <2>1. \A j \in 1..Len(t.stmts) : Effect(t.stmts[j], Replay(Before(t.stmts, j), c.db).db)
                                     = Effect(t.stmts[j], Replay(Before(t.stmts, j), m.db).db)
    <3> DEFINE tt == t.stmts
    <3>1. /\ tt \in Seq(Named) /\ Replay(pp, d).ok /\ Replay(tt, Replay(pp, d).db).ok
          /\ \A j \in 1..Len(tt) : j \notin ReadIndexes(hh, tt)
      BY <1>3, <1>4, <1>5
    <3> HIDE DEF tt
    <3> SUFFICES ASSUME NEW j \in 1..Len(tt)
                 PROVE  Effect(tt[j], Replay(Before(tt, j), c.db).db)
                          = Effect(tt[j], Replay(Before(tt, j), m.db).db)
      BY DEF tt
    <3>2. Effect(tt[j], Replay(Before(tt, j), Replay(pp, Replay(hh, d).db).db).db)
            = Effect(tt[j], Replay(Before(tt, j), Replay(pp, d).db).db)
      BY <1>3, <3>1, UnreadEffect
    <3> QED
      BY <1>4, <3>2
  <2> QED
    BY <1>3, <2>1, Compared
<1>7. Apart(Head0, d, t, m.db)
  BY <1>5 DEF Apart
<1> QED
  BY <1>1, <1>2, <1>6, <1>7 DEF Clear, Undisturbed

-----------------------------------------------------------------------------
(* Where an open scan stands is Ahead on main and Behind on the control    *)
(* copy.                                                                   *)
LEMMA ScanPointIs ==
  ASSUME Inv, NamedQueues, AheadOk, queue[turn] # <<>>, next <= Len(OtherQueue) + 1,
         NEW m, NEW c, AtScanPoint(m, c)
  PROVE  /\ Ahead(Other(turn), next) = Ok(m) /\ Behind(next) = Ok(c)
         /\ m \in Databases /\ c \in Databases
<1> DEFINE hh == Head0.stmts
           d == MergedSoFar
<1>1. /\ hh \in Seq(Statements) /\ d \in Databases /\ OtherQueue = queue[Other(turn)]
      /\ Passed \in Seq(Statements) /\ Passed = Stmts(OtherQueue, next)
  BY QueueFacts, PassedType DEF Passed, Stmts
<1>2. Replay(Passed, d) = Ok(m) /\ Replay(OnControl(hh \o Passed), d) = Ok(c)
  BY DEF AtScanPoint
<1>3. Ahead(Other(turn), next) = Ok(m)
  BY <1>1, <1>2 DEF Ahead
<1>4. Ok(m).ok /\ Ok(m).db = m /\ Ok(c).ok /\ Ok(c).db = c
  BY OkRuns
<1> DEFINE both == hh \o Passed
<1>5. both \in Seq(Statements) /\ Len(both) \in 0..Len(both) /\ SubSeq(both, 1, Len(both)) = both
  <2> HIDE DEF hh
  <2>1. both \in Seq(Statements)
    BY <1>1
  <2> HIDE DEF both
  <2> QED
    BY <2>1, LenProperties
<1>6. Replay(both, d) = Ok(c)
  <2> HIDE DEF both, d, hh
  <2>1. Replay(OnControl(both), d).ok
    BY <1>2, <1>4 DEF both
  <2>2. Replay(OnControl(SubSeq(both, 1, Len(both))), d) = Replay(SubSeq(both, 1, Len(both)), d)
    BY <1>1, <1>5, <2>1, OnControlReplay
  <2> QED
    BY <1>2, <1>5, <2>2 DEF both
<1>7. Replay(Passed, After) = Ok(c)
  <2> HIDE DEF d, hh
  <2>1. Replay(hh, d).ok /\ Replay(hh \o Passed, d) = Replay(Passed, Replay(hh, d).db)
    BY <1>1, <1>4, <1>6, ConcatOk DEF both
  <2> QED
    BY <1>6, <2>1 DEF After, d, hh, both
<1>8. m \in Databases
  <2>1. Replay(Passed, d) \in Runs
    BY <1>1, ConcatOk
  <2> QED
    BY <1>2, <1>4, <2>1 DEF Runs
<1>9. c \in Databases
  <2>1. Replay(both, d) \in Runs
    BY <1>1, <1>5, ConcatOk
  <2> QED
    BY <1>4, <1>6, <2>1 DEF Runs
<1> QED
  BY <1>1, <1>3, <1>7, <1>8, <1>9 DEF Behind

-----------------------------------------------------------------------------
(* What a turn has established so far.  An open scan knows the rows the    *)
(* head writes and has cleared what it passed,                             *)
Probed == \A j \in DOMAIN probes : probes[j] = MetBy(Head0, j, MergedSoFar)
ScanFacts ==
  ScanOpen => /\ kinds = NeededKinds(Head0, OtherQueue) /\ Probed
              /\ \A k \in 1..(next - 1) : Clear(k)
              /\ pc = "start" => Len(probes) = walk.at - 1
              /\ pc \in {"scan", "pair", "advance"} => Len(probes) = Len(Head0.stmts)

(* the scan starts and ends with the turn, and a prompt is about something,*)
PromptFacts == (pc = "turn" => ~ScanOpen) /\ (pc = "pair" => prompt # {})

(* a replay has a reason,                                                  *)
NothingNew(t, m, c) == Effects(t, c) = Effects(t, m) /\ Apart(Head0, MergedSoFar, t, m)
WalkFacts ==
  pc = "advance" =>
    /\ walk.purpose = "apply" => \A k \in 1..Len(OtherQueue) : Clear(k)
    /\ walk.purpose = "accept" => Reviewed(Candidate)
    /\ walk.purpose = "check" =>
         /\ Behind(next + 1).ok =>
              NothingNew(Candidate, Ahead(Other(turn), next).db, Behind(next).db)
         /\ "integrity" \in kinds =>
              \A j \in 1..(walk.at - 1) :
                Hidden(Candidate, j, Behind(next).db)
                  => Hidden(Candidate, j, Ahead(Other(turn), next).db)

(* and what is accepted in the turn was reviewed.                          *)
AcceptedFacts == \A key \in accepted : \E r \in reviewed :
                   r.second = <<key[2].branch, key[2].n>>

Checked == ScanFacts /\ PromptFacts /\ WalkFacts /\ AcceptedFacts

(* A check that finds nothing: no row met is written by the head, and what *)
(* is read is the same, or cannot have changed.                            *)
LEMMA CheckFindsNothing ==
  ASSUME Inv, Bookkeeping, Replayed, NamedQueues, AheadOk, Checked, pc = "scan",
         next <= Len(OtherQueue), CheckResult = {}, Behind(next + 1).ok
  PROVE  NothingNew(Candidate, Ahead(Other(turn), next).db, Behind(next).db)
<1> DEFINE hh == Head0.stmts
           t == Candidate
           tt == t.stmts
           pp == Stmts(OtherQueue, next)
           d == MergedSoFar
           static == StaticKinds(hh, tt)
           ww == IF "write_write" \in static THEN WriteWriteResult(hh, tt, main) ELSE {}
<1>1. queue[turn] # <<>> /\ ScanOpen /\ next \in Nat \ {0}
  BY DEF Inv, Positions, TypeOK, ScanTypes
<1>2. /\ kinds = NeededKinds(Head0, OtherQueue) /\ Probed /\ Len(probes) = Len(hh)
      /\ probes \in Seq(SUBSET Rows)
  BY <1>1 DEF Checked, ScanFacts, Inv, TypeOK, ScanTypes
<1>3. Len(OtherQueue) \in Nat /\ next \in 1..Len(OtherQueue)
  <2>1. OtherQueue \in Logs
    BY <1>1, QueueFacts
  <2> QED
    BY <1>1, <2>1, LenProperties DEF Logs
<1>4. /\ Head0 \in Transactions /\ hh \in Seq(Statements) /\ OtherQueue \in Logs
      /\ d \in Databases /\ Replay(hh, d).ok
      /\ tt \in Seq(Statements) /\ tt \in Seq(Named) /\ pp \in Seq(Statements)
      /\ Replay(tt, Ahead(Other(turn), next).db).ok /\ Ahead(Other(turn), next).ok
      /\ Replay(tt, Behind(next).db).ok
  BY <1>1, <1>3, QueueFacts DEF Candidate
<1>5. /\ Ahead(Other(turn), next) = Replay(pp, d) /\ Behind(next) = Replay(pp, Replay(hh, d).db)
  BY <1>1, QueueFacts DEF Ahead, Behind, After
<1>6. /\ main = Ahead(Other(turn), next).db /\ control = Behind(next).db
      /\ main \in Databases /\ control \in Databases
  <2>1. AtScanPoint(main, control)
    BY DEF Replayed, ScanReplayed
  <2>2. next <= Len(OtherQueue) + 1
    BY <1>3
  <2> QED
    BY <1>1, <2>1, <2>2, ScanPointIs, OkRuns
<1>7. ww = {} /\ ("write_read" \in static => WriteReadResult(hh, tt) = {})
  BY Zenon DEF CheckResult
<1>8. DOMAIN hh = 1..Len(hh) /\ DOMAIN tt = 1..Len(tt) /\ DOMAIN probes = 1..Len(probes)
  BY <1>2, <1>4, LenProperties
<1>9. Apart(Head0, d, t, main)
  <2> SUFFICES ASSUME NEW p \in WriteWritePairs(hh, tt)
               PROVE  MetBy(Head0, p[1], d) \cap MetBy(t, p[2], main) = {}
    BY DEF Apart
  <2>1. "write_write" \in static
    <3>1. "write_write" \in kinds
      BY <1>2, <1>3, <1>4, NotNeeded DEF Candidate
    <3> QED
      BY <3>1 DEF StaticKinds
  <2> DEFINE meets == {q \in WriteWritePairs(hh, tt) :
                         /\ Replay(Before(tt, q[2]), main).ok
                         /\ probes[q[1]] \cap
                              AffectedRows(tt[q[2]], Replay(Before(tt, q[2]), main).db) # {}}
  <2>2. WriteWriteResult(hh, tt, main) = {}
    BY <1>7, <2>1
  <2>3. meets = {}
    <3> SUFFICES ASSUME meets # {} PROVE WriteWriteResult(hh, tt, main) # {}
      BY <2>2
    <3>1. \E x : WriteWriteResult(hh, tt, main) = {x}
      BY DEF WriteWriteResult
    <3> QED
      BY <3>1
  <2>4. p[1] \in 1..Len(hh) /\ p[2] \in 1..Len(tt)
    BY <1>8 DEF WriteWritePairs
  <2>5. Replay(Before(tt, p[2]), main).ok
    <3>1. Replay(tt, main).ok
      BY <1>4, <1>6
    <3> HIDE DEF tt
    <3> QED
      BY <1>4, <1>6, <2>4, <3>1, StepOk
  <2>6. probes[p[1]] \cap AffectedRows(tt[p[2]], Replay(Before(tt, p[2]), main).db) = {}
    BY <2>3, <2>5
  <2>7. probes[p[1]] = MetBy(Head0, p[1], d)
    BY <1>2, <1>8, <2>4 DEF Probed
  <2>8. MetBy(t, p[2], main) = AffectedRows(tt[p[2]], Replay(Before(tt, p[2]), main).db)
    BY EffectMet DEF MetBy
  <2> QED
    BY <2>6, <2>7, <2>8
<1>10. ASSUME NEW j \in 1..Len(tt)
       PROVE  Effect(tt[j], Replay(Before(tt, j), control).db)
                = Effect(tt[j], Replay(Before(tt, j), main).db)
  <2>1. CASE j \notin ReadIndexes(hh, tt)
    <3> HIDE DEF hh, tt, pp, d
    <3>1. Effect(tt[j], Replay(Before(tt, j), Replay(pp, Replay(hh, d).db).db).db)
            = Effect(tt[j], Replay(Before(tt, j), Replay(pp, d).db).db)
      BY <1>4, <1>5, <2>1, UnreadEffect
    <3> QED
      BY <1>5, <1>6, <3>1
  <2>2. CASE j \in ReadIndexes(hh, tt)
    <3>1. "write_read" \in static
      <4>1. "write_read" \in kinds
        BY <1>2, <1>3, <1>4, <2>2, NotNeeded DEF Candidate
      <4> QED
        BY <2>2, <4>1 DEF StaticKinds
    <3>2. WriteReadResult(hh, tt) = {}
      BY <1>7, <3>1
    <3> DEFINE cc == OnControl(tt)
               changed == {i \in ReadIndexes(hh, tt) :
                      /\ HasReadProbe(tt[i])
                      /\ ReadProbe(tt[i], Replay(Before(tt, i), main).db)
                         # ReadProbe(tt[i], Replay(Before(cc, i), control).db)}
    <3>3. Replay(tt, main).ok /\ Replay(cc, control).ok /\ changed = {}
      <4>1. ~(Replay(tt, main).ok /\ Replay(cc, control).ok) => WriteReadResult(hh, tt) # {}
        BY DEF WriteReadResult
      <4>2. changed # {} => WriteReadResult(hh, tt) # {}
        BY DEF WriteReadResult
      <4> QED
        BY <3>2, <4>1, <4>2
    <3>4. IsInsert(tt[j]) \/ ReadProbe(tt[j], Replay(Before(tt, j), main).db)
                               = ReadProbe(tt[j], Replay(Before(cc, j), control).db)
      BY <2>2, <3>3 DEF HasReadProbe
    <3>5. j - 1 \in 0..Len(tt) /\ tt[j] \in Named /\ Before(tt, j) \in Seq(Statements)
      <4> HIDE DEF tt
      <4>1. tt[j] \in Named
        BY <1>4, ElementOfSeq
      <4> QED
        BY <1>4, <4>1, LenProperties DEF Before
    <3>6. Replay(Before(cc, j), control) = Replay(Before(tt, j), control)
      <4> HIDE DEF tt
      <4>1. Replay(OnControl(SubSeq(tt, 1, j - 1)), control) = Replay(SubSeq(tt, 1, j - 1), control)
        BY <1>4, <1>6, <3>3, <3>5, OnControlReplay
      <4>2. OnControl(SubSeq(tt, 1, j - 1)) = SubSeq(cc, 1, j - 1)
        BY <1>4, <3>5, OnControlPrefix
      <4> QED
        BY <4>1, <4>2 DEF Before
    <3> DEFINE x == Replay(Before(tt, j), main)
               y == Replay(Before(tt, j), control)
    <3>7. x.db \in Databases /\ y.db \in Databases
      BY <1>6, <3>5, ReplayType
    <3>8. IsInsert(tt[j]) \/ ReadProbe(tt[j], y.db) = ReadProbe(tt[j], x.db)
      BY <3>4, <3>6
    <3> HIDE DEF x, y, tt
    <3>9. Effect(tt[j], y.db) = Effect(tt[j], x.db)
      BY <3>5, <3>7, <3>8, EffectSame, EffectMet
    <3> QED
      BY <3>9 DEF x, y
  <2> QED
    BY <2>1, <2>2
<1>11. Effects(t, control) = Effects(t, main)
  <2> HIDE DEF t
  <2> QED
    BY <1>4, <1>6, <1>10, Compared
<1> QED
  BY <1>6, <1>9, <1>11 DEF NothingNew

-----------------------------------------------------------------------------
(* What is in the merged log did there what it did on its branch.          *)
LogFacts ==
  \A i \in DOMAIN log :
    LET t == log[i]
        m == MergedState(i)
        o == BranchState(t.branch, t.n)
    IN  \/ Reviewed(t)
        \/ /\ Effects(t, m) = Effects(t, o) /\ Silent(t, o, m)
           /\ \A j \in DOMAIN log : j < i /\ log[j].branch # t.branch =>
                Apart(log[j], MergedState(j), t, m)

EffectInv == AheadOk /\ Settled /\ LogFacts /\ Checked

(* A step that takes nothing from a queue leaves all of this as it was; a  *)
(* conflict the user accepts only excuses more.                            *)
LEMMA Keeps ==
  ASSUME UNCHANGED <<base, origin, queue, log>>, MergedSoFar' = MergedSoFar,
         reviewed \subseteq reviewed'
  PROVE  /\ \A t : Reviewed(t) => Reviewed(t)'
         /\ \A b, k : Ahead(b, k)' = Ahead(b, k)
         /\ \A b, n : BranchState(b, n)' = BranchState(b, n)
         /\ \A i : MergedState(i)' = MergedState(i)
         /\ AheadOk => AheadOk'
         /\ Settled => Settled'
         /\ LogFacts => LogFacts'
         /\ NamedQueues => NamedQueues'
<1>1. ASSUME NEW t, Reviewed(t) PROVE Reviewed(t)'
  BY <1>1 DEF Reviewed, ReviewedUpTo
<1>2. \A b, k : Ahead(b, k)' = Ahead(b, k)
  BY DEF Ahead, Stmts, StatementsOfLog
<1>3. \A b, n : BranchState(b, n)' = BranchState(b, n)
  BY DEF BranchState, StatementsOfLog
<1>4. \A i : MergedState(i)' = MergedState(i)
  BY DEF MergedState, StatementsOfLog
<1>5. AheadOk => AheadOk'
  BY <1>2 DEF AheadOk
<1>6. ASSUME NEW t, NEW b, NEW m, SettledOn(t, b, m) PROVE SettledOn(t, b, m)'
  BY <1>1, <1>3, <1>4, <1>6 DEF SettledOn
<1>7. Settled => Settled'
  BY <1>2, <1>6 DEF Settled
<1>8. ASSUME LogFacts PROVE LogFacts'
  BY <1>1, <1>3, <1>4, <1>8 DEF LogFacts
<1>9. NamedQueues => NamedQueues'
  BY DEF NamedQueues
<1> QED
  BY <1>1, <1>2, <1>3, <1>4, <1>5, <1>7, <1>8, <1>9

(* The same within a turn.                                                 *)
LEMMA KeepsTurn ==
  ASSUME UNCHANGED <<base, origin, queue, turn, log>>, MergedSoFar' = MergedSoFar,
         reviewed \subseteq reviewed'
  PROVE  /\ Head0' = Head0 /\ OtherQueue' = OtherQueue
         /\ \A k : Behind(k)' = Behind(k)
         /\ \A k : Ahead(Other(turn), k)' = Ahead(Other(turn), k)
         /\ \A k : Clear(k) => Clear(k)'
<1>1. Head0' = Head0 /\ OtherQueue' = OtherQueue
  BY DEF Head0, OtherQueue
<1>2. After' = After
  BY <1>1 DEF After
<1>3. \A k : Behind(k)' = Behind(k)
  BY <1>1, <1>2 DEF Behind, Stmts, StatementsOfLog
<1>4. \A k : Ahead(Other(turn), k)' = Ahead(Other(turn), k)
  BY DEF Ahead, Stmts, StatementsOfLog, Other
<1>5. \A t : Reviewed(t) => Reviewed(t)'
  BY Keeps
<1>6. ASSUME NEW t, NEW m, NEW c, Undisturbed(t, m, c) PROVE Undisturbed(t, m, c)'
  BY <1>1, <1>6 DEF Undisturbed
<1>7. ASSUME NEW k, Clear(k) PROVE Clear(k)'
  BY <1>1, <1>3, <1>4, <1>5, <1>6, <1>7 DEF Clear
<1> QED
  BY <1>1, <1>3, <1>4, <1>7

(* Most steps are of this kind.                                            *)
OtherSteps == \/ UnsafeHead \/ ApplyUnscanned \/ OpenScan \/ ResumeScan \/ StartStatement
              \/ Started \/ ScanCheck \/ ScanExhausted \/ AdvanceStatement \/ AdvanceFails
              \/ AdvanceScan \/ AcceptPair \/ Interrupt
(* They take nothing from a queue.                                         *)
LEMMA OtherStepsKeep ==
  ASSUME Inv, OtherSteps
  PROVE  /\ UNCHANGED <<base, origin, queue, turn, log>> /\ MergedSoFar' = MergedSoFar
         /\ reviewed \subseteq reviewed'
<1>1. UNCHANGED <<base, origin, queue, turn, log>>
  BY DEF OtherSteps, UnsafeHead, ApplyUnscanned, OpenScan, ResumeScan, StartStatement, Started,
     ScanCheck, ScanExhausted, AdvanceStatement, AdvanceFails, AdvanceScan, AcceptPair, Interrupt,
     fixed
<1>2. MergedSoFar' = MergedSoFar
  BY OtherStepsStutter DEF OtherSteps, Atomic!mergeVars
<1>3. reviewed \subseteq reviewed'
  <2>1. AcceptPair => reviewed \subseteq reviewed'
    BY DEF AcceptPair
  <2>2. OtherSteps => AcceptPair \/ UNCHANGED reviewed
    BY DEF OtherSteps, UnsafeHead, ApplyUnscanned, OpenScan, ResumeScan, StartStatement, Started,
       ScanCheck, ScanExhausted, AdvanceStatement, AdvanceFails, AdvanceScan, Interrupt, userVars
  <2> QED
    BY <2>1, <2>2
<1> QED
  BY <1>1, <1>2, <1>3

-----------------------------------------------------------------------------
(* A turn begins: every way into a scan or a replay.                       *)
LEMMA TurnBeginsChecked ==
  ASSUME Inv, NamedQueues, AheadOk, Checked, UnsafeHead \/ ApplyUnscanned \/ OpenScan \/ ResumeScan
  PROVE  Checked'
<1>1. pc = "turn" /\ kinds = {} /\ UNCHANGED accepted /\ reviewed \subseteq reviewed'
  <2>1. pc = "turn" /\ UNCHANGED accepted
    BY DEF UnsafeHead, ApplyUnscanned, OpenScan, ResumeScan, SafeHead
  <2>2. reviewed \subseteq reviewed'
    BY OtherStepsKeep DEF OtherSteps
  <2> QED
    BY <2>1, <2>2 DEF Checked, PromptFacts, ScanOpen
<1>2. AcceptedFacts'
  BY <1>1 DEF Checked, AcceptedFacts
<1>3. CASE UnsafeHead
  <2>1. kinds' = {} /\ pc' = "standalone"
    BY <1>3 DEF UnsafeHead, CloseScan, ForgetScan, Ask
  <2> QED
    BY <1>2, <2>1 DEF Checked, ScanFacts, PromptFacts, WalkFacts, ScanOpen
<1>4. CASE ApplyUnscanned
  <2>1. /\ kinds' = {} /\ pc' = "advance" /\ walk'.purpose = "apply"
        /\ queue[turn] # <<>> /\ NeededKinds(Head0, OtherQueue) = {}
    BY <1>1, <1>4 DEF ApplyUnscanned, BeginWalk, scanVars, SafeHead
  <2>2. \A k \in 1..Len(OtherQueue) : Clear(k)
    BY <2>1, UnscannedClear
  <2>3. OtherQueue' = OtherQueue /\ \A k : Clear(k) => Clear(k)'
    BY <1>4, OtherStepsKeep, KeepsTurn DEF OtherSteps
  <2>4. \A k \in 1..Len(OtherQueue') : Clear(k)'
    BY <2>2, <2>3
  <2> QED
    BY <1>2, <2>1, <2>4 DEF Checked, ScanFacts, PromptFacts, WalkFacts, ScanOpen
<1>5. CASE OpenScan
  <2>1. /\ kinds' = NeededKinds(Head0, OtherQueue) /\ next' = 1 /\ probes' = <<>>
        /\ pc' = "start" /\ walk' = [Idle EXCEPT !.purpose = "start"]
    BY <1>5 DEF OpenScan
  <2>2. Head0' = Head0 /\ OtherQueue' = OtherQueue
    BY <1>5, OtherStepsKeep, KeepsTurn DEF OtherSteps
  <2>3. walk'.at = 1 /\ Len(probes') = 0
    BY <2>1 DEF Idle
  <2>4. kinds' = NeededKinds(Head0', OtherQueue')
    BY <2>1, <2>2
  <2>5. Probed' /\ \A k \in 1..(next' - 1) : Clear(k)'
    BY <2>1 DEF Probed
  <2>6. ScanFacts'
    BY <2>1, <2>3, <2>4, <2>5 DEF ScanFacts
  <2> QED
    BY <1>2, <2>1, <2>6 DEF Checked, PromptFacts, WalkFacts
<1>6. ~ResumeScan
  BY <1>1 DEF ResumeScan, ScanOpen
<1> QED
  BY <1>3, <1>4, <1>5, <1>6

(* The open scan stays as it is.                                           *)
LEMMA ScanKept ==
  ASSUME Checked, ScanOpen, UNCHANGED <<base, origin, queue, turn, log>>,
         MergedSoFar' = MergedSoFar, reviewed \subseteq reviewed', UNCHANGED scanVars,
         pc' # "start", pc \in {"scan", "pair", "advance"}
  PROVE  ScanFacts'
<1>1. /\ kinds = NeededKinds(Head0, OtherQueue) /\ Probed
      /\ \A k \in 1..(next - 1) : Clear(k)
      /\ Len(probes) = Len(Head0.stmts)
  BY DEF Checked, ScanFacts
<1>2. /\ Head0' = Head0 /\ OtherQueue' = OtherQueue /\ \A k : Clear(k) => Clear(k)'
  BY KeepsTurn
<1>3. kinds' = kinds /\ next' = next /\ probes' = probes
  BY DEF scanVars
<1>4. kinds' = NeededKinds(Head0', OtherQueue')
  BY <1>1, <1>2, <1>3
<1>5. Probed'
  BY <1>1, <1>2, <1>3 DEF Probed
<1>6. \A k \in 1..(next' - 1) : Clear(k)'
  BY <1>1, <1>2, <1>3
<1>7. Len(probes') = Len(Head0'.stmts)
  BY <1>1, <1>2, <1>3
<1> QED
  BY <1>4, <1>5, <1>6, <1>7 DEF ScanFacts

(* A key accepted in this turn excuses its candidate.                      *)
LEMMA AcceptedIsReviewed ==
  ASSUME Inv, AcceptedFacts, next <= Len(OtherQueue), NEW found, PairKey(found) \in accepted
  PROVE  Reviewed(Candidate)
<1>1. Candidate \in Transactions
  BY CandidateType DEF Inv
<1>2. PairKey(found)[2] = Candidate
  BY DEF PairKey
<1>3. PICK r \in reviewed : r.second = <<Candidate.branch, Candidate.n>>
  BY <1>2 DEF AcceptedFacts
<1>4. r.second[1] = Candidate.branch /\ r.second[2] <= Candidate.n
  BY <1>1, <1>3 DEF Transactions
<1> QED
  BY <1>4 DEF Reviewed, ReviewedUpTo

(* The head goes onto the control copy, its rows noted one statement ahead. *)
LEMMA StartStatementChecked ==
  ASSUME Inv, Replayed, NamedQueues, AheadOk, Checked, StartStatement
  PROVE  Checked'
<1> DEFINE hh == Head0.stmts
           i == walk.at
           d == MergedSoFar
<1>1. /\ pc = "start" /\ i <= Len(hh) /\ queue[turn] # <<>> /\ ScanOpen
      /\ probes' = Append(probes, AffectedRows(hh[i], control))
      /\ UNCHANGED <<kinds, next, accepted>>
      /\ \/ /\ Succeeds(ControlForm(hh[i]), control) /\ UNCHANGED pc
            /\ walk' = [walk EXCEPT !.at = @ + 1]
         \/ pc' = "standalone"
  BY DEF StartStatement, Inv, Positions, Ask
<1>2. /\ UNCHANGED <<base, origin, queue, turn, log>> /\ MergedSoFar' = MergedSoFar
      /\ reviewed \subseteq reviewed'
  BY OtherStepsKeep DEF OtherSteps
<1>3. /\ hh \in Seq(Statements) /\ d \in Databases /\ walk \in Walks
      /\ probes \in Seq(SUBSET Rows) /\ i \in 1..Len(hh)
  <2>1. hh \in Seq(Statements) /\ d \in Databases
    BY <1>1, QueueFacts
  <2>2. walk \in Walks /\ probes \in Seq(SUBSET Rows)
    BY DEF Inv, TypeOK, TurnTypes, ScanTypes
  <2> QED
    BY <1>1, <2>1, <2>2, LenProperties DEF Walks
<1>4. /\ kinds = NeededKinds(Head0, OtherQueue) /\ Probed
      /\ \A k \in 1..(next - 1) : Clear(k)
      /\ Len(probes) = i - 1
  BY <1>1 DEF Checked, ScanFacts
<1>5. /\ Head0' = Head0 /\ OtherQueue' = OtherQueue /\ \A k : Clear(k) => Clear(k)'
  BY <1>2, KeepsTurn
<1>6. AffectedRows(hh[i], control) = MetBy(Head0, i, d)
  <2>1. Replay(OnControl(Before(hh, i)), d) = Ok(control)
    BY <1>1 DEF Replayed, StartReplayed
  <2> DEFINE bb == Before(hh, i)
  <2>2. bb \in Seq(Statements) /\ Len(bb) \in 0..Len(bb) /\ SubSeq(bb, 1, Len(bb)) = bb
    <3> HIDE DEF hh, i
    <3>1. bb \in Seq(Statements)
      BY <1>3 DEF Before
    <3> HIDE DEF bb
    <3> QED
      BY <3>1, LenProperties
  <2>3. Replay(bb, d) = Ok(control)
    <3> HIDE DEF bb, d
    <3>1. Replay(OnControl(bb), d).ok
      BY <2>1, OkRuns DEF bb
    <3>2. Replay(OnControl(SubSeq(bb, 1, Len(bb))), d) = Replay(SubSeq(bb, 1, Len(bb)), d)
      BY <1>3, <2>2, <3>1, OnControlReplay
    <3> QED
      BY <2>1, <2>2, <3>2 DEF bb
  <2>4. Replay(Before(hh, i), d).db = control
    BY <2>3, OkRuns
  <2> QED
    BY <2>4, EffectMet DEF MetBy
<1>7. Probed' /\ Len(probes') = i
  <2>1. /\ DOMAIN probes = 1..(i - 1) /\ DOMAIN probes' = 1..i /\ Len(probes') = i
        /\ \A j \in 1..(i - 1) : probes'[j] = probes[j]
        /\ probes'[i] = AffectedRows(hh[i], control)
    <3> HIDE DEF hh, i
    <3> DEFINE x == AffectedRows(hh[i], control)
    <3> HIDE DEF x
    <3>1. probes' = Append(probes, x)
      BY <1>1 DEF x
    <3>2. i \in Nat \ {0}
      BY <1>3
    <3> QED
      BY <1>3, <1>4, <3>1, <3>2 DEF x
  <2>2. \A j \in DOMAIN probes' : probes'[j] = MetBy(Head0, j, d)
    <3> TAKE j \in DOMAIN probes'
    <3>1. CASE j = i
      BY <1>6, <2>1, <3>1
    <3>2. CASE j # i
      <4>1. j \in DOMAIN probes /\ probes'[j] = probes[j]
        BY <1>3, <2>1, <3>2
      <4> QED
        BY <1>4, <4>1 DEF Probed
    <3> QED
      BY <3>1, <3>2
  <2>3. Probed'
    BY <1>2, <1>5, <2>2 DEF Probed
  <2> QED
    BY <2>1, <2>3
<1>8. pc' = "start" => Len(probes') = walk'.at - 1
  <2>1. pc' = "start" => walk'.at = i + 1
    BY <1>1, <1>3 DEF Walks
  <2> QED
    BY <1>3, <1>7, <2>1
<1>9. kinds' = NeededKinds(Head0', OtherQueue') /\ \A k \in 1..(next' - 1) : Clear(k)'
  BY <1>1, <1>4, <1>5
<1>10. pc' \in {"start", "standalone"}
  BY <1>1
<1>11. ScanFacts'
  BY <1>7, <1>8, <1>9, <1>10 DEF ScanFacts
<1>12. AcceptedFacts'
  BY <1>1, <1>2 DEF Checked, AcceptedFacts
<1> QED
  BY <1>10, <1>11, <1>12 DEF Checked, PromptFacts, WalkFacts

(* All of it is there.                                                     *)
LEMMA StartedChecked ==
  ASSUME Inv, Replayed, NamedQueues, AheadOk, Checked, Started
  PROVE  Checked'
<1>1. /\ pc = "start" /\ walk.at > Len(Head0.stmts) /\ queue[turn] # <<>> /\ ScanOpen
      /\ pc' = "scan" /\ UNCHANGED <<kinds, next, probes, accepted>>
  BY DEF Started, Inv, Positions, scanVars
<1>2. /\ UNCHANGED <<base, origin, queue, turn, log>> /\ MergedSoFar' = MergedSoFar
      /\ reviewed \subseteq reviewed'
  BY OtherStepsKeep DEF OtherSteps
<1>3. Head0.stmts \in Seq(Statements) /\ walk.at \in Nat
  <2>1. Head0.stmts \in Seq(Statements)
    BY <1>1, QueueFacts
  <2> QED
    BY <2>1 DEF Inv, TypeOK, TurnTypes, Walks
<1>4. Len(probes) = Len(Head0.stmts)
  <2>1. walk.at <= Len(Head0.stmts) + 1
    BY <1>1 DEF Replayed, StartReplayed
  <2>2. Len(probes) = walk.at - 1
    BY <1>1 DEF Checked, ScanFacts
  <2> QED
    BY <1>1, <1>3, <2>1, <2>2, LenProperties
<1>5. /\ kinds = NeededKinds(Head0, OtherQueue) /\ Probed
      /\ \A k \in 1..(next - 1) : Clear(k)
  BY <1>1 DEF Checked, ScanFacts
<1>6. /\ Head0' = Head0 /\ OtherQueue' = OtherQueue /\ \A k : Clear(k) => Clear(k)'
  BY <1>2, KeepsTurn
<1>7. Probed'
  BY <1>1, <1>2, <1>5, <1>6 DEF Probed
<1>8. /\ kinds' = NeededKinds(Head0', OtherQueue') /\ \A k \in 1..(next' - 1) : Clear(k)'
      /\ Len(probes') = Len(Head0'.stmts)
  BY <1>1, <1>4, <1>5, <1>6
<1>9. ScanFacts'
  BY <1>1, <1>7, <1>8 DEF ScanFacts
<1>10. AcceptedFacts'
  BY <1>1, <1>2 DEF Checked, AcceptedFacts
<1> QED
  BY <1>1, <1>9, <1>10 DEF Checked, PromptFacts, WalkFacts

(* A check at the scan position.                                           *)
LEMMA ScanCheckChecked ==
  ASSUME Inv, Bookkeeping, Replayed, NamedQueues, AheadOk, Checked, ScanCheck
  PROVE  Checked'
<1>1. /\ pc = "scan" /\ next <= Len(OtherQueue) /\ queue[turn] # <<>> /\ ScanOpen
      /\ UNCHANGED <<scanVars, accepted>> /\ next \in Nat \ {0}
      /\ \/ CheckResult # {} /\ Meet(CheckResult)
         \/ CheckResult = {} /\ BeginWalk("check", {})
  BY DEF ScanCheck, Inv, Positions, TypeOK, ScanTypes
<1>2. /\ UNCHANGED <<base, origin, queue, turn, log>> /\ MergedSoFar' = MergedSoFar
      /\ reviewed \subseteq reviewed'
  BY OtherStepsKeep DEF OtherSteps
<1>3. pc' \in {"advance", "pair"}
  BY <1>1 DEF Meet, BeginWalk, Ask
<1>4. ScanFacts'
  BY <1>1, <1>2, <1>3, ScanKept
<1>5. AcceptedFacts'
  BY <1>1, <1>2 DEF Checked, AcceptedFacts
<1>6. /\ Head0' = Head0 /\ OtherQueue' = OtherQueue
      /\ \A k : Behind(k)' = Behind(k)
      /\ \A k : Ahead(Other(turn), k)' = Ahead(Other(turn), k)
      /\ next' = next /\ Candidate' = Candidate
  BY <1>1, <1>2, KeepsTurn DEF scanVars, Candidate
<1>7. CASE CheckResult = {} /\ BeginWalk("check", {})
  <2>1. pc' = "advance" /\ walk'.purpose = "check" /\ walk'.at = 1
    BY <1>7 DEF BeginWalk
  <2>2. Behind(next + 1).ok =>
          NothingNew(Candidate, Ahead(Other(turn), next).db, Behind(next).db)
    BY <1>1, <1>7, CheckFindsNothing
  <2>3. (Behind(next + 1).ok =>
           NothingNew(Candidate, Ahead(Other(turn), next).db, Behind(next).db))'
    BY <1>2, <1>6, <2>2 DEF NothingNew
  <2>4. WalkFacts'
    BY <2>1, <2>3 DEF WalkFacts
  <2> QED
    BY <1>4, <1>5, <2>1, <2>4 DEF Checked, PromptFacts
<1>8. CASE CheckResult # {} /\ Meet(CheckResult)
  <2>1. CASE PairKey(CheckResult) \in accepted /\ BeginWalk("accept", CheckResult)
    <3>1. Reviewed(Candidate)
      BY <1>1, <2>1, AcceptedIsReviewed DEF Checked
    <3>2. Reviewed(Candidate)'
      BY <1>2, <1>6, <3>1, Keeps
    <3>3. pc' = "advance" /\ walk'.purpose = "accept"
      BY <2>1 DEF BeginWalk
    <3>4. WalkFacts'
      BY <3>2, <3>3 DEF WalkFacts
    <3> QED
      BY <1>4, <1>5, <3>3, <3>4 DEF Checked, PromptFacts
  <2>2. CASE Ask("pair", CheckResult)
    <3>1. pc' = "pair" /\ prompt' # {}
      BY <1>8, <2>2 DEF Ask
    <3> QED
      BY <1>4, <1>5, <3>1 DEF Checked, PromptFacts, WalkFacts
  <2> QED
    BY <1>8, <2>1, <2>2 DEF Meet
<1> QED
  BY <1>1, <1>7, <1>8

(* The scan is through.                                                    *)
LEMMA ScanExhaustedChecked ==
  ASSUME Inv, NamedQueues, AheadOk, Checked, ScanExhausted
  PROVE  Checked'
<1>1. /\ pc = "scan" /\ next > Len(OtherQueue) /\ queue[turn] # <<>> /\ ScanOpen
      /\ UNCHANGED accepted /\ next \in Nat \ {0}
      /\ kinds' = {} /\ pc' = "advance" /\ walk'.purpose = "apply"
  BY DEF ScanExhausted, Inv, Positions, TypeOK, ScanTypes, ForgetScan, BeginWalk
<1>2. /\ UNCHANGED <<base, origin, queue, turn, log>> /\ MergedSoFar' = MergedSoFar
      /\ reviewed \subseteq reviewed'
  BY OtherStepsKeep DEF OtherSteps
<1>3. \A k \in 1..Len(OtherQueue) : Clear(k)
  <2>1. \A k \in 1..(next - 1) : Clear(k)
    BY <1>1 DEF Checked, ScanFacts
  <2>2. OtherQueue \in Logs
    BY <1>1, QueueFacts
  <2>3. Len(OtherQueue) \in Nat
    BY <2>2, LenProperties DEF Logs
  <2>4. \A k \in 1..Len(OtherQueue) : k \in 1..(next - 1)
    BY <1>1, <2>3
  <2> QED
    BY <2>1, <2>4
<1>4. \A k \in 1..Len(OtherQueue') : Clear(k)'
  BY <1>2, <1>3, KeepsTurn
<1>5. AcceptedFacts'
  BY <1>1, <1>2 DEF Checked, AcceptedFacts
<1> QED
  BY <1>1, <1>4, <1>5 DEF Checked, ScanFacts, PromptFacts, WalkFacts, ScanOpen

-----------------------------------------------------------------------------
(* Where the replay of the candidate stands, on both databases.            *)
LEMMA WalkStands ==
  ASSUME Inv, Replayed, NamedQueues, AheadOk, pc = "advance", walk.purpose # "apply"
  PROVE  /\ queue[turn] # <<>> /\ next \in 1..Len(OtherQueue) /\ ScanOpen
         /\ Candidate = OtherQueue[next] /\ Candidate.stmts \in Seq(Statements)
         /\ walk.at \in 1..(Len(Candidate.stmts) + 1)
         /\ Behind(next).ok
         /\ Replay(Before(Candidate.stmts, walk.at), Ahead(Other(turn), next).db) = Ok(main)
         /\ Replay(Before(Candidate.stmts, walk.at), Behind(next).db) = Ok(control)
<1> DEFINE tt == Candidate.stmts
           i == walk.at
<1>1. queue[turn] # <<>> /\ next <= Len(OtherQueue) /\ ScanOpen
  BY DEF Inv, Positions
<1>2. next \in 1..Len(OtherQueue)
  BY <1>1, CandidateType DEF Inv
<1>3. tt \in Seq(Statements) /\ Walked = Candidate /\ i \in Nat \ {0}
  <2>1. Walked.stmts \in Seq(Statements) /\ Walked = Candidate /\ walk \in Walks
    BY WalkedAt
  <2> QED
    BY <2>1 DEF Walks
<1>4. i \in 1..(Len(tt) + 1)
  <2>1. i <= Len(tt) + 1
    BY <1>3 DEF Replayed, WalkReplayed
  <2> QED
    BY <1>3, <2>1, LenProperties
<1>5. /\ AtScanPoint(saves[2].main, saves[2].control)
      /\ Replay(Before(tt, i), saves[2].main) = Ok(main)
      /\ Replay(OnControl(Before(tt, i)), saves[2].control) = Ok(control)
  BY DEF Replayed, WalkReplayed
<1>6. /\ Ahead(Other(turn), next) = Ok(saves[2].main) /\ Behind(next) = Ok(saves[2].control)
      /\ saves[2].main \in Databases /\ saves[2].control \in Databases
  <2>1. next <= Len(OtherQueue) + 1
    BY <1>2
  <2> QED
    BY <1>1, <1>5, <2>1, ScanPointIs
<1>7. /\ Ahead(Other(turn), next).db = saves[2].main /\ Behind(next).db = saves[2].control
      /\ Behind(next).ok
  BY <1>6, OkRuns
<1>8. Replay(Before(tt, i), saves[2].control) = Ok(control)
  <2> DEFINE bb == Before(tt, i)
             c == saves[2].control
  <2>1. bb \in Seq(Statements)
    <3> HIDE DEF tt, i
    <3> QED
      BY <1>3, <1>4 DEF Before
  <2>2. Replay(OnControl(bb), c) = Ok(control) /\ c \in Databases
    BY <1>5, <1>6
  <2> HIDE DEF bb, c
  <2>3. Len(bb) \in 0..Len(bb) /\ SubSeq(bb, 1, Len(bb)) = bb
    BY <2>1, LenProperties
  <2>4. Replay(OnControl(bb), c).ok
    BY <2>2, OkRuns
  <2>5. Replay(OnControl(SubSeq(bb, 1, Len(bb))), c) = Replay(SubSeq(bb, 1, Len(bb)), c)
    BY <2>1, <2>2, <2>3, <2>4, OnControlReplay
  <2>6. Replay(bb, c) = Ok(control)
    BY <2>2, <2>3, <2>5
  <2> QED
    BY <2>6 DEF bb, c
<1> QED
  BY <1>1, <1>2, <1>3, <1>4, <1>5, <1>7, <1>8 DEF Candidate

(* One statement of a replay went through.                                 *)
LEMMA AdvanceStatementChecked ==
  ASSUME Inv, Replayed, NamedQueues, AheadOk, Checked, AdvanceStatement
  PROVE  Checked'
<1> DEFINE i == walk.at
           s == Walked.stmts[walk.at]
<1>1. /\ pc = "advance" /\ pc' = "advance" /\ i <= Len(Walked.stmts)
      /\ walk' = [walk EXCEPT !.at = @ + 1] /\ UNCHANGED <<scanVars, accepted>>
      /\ ~StrictFailure(s)
  BY DEF AdvanceStatement
<1>2. /\ UNCHANGED <<base, origin, queue, turn, log>> /\ MergedSoFar' = MergedSoFar
      /\ reviewed \subseteq reviewed'
  BY OtherStepsKeep DEF OtherSteps
<1>3. walk'.purpose = walk.purpose /\ walk'.at = i + 1 /\ i \in Nat \ {0}
  <2>1. walk \in Walks
    BY DEF Inv, TypeOK, TurnTypes
  <2> QED
    BY <1>1, <2>1 DEF Walks
<1>4. ScanFacts'
  <2>1. CASE ScanOpen
    BY <1>1, <1>2, <2>1, ScanKept
  <2>2. CASE ~ScanOpen
    BY <1>1, <2>2 DEF ScanFacts, ScanOpen, scanVars
  <2> QED
    BY <2>1, <2>2
<1>5. AcceptedFacts'
  BY <1>1, <1>2 DEF Checked, AcceptedFacts
<1>6. /\ Head0' = Head0 /\ OtherQueue' = OtherQueue
      /\ \A k : Behind(k)' = Behind(k)
      /\ \A k : Ahead(Other(turn), k)' = Ahead(Other(turn), k)
      /\ \A k : Clear(k) => Clear(k)'
      /\ next' = next /\ Candidate' = Candidate /\ kinds' = kinds
  BY <1>1, <1>2, KeepsTurn DEF scanVars, Candidate
<1>7. WalkFacts
  BY DEF Checked
<1>8. walk'.purpose = "apply" => \A k \in 1..Len(OtherQueue') : Clear(k)'
  BY <1>1, <1>3, <1>6, <1>7 DEF WalkFacts
<1>9. walk'.purpose = "accept" => Reviewed(Candidate)'
  <2>1. walk'.purpose = "accept" => Reviewed(Candidate)
    BY <1>1, <1>3, <1>7 DEF WalkFacts
  <2> QED
    BY <1>2, <1>6, <2>1, Keeps
<1>10. ASSUME walk'.purpose = "check"
       PROVE  (Behind(next + 1).ok =>
                 NothingNew(Candidate, Ahead(Other(turn), next).db, Behind(next).db))'
  <2>1. Behind(next + 1).ok =>
          NothingNew(Candidate, Ahead(Other(turn), next).db, Behind(next).db)
    BY <1>1, <1>3, <1>7, <1>10 DEF WalkFacts
  <2> QED
    BY <1>2, <1>6, <2>1 DEF NothingNew
<1>11. ASSUME walk.purpose = "check", "integrity" \in kinds,
              Hidden(Candidate, i, Behind(next).db)
       PROVE  Hidden(Candidate, i, Ahead(Other(turn), next).db)
  <2>1. Walked = Candidate /\ s = Candidate.stmts[i]
    BY <1>1, <1>11, WalkedAt
  <2>2. /\ Replay(Before(Candidate.stmts, i), Ahead(Other(turn), next).db) = Ok(main)
        /\ Replay(Before(Candidate.stmts, i), Behind(next).db) = Ok(control)
    BY <1>1, <1>11, WalkStands
  <2>3. HasReviewableResolution(s) /\ ~Succeeds(StrictForm(s), control)
    BY <1>11, <2>1, <2>2, OkRuns DEF Hidden, HasReviewableResolution
  <2>4. ~Succeeds(StrictForm(s), main)
    BY <1>1, <1>11, <2>3 DEF StrictFailure
  <2> QED
    BY <1>11, <2>1, <2>2, <2>4, OkRuns DEF Hidden
<1>12. ASSUME walk'.purpose = "check", "integrity" \in kinds', NEW j \in 1..(walk'.at - 1),
              Hidden(Candidate, j, Behind(next).db)
       PROVE  Hidden(Candidate, j, Ahead(Other(turn), next).db)
  <2>1. CASE j = i
    BY <1>3, <1>6, <1>11, <1>12, <2>1
  <2>2. CASE j # i
    <3>1. j \in 1..(i - 1)
      BY <1>3, <2>2
    <3> QED
      BY <1>1, <1>3, <1>6, <1>7, <1>12, <3>1 DEF WalkFacts
  <2> QED
    BY <2>1, <2>2
<1>13. ASSUME walk'.purpose = "check", "integrity" \in kinds'
       PROVE  \A j \in 1..(walk'.at - 1) :
                Hidden(Candidate, j, Behind(next).db)'
                  => Hidden(Candidate, j, Ahead(Other(turn), next).db)'
  <2> TAKE j \in 1..(walk'.at - 1)
  <2>1. Hidden(Candidate, j, Behind(next).db)' = Hidden(Candidate, j, Behind(next).db)
    BY <1>6 DEF Hidden
  <2>2. Hidden(Candidate, j, Ahead(Other(turn), next).db)'
          = Hidden(Candidate, j, Ahead(Other(turn), next).db)
    BY <1>2, <1>6 DEF Hidden
  <2> QED
    BY <1>12, <1>13, <2>1, <2>2
<1>14. WalkFacts'
  BY <1>1, <1>8, <1>9, <1>10, <1>13 DEF WalkFacts
<1> QED
  BY <1>1, <1>4, <1>5, <1>14 DEF Checked, PromptFacts

(* The statements of the candidate went through, on both databases.        *)
LEMMA CandidateThrough ==
  ASSUME Inv, Replayed, NamedQueues, AheadOk, Checked, pc = "advance", walk.purpose # "apply",
         walk.at > Len(Walked.stmts)
  PROVE  Clear(next)
<1> DEFINE t == Candidate
           m == Ahead(Other(turn), next).db
           c == Behind(next).db
<1>1. /\ queue[turn] # <<>> /\ next \in 1..Len(OtherQueue) /\ ScanOpen
      /\ t = OtherQueue[next] /\ t.stmts \in Seq(Statements)
      /\ walk.at \in 1..(Len(t.stmts) + 1) /\ Behind(next).ok
      /\ Replay(Before(t.stmts, walk.at), c) = Ok(control)
  BY WalkStands
<1>2. walk.at = Len(t.stmts) + 1 /\ Len(t.stmts) \in Nat
  BY <1>1, WalkedAt, LenProperties
<1>3. Replay(t.stmts, c).ok
  <2>1. Before(t.stmts, Len(t.stmts) + 1) = t.stmts
    BY <1>1, BeforeEnds
  <2> QED
    BY <1>1, <1>2, <2>1, OkRuns
<1>4. Behind(next + 1).ok
  BY <1>1, <1>3, QueueFacts
<1>5. walk.purpose \in {"check", "accept"}
  BY WalkedType
<1>6. CASE walk.purpose = "accept"
  <2>1. Reviewed(t)
    BY <1>6 DEF Checked, WalkFacts
  <2> QED
    BY <1>1, <1>4, <2>1 DEF Clear
<1>7. CASE walk.purpose = "check"
  <2>1. NothingNew(t, m, c)
    BY <1>4, <1>7 DEF Checked, WalkFacts
  <2>2. Silent(t, m, c)
    <3>1. CASE "integrity" \in kinds
      <4>1. \A j \in 1..(walk.at - 1) : Hidden(t, j, c) => Hidden(t, j, m)
        BY <1>7, <3>1 DEF Checked, WalkFacts
      <4>2. DOMAIN t.stmts = 1..(walk.at - 1)
        BY <1>1, <1>2, LenProperties
      <4> QED
        BY <4>1, <4>2 DEF Silent
    <3>2. CASE "integrity" \notin kinds
      <4>1. "integrity" \notin NeededKinds(Head0, OtherQueue)
        BY <1>1, <3>2 DEF Checked, ScanFacts
      <4> QED
        BY <1>1, <1>4, <4>1, NothingSilent
    <3> QED
      BY <3>1, <3>2
  <2> QED
    BY <1>1, <1>4, <2>1, <2>2 DEF Clear, Undisturbed, NothingNew
<1> QED
  BY <1>5, <1>6, <1>7

(* The scan moves past the candidate.                                      *)
LEMMA AdvanceScanChecked ==
  ASSUME Inv, Replayed, NamedQueues, AheadOk, Checked, AdvanceScan
  PROVE  Checked'
<1>1. /\ pc = "advance" /\ walk.purpose # "apply" /\ walk.at > Len(Walked.stmts)
      /\ pc' = "scan" /\ next' = next + 1 /\ UNCHANGED <<kinds, probes, accepted>>
  BY DEF AdvanceScan
<1>2. /\ UNCHANGED <<base, origin, queue, turn, log>> /\ MergedSoFar' = MergedSoFar
      /\ reviewed \subseteq reviewed'
  BY OtherStepsKeep DEF OtherSteps
<1>3. Clear(next)
  BY <1>1, CandidateThrough
<1>4. next \in 1..Len(OtherQueue) /\ ScanOpen
  BY <1>1, WalkStands
<1>5. /\ kinds = NeededKinds(Head0, OtherQueue) /\ Probed
      /\ \A k \in 1..(next - 1) : Clear(k)
      /\ Len(probes) = Len(Head0.stmts)
  BY <1>1, <1>4 DEF Checked, ScanFacts
<1>6. /\ Head0' = Head0 /\ OtherQueue' = OtherQueue /\ \A k : Clear(k) => Clear(k)'
  BY <1>2, KeepsTurn
<1>7. Probed' /\ kinds' = NeededKinds(Head0', OtherQueue') /\ Len(probes') = Len(Head0'.stmts)
  BY <1>1, <1>2, <1>5, <1>6 DEF Probed
<1>8. \A k \in 1..(next' - 1) : Clear(k)'
  <2>1. \A k \in 1..(next' - 1) : k = next \/ k \in 1..(next - 1)
    BY <1>1, <1>4
  <2> QED
    BY <1>3, <1>5, <1>6, <2>1
<1>9. ScanFacts'
  BY <1>1, <1>7, <1>8 DEF ScanFacts
<1>10. AcceptedFacts'
  BY <1>1, <1>2 DEF Checked, AcceptedFacts
<1> QED
  BY <1>1, <1>9, <1>10 DEF Checked, PromptFacts, WalkFacts

(* A statement failed.                                                     *)
LEMMA AdvanceFailsChecked ==
  ASSUME Inv, NamedQueues, AheadOk, Checked, AdvanceFails
  PROVE  Checked'
<1>1. pc = "advance" /\ UNCHANGED <<scanVars, accepted>>
  BY DEF AdvanceFails
<1>2. PICK found :
        /\ found # {}
        /\ \/ /\ walk.purpose = "check" /\ PairKey(found) \in accepted
              /\ BeginWalk("accept", found)
           \/ /\ walk.purpose = "check" /\ Ask("pair", found)
           \/ /\ walk.purpose = "accept" /\ Ask("pair", walk.conflicts \cup found)
           \/ /\ walk.purpose = "apply" /\ Ask("standalone", found)
  <2> DEFINE s == Walked.stmts[walk.at]
             strict == Succeeds(ControlForm(s), control) /\ Succeeds(s, main)
             found == {Conflict(IF strict THEN "constraint_resolution" ELSE "integrity", {})}
  <2>1. /\ \/ walk.purpose = "check" /\ PairKey(found) \in accepted /\ BeginWalk("accept", found)
           \/ walk.purpose = "check" /\ Ask("pair", found)
           \/ walk.purpose = "accept" /\ Ask("pair", walk.conflicts \cup found)
           \/ walk.purpose = "apply" /\ Ask("standalone", found)
    BY DEF AdvanceFails
  <2>2. found # {}
    OBVIOUS
  <2> HIDE DEF found
  <2> QED
    BY <2>1, <2>2
<1>3. /\ UNCHANGED <<base, origin, queue, turn, log>> /\ MergedSoFar' = MergedSoFar
      /\ reviewed \subseteq reviewed'
  BY OtherStepsKeep DEF OtherSteps
<1>4. pc' \in {"advance", "pair", "standalone"}
  BY <1>2 DEF Ask, BeginWalk
<1>5. ScanFacts'
  <2>1. CASE ScanOpen
    BY <1>1, <1>3, <1>4, <2>1, ScanKept
  <2>2. CASE ~ScanOpen
    BY <1>1, <2>2 DEF ScanFacts, ScanOpen, scanVars
  <2> QED
    BY <2>1, <2>2
<1>6. AcceptedFacts'
  BY <1>1, <1>3 DEF Checked, AcceptedFacts
<1>7. WalkFacts'
  <2>1. ASSUME pc' = "advance"
        PROVE  walk'.purpose = "accept" /\ Reviewed(Candidate)
    <3>1. PairKey(found) \in accepted /\ BeginWalk("accept", found) /\ walk.purpose = "check"
      BY <1>2, <2>1 DEF Ask
    <3>2. next <= Len(OtherQueue)
      BY <1>1, <3>1 DEF Inv, Positions
    <3> QED
      BY <3>1, <3>2, AcceptedIsReviewed DEF BeginWalk, Checked
  <2>2. Candidate' = Candidate
    BY <1>1, <1>3, KeepsTurn DEF scanVars, Candidate
  <2>3. pc' = "advance" => Reviewed(Candidate)'
    BY <1>3, <2>1, <2>2, Keeps
  <2> QED
    BY <2>1, <2>3 DEF WalkFacts
<1>8. PromptFacts'
  BY <1>2, <1>4 DEF PromptFacts, Ask, BeginWalk
<1> QED
  BY <1>5, <1>6, <1>7, <1>8 DEF Checked

(* The user accepts what she is shown.                                     *)
LEMMA AcceptPairChecked ==
  ASSUME Inv, QueueBranches, NamedQueues, AheadOk, Checked, AcceptPair
  PROVE  Checked'
<1>1. /\ pc = "pair" /\ accepted' = accepted \cup {PairKey(prompt)}
      /\ reviewed' = reviewed \cup
           {[first |-> <<turn, Head0.n>>, second |-> <<Other(turn), Candidate.n>>, kind |-> c.kind]
              : c \in prompt}
      /\ pc' = "advance" /\ walk'.purpose = "accept" /\ UNCHANGED scanVars
  BY DEF AcceptPair, BeginWalk
<1>2. /\ UNCHANGED <<base, origin, queue, turn, log>> /\ MergedSoFar' = MergedSoFar
      /\ reviewed \subseteq reviewed'
  BY OtherStepsKeep DEF OtherSteps
<1>3. ScanOpen /\ next <= Len(OtherQueue) /\ prompt # {}
  BY <1>1 DEF Inv, Positions, Checked, PromptFacts
<1>4. Candidate \in Transactions /\ Candidate.branch = Other(turn)
  <2>1. Candidate \in Transactions /\ next \in 1..Len(OtherQueue)
    BY <1>3, CandidateType DEF Inv
  <2>2. /\ Other(turn) \in Branches /\ queue[Other(turn)] \in Logs
    BY DEF Inv, TypeOK, TurnTypes, LogTypes, Branches, Other
  <2>3. next \in DOMAIN queue[Other(turn)]
    BY <2>1, <2>2, LenProperties DEF OtherQueue, Logs
  <2> QED
    BY <2>1, <2>2, <2>3 DEF QueueBranches, Candidate, OtherQueue
<1>5. PICK r \in reviewed' : r.second = <<Candidate.branch, Candidate.n>>
  <2>1. PICK c \in prompt : TRUE
    BY <1>3
  <2> DEFINE r == [first |-> <<turn, Head0.n>>, second |-> <<Other(turn), Candidate.n>>,
                   kind |-> c.kind]
  <2>2. r \in reviewed' /\ r.second = <<Candidate.branch, Candidate.n>>
    BY <1>1, <1>4, <2>1
  <2> HIDE DEF r
  <2> QED
    BY <2>2
<1>6. ScanFacts'
  BY <1>1, <1>2, <1>3, ScanKept
<1>7. AcceptedFacts'
  <2> SUFFICES ASSUME NEW key \in accepted'
               PROVE  \E q \in reviewed' : q.second = <<key[2].branch, key[2].n>>
    BY DEF AcceptedFacts
  <2>1. CASE key \in accepted
    BY <1>2, <2>1 DEF Checked, AcceptedFacts
  <2>2. CASE key = PairKey(prompt)
    BY <1>5, <2>2 DEF PairKey
  <2> QED
    BY <1>1, <2>1, <2>2
<1>8. Reviewed(Candidate)'
  <2>1. Candidate' = Candidate
    BY <1>1, <1>2, KeepsTurn DEF scanVars, Candidate
  <2>2. r.second[1] = Candidate'.branch /\ r.second[2] <= Candidate'.n
    BY <1>4, <1>5, <2>1 DEF Transactions
  <2>3. r \in {q \in reviewed' : q.second[1] = Candidate'.branch /\ q.second[2] <= Candidate'.n}
    BY <1>5, <2>2
  <2> QED
    BY <2>3 DEF Reviewed, ReviewedUpTo
<1> QED
  BY <1>1, <1>6, <1>7, <1>8 DEF Checked, PromptFacts, WalkFacts

(* She ends the program at a prompt, or it has written its result.         *)
LEMMA EndChecked ==
  ASSUME Inv, Checked, UNCHANGED <<base, origin, queue, turn, log>>, MergedSoFar' = MergedSoFar,
         UNCHANGED <<scanVars, accepted, reviewed>>, pc \in {"pair", "standalone", "write"},
         pc' \in {"aborted", "done", "failed"}
  PROVE  Checked'
<1>1. /\ Head0' = Head0 /\ OtherQueue' = OtherQueue /\ \A k : Clear(k) => Clear(k)'
  BY KeepsTurn
<1>2. kinds' = kinds /\ next' = next /\ probes' = probes
  BY DEF scanVars
<1>3. ScanFacts'
  <2> SUFFICES ASSUME ScanOpen'
               PROVE  /\ kinds' = NeededKinds(Head0', OtherQueue') /\ Probed'
                      /\ \A k \in 1..(next' - 1) : Clear(k)'
    BY DEF ScanFacts
  <2>1. ScanOpen
    BY <1>2 DEF ScanOpen
  <2>2. kinds = NeededKinds(Head0, OtherQueue) /\ Probed /\ \A k \in 1..(next - 1) : Clear(k)
    BY <2>1 DEF Checked, ScanFacts
  <2>3. Probed'
    BY <1>1, <1>2, <2>2 DEF Probed
  <2> QED
    BY <1>1, <1>2, <2>2, <2>3
<1>4. AcceptedFacts'
  BY DEF Checked, AcceptedFacts
<1> QED
  BY <1>3, <1>4 DEF Checked, PromptFacts, WalkFacts

-----------------------------------------------------------------------------
(* The head is taken: its own branch loses its first transaction, and the  *)
(* other branch, replayed ahead of the head so far, is replayed behind it. *)
LEMMA HeadTaken ==
  ASSUME Inv, QueueBranches, Replayed, NamedQueues, AheadOk, AcceptHead,
         NEW b, NEW o, b = turn, o = Other(turn)
  PROVE  /\ queue[b] # <<>> /\ b \in Branches /\ o # b /\ Branches = {b, o}
         /\ Head0 = queue[b][1] /\ Head0.branch = b
         /\ Len(queue'[b]) = Len(queue[b]) - 1 /\ Len(queue[b]) \in Nat \ {0}
         /\ \A k \in 1..(Len(queue[b]) - 1) : queue'[b][k] = queue[b][k + 1]
         /\ queue'[o] = OtherQueue /\ OtherQueue = queue[o]
         /\ \A k \in 1..Len(queue[b]) : Ahead(b, k)' = Ahead(b, k + 1)
         /\ \A k : Ahead(o, k)' = Behind(k)
         /\ Ahead(b, 1) = Ok(MergedSoFar) /\ Behind(1).ok
<1> DEFINE q == queue[b]
<1>1. /\ pc = "advance" /\ walk.purpose = "apply" /\ queue' = [queue EXCEPT ![b] = Tail(@)]
      /\ b \in Branches
  BY DEF AcceptHead, Inv, TypeOK, TurnTypes
<1>2. q # <<>> /\ queue \in [Branches -> Logs] /\ queue[turn] # <<>>
  BY <1>1 DEF Inv, Positions, TypeOK, LogTypes
<1>3. o # b /\ Branches = {b, o}
  BY <1>1 DEF Branches, Other
<1>4. q \in Logs /\ Len(q) \in Nat \ {0}
  <2>1. q \in Logs
    BY <1>1, <1>2
  <2> QED
    BY <1>2, <2>1, EmptySeq, LenProperties DEF Logs
<1>5. queue'[b] = Tail(q) /\ queue'[o] = OtherQueue /\ OtherQueue = queue[o]
  BY <1>1, <1>2, <1>3 DEF OtherQueue
<1>6. /\ Tail(q) \in Logs /\ Len(Tail(q)) = Len(q) - 1
      /\ Head0 = q[1] /\ Head0 = Head(q) /\ Head0.stmts \in Seq(Statements)
      /\ \A k \in 1..(Len(q) - 1) : Tail(q)[k] = q[k + 1]
  <2>1. Head0 = Head(q)
    BY DEF Head0
  <2> HIDE DEF q
  <2>2. 1 \in 1..Len(q) /\ q # <<>>
    BY <1>2, <1>4
  <2>3. /\ Tail(q) \in Logs /\ Len(Tail(q)) = Len(q) - 1
        /\ Head(q) = q[1] /\ Head(q) \in Transactions
        /\ \A k \in 1..(Len(q) - 1) : Tail(q)[k] = q[k + 1]
    BY <1>4, <2>2, StmtsTail
  <2> QED
    BY <2>1, <2>3 DEF Transactions
<1>7. Head0.branch = b
  <2>1. 1 \in DOMAIN q
    BY <1>4, LenProperties DEF Logs
  <2> QED
    BY <1>1, <1>6, <2>1 DEF QueueBranches
<1>8. /\ Replay(Head0.stmts, MergedSoFar) = Ok(main) /\ MergedSoFar' = main /\ After = main
  BY AcceptHeadReplays, OkRuns DEF After
<1>9. ASSUME NEW k \in 1..Len(q)
      PROVE  Ahead(b, k)' = Ahead(b, k + 1)
  <2>1. Ahead(b, k)' = Replay(Stmts(Tail(q), k), main)
    BY <1>5, <1>8 DEF Ahead, Stmts, StatementsOfLog
  <2>2. Stmts(q, k + 1) = Head0.stmts \o Stmts(Tail(q), k)
    <3> HIDE DEF q
    <3> QED
      BY <1>2, <1>4, <1>6, StmtsTail
  <2>3. Stmts(Tail(q), k) \in Seq(Statements)
    <3> HIDE DEF q
    <3>1. k \in 1..(Len(Tail(q)) + 1)
      BY <1>4, <1>6
    <3> QED
      BY <1>6, <3>1, StmtsNext
  <2>4. Replay(Head0.stmts \o Stmts(Tail(q), k), MergedSoFar) = Replay(Stmts(Tail(q), k), main)
    BY <1>6, <1>8, <2>3, ReplayConcat
  <2> QED
    BY <2>1, <2>2, <2>4 DEF Ahead
<1>10. ASSUME NEW k PROVE Ahead(o, k)' = Behind(k)
  BY <1>5, <1>8 DEF Ahead, Behind, Stmts, StatementsOfLog
<1>11. Ahead(b, 1) = Ok(MergedSoFar) /\ Behind(1).ok
  <2>1. Stmts(q, 1) = <<>>
    <3>1. 1 \in 1..(Len(q) + 1)
      BY <1>4
    <3> QED
      BY <1>4, <3>1, StmtsNext
  <2>2. Stmts(OtherQueue, 1) = <<>>
    <3>1. OtherQueue \in Logs
      BY <1>2, QueueFacts
    <3>2. 1 \in 1..(Len(OtherQueue) + 1)
      BY <3>1, LenProperties DEF Logs
    <3> QED
      BY <3>1, <3>2, StmtsNext
  <2> QED
    BY <2>1, <2>2, ReplayEmpty, OkRuns DEF Ahead, Behind
<1> QED
  BY <1>1, <1>2, <1>3, <1>4, <1>5, <1>6, <1>7, <1>9, <1>10, <1>11

(* The log with the head at its end.                                       *)
LEMMA LogGrows ==
  ASSUME Inv, Replayed, AcceptHead, NEW n, n = Len(log)
  PROVE  /\ DOMAIN log' = 1..(n + 1) /\ DOMAIN log = 1..n /\ n \in Nat
         /\ \A i \in DOMAIN log : log'[i] = log[i] /\ MergedState(i)' = MergedState(i)
         /\ log'[n + 1] = Head0
         /\ MergedState(n + 1)' = MergedSoFar
         /\ \A t : Reviewed(t)' = Reviewed(t)
         /\ \A b, k : BranchState(b, k)' = BranchState(b, k)
<1>1. /\ log' = Append(log, Head0) /\ UNCHANGED <<base, origin, reviewed>>
      /\ pc = "advance"
  BY DEF AcceptHead, fixed, userVars
<1>2. log \in Logs /\ Head0 \in Transactions
  <2>1. queue[turn] # <<>>
    BY <1>1 DEF Inv, Positions
  <2> QED
    BY <2>1, HeadType DEF Inv, TypeOK, LogTypes
<1>3. /\ DOMAIN log = 1..n /\ n \in Nat /\ DOMAIN log' = 1..(n + 1)
      /\ log'[n + 1] = Head0 /\ \A i \in 1..n : log'[i] = log[i]
  <2>1. log \in Seq(Transactions) /\ n = Len(log)
    BY <1>2 DEF Logs
  <2> QED
    BY <1>1, <1>2, <2>1
<1>4. ASSUME NEW i \in 1..(n + 1)
      PROVE  SubSeq(log', 1, i - 1) = SubSeq(log, 1, i - 1)
  <2>1. log \in Seq(Transactions) /\ i \in 1..(Len(log) + 1)
    BY <1>2 DEF Logs
  <2> QED
    BY <1>1, <1>2, <2>1
<1>5. ASSUME NEW i \in 1..(n + 1)
      PROVE  MergedState(i)' = MergedState(i)
  BY <1>1, <1>4 DEF MergedState, StatementsOfLog
<1>6. MergedState(n + 1) = MergedSoFar
  <2>1. SubSeq(log, 1, (n + 1) - 1) = log
    <3>1. log \in Seq(Transactions) /\ (n + 1) - 1 = Len(log)
      BY <1>2, <1>3 DEF Logs
    <3> QED
      BY <3>1
  <2> QED
    BY <2>1, OkRuns DEF Replayed, LogReplayed, MergedState
<1>7. \A t : Reviewed(t)' = Reviewed(t)
  BY <1>1 DEF Reviewed, ReviewedUpTo
<1>8. \A b, k : BranchState(b, k)' = BranchState(b, k)
  BY <1>1 DEF BranchState, StatementsOfLog
<1>9. MergedState(n + 1)' = MergedSoFar
  <2>1. n + 1 \in 1..(n + 1)
    BY <1>3
  <2> QED
    BY <1>5, <1>6, <2>1
<1>10. \A i \in DOMAIN log : log'[i] = log[i] /\ MergedState(i)' = MergedState(i)
  <2> TAKE i \in DOMAIN log
  <2>1. i \in 1..n /\ i \in 1..(n + 1)
    BY <1>3
  <2> QED
    BY <1>3, <1>5, <2>1
<1> QED
  BY <1>3, <1>7, <1>8, <1>9, <1>10

(* What is settled stays settled behind the head, if the head disturbed    *)
(* nothing there, and the head itself joins the log as it was.             *)
LEMMA AcceptHeadSettled ==
  ASSUME Inv, QueueBranches, Replayed, NamedQueues, AheadOk, Settled, AcceptHead,
         \A k \in 1..Len(OtherQueue) : Clear(k)
  PROVE  Settled'
<1>1. PICK b, o : b = turn /\ o = Other(turn)
  OBVIOUS
<1>2. /\ queue[b] # <<>> /\ b \in Branches /\ o # b /\ Branches = {b, o}
      /\ Head0 = queue[b][1] /\ Head0.branch = b
      /\ Len(queue'[b]) = Len(queue[b]) - 1 /\ Len(queue[b]) \in Nat \ {0}
      /\ \A k \in 1..(Len(queue[b]) - 1) : queue'[b][k] = queue[b][k + 1]
      /\ queue'[o] = OtherQueue /\ OtherQueue = queue[o]
      /\ \A k \in 1..Len(queue[b]) : Ahead(b, k)' = Ahead(b, k + 1)
      /\ \A k : Ahead(o, k)' = Behind(k)
  BY <1>1, HeadTaken
<1>3. PICK n :
        /\ DOMAIN log' = 1..(n + 1) /\ DOMAIN log = 1..n /\ n \in Nat
        /\ \A i \in DOMAIN log : log'[i] = log[i] /\ MergedState(i)' = MergedState(i)
        /\ log'[n + 1] = Head0 /\ MergedState(n + 1)' = MergedSoFar
        /\ \A t : Reviewed(t)' = Reviewed(t)
        /\ \A c, k : BranchState(c, k)' = BranchState(c, k)
  <2>1. PICK n : n = Len(log)
    OBVIOUS
  <2> QED
    BY <2>1, LogGrows
<1>4. \A i \in DOMAIN log' : i \in DOMAIN log \/ i = n + 1
  BY <1>3
<1>5. ASSUME NEW k \in 1..Len(queue'[b])
      PROVE  SettledOn(queue[b][k], b, Ahead(b, k).db)'
  <2>0. PICK t, m : t = queue[b][k + 1] /\ m = Ahead(b, k + 1).db
    OBVIOUS
  <2>1. k \in 1..(Len(queue[b]) - 1) /\ k \in 1..Len(queue[b]) /\ k + 1 \in 1..Len(queue[b])
    BY <1>2
  <2>2. queue'[b][k] = t /\ Ahead(b, k)'.db = m
    BY <1>2, <2>0, <2>1
  <2>3. SettledOn(t, b, m)
    BY <1>2, <2>0, <2>1 DEF Settled
  <2>4. CASE Reviewed(t)
    BY <1>3, <2>2, <2>4 DEF SettledOn
  <2>5. CASE ~Reviewed(t)
    <3>1. /\ Effects(t, m) = Effects(t, BranchState(b, t.n))
          /\ Silent(t, BranchState(b, t.n), m)
          /\ \A i \in DOMAIN log : log[i].branch # b => Apart(log[i], MergedState(i), t, m)
      BY <2>3, <2>5 DEF SettledOn
    <3>2. \A i \in DOMAIN log' : log'[i].branch # b => Apart(log'[i], MergedState(i)', t, m)
      BY <1>2, <1>3, <1>4, <3>1
    <3> QED
      BY <1>3, <2>2, <3>1, <3>2 DEF SettledOn
  <2> QED
    BY <2>4, <2>5
<1>6. ASSUME NEW k \in 1..Len(queue'[o])
      PROVE  SettledOn(queue[o][k], o, Ahead(o, k).db)'
  <2>0. PICK t, m, c : t = OtherQueue[k] /\ m = Ahead(o, k).db /\ c = Behind(k).db
    OBVIOUS
  <2>1. queue'[o][k] = t /\ Ahead(o, k)'.db = c /\ k \in 1..Len(OtherQueue)
    BY <1>2, <2>0
  <2>2. SettledOn(t, o, m)
    BY <1>2, <2>0, <2>1 DEF Settled
  <2>3. Reviewed(t) \/ Undisturbed(t, m, c)
    BY <1>1, <2>0, <2>1 DEF Clear
  <2>4. CASE Reviewed(t)
    BY <1>3, <2>1, <2>4 DEF SettledOn
  <2>5. CASE ~Reviewed(t)
    <3>1. /\ Effects(t, m) = Effects(t, BranchState(o, t.n))
          /\ Silent(t, BranchState(o, t.n), m)
          /\ \A i \in DOMAIN log : log[i].branch # o => Apart(log[i], MergedState(i), t, m)
      BY <2>2, <2>5 DEF SettledOn
    <3>2. /\ Effects(t, c) = Effects(t, m) /\ Silent(t, m, c)
          /\ Apart(Head0, MergedSoFar, t, m)
      BY <2>3, <2>5 DEF Undisturbed
    <3>3. Effects(t, c) = Effects(t, BranchState(o, t.n))
      BY <3>1, <3>2
    <3>4. Silent(t, BranchState(o, t.n), c)
      BY <3>1, <3>2 DEF Silent
    <3>5. Apart(Head0, MergedSoFar, t, c)
      BY <3>2, ApartStays
    <3>6. \A i \in DOMAIN log : log[i].branch # o => Apart(log[i], MergedState(i), t, c)
      BY <3>1, <3>2, ApartStays
    <3>7. \A i \in DOMAIN log' : log'[i].branch # o => Apart(log'[i], MergedState(i)', t, c)
      BY <1>3, <1>4, <3>5, <3>6
    <3> QED
      BY <1>3, <2>1, <3>3, <3>4, <3>7 DEF SettledOn
  <2> QED
    BY <2>4, <2>5
<1> QED
  BY <1>2, <1>5, <1>6 DEF Settled

(* The last case: the head is accepted.                                    *)
LEMMA AcceptHeadEffects ==
  ASSUME Inv, QueueBranches, Replayed, NamedQueues, EffectInv, AcceptHead
  PROVE  EffectInv'
<1>1. PICK b, o : b = turn /\ o = Other(turn)
  OBVIOUS
<1>2. /\ queue[b] # <<>> /\ b \in Branches /\ o # b /\ Branches = {b, o}
      /\ Head0 = queue[b][1] /\ Head0.branch = b
      /\ Len(queue'[b]) = Len(queue[b]) - 1 /\ Len(queue[b]) \in Nat \ {0}
      /\ queue'[o] = OtherQueue /\ OtherQueue = queue[o]
      /\ \A k \in 1..Len(queue[b]) : Ahead(b, k)' = Ahead(b, k + 1)
      /\ \A k : Ahead(o, k)' = Behind(k)
      /\ Ahead(b, 1) = Ok(MergedSoFar) /\ Behind(1).ok
  BY <1>1, HeadTaken DEF EffectInv
<1>3. PICK n :
        /\ DOMAIN log' = 1..(n + 1) /\ DOMAIN log = 1..n /\ n \in Nat
        /\ \A i \in DOMAIN log : log'[i] = log[i] /\ MergedState(i)' = MergedState(i)
        /\ log'[n + 1] = Head0 /\ MergedState(n + 1)' = MergedSoFar
        /\ \A t : Reviewed(t)' = Reviewed(t)
        /\ \A c, k : BranchState(c, k)' = BranchState(c, k)
  <2>1. PICK n : n = Len(log)
    OBVIOUS
  <2> QED
    BY <2>1, LogGrows
<1>4. /\ pc = "advance" /\ walk.purpose = "apply" /\ kinds' = kinds /\ PassTurn(queue')
      /\ kinds = {}
  BY DEF AcceptHead, scanVars, Inv, Positions, ScanOpen
<1>5. \A k \in 1..Len(OtherQueue) : Clear(k)
  BY <1>4 DEF EffectInv, Checked, WalkFacts
<1>6. Settled'
  BY <1>5, AcceptHeadSettled DEF EffectInv
<1>7. AheadOk'
  <2>1. \A k \in 1..(Len(queue'[b]) + 1) : Ahead(b, k)'.ok
    <3> TAKE k \in 1..(Len(queue'[b]) + 1)
    <3>1. k \in 1..Len(queue[b]) /\ k + 1 \in 1..(Len(queue[b]) + 1)
      BY <1>2
    <3>2. Ahead(b, k + 1).ok
      BY <1>2, <3>1 DEF EffectInv, AheadOk
    <3> QED
      BY <1>2, <3>1, <3>2
  <2>2. \A k \in 1..(Len(queue'[o]) + 1) : Ahead(o, k)'.ok
    <3> TAKE k \in 1..(Len(queue'[o]) + 1)
    <3>1. OtherQueue \in Logs
      BY <1>1, <1>2, QueueFacts DEF EffectInv
    <3>2. Len(OtherQueue) \in Nat
      BY <3>1, LenProperties DEF Logs
    <3>3. CASE k = 1
      BY <1>2, <3>3
    <3>4. CASE k # 1
      <4>1. k - 1 \in 1..Len(OtherQueue) /\ (k - 1) + 1 = k
        BY <1>2, <3>2, <3>4
      <4>2. Behind((k - 1) + 1).ok
        BY <1>5, <4>1 DEF Clear
      <4> QED
        BY <1>2, <4>1, <4>2
    <3> QED
      BY <3>3, <3>4
  <2> QED
    BY <1>2, <2>1, <2>2 DEF AheadOk
<1>8. LogFacts'
  <2>1. SettledOn(Head0, b, MergedSoFar)
    <3>1. 1 \in 1..Len(queue[b]) /\ Ahead(b, 1).db = MergedSoFar
      BY <1>2, OkRuns
    <3> QED
      BY <1>2, <3>1 DEF EffectInv, Settled
  <2> SUFFICES ASSUME NEW i \in DOMAIN log', ~Reviewed(log'[i])
               PROVE  LET t == log'[i]
                          m == MergedState(i)'
                          d == BranchState(t.branch, t.n)
                      IN  /\ Effects(t, m) = Effects(t, d) /\ Silent(t, d, m)
                          /\ \A j \in DOMAIN log' : j < i /\ log'[j].branch # t.branch =>
                               Apart(log'[j], MergedState(j)', t, m)
    BY <1>3 DEF LogFacts
  <2>2. CASE i \in DOMAIN log
    <3>1. \A j \in DOMAIN log' : j < i => j \in DOMAIN log
      BY <1>3, <2>2
    <3> QED
      BY <1>3, <2>2, <3>1 DEF EffectInv, LogFacts
  <2>3. CASE i = n + 1
    <3>1. \A j \in DOMAIN log' : j < i => j \in DOMAIN log
      BY <1>3, <2>3
    <3>2. log'[i] = Head0 /\ MergedState(i)' = MergedSoFar /\ ~Reviewed(Head0)
      BY <1>3, <2>3
    <3>3. /\ Effects(Head0, MergedSoFar) = Effects(Head0, BranchState(b, Head0.n))
          /\ Silent(Head0, BranchState(b, Head0.n), MergedSoFar)
          /\ \A j \in DOMAIN log : log[j].branch # b =>
               Apart(log[j], MergedState(j), Head0, MergedSoFar)
      BY <2>1, <3>2 DEF SettledOn
    <3> QED
      BY <1>2, <1>3, <3>1, <3>2, <3>3
  <2> QED
    BY <1>3, <2>2, <2>3
<1>9. Checked'
  <2>1. kinds' = {} /\ pc' \in {"turn", "write"} /\ accepted' = {}
    BY <1>4, PassTurnStep DEF Inv, TypeOK
  <2> QED
    BY <2>1 DEF Checked, ScanFacts, PromptFacts, WalkFacts, AcceptedFacts, ScanOpen
<1> QED
  BY <1>6, <1>7, <1>8, <1>9 DEF EffectInv

-----------------------------------------------------------------------------
(* Before the first turn every transaction stands where its branch ran it. *)
LEMMA InitEffects == Init => EffectInv
<1> SUFFICES ASSUME Init PROVE EffectInv
  OBVIOUS
<1>1. /\ queue = origin /\ log = <<>> /\ MergedSoFar = base /\ kinds = {} /\ accepted = {}
      /\ pc \in {"turn", "write"}
      /\ \A b \in Branches : Replay(StatementsOfLog(origin[b]), base).ok
  BY DEF Init, MergedSoFar
<1>2. base \in Databases /\ \A b \in Branches : origin[b] \in Logs /\ Len(origin[b]) \in Nat
  BY InitInv, LenProperties DEF Inv, TypeOK, LogTypes, Logs
<1>3. AheadOk
  <2> SUFFICES ASSUME NEW b \in Branches, NEW k \in 1..(Len(queue[b]) + 1)
               PROVE  Ahead(b, k).ok
    BY DEF AheadOk
  <2> QED
    BY <1>1, <1>2, PrefixesOk DEF Ahead
<1>4. ASSUME NEW b \in Branches, NEW k \in 1..Len(origin[b])
      PROVE  origin[b][k].n = k
  <2>1. PICK w \in Workloads : origin = [c \in Branches |-> NumberedLog(c, w)]
    BY DEF Init
  <2>2. w[b] \in Seq(Seq(Statements))
    BY <2>1, WorkloadsAssumption
  <2>3. DOMAIN w[b] = 1..Len(w[b]) /\ Len(w[b]) \in Nat
    BY <2>2, LenProperties
  <2>4. origin[b] = [i \in 1..Len(w[b]) |-> [branch |-> b, n |-> i, stmts |-> w[b][i]]]
    BY <2>1, <2>3 DEF NumberedLog
  <2>5. Len(origin[b]) = Len(w[b])
    <3>1. DOMAIN origin[b] = 1..Len(origin[b]) /\ DOMAIN origin[b] = 1..Len(w[b])
      BY <1>2, <2>4, LenProperties DEF Logs
    <3> QED
      BY <1>2, <2>3, <3>1
  <2> QED
    BY <2>4, <2>5
<1>5. Settled
  <2> SUFFICES ASSUME NEW b \in Branches, NEW k \in 1..Len(queue[b])
               PROVE  SettledOn(queue[b][k], b, Ahead(b, k).db)
    BY DEF Settled
  <2>1. queue[b][k].n = k
    BY <1>1, <1>4
  <2>2. BranchState(b, queue[b][k].n) = Ahead(b, k).db
    BY <1>1, <2>1 DEF BranchState, Ahead, Stmts
  <2> QED
    BY <1>1, <2>2 DEF SettledOn, Silent
<1>6. LogFacts
  BY <1>1 DEF LogFacts
<1>7. Checked
  BY <1>1 DEF Checked, ScanFacts, PromptFacts, WalkFacts, AcceptedFacts, ScanOpen
<1> QED
  BY <1>3, <1>5, <1>6, <1>7 DEF EffectInv

(* Every step but an edit keeps what is settled.                           *)
LEMMA NextEffects ==
  ASSUME Inv, QueueBranches, Replayed, Bookkeeping, NamedQueues, EffectInv, [Next]_vars,
         ~touched'
  PROVE  EffectInv'
<1>1. CASE OtherSteps
  <2>1. /\ UNCHANGED <<base, origin, queue, turn, log>> /\ MergedSoFar' = MergedSoFar
        /\ reviewed \subseteq reviewed'
    BY <1>1, OtherStepsKeep
  <2>2. AheadOk' /\ Settled' /\ LogFacts'
    BY <2>1, Keeps DEF EffectInv
  <2>3. ASSUME UnsafeHead \/ ApplyUnscanned \/ OpenScan \/ ResumeScan PROVE Checked'
    BY <2>3, TurnBeginsChecked DEF EffectInv
  <2>4. ASSUME \/ StartStatement \/ Started \/ ScanCheck \/ ScanExhausted
               \/ AdvanceStatement \/ AdvanceFails \/ AdvanceScan \/ AcceptPair
        PROVE  Checked'
    BY <2>4, StartStatementChecked, StartedChecked, ScanCheckChecked, ScanExhaustedChecked,
       AdvanceStatementChecked, AdvanceFailsChecked, AdvanceScanChecked, AcceptPairChecked
       DEF EffectInv
  <2>5. ASSUME Interrupt PROVE Checked'
    <3>1. /\ UNCHANGED <<scanVars, accepted, reviewed>> /\ pc \in {"pair", "standalone"}
          /\ pc' = "aborted"
      BY <2>5 DEF Interrupt, userVars
    <3> QED
      BY <2>1, <3>1, EndChecked DEF EffectInv
  <2>6. Checked'
    BY <1>1, <2>3, <2>4, <2>5, Zenon DEF OtherSteps
  <2> QED
    BY <2>2, <2>6 DEF EffectInv
<1>2. CASE WriteResult
  <2>1. /\ UNCHANGED <<base, origin, queue, turn, log>> /\ MergedSoFar' = MergedSoFar
        /\ UNCHANGED <<scanVars, accepted, reviewed>> /\ pc = "write"
        /\ pc' \in {"done", "failed"}
    BY <1>2 DEF WriteResult, fixed, dbVars, userVars, MergedSoFar
  <2>2. AheadOk' /\ Settled' /\ LogFacts'
    BY <2>1, Keeps DEF EffectInv
  <2>3. Checked'
    BY <2>1, EndChecked DEF EffectInv
  <2> QED
    BY <2>2, <2>3 DEF EffectInv
<1>3. CASE EmptyTurn
  <2>1. /\ UNCHANGED <<base, origin, queue, log, kinds, reviewed>> /\ MergedSoFar' = MergedSoFar
        /\ pc = "turn" /\ PassTurn(queue)
    BY <1>3 DEF EmptyTurn, fixed, dbVars, scanVars, userVars, MergedSoFar
  <2>2. AheadOk' /\ Settled' /\ LogFacts'
    BY <2>1, Keeps DEF EffectInv
  <2>3. kinds' = {}
    BY <2>1 DEF EffectInv, Checked, PromptFacts, ScanOpen
  <2>4. accepted' = {} /\ pc' \in {"turn", "write"}
    BY <2>1, PassTurnStep DEF Inv, TypeOK
  <2>5. Checked'
    BY <2>3, <2>4 DEF Checked, ScanFacts, PromptFacts, WalkFacts, AcceptedFacts, ScanOpen
  <2> QED
    BY <2>2, <2>5 DEF EffectInv
<1>4. CASE AcceptHead
  BY <1>4, AcceptHeadEffects
<1>5. CASE ResolvePair \/ ResolveStandalone
  <2>1. touched' = TRUE
    BY <1>5, Zenon DEF ResolvePair, ResolveStandalone
  <2> QED
    BY <2>1, Zenon
<1>6. CASE UNCHANGED vars
  <2>1. /\ UNCHANGED <<base, origin, queue, turn, log, kinds, next, probes, walk, pc, prompt,
                       accepted, reviewed, main, saves>>
    BY <1>6 DEF vars
  <2>2. MergedSoFar' = MergedSoFar /\ reviewed \subseteq reviewed'
    BY <2>1 DEF MergedSoFar
  <2>3. AheadOk' /\ Settled' /\ LogFacts'
    BY <2>1, <2>2, Keeps DEF EffectInv
  <2>4. /\ Head0' = Head0 /\ OtherQueue' = OtherQueue
        /\ \A k : Behind(k)' = Behind(k)
        /\ \A k : Ahead(Other(turn), k)' = Ahead(Other(turn), k)
        /\ \A k : Clear(k) => Clear(k)'
        /\ Candidate' = Candidate /\ ScanOpen' = ScanOpen
    BY <2>1, <2>2, KeepsTurn DEF Candidate, ScanOpen
  <2>5. Probed => Probed'
    BY <2>1, <2>2, <2>4 DEF Probed
  <2>6. ScanFacts'
    BY <2>1, <2>4, <2>5 DEF EffectInv, Checked, ScanFacts
  <2>7. Reviewed(Candidate) => Reviewed(Candidate)'
    BY <2>1, <2>2, <2>4, Keeps
  <2>8. WalkFacts'
    <3> SUFFICES ASSUME pc' = "advance" PROVE WalkFacts'
      BY DEF WalkFacts
    <3>1. pc = "advance" /\ walk' = walk /\ kinds' = kinds /\ next' = next
      BY <2>1
    <3>2. WalkFacts
      BY DEF EffectInv, Checked
    <3>3. walk'.purpose = "apply" => \A k \in 1..Len(OtherQueue') : Clear(k)'
      BY <2>4, <3>1, <3>2 DEF WalkFacts
    <3>4. walk'.purpose = "accept" => Reviewed(Candidate)'
      BY <2>7, <3>1, <3>2 DEF WalkFacts
    <3>5. (Behind(next + 1).ok =>
             NothingNew(Candidate, Ahead(Other(turn), next).db, Behind(next).db))'
           = (Behind(next + 1).ok =>
                NothingNew(Candidate, Ahead(Other(turn), next).db, Behind(next).db))
      BY <2>1, <2>2, <2>4 DEF NothingNew
    <3>6. ASSUME walk'.purpose = "check", "integrity" \in kinds'
          PROVE  \A j \in 1..(walk'.at - 1) :
                   Hidden(Candidate, j, Behind(next).db)'
                     => Hidden(Candidate, j, Ahead(Other(turn), next).db)'
      <4> TAKE j \in 1..(walk'.at - 1)
      <4>1. /\ Hidden(Candidate, j, Behind(next).db)' = Hidden(Candidate, j, Behind(next).db)
            /\ Hidden(Candidate, j, Ahead(Other(turn), next).db)'
                 = Hidden(Candidate, j, Ahead(Other(turn), next).db)
        BY <2>1, <2>4 DEF Hidden
      <4> QED
        BY <3>1, <3>2, <3>6, <4>1 DEF WalkFacts
    <3> QED
      BY <3>1, <3>2, <3>3, <3>4, <3>5, <3>6 DEF WalkFacts
  <2>9. PromptFacts' /\ AcceptedFacts'
    BY <2>1, <2>4 DEF EffectInv, Checked, PromptFacts, AcceptedFacts
  <2> QED
    BY <2>3, <2>6, <2>8, <2>9 DEF EffectInv, Checked
<1> QED
  BY <1>1, <1>2, <1>3, <1>4, <1>5, <1>6, Zenon DEF Next, Program, User, Exited, OtherSteps

(* Where an element of the rest of a sequence stood.                       *)
LEMMA RestAt ==
  ASSUME NEW S, NEW s \in Seq(S), NEW n \in Nat, n = Len(s), NEW a \in Nat, NEW i \in 1..(n - a)
  PROVE  a + i \in 1..n /\ SubSeq(s, a + 1, n)[i] = s[a + i]
<1>2. /\ a + 1 \in Int /\ n \in Int /\ i \in 1..(n - (a + 1) + 1)
      /\ (a + 1) + i - 1 = a + i /\ a + i \in 1..n
  OBVIOUS
<1>3. \A j \in (a + 1)..n : s[j] \in S
  <2> TAKE j \in (a + 1)..n
  <2>1. j \in 1..Len(s)
    OBVIOUS
  <2> QED
    BY <2>1, ElementOfSeq
<1>4. SubSeq(s, a + 1, n)[i] = s[(a + 1) + i - 1]
  BY <1>2, <1>3, SubSeqProperties
<1>5. SubSeq(s, a + 1, n)[i] = s[a + i]
  BY <1>2, <1>4
<1> QED
  BY <1>2, <1>5

(* Untouched, the queues hold what the logs held.                          *)
LEMMA QueuesNamed ==
  ASSUME Inv, QueueIsRest, RowsNamed
  PROVE  NamedQueues
<1> SUFFICES ASSUME NEW b \in Branches, NEW i \in 1..Len(queue[b])
             PROVE  queue[b][i].stmts \in Seq(Named)
  BY DEF NamedQueues
<1>1. PICK s, q, n, m, a : s = origin[b] /\ q = queue[b] /\ n = Len(s) /\ m = Len(q) /\ a = n - m
  OBVIOUS
<1>2. s \in Seq(Transactions) /\ n \in Nat /\ m \in Nat /\ m <= n
  BY <1>1, LenProperties DEF Inv, TypeOK, LogTypes, Logs, QueueIsRest
<1>3. q = SubSeq(s, a + 1, n) /\ a \in Nat /\ i \in 1..(n - a)
  <2>1. q = SubSeq(s, a + 1, n)
    BY <1>1 DEF QueueIsRest, Taken
  <2>2. n \in Nat /\ m \in Nat /\ m <= n /\ a = n - m /\ i \in 1..m
    BY <1>1, <1>2
  <2>3. a \in Nat /\ i \in 1..(n - a)
    BY <2>2
  <2> QED
    BY <2>1, <2>3
<1>4. PICK k : k \in 1..n /\ q[i] = s[k]
  <2>1. n = Len(s)
    BY <1>1
  <2>2. a + i \in 1..n /\ SubSeq(s, a + 1, n)[i] = s[a + i]
    BY <1>2, <1>3, <2>1, RestAt
  <2> QED
    BY <1>3, <2>2
<1>5. s[k] \in Transactions /\ k \in DOMAIN s
  BY <1>1, <1>2, <1>4, ElementOfSeq, LenProperties
<1>6. PICK ss : ss = s[k].stmts
  OBVIOUS
<1>7. ss \in Seq(Statements) /\ \A j \in DOMAIN ss : ss[j].op \notin WholeTableOps
  BY <1>1, <1>5, <1>6 DEF RowsNamed, Transactions
<1>8. ss \in Seq(Named)
  BY <1>7 DEF Named
<1> QED
  BY <1>1, <1>4, <1>6, <1>8

(* An edit or deletion is never forgotten, and no step changes the logs.   *)
LEMMA TouchedStays ==
  ASSUME [Next]_vars
  PROVE  origin' = origin /\ (~touched' => ~touched)
<1>1. CASE ResolvePair \/ ResolveStandalone
  <2>1. touched' = TRUE
    BY <1>1, Zenon DEF ResolvePair, ResolveStandalone
  <2>2. origin' = origin
    BY <1>1 DEF ResolvePair, ResolveStandalone, fixed
  <2> QED
    BY <2>1, <2>2, Zenon
<1>2. CASE OtherSteps \/ WriteResult \/ EmptyTurn \/ AcceptHead \/ UNCHANGED vars
  <2>1. UNCHANGED <<origin, touched>>
    BY <1>2 DEF OtherSteps, UnsafeHead, ApplyUnscanned, OpenScan, ResumeScan, StartStatement,
       Started, ScanCheck, ScanExhausted, AdvanceStatement, AdvanceFails, AdvanceScan, AcceptPair,
       Interrupt, WriteResult, EmptyTurn, AcceptHead, fixed, userVars, vars
  <2>2. origin' = origin /\ touched' = touched
    BY <2>1
  <2> QED
    BY <2>2, Zenon
<1> QED
  BY <1>1, <1>2, Zenon DEF Next, Program, User, Exited, OtherSteps

(* Everything that is known of the merge at once.                          *)
WholeInv ==
  /\ Inv /\ QueueBranches /\ BranchOrderKept /\ Bookkeeping /\ Replayed
  /\ ~touched => FollowsOrder
  /\ ~touched /\ RowsNamed => EffectInv

(* It holds at first, and whatever the program and the user do.            *)
LEMMA InitWhole == Init => WholeInv
BY InitInv, InitOrder, InitBookkeeping, InitReplayed, InitInOrder, InitEffects DEF WholeInv

(* And every step keeps it.                                                *)
LEMMA NextWhole == WholeInv /\ [Next]_vars => WholeInv'
<1> SUFFICES ASSUME WholeInv, [Next]_vars PROVE WholeInv'
  OBVIOUS
<1>1. /\ Inv /\ QueueBranches /\ BranchOrderKept /\ Bookkeeping /\ Replayed
      /\ ~touched => FollowsOrder
  BY Zenon DEF WholeInv
<1>2. Inv' /\ QueueBranches' /\ BranchOrderKept' /\ Bookkeeping' /\ Replayed'
  BY <1>1, NextInv, NextOrder, NextBookkeeping, NextReplayed
<1>3. ~touched' => FollowsOrder'
  BY <1>1, NextInOrder
<1>4. ASSUME ~touched', RowsNamed' PROVE EffectInv'
  <2>1. ~touched
    BY <1>4, TouchedStays, Zenon
  <2>2. origin' = origin
    BY TouchedStays, Zenon
  <2>3. RowsNamed
    BY <1>4, <2>2 DEF RowsNamed
  <2>4. EffectInv
    BY <2>1, <2>3, Zenon DEF WholeInv
  <2>5. NamedQueues
    BY <1>1, <2>1, <2>3, QueuesNamed DEF FollowsOrder
  <2> QED
    BY <1>1, <1>4, <2>4, <2>5, NextEffects
<1> QED
  BY <1>2, <1>3, <1>4, Zenon DEF WholeInv

-----------------------------------------------------------------------------
(* For logs whose statements name their rows (the statement of a theorem   *)
(* below says so: an UPDATE or DELETE without WHERE references no column,  *)
(* and run merge_unfiltered shows that its reads go unchecked).  In the    *)
(* merged log every UPDATE and DELETE meets the rows it met on its branch  *)
(* and writes there what it wrote there, unless a conflict was accepted.   *)
(* OrderedRemainingConflictScanner compares neighbouring prefixes only.    *)
THEOREM EffectsAreKept == Spec => [](RowsNamed => EffectsKept)
<1>1. WholeInv => (RowsNamed => EffectsKept)
  <2> SUFFICES ASSUME WholeInv, RowsNamed, ~touched, NEW i \in DOMAIN log
               PROVE  \/ Effects(log[i], MergedState(i))
                           = Effects(log[i], BranchState(log[i].branch, log[i].n))
                      \/ ReviewedUpTo(log[i]) # {}
    BY Zenon DEF EffectsKept
  <2>1. EffectInv
    BY Zenon DEF WholeInv
  <2> QED
    BY <2>1 DEF EffectInv, LogFacts, Reviewed
<1> QED
  BY <1>1, InitWhole, NextWhole, PTL DEF Spec

(* No update of one branch is lost to the other: the write/write check of  *)
(* a pair, refined by its row probes, is made against every opposite       *)
(* transaction still to come, and each later head leaves what it found.    *)
THEOREM NoUpdateIsLost == Spec => [](RowsNamed => NoSilentOverwrite)
<1>1. WholeInv => (RowsNamed => NoSilentOverwrite)
  <2> SUFFICES ASSUME WholeInv, RowsNamed, ~touched, NEW i \in DOMAIN log, NEW k \in DOMAIN log,
                      i < k, log[i].branch # log[k].branch,
                      NEW p \in WriteWritePairs(log[i].stmts, log[k].stmts)
               PROVE  \/ MetBy(log[i], p[1], MergedState(i))
                           \cap MetBy(log[k], p[2], MergedState(k)) = {}
                      \/ ReviewedUpTo(log[k]) # {}
    BY Zenon DEF NoSilentOverwrite
  <2>1. EffectInv
    BY Zenon DEF WholeInv
  <2>2. \/ Reviewed(log[k])
        \/ Apart(log[i], MergedState(i), log[k], MergedState(k))
    BY <2>1 DEF EffectInv, LogFacts
  <2> QED
    BY <2>2 DEF Reviewed, Apart
<1> QED
  BY <1>1, InitWhole, NextWhole, PTL DEF Spec

(* INSERT OR IGNORE, OR REPLACE and UPSERT never take their silent branch  *)
(* in the merge where they inserted on their branch, unless a conflict was *)
(* accepted: the strict replay of _strict_constraint_resolution_failure is *)
(* only made where the metadata finds a possible key collision.            *)
THEOREM NoResolutionActivated == Spec => [](RowsNamed => ResolutionNotActivated)
<1>1. WholeInv => (RowsNamed => ResolutionNotActivated)
  <2> SUFFICES ASSUME WholeInv, RowsNamed, ~touched, NEW i \in DOMAIN log,
                      NEW j \in DOMAIN log[i].stmts, Hidden(log[i], j, MergedState(i))
               PROVE  \/ Hidden(log[i], j, BranchState(log[i].branch, log[i].n))
                      \/ ReviewedUpTo(log[i]) # {}
    BY Zenon DEF ResolutionNotActivated
  <2>1. EffectInv
    BY Zenon DEF WholeInv
  <2> QED
    BY <2>1 DEF EffectInv, LogFacts, Reviewed, Silent
<1> QED
  BY <1>1, InitWhole, NextWhole, PTL DEF Spec
=============================================================================
