----------------------------- MODULE BranchProofs -----------------------------
(***************************************************************************)
(* Theorems about the branch replay check, for any logs, bases, broken     *)
(* databases and statements typed.                                         *)
(***************************************************************************)
EXTENDS BranchReplay, ReplayProofs

(* A transaction nobody has looked at yet.                                 *)
Queued == [n : Nat, stmts : Seq(Unreviewed)]

(* The forms of a statement of transaction n whose accepted warnings were  *)
(* all shown, and what the prompt's draft can consist of.                  *)
Reviewed(n) == {s \in Logged : \A w \in s.accepted : Shown(n, s, w) \in seen}
Offered == {[sql |-> s, from |-> 0] : s \in Unreviewed}
             \cup {Statement(i) : i \in DOMAIN current.stmts}
Drafts == [sql : Logged, from : Nat]

(* The program's data.                                                     *)
Core ==
  /\ base \in Databases /\ db \in Databases /\ saved \in Databases
  /\ pc \in {"next", "replay", "prompt", "done", "aborted"}
  /\ issue \in {NoIssue} \cup Warnings \cup Errors
  /\ changed \in BOOLEAN /\ typed \in 0..MaxTyped
  /\ seen \subseteq Nat \X Logged \X Warnings

(* The transactions before, in and after the check.                        *)
Branch ==
  /\ todo \in Seq(Queued) /\ resolved \in Seq(Transactions)
  /\ current \in Transactions /\ at \in 1..Len(current.stmts) + 1

(* What has been accepted was shown, and what is asked is being shown.     *)
Prompting ==
  /\ current.stmts \in Seq(Reviewed(current.n))
  /\ draft \in Seq(Offered)
  /\ pc = "prompt" /\ issue \in Warnings =>
       /\ at \in 1..Len(current.stmts)
       /\ Shown(current.n, current.stmts[at], issue) \in seen

Typed == Core /\ Branch /\ Prompting

-----------------------------------------------------------------------------
(* The sets above and their types.                                         *)
LEMMA QueuedType ==
  /\ Unreviewed \subseteq Logged /\ Queued \subseteq Transactions
  /\ \A n : Unreviewed \subseteq Reviewed(n)
<1>1. Unreviewed \subseteq Logged /\ \A n : Unreviewed \subseteq Reviewed(n)
  BY DEF Unreviewed, Reviewed
<1>2. ASSUME NEW t \in Queued PROVE t \in Transactions
  <2>1. t.stmts \in Seq(Logged)
    BY <1>1, SeqMonotonic DEF Queued
  <2> QED
    BY <2>1 DEF Queued, Transactions
<1> QED
  BY <1>1, <1>2

(* A transaction's parts.                                                  *)
LEMMA TransactionParts ==
  ASSUME NEW t \in Transactions
  PROVE  /\ t.n \in Nat /\ t.stmts \in Seq(Logged)
         /\ Len(t.stmts) \in Nat /\ DOMAIN t.stmts = 1..Len(t.stmts)
         /\ \A i \in 1..Len(t.stmts) : t.stmts[i] \in Logged
BY LenProperties, ElementOfSeq DEF Transactions

(* A statement's parts.                                                    *)
LEMMA LoggedParts ==
  ASSUME NEW s \in Logged
  PROVE  s.sql \in Statements /\ s.accepted \subseteq Warnings
BY DEF Logged

(* The prompt's statements are typed ones and those of the transaction.    *)
LEMMA OfferedType ==
  ASSUME current \in Transactions
  PROVE  Offered \subseteq Drafts
<1>1. \A i \in DOMAIN current.stmts : current.stmts[i] \in Logged /\ i \in Nat
  BY TransactionParts
<1> QED
  BY <1>1, QueuedType DEF Offered, Drafts, Statement

(* The transactions of a log.                                              *)
LEMMA NumberedType ==
  ASSUME NEW l \in Seq(Seq(Unreviewed)) PROVE Numbered(l) \in Seq(Queued)
<1> DEFINE tx(i) == [n |-> i, stmts |-> l[i]]
           n == Len(l)
<1>1. n \in Nat /\ DOMAIN l = 1..n /\ \A i \in 1..n : l[i] \in Seq(Unreviewed)
  BY LenProperties, ElementOfSeq
<1>2. \A i \in 1..n : tx(i) \in Queued
  BY <1>1 DEF Queued
<1>3. Numbered(l) = [i \in 1..n |-> tx(i)]
  BY <1>1 DEF Numbered
<1> HIDE DEF tx, n
<1> QED
  BY <1>1, <1>2, <1>3

(* Any operator that removes or inserts one element keeps the set the      *)
(* elements come from.                                                     *)
LEMMA DraftEdits ==
  ASSUME NEW S, NEW d \in Seq(S), NEW x \in S
  PROVE  /\ \A i \in DOMAIN d : [d EXCEPT ![i] = x] \in Seq(S)
         /\ \A i \in 0..Len(d) : InsertAfter(d, i, x) \in Seq(S)
<1>1. Len(d) \in Nat /\ DOMAIN d = 1..Len(d) /\ \A i \in 1..Len(d) : d[i] \in S
  BY LenProperties, ElementOfSeq
<1>2. \A i \in DOMAIN d : [d EXCEPT ![i] = x] \in Seq(S)
  BY <1>1, ExceptSeq
<1>3. ASSUME NEW i \in 0..Len(d) PROVE InsertAfter(d, i, x) \in Seq(S)
  <2>1. SubSeq(d, 1, i) \in Seq(S) /\ SubSeq(d, i + 1, Len(d)) \in Seq(S)
    BY <1>1, SubSeqProperties
  <2>2. <<x>> \in Seq(S)
    OBVIOUS
  <2>3. SubSeq(d, 1, i) \o <<x>> \in Seq(S)
    BY <2>1, <2>2, ConcatProperties
  <2> QED
    BY <2>1, <2>3, ConcatProperties DEF InsertAfter
<1> QED
  BY <1>2, <1>3

(* A statement removed.                                                    *)
LEMMA DraftRemoval ==
  ASSUME NEW S, NEW d \in Seq(S), NEW i \in DOMAIN d
  PROVE  RemoveAt(d, i) \in Seq(S)
<1>1. Len(d) \in Nat /\ DOMAIN d = 1..Len(d) /\ \A j \in 1..Len(d) : d[j] \in S
  BY LenProperties, ElementOfSeq
<1>2. SubSeq(d, 1, i - 1) \in Seq(S) /\ SubSeq(d, i + 1, Len(d)) \in Seq(S)
  BY <1>1, SubSeqProperties
<1> QED
  BY <1>2, ConcatProperties DEF RemoveAt

-----------------------------------------------------------------------------
(* The types imply the stated ones.                                        *)
LEMMA TypedTypes == Typed => TypeOK
<1> SUFFICES ASSUME Typed PROVE TypeOK
  OBVIOUS
<1>1. todo \in Seq(Transactions)
  BY QueuedType, SeqMonotonic DEF Typed, Branch
<1>2. draft \in Seq(Drafts)
  BY OfferedType, SeqMonotonic DEF Typed, Branch, Prompting
<1> QED
  BY <1>1, <1>2 DEF Typed, Core, Branch, TypeOK, Drafts

(* The check starts with unread logs and an empty transaction.             *)
LEMMA TypedInit == Init => Typed
<1> SUFFICES ASSUME Init PROVE Typed
  OBVIOUS
<1>1. todo \in Seq(Queued)
  BY NumberedType, LogsAssumption DEF Init
<1>2. Core
  <2>1. base \in Databases /\ db \in Databases /\ saved \in Databases
    BY BasesAssumption DEF Init
  <2>2. typed \in 0..MaxTyped
    BY TypableAssumption DEF Init
  <2> QED
    BY <2>1, <2>2 DEF Init, Core
<1>3. /\ current = NoTransaction /\ current.n = 0 /\ current.stmts = <<>>
      /\ draft = <<>> /\ resolved = <<>> /\ at = 1 /\ pc = "next"
  BY DEF Init, NoTransaction
<1>4. <<>> \in Seq(Logged) /\ <<>> \in Seq(Reviewed(0)) /\ <<>> \in Seq(Offered)
      /\ <<>> \in Seq(Transactions) /\ Len(<<>>) = 0
  BY EmptySeq
<1>5. current \in Transactions
  BY <1>3, <1>4 DEF Transactions, NoTransaction
<1> QED
  BY <1>1, <1>2, <1>3, <1>4, <1>5 DEF Typed, Branch, Prompting

(* A transaction taken up: its first statement is next, and no prompt.     *)
LEMMA TypedReplaying ==
  ASSUME Typed, NEW t \in Transactions, Replaying(t), UNCHANGED <<base, db, typed, seen>>,
         saved' \in Databases, todo' \in Seq(Queued), UNCHANGED resolved,
         t.stmts \in Seq(Reviewed(t.n))
  PROVE  Typed'
<1>1. /\ current' = t /\ at' = 1 /\ pc' = "replay" /\ issue' = NoIssue
      /\ draft' = <<>> /\ changed' = FALSE
  BY DEF Replaying
<1>2. Core'
  BY <1>1 DEF Typed, Core
<1>3. Branch'
  <2>1. 1 \in 1..Len(t.stmts) + 1
    BY TransactionParts
  <2> QED
    BY <1>1, <2>1 DEF Typed, Branch
<1>4. Reviewed(t.n)' = Reviewed(t.n)
  BY DEF Reviewed
<1>5. Prompting'
  <2>1. draft' \in Seq(Offered')
    BY <1>1, EmptySeq
  <2> QED
    BY <1>1, <1>4, <2>1 DEF Prompting, Reviewed
<1> QED
  BY <1>2, <1>3, <1>5 DEF Typed

(* A prompt shown: the draft is the transaction's statements.              *)
LEMMA TypedPrompt ==
  ASSUME Typed, NEW what \in Warnings \cup Errors, PromptFor(what),
         what \in Warnings => at \in 1..Len(current.stmts),
         db' \in Databases, UNCHANGED <<base, todo, current, at, saved, resolved, typed>>
  PROVE  Typed'
<1>1. /\ pc' = "prompt" /\ issue' = what /\ changed' = FALSE
      /\ draft' = [i \in DOMAIN current.stmts |-> Statement(i)]
      /\ seen' = IF what \in Warnings
                 THEN seen \cup {Shown(current.n, current.stmts[at], what)} ELSE seen
  BY DEF PromptFor
<1>2. current \in Transactions
  BY DEF Typed, Branch
<1>3. what \in Warnings => Shown(current.n, current.stmts[at], what) \in Nat \X Logged \X Warnings
  <2> SUFFICES ASSUME what \in Warnings
               PROVE  Shown(current.n, current.stmts[at], what) \in Nat \X Logged \X Warnings
    OBVIOUS
  <2>1. current.stmts[at] \in Logged /\ current.n \in Nat
    BY <1>2, TransactionParts
  <2>2. [current.stmts[at] EXCEPT !.accepted = {}] \in Logged
    BY <2>1 DEF Logged
  <2> QED
    BY <2>1, <2>2 DEF Shown
<1>4. Core'
  BY <1>1, <1>3 DEF Typed, Core
<1>5. Branch'
  BY DEF Typed, Branch
<1>6. current'.stmts \in Seq(Reviewed(current.n)')
  <2>1. \A n : Reviewed(n) \subseteq Reviewed(n)'
    BY <1>1 DEF Reviewed, Shown
  <2> QED
    BY <2>1, SeqMonotonic DEF Typed, Prompting
<1>7. draft' \in Seq(Offered')
  <2> DEFINE n == Len(current.stmts)
             st(i) == Statement(i)
  <2>1. n \in Nat /\ DOMAIN current.stmts = 1..n
    BY <1>2, TransactionParts
  <2>2. \A i \in 1..n : st(i) \in Offered'
    <3>1. ASSUME NEW i \in DOMAIN current.stmts PROVE Statement(i)' \in Offered'
      BY Zenon DEF Offered
    <3>2. \A i : Statement(i)' = Statement(i)
      BY DEF Statement
    <3> QED
      BY <2>1, <3>1, <3>2
  <2>3. draft' = [i \in 1..n |-> st(i)]
    BY <1>1, <2>1
  <2> HIDE DEF n, st
  <2> QED
    BY <2>1, <2>2, <2>3
<1>8. Prompting'
  BY <1>1, <1>6, <1>7 DEF Prompting, Shown
<1> QED
  BY <1>4, <1>5, <1>8 DEF Typed

-----------------------------------------------------------------------------
(* Every action keeps the types.                                           *)
(* A step that leaves the prompt and the transactions alone.               *)
LEMMA TypedStay ==
  ASSUME Typed, UNCHANGED <<current, draft, seen>>, todo' \in Seq(Queued),
         resolved' \in Seq(Transactions), at' \in 1..Len(current.stmts) + 1,
         Core', pc' = "prompt" => UNCHANGED <<pc, issue, at>>
  PROVE  Typed'
<1>1. Branch'
  BY DEF Typed, Branch
<1>2. Reviewed(current.n)' = Reviewed(current.n) /\ Offered' = Offered
  BY DEF Reviewed, Offered, Statement
<1>3. Prompting'
  BY <1>2 DEF Typed, Prompting, Shown
<1> QED
  BY <1>1, <1>3 DEF Typed

(* Program steps other than the prompts.                                   *)
LEMMA TypedProgram ==
  ASSUME Typed, NextTransaction \/ Finish \/ ReplayStatement \/ Replayed PROVE Typed'
<1>1. CASE NextTransaction
  <2>1. Head(todo) \in Queued /\ Tail(todo) \in Seq(Queued)
    BY <1>1, HeadTailProperties DEF NextTransaction, Typed, Branch
  <2>2. Head(todo).stmts \in Seq(Reviewed(Head(todo).n)) /\ Head(todo) \in Transactions
    <3>1. Head(todo).stmts \in Seq(Unreviewed)
      BY <2>1 DEF Queued
    <3> QED
      BY <2>1, <3>1, QueuedType, SeqMonotonic
  <2>3. saved' \in Databases
    BY <1>1 DEF NextTransaction, Typed, Core
  <2> QED
    BY <1>1, <2>1, <2>2, <2>3, TypedReplaying DEF NextTransaction
<1>2. CASE Finish
  <2>1. Core'
    BY <1>2 DEF Finish, Typed, Core, prompting
  <2> QED
    BY <1>2, <2>1, TypedStay DEF Finish, Typed, Branch, prompting
<1>3. CASE ReplayStatement
  <2>1. /\ at \in 1..Len(current.stmts) /\ at' = at + 1
        /\ db' = Result(current.stmts[at].sql, db) /\ pc' = "replay"
        /\ UNCHANGED <<base, todo, current, saved, pc, issue, resolved, prompting>>
    <3>1. Len(current.stmts) \in Nat
      BY TransactionParts DEF Typed, Branch
    <3> QED
      BY <1>3, <3>1 DEF ReplayStatement, Typed, Branch
  <2>2. current.stmts[at].sql \in Statements
    BY <2>1, TransactionParts, LoggedParts DEF Typed, Branch
  <2>3. db' \in Databases
    BY <2>1, <2>2, ResultType DEF Typed, Core
  <2>4. Core'
    BY <2>1, <2>3 DEF Typed, Core, prompting
  <2>5. at' \in 1..Len(current.stmts) + 1
    BY <2>1
  <2> QED
    BY <2>1, <2>4, <2>5, TypedStay DEF Typed, Branch, prompting
<1>4. CASE Replayed
  <2>1. Core'
    BY <1>4 DEF Replayed, Typed, Core, prompting
  <2>2. resolved' \in Seq(Transactions)
    BY <1>4, AppendProperties DEF Replayed, Typed, Branch
  <2> QED
    BY <1>4, <2>1, <2>2, TypedStay DEF Replayed, Typed, Branch, prompting
<1> QED
  BY <1>1, <1>2, <1>3, <1>4

(* The program steps that ask.                                             *)
LEMMA TypedAsk ==
  ASSUME Typed, StatementIssue \/ InvalidResult PROVE Typed'
<1>1. saved \in Databases /\ Len(current.stmts) \in Nat /\ at \in 1..Len(current.stmts) + 1
  BY TransactionParts DEF Typed, Core, Branch
<1>2. CASE StatementIssue
  <2>1. PICK what : what = IssueOf(current.stmts[at], db)
    OBVIOUS
  <2>2. what \in Warnings \cup Errors /\ at \in 1..Len(current.stmts)
    BY <1>1, <1>2, <2>1 DEF StatementIssue, IssueOf, Warnings, Errors
  <2> QED
    BY <1>1, <1>2, <2>1, <2>2, TypedPrompt DEF StatementIssue, RollBackAndAsk
<1>3. CASE InvalidResult
  <2>1. "invalid" \in Warnings \cup Errors /\ "invalid" \notin Warnings
    BY DEF Warnings, Errors
  <2> QED
    BY <1>1, <1>3, <2>1, TypedPrompt DEF InvalidResult, RollBackAndAsk
<1> QED
  BY <1>2, <1>3

(* The prompt's commands keep to statements typed or of the transaction.   *)
LEMMA TypedDraft ==
  ASSUME Typed, (\E new \in Typable : Type(new)) \/ DeleteStatement PROVE Typed'
<1>1. draft \in Seq(Offered) /\ Len(draft) \in Nat /\ typed \in 0..MaxTyped /\ MaxTyped \in Nat
  BY TypableAssumption, LenProperties DEF Typed, Prompting, Core
<1>2. /\ UNCHANGED <<base, todo, current, at, db, saved, pc, issue, resolved, seen>>
      /\ changed' = TRUE /\ typed' \in 0..MaxTyped /\ draft' \in Seq(Offered)
  <2>1. ASSUME NEW new \in Typable, Type(new)
        PROVE  /\ UNCHANGED <<base, todo, current, at, db, saved, pc, issue, resolved, seen>>
               /\ changed' = TRUE /\ typed' \in 0..MaxTyped /\ draft' \in Seq(Offered)
    <3>1. PICK x : x = [sql |-> new, from |-> 0]
      OBVIOUS
    <3>2. x \in Offered
      BY <3>1, TypableAssumption DEF Offered
    <3>3. \/ \E i \in DOMAIN draft : draft' = [draft EXCEPT ![i] = x]
          \/ \E i \in 0..Len(draft) : draft' = InsertAfter(draft, i, x)
      BY <2>1, <3>1 DEF Type
    <3>4. draft' \in Seq(Offered)
      <4>1. \A i \in DOMAIN draft : [draft EXCEPT ![i] = x] \in Seq(Offered)
        BY <1>1, <3>2, DraftEdits
      <4>2. \A i \in 0..Len(draft) : InsertAfter(draft, i, x) \in Seq(Offered)
        BY <1>1, <3>2, DraftEdits
      <4> QED
        BY <3>3, <4>1, <4>2, Zenon
    <3>5. typed' \in 0..MaxTyped
      BY <1>1, <2>1 DEF Type
    <3> QED
      BY <2>1, <3>4, <3>5 DEF Type
  <2>2. ASSUME DeleteStatement
        PROVE  /\ UNCHANGED <<base, todo, current, at, db, saved, pc, issue, resolved, seen>>
               /\ changed' = TRUE /\ typed' \in 0..MaxTyped /\ draft' \in Seq(Offered)
    BY <1>1, <2>2, DraftRemoval DEF DeleteStatement
  <2> QED
    BY <2>1, <2>2
<1>3. Core' /\ Branch'
  BY <1>2 DEF Typed, Core, Branch
<1>4. Reviewed(current.n)' = Reviewed(current.n) /\ Offered' = Offered
  BY <1>2 DEF Reviewed, Offered, Statement
<1>5. Prompting'
  BY <1>2, <1>4 DEF Typed, Prompting, Shown
<1> QED
  BY <1>3, <1>5 DEF Typed

(* What has been shown of a statement does not depend on what is accepted. *)
LEMMA ShownOnce ==
  ASSUME NEW n, NEW s \in Logged, NEW ws, NEW w
  PROVE  Shown(n, [s EXCEPT !.accepted = ws], w) = Shown(n, s, w)
<1>1. [[s EXCEPT !.accepted = ws] EXCEPT !.accepted = {}] = [s EXCEPT !.accepted = {}]
  BY DEF Logged
<1> QED
  BY <1>1 DEF Shown

(* Enter: the warning shown is accepted of its own statement only.         *)
LEMMA TypedEnter ==
  ASSUME Typed, Enter PROVE Typed'
<1> DEFINE st(i) == IF issue \in Warnings
                    THEN IF draft[i].from = at
                         THEN [draft[i].sql EXCEPT !.accepted = @ \cup {issue}]
                         ELSE draft[i].sql
                    ELSE draft[i].sql
           n == Len(draft)
           stmts == [i \in 1..n |-> st(i)]
           R == Reviewed(current.n)
<1>1. /\ n \in Nat /\ DOMAIN draft = 1..n /\ \A i \in 1..n : draft[i] \in Offered
      /\ current \in Transactions /\ at \in 1..Len(current.stmts) + 1
      /\ current.stmts \in Seq(R) /\ pc = "prompt"
      /\ issue \in Warnings => /\ at \in 1..Len(current.stmts)
                               /\ Shown(current.n, current.stmts[at], issue) \in seen
  BY LenProperties, ElementOfSeq DEF Typed, Branch, Prompting, Enter
<1>2. ASSUME NEW i \in 1..n PROVE st(i) \in R
  <2>1. CASE draft[i].from = 0
    <3>1. draft[i] \notin {Statement(j) : j \in DOMAIN current.stmts}
      BY <1>1, <2>1, TransactionParts DEF Statement
    <3>2. draft[i].sql \in Unreviewed
      BY <1>1, <3>1 DEF Offered
    <3>3. draft[i].from # at
      BY <1>1, <2>1, TransactionParts
    <3> QED
      BY <3>2, <3>3, QueuedType
  <2>2. CASE draft[i].from # 0
    <3>1. PICK j \in DOMAIN current.stmts : draft[i] = Statement(j)
      BY <1>1, <2>2 DEF Offered
    <3>2. draft[i].sql = current.stmts[j] /\ draft[i].from = j /\ current.stmts[j] \in R
      <4>1. draft[i].sql = current.stmts[j] /\ draft[i].from = j
        BY <3>1 DEF Statement
      <4>2. j \in 1..Len(current.stmts)
        BY <1>1, TransactionParts
      <4> HIDE DEF R
      <4>3. current.stmts[j] \in R
        BY <1>1, <4>2, ElementOfSeq
      <4> QED
        BY <4>1, <4>3
    <3>3. PICK s : s = current.stmts[j]
      OBVIOUS
    <3>4. s \in Logged /\ \A w \in s.accepted : Shown(current.n, s, w) \in seen
      BY <3>2, <3>3 DEF Reviewed
    <3>5. ASSUME issue \in Warnings, j = at
          PROVE  [s EXCEPT !.accepted = @ \cup {issue}] \in R
      <4>1. PICK t : t = [s EXCEPT !.accepted = @ \cup {issue}]
        OBVIOUS
      <4>2. t \in Logged /\ t.accepted = s.accepted \cup {issue}
        BY <3>4, <3>5, <4>1 DEF Logged
      <4>3. \A w : Shown(current.n, t, w) = Shown(current.n, s, w)
        BY <3>4, <4>1, ShownOnce
      <4>4. Shown(current.n, s, issue) \in seen
        BY <1>1, <3>3, <3>5
      <4> QED
        BY <3>4, <4>1, <4>2, <4>3, <4>4 DEF Reviewed
    <3> QED
      BY <3>2, <3>3, <3>5
  <2> QED
    BY <2>1, <2>2
<1>3. Replaying([current EXCEPT !.stmts = stmts])
  <2>1. (IF issue \in Warnings THEN AcceptIfPresent(draft, issue)
         ELSE [i \in DOMAIN draft |-> draft[i].sql]) = stmts
    BY <1>1 DEF AcceptIfPresent
  <2> QED
    BY <2>1 DEF Enter
<1>4. stmts \in Seq(R)
  <2> HIDE DEF st, n, R
  <2> QED
    BY <1>1, <1>2
<1> HIDE DEF stmts
<1>5. PICK t : t = [current EXCEPT !.stmts = stmts]
  OBVIOUS
<1>6. t \in Transactions /\ t.n = current.n /\ t.stmts = stmts
  <2>1. stmts \in Seq(Logged)
    BY <1>4, SeqMonotonic DEF Reviewed
  <2> QED
    BY <1>1, <1>5, <2>1 DEF Transactions
<1>7. saved \in Databases /\ todo \in Seq(Queued)
  BY DEF Typed, Core, Branch
<1>8. UNCHANGED <<base, todo, db, saved, resolved, typed, seen>>
  BY DEF Enter
<1> QED
  BY <1>3, <1>4, <1>5, <1>6, <1>7, <1>8, TypedReplaying

(* Leaving the prompt without an answer.                                   *)
LEMMA TypedLeave ==
  ASSUME Typed, Skip \/ Interrupt PROVE Typed'
<1>1. CASE Skip
  <2>1. Core' /\ Branch'
    BY <1>1 DEF Skip, Typed, Core, Branch
  <2>2. Reviewed(current.n)' = Reviewed(current.n) /\ current' = current /\ pc' = "next"
    BY <1>1 DEF Reviewed, Skip, Shown
  <2>3. draft' \in Seq(Offered')
    BY <1>1, EmptySeq DEF Skip
  <2>4. Prompting'
    BY <2>2, <2>3 DEF Typed, Prompting
  <2> QED
    BY <2>1, <2>4 DEF Typed
<1>2. CASE Interrupt
  <2>1. Core'
    BY <1>2 DEF Interrupt, Typed, Core, prompting
  <2> QED
    BY <1>2, <2>1, TypedStay DEF Interrupt, Typed, Branch, prompting
<1> QED
  BY <1>1, <1>2

(* So every step does.                                                     *)
LEMMA TypedNext == Typed /\ [Next]_vars => Typed'
<1> SUFFICES ASSUME Typed, [Next]_vars PROVE Typed'
  OBVIOUS
<1>1. CASE Program
  BY <1>1, TypedProgram, TypedAsk DEF Program
<1>2. CASE User
  BY <1>2, TypedDraft, TypedEnter, TypedLeave DEF User
<1>3. CASE Exited \/ UNCHANGED vars
  <2>1. UNCHANGED vars
    BY <1>3 DEF Exited
  <2>2. Core'
    BY <2>1 DEF vars, Typed, Core
  <2> QED
    BY <2>1, <2>2, TypedStay DEF vars, Typed, Branch
<1> QED
  BY <1>1, <1>2, <1>3 DEF Next

(* Every variable keeps its type, for any logs and anything typed.         *)
THEOREM BranchTypeCorrect == Spec => []TypeOK
<1>1. Spec => []Typed
  BY TypedInit, TypedNext, PTL DEF Spec
<1> QED
  BY <1>1, TypedTypes, PTL

-----------------------------------------------------------------------------
(***************************************************************************)
(* The connection holds what the resolved transactions leave, the          *)
(* savepoint too while a transaction is tried, and in between what its     *)
(* statements have done so far.                                            *)
(***************************************************************************)
ReplayKept ==
  /\ base \notin Broken
  /\ \A k \in 0..Len(resolved) : StateAfter(k).ok /\ StateAfter(k).db \notin Broken
  /\ pc \in {"next", "prompt", "done"} => db = StateAfter(Len(resolved)).db
  /\ pc \in {"replay", "prompt"} => saved = StateAfter(Len(resolved)).db
  /\ pc = "replay" => Replay(Before(Sqls(current.stmts), at), saved) = Ok(db)

(* The SQL of a transaction.                                               *)
LEMMA SqlsType ==
  ASSUME NEW t \in Transactions
  PROVE  /\ Sqls(t.stmts) \in Seq(Statements) /\ Len(Sqls(t.stmts)) = Len(t.stmts)
         /\ \A i \in 1..Len(t.stmts) : Sqls(t.stmts)[i] = t.stmts[i].sql
<1> DEFINE n == Len(t.stmts)
           sql(i) == t.stmts[i].sql
<1>1. n \in Nat /\ DOMAIN t.stmts = 1..n /\ \A i \in 1..n : sql(i) \in Statements
  BY TransactionParts, LoggedParts
<1>2. Sqls(t.stmts) = [i \in 1..n |-> sql(i)]
  BY <1>1 DEF Sqls
<1>3. /\ [i \in 1..n |-> sql(i)] \in Seq(Statements)
      /\ Len([i \in 1..n |-> sql(i)]) = n
  <2> HIDE DEF n, sql
  <2> QED
    BY <1>1
<1> QED
  BY <1>2, <1>3

(* The SQL of a statement more: concatenated at the end.                   *)
LEMMA SqlsOfAppend ==
  ASSUME NEW txs \in Seq(Transactions), NEW t \in Transactions
  PROVE  /\ SqlsOf(txs) \in Seq(Statements)
         /\ SqlsOf(Append(txs, t)) = SqlsOf(txs) \o Sqls(t.stmts)
<1> DEFINE n == Len(txs)
           part(i) == Sqls(txs[i].stmts)
           parts == [i \in 1..n |-> part(i)]
           more == Append(txs, t)
<1>1. n \in Nat /\ DOMAIN txs = 1..n /\ \A i \in 1..n : txs[i] \in Transactions
  BY LenProperties, ElementOfSeq
<1>2. \A i \in 1..n : part(i) \in Seq(Statements)
  BY <1>1, SqlsType
<1>3. /\ Len(more) = n + 1 /\ DOMAIN more = 1..(n + 1) /\ more[n + 1] = t
      /\ \A i \in 1..n : more[i] = txs[i]
  BY <1>1, AppendProperties, LenProperties
<1>4. SqlsOf(txs) = FlattenSeq(parts)
  BY <1>1 DEF SqlsOf
<1>5. parts \in Seq(Seq(Statements)) /\ Len(parts) = n
  <2> HIDE DEF n, part
  <2> QED
    BY <1>1, <1>2
<1>6. [i \in DOMAIN more |-> Sqls(more[i].stmts)] = Append(parts, Sqls(t.stmts))
  <2> DEFINE left == [i \in 1..(n + 1) |-> Sqls(more[i].stmts)]
             right == Append(parts, Sqls(t.stmts))
  <2>1. Sqls(t.stmts) \in Seq(Statements)
    BY SqlsType
  <2>2. /\ right \in Seq(Seq(Statements)) /\ DOMAIN right = 1..(n + 1)
        /\ right[n + 1] = Sqls(t.stmts)
        /\ \A i \in 1..n : right[i] = parts[i]
    BY <1>5, <2>1, AppendProperties, LenProperties
  <2>3. \A i \in 1..(n + 1) : left[i] = right[i]
    <3>1. ASSUME NEW i \in 1..n PROVE left[i] = right[i]
      BY <1>1, <1>3, <2>2
    <3>2. left[n + 1] = right[n + 1]
      BY <1>1, <1>3, <2>2
    <3>3. \A i \in 1..(n + 1) : i \in 1..n \/ i = n + 1
      BY <1>1
    <3> HIDE DEF left, right
    <3> QED
      BY <3>1, <3>2, <3>3
  <2>4. right = [i \in 1..(n + 1) |-> right[i]]
    BY <2>2
  <2>5. left = right
    <3> HIDE DEF right
    <3> QED
      BY <2>3, <2>4
  <2> QED
    BY <1>3, <2>5
<1>7. Sqls(t.stmts) \in Seq(Statements)
  BY SqlsType
<1> HIDE DEF parts
<1>8. FlattenSeq(parts) \in Seq(Statements)
  BY <1>5, FlattenType
<1>9. FlattenSeq(Append(parts, Sqls(t.stmts))) = FlattenSeq(parts) \o Sqls(t.stmts)
  BY <1>5, <1>7, FlattenAppend
<1> QED
  BY <1>4, <1>6, <1>8, <1>9 DEF SqlsOf

(* Transactions resolved earlier are not affected by a new one.            *)
LEMMA ResolvedOneMore ==
  ASSUME NEW r \in Seq(Transactions), NEW t \in Transactions
  PROVE  /\ Len(r) \in Nat /\ Len(Append(r, t)) = Len(r) + 1
         /\ Append(r, t)[Len(r) + 1] = t
         /\ \A k \in 1..Len(r) : Append(r, t)[k] = r[k]
         /\ SubSeq(Append(r, t), 1, Len(r) + 1) = Append(r, t)
         /\ \A k \in 0..Len(r) : SubSeq(Append(r, t), 1, k) = SubSeq(r, 1, k)
<1>1. /\ Len(r) \in Nat /\ Len(Append(r, t)) = Len(r) + 1
      /\ Append(r, t) \in Seq(Transactions) /\ Append(r, t)[Len(r) + 1] = t
      /\ \A k \in 1..Len(r) : Append(r, t)[k] = r[k]
  BY AppendProperties, LenProperties
<1>2. SubSeq(Append(r, t), 1, Len(r) + 1) = Append(r, t)
  BY <1>1, SubSeqFull
<1>3. ASSUME NEW k \in 0..Len(r) PROVE SubSeq(Append(r, t), 1, k) = SubSeq(r, 1, k)
  <2> DEFINE more == Append(r, t)
  <2>1. \A i \in 1..k : more[i] \in Transactions /\ r[i] \in Transactions
    BY <1>1, ElementOfSeq
  <2>2. /\ SubSeq(more, 1, k) \in Seq(Transactions) /\ SubSeq(r, 1, k) \in Seq(Transactions)
        /\ Len(SubSeq(more, 1, k)) = k /\ Len(SubSeq(r, 1, k)) = k
        /\ \A i \in 1..k : SubSeq(more, 1, k)[i] = more[i] /\ SubSeq(r, 1, k)[i] = r[i]
    <3> HIDE DEF more
    <3> QED
      BY <2>1, SubSeqProperties
  <2> QED
    BY <1>1, <2>2, SeqEqual
<1> QED
  BY <1>1, <1>2, <1>3

(* The state behind all resolved transactions.                             *)
LEMMA StateNow ==
  ASSUME Typed, ReplayKept
  PROVE  /\ Len(resolved) \in Nat /\ SubSeq(resolved, 1, Len(resolved)) = resolved
         /\ Replay(SqlsOf(resolved), base) = Ok(StateAfter(Len(resolved)).db)
<1>1. resolved \in Seq(Transactions) /\ base \in Databases
  BY DEF Typed, Branch, Core
<1>2. Len(resolved) \in Nat /\ SubSeq(resolved, 1, Len(resolved)) = resolved
  BY <1>1, LenProperties, SubSeqFull
<1>3. StateAfter(Len(resolved)) = Replay(SqlsOf(resolved), base)
  BY <1>2 DEF StateAfter
<1>4. SqlsOf(resolved) \in Seq(Statements)
  <2>1. NoTransaction \in Transactions
    BY EmptySeq DEF NoTransaction, Transactions
  <2> QED
    BY <1>1, <2>1, SqlsOfAppend
<1>5. Replay(SqlsOf(resolved), base) \in [ok : BOOLEAN, db : Databases]
  BY <1>1, <1>4, ReplayType
<1>6. Replay(SqlsOf(resolved), base).ok
  BY <1>2, <1>3 DEF ReplayKept
<1> QED
  BY <1>2, <1>3, <1>5, <1>6 DEF Ok

(* Nothing has run before the first statement.                             *)
LEMMA NothingYet ==
  ASSUME NEW ss, NEW d PROVE Replay(Before(ss, 1), d) = Ok(d)
<1>1. SubSeq(ss, 1, 1 - 1) = <<>>
  BY SubSeqEmpty
<1>2. Before(ss, 1) = <<>>
  BY <1>1 DEF Before
<1> QED
  BY <1>2, ReplayEmpty

(* The base is valid.                                                      *)
LEMMA ReplayInit == Init => ReplayKept
<1> SUFFICES ASSUME Init PROVE ReplayKept
  OBVIOUS
<1>1. base \in Databases /\ base \notin Broken /\ db = base /\ resolved = <<>> /\ pc = "next"
  BY BasesAssumption DEF Init
<1>2. Len(resolved) = 0 /\ SubSeq(resolved, 1, 0) = <<>>
  BY <1>1, SubSeqEmpty
<1>3. SqlsOf(<<>>) = <<>>
  <2>1. [i \in DOMAIN <<>> |-> Sqls(<<>>[i].stmts)] = <<>>
    OBVIOUS
  <2> QED
    BY <2>1, FlattenEmpty DEF SqlsOf
<1>4. StateAfter(0) = Ok(base)
  BY <1>2, <1>3, ReplayEmpty DEF StateAfter
<1> QED
  BY <1>1, <1>2, <1>4 DEF ReplayKept, Ok

(* A step that resolves nothing leaves the states behind alone.            *)
LEMMA StatesStay ==
  ASSUME UNCHANGED <<base, resolved>>
  PROVE  \A k : StateAfter(k)' = StateAfter(k)
BY DEF StateAfter

(* One statement more, without an issue.                                   *)
LEMMA ReplayOneStatement ==
  ASSUME Typed, ReplayKept, ReplayStatement PROVE ReplayKept'
<1>1. /\ pc = "replay" /\ pc' = "replay" /\ at' = at + 1
      /\ db' = Result(current.stmts[at].sql, db)
      /\ UNCHANGED <<base, resolved, current, saved>>
      /\ IssueOf(current.stmts[at], db) = NoIssue /\ at <= Len(current.stmts)
  BY DEF ReplayStatement
<1>2. Succeeds(current.stmts[at].sql, db)
  BY <1>1 DEF IssueOf, NoIssue
<1> DEFINE q == Sqls(current.stmts)
<1>3. current \in Transactions /\ at \in 1..Len(current.stmts)
  BY <1>1, TransactionParts DEF Typed, Branch
<1>4. q \in Seq(Statements) /\ Len(q) = Len(current.stmts) /\ q[at] = current.stmts[at].sql
  BY <1>3, SqlsType
<1> HIDE DEF q
<1>5. Replay(SubSeq(q, 1, at), saved) = Continue(Replay(SubSeq(q, 1, at - 1), saved), q[at])
  BY <1>3, <1>4, ReplayNext
<1>6. Replay(SubSeq(q, 1, at - 1), saved) = Ok(db)
  BY <1>1 DEF ReplayKept, Before, q
<1>7. Replay(SubSeq(q, 1, at), saved) = Ok(db')
  <2>1. Continue(Ok(db), q[at]) = Ok(Result(q[at], db))
    BY <1>2, <1>4 DEF Continue, Ok
  <2> QED
    BY <1>1, <1>4, <1>5, <1>6, <2>1
<1>8. Before(q, at') = SubSeq(q, 1, at) /\ q' = q
  BY <1>1, <1>3 DEF Before, q
<1>9. Replay(Before(Sqls(current.stmts), at), saved)' = Ok(db)'
  BY <1>1, <1>7, <1>8 DEF q, Ok
<1>10. \A k : StateAfter(k)' = StateAfter(k)
  BY <1>1, StatesStay
<1> QED
  BY <1>1, <1>9, <1>10 DEF ReplayKept

(* The statements of the transaction taken to the end of the resolved.     *)
LEMMA ReplayOneTransaction ==
  ASSUME Typed, ReplayKept, Replayed PROVE ReplayKept'
<1>1. /\ pc = "replay" /\ pc' = "next" /\ db \notin Broken /\ at > Len(current.stmts)
      /\ resolved' = Append(resolved, current) /\ UNCHANGED <<base, db, saved>>
  BY DEF Replayed
<1>2. /\ current \in Transactions /\ resolved \in Seq(Transactions)
      /\ Len(current.stmts) \in Nat /\ at = Len(current.stmts) + 1
  BY <1>1, TransactionParts DEF Typed, Branch
<1> DEFINE q == Sqls(current.stmts)
<1>n. PICK n : n = Len(resolved)
  OBVIOUS
<1>3. /\ n \in Nat /\ Len(resolved') = n + 1
      /\ SubSeq(resolved', 1, n + 1) = resolved'
      /\ \A k \in 0..n : SubSeq(resolved', 1, k) = SubSeq(resolved, 1, k)
  BY <1>1, <1>2, <1>n, ResolvedOneMore
<1>4. /\ q \in Seq(Statements) /\ SqlsOf(resolved) \in Seq(Statements)
      /\ SqlsOf(resolved') = SqlsOf(resolved) \o q
      /\ Before(q, at) = q
  <2>1. q \in Seq(Statements) /\ Len(q) = at - 1
    BY <1>2, SqlsType
  <2>2. SubSeq(q, 1, at - 1) = q
    BY <2>1, SubSeqFull
  <2> QED
    BY <1>1, <1>2, <2>1, <2>2, SqlsOfAppend DEF Before
<1>5. Replay(SqlsOf(resolved), base) = Ok(saved)
  BY <1>1, StateNow DEF ReplayKept
<1>6. Replay(q, saved) = Ok(db)
  BY <1>1, <1>4 DEF ReplayKept
<1> HIDE DEF q
<1>7. Replay(SqlsOf(resolved'), base) = Ok(db)
  BY <1>4, <1>5, <1>6, ReplayConcat
<1>8. StateAfter(n + 1)' = Ok(db)
  BY <1>1, <1>3, <1>7 DEF StateAfter
<1>9. \A k \in 0..n : StateAfter(k)' = StateAfter(k)
  BY <1>1, <1>3 DEF StateAfter
<1>10. \A k \in 0..(n + 1) : StateAfter(k)'.ok /\ StateAfter(k)'.db \notin Broken
  <2>1. \A k \in 0..n : StateAfter(k)'.ok /\ StateAfter(k)'.db \notin Broken
    BY <1>9, <1>n DEF ReplayKept
  <2>2. StateAfter(n + 1)'.ok /\ StateAfter(n + 1)'.db \notin Broken
    BY <1>1, <1>8 DEF Ok
  <2>3. \A k \in 0..(n + 1) : k \in 0..n \/ k = n + 1
    BY <1>3
  <2> QED
    BY <2>1, <2>2, <2>3
<1>11. db' = StateAfter(Len(resolved))'.db
  <2>1. StateAfter(Len(resolved))' = StateAfter(n + 1)'
    BY <1>3 DEF StateAfter
  <2> QED
    BY <1>1, <1>8, <2>1 DEF Ok
<1> QED
  BY <1>1, <1>3, <1>10, <1>11 DEF ReplayKept

(* Every step keeps it.                                                    *)
LEMMA ReplayKeptNext == Typed /\ ReplayKept /\ [Next]_vars => ReplayKept'
<1> SUFFICES ASSUME Typed, ReplayKept, [Next]_vars PROVE ReplayKept'
  OBVIOUS
<1>1. CASE NextTransaction \/ Enter
  <2>1. /\ pc' = "replay" /\ at' = 1 /\ UNCHANGED <<base, resolved, db>>
        /\ saved' = db /\ db = StateAfter(Len(resolved)).db
    BY <1>1 DEF NextTransaction, Enter, Replaying, ReplayKept
  <2>2. \A k : StateAfter(k)' = StateAfter(k)
    BY <2>1, StatesStay
  <2>3. Replay(Before(Sqls(current.stmts), at), saved)' = Ok(db)'
    BY <2>1, NothingYet
  <2> QED
    BY <2>1, <2>2, <2>3 DEF ReplayKept
<1>2. CASE ReplayStatement
  BY <1>2, ReplayOneStatement
<1>3. CASE Replayed
  BY <1>3, ReplayOneTransaction
<1>4. CASE StatementIssue \/ InvalidResult
  <2>1. /\ pc = "replay" /\ pc' = "prompt" /\ db' = saved
        /\ UNCHANGED <<base, resolved, saved>>
    BY <1>4 DEF StatementIssue, InvalidResult, RollBackAndAsk, PromptFor
  <2>2. \A k : StateAfter(k)' = StateAfter(k)
    BY <2>1, StatesStay
  <2> QED
    BY <2>1, <2>2 DEF ReplayKept
<1>5. ASSUME UNCHANGED <<base, resolved, db, saved>>,
             \/ pc \in {"next", "prompt"} /\ pc' \in {"next", "done", "aborted"}
             \/ pc' = pc /\ (pc = "replay" => UNCHANGED <<current, at>>)
      PROVE  ReplayKept'
  <2>1. \A k : StateAfter(k)' = StateAfter(k)
    BY <1>5, StatesStay
  <2> QED
    BY <1>5, <2>1 DEF ReplayKept, Ok
<1>6. CASE Finish \/ Skip \/ Interrupt
  BY <1>5, <1>6 DEF Finish, Skip, Interrupt
<1>7. ASSUME NEW new \in Typable, Type(new) PROVE ReplayKept'
  BY <1>5, <1>7 DEF Type
<1>8. CASE DeleteStatement
  BY <1>5, <1>8 DEF DeleteStatement
<1>9. CASE Exited \/ UNCHANGED vars
  BY <1>5, <1>9 DEF Exited, vars
<1> QED
  BY <1>1, <1>2, <1>3, <1>4, <1>6, <1>7, <1>8, <1>9 DEF Next, Program, User

(* What leaves the check replays on the base, transaction after            *)
(* transaction, without an error or a broken reference, and outside a      *)
(* replay the connection holds exactly that.                               *)
THEOREM BranchReplaysHolds == Spec => []BranchReplays
<1>1. ReplayKept => BranchReplays
  BY DEF ReplayKept, BranchReplays
<1>2. Init => Typed /\ ReplayKept
  BY TypedInit, ReplayInit
<1>3. Typed /\ ReplayKept /\ [Next]_vars => (Typed /\ ReplayKept)'
  BY TypedNext, ReplayKeptNext
<1> QED
  BY <1>1, <1>2, <1>3, PTL DEF Spec

-----------------------------------------------------------------------------
(***************************************************************************)
(* Every statement that has run, of the transaction at work, was clear in  *)
(* the state it ran in: what is wrong with it there has been shown.        *)
(***************************************************************************)
Cleared(n, s, d) ==
  /\ s.reason # "block"
  /\ \A w \in WarningsOf(s, d) : Shown(n, s, w) \in seen

ClearedSoFar ==
  pc = "replay" =>
    \A j \in 1..at - 1 :
      Cleared(current.n, current.stmts[j], Replay(Before(Sqls(current.stmts), j), saved).db)

(* A statement without an issue is clear, or its warnings were accepted.   *)
LEMMA NoIssueClears ==
  ASSUME NEW n, NEW s \in Reviewed(n), NEW d, IssueOf(s, d) = NoIssue
  PROVE  Cleared(n, s, d)
<1>1. /\ s.reason = "warning" => "stored" \in s.accepted
      /\ s.reason # "block"
      /\ DuplicateTarget(s, d) => "duplicate" \in s.accepted
      /\ ActiveResolution(s, d) => "resolution" \in s.accepted
  BY DEF IssueOf, NoIssue
<1>2. ASSUME NEW w \in WarningsOf(s, d) PROVE w \in s.accepted
  BY <1>1, <1>2 DEF WarningsOf
<1>3. \A w \in s.accepted : Shown(n, s, w) \in seen
  BY DEF Reviewed
<1> QED
  BY <1>1, <1>2, <1>3 DEF Cleared

(* What was shown stays shown.                                             *)
LEMMA SeenGrows == [Next]_vars => seen \subseteq seen'
<1> SUFFICES ASSUME [Next]_vars PROVE seen \subseteq seen'
  OBVIOUS
<1>1. CASE StatementIssue \/ InvalidResult
  BY <1>1 DEF StatementIssue, InvalidResult, RollBackAndAsk, PromptFor
<1>2. CASE NextTransaction \/ Finish \/ ReplayStatement \/ Replayed
  BY <1>2 DEF NextTransaction, Finish, ReplayStatement, Replayed, prompting
<1>3. CASE User
  BY <1>3 DEF User, Type, DeleteStatement, Skip, Enter, Interrupt, prompting
<1>4. CASE Exited \/ UNCHANGED vars
  BY <1>4 DEF Exited, vars
<1> QED
  BY <1>1, <1>2, <1>3, <1>4 DEF Next, Program

(* The statements of the transaction at work.                              *)
LEMMA ClearedNext ==
  ASSUME Typed, ReplayKept, ClearedSoFar, [Next]_vars PROVE ClearedSoFar'
<1>1. CASE NextTransaction \/ Enter
  <2>1. at' = 1
    BY <1>1 DEF NextTransaction, Enter, Replaying
  <2>2. 1..(1 - 1) = {}
    OBVIOUS
  <2> QED
    BY <2>1, <2>2 DEF ClearedSoFar
<1>2. CASE ReplayStatement
  <2>1. /\ pc = "replay" /\ at' = at + 1 /\ UNCHANGED <<current, saved, seen>>
        /\ IssueOf(current.stmts[at], db) = NoIssue /\ at <= Len(current.stmts)
    BY <1>2 DEF ReplayStatement, prompting
  <2>2. at \in 1..Len(current.stmts) /\ current.stmts[at] \in Reviewed(current.n)
    <3>1. at \in 1..Len(current.stmts)
      BY <2>1, TransactionParts DEF Typed, Branch
    <3> QED
      BY <3>1, ElementOfSeq DEF Typed, Prompting
  <2>3. Cleared(current.n, current.stmts[at], db)
    BY <2>1, <2>2, NoIssueClears
  <2>4. Replay(Before(Sqls(current.stmts), at), saved).db = db
    BY <2>1 DEF ReplayKept, Ok
  <2>5. \A j \in 1..at :
          Cleared(current.n, current.stmts[j], Replay(Before(Sqls(current.stmts), j), saved).db)
    <3>1. \A j \in 1..at : j \in 1..at - 1 \/ j = at
      BY <2>2
    <3> QED
      BY <2>1, <2>3, <2>4, <3>1 DEF ClearedSoFar
  <2>6. at' - 1 = at
    BY <2>1, <2>2
  <2> QED
    BY <2>1, <2>5, <2>6 DEF ClearedSoFar, Cleared
<1>3. ASSUME pc' # "replay" \/ UNCHANGED vars PROVE ClearedSoFar'
  BY <1>3 DEF ClearedSoFar, Cleared, vars
<1>4. CASE Finish \/ StatementIssue \/ InvalidResult \/ Replayed
  BY <1>3, <1>4 DEF Finish, StatementIssue, InvalidResult, Replayed, RollBackAndAsk, PromptFor
<1>5. CASE (\E new \in Typable : Type(new)) \/ DeleteStatement \/ Skip \/ Interrupt
  BY <1>3, <1>5 DEF Type, DeleteStatement, Skip, Interrupt
<1>6. CASE Exited \/ UNCHANGED vars
  BY <1>3, <1>6 DEF Exited
<1> QED
  BY <1>1, <1>2, <1>4, <1>5, <1>6 DEF Next, Program, User

(* A transaction whose statements have all run is resolved: its statements *)
(* run in the same states behind the resolved ones as behind the savepoint.*)
LEMMA UnseenResolved ==
  ASSUME Typed, ReplayKept, ClearedSoFar, NothingUnseen, Replayed PROVE NothingUnseen'
<1>1. /\ pc = "replay" /\ at > Len(current.stmts)
      /\ resolved' = Append(resolved, current) /\ UNCHANGED <<base, saved, current, seen>>
  BY DEF Replayed, prompting
<1>2. /\ current \in Transactions /\ resolved \in Seq(Transactions)
      /\ Len(current.stmts) \in Nat /\ at - 1 = Len(current.stmts)
      /\ DOMAIN current.stmts = 1..Len(current.stmts)
  BY <1>1, TransactionParts DEF Typed, Branch
<1>n. PICK n : n = Len(resolved)
  OBVIOUS
<1>3. /\ n \in Nat /\ DOMAIN resolved = 1..n /\ DOMAIN resolved' = 1..(n + 1)
      /\ resolved'[n + 1] = current /\ \A k \in 1..n : resolved'[k] = resolved[k]
      /\ SubSeq(resolved, 1, n) = resolved
      /\ \A k \in 0..n : SubSeq(resolved', 1, k) = SubSeq(resolved, 1, k)
  <2>1. /\ n \in Nat /\ Len(resolved') = n + 1
        /\ resolved'[n + 1] = current /\ \A k \in 1..n : resolved'[k] = resolved[k]
        /\ \A k \in 0..n : SubSeq(resolved', 1, k) = SubSeq(resolved, 1, k)
    BY <1>1, <1>2, <1>n, ResolvedOneMore
  <2>2. resolved' \in Seq(Transactions)
    BY <1>1, <1>2, AppendProperties
  <2>3. DOMAIN resolved = 1..n /\ DOMAIN resolved' = 1..(n + 1)
    BY <1>2, <1>n, <2>1, <2>2, LenProperties
  <2> QED
    BY <1>2, <1>n, <2>1, <2>3, SubSeqFull
<1>4. ASSUME NEW k \in 1..n, NEW j
      PROVE  StateBefore(k, j)' = StateBefore(k, j)
  <2>1. /\ SubSeq(resolved', 1, k - 1) = SubSeq(resolved, 1, k - 1)
        /\ resolved'[k] = resolved[k]
    BY <1>3
  <2> QED
    BY <1>1, <2>1 DEF StateBefore
<1>5. ASSUME NEW j \in 1..Len(current.stmts)
      PROVE  StateBefore(n + 1, j)' = Replay(Before(Sqls(current.stmts), j), saved).db
  <2> DEFINE q == Sqls(current.stmts)
  <2>1. Replay(SqlsOf(resolved), base) = Ok(saved)
    BY <1>1, StateNow DEF ReplayKept
  <2>2. SqlsOf(resolved) \in Seq(Statements)
    BY <1>2, SqlsOfAppend
  <2>3. Before(q, j) \in Seq(Statements)
    <3>1. q \in Seq(Statements) /\ Len(q) = Len(current.stmts)
      BY <1>2, SqlsType
    <3>2. \A i \in 1..j - 1 : q[i] \in Statements
      BY <1>2, <3>1, ElementOfSeq
    <3> HIDE DEF q
    <3> QED
      BY <1>2, <3>2, SubSeqProperties DEF Before
  <2>4. Replay(SqlsOf(resolved) \o Before(q, j), base) = Replay(Before(q, j), saved)
    BY <2>1, <2>2, <2>3, ReplayConcat
  <2>5. SubSeq(resolved', 1, (n + 1) - 1) = resolved /\ resolved'[n + 1] = current
    BY <1>3
  <2>6. StateBefore(n + 1, j)' = Replay(SqlsOf(resolved) \o Before(q, j), base).db
    BY <1>1, <2>5 DEF StateBefore
  <2> QED
    BY <2>4, <2>6
<1>6. ASSUME NEW k \in 1..(n + 1), NEW j \in DOMAIN resolved'[k].stmts
      PROVE  Cleared(resolved'[k].n, resolved'[k].stmts[j], StateBefore(k, j)')
  <2>1. CASE k \in 1..n
    <3>1. resolved'[k] = resolved[k] /\ k \in DOMAIN resolved
      BY <1>3, <2>1
    <3>2. Cleared(resolved[k].n, resolved[k].stmts[j], StateBefore(k, j))
      BY <1>6, <3>1 DEF NothingUnseen, Cleared
    <3> QED
      BY <1>4, <2>1, <3>1, <3>2
  <2>2. CASE k = n + 1
    <3>1. resolved'[k] = current /\ j \in 1..Len(current.stmts) /\ j \in 1..at - 1
      BY <1>2, <1>3, <1>6, <2>2
    <3>2. Cleared(current.n, current.stmts[j], Replay(Before(Sqls(current.stmts), j), saved).db)
      BY <1>1, <3>1 DEF ClearedSoFar
    <3> QED
      BY <1>5, <2>2, <3>1, <3>2
  <2> QED
    BY <1>3, <2>1, <2>2
<1> QED
  BY <1>1, <1>3, <1>6 DEF NothingUnseen, Cleared

(* Every step keeps the promise.                                           *)
LEMMA UnseenNext ==
  ASSUME Typed, ReplayKept, ClearedSoFar, NothingUnseen, [Next]_vars PROVE NothingUnseen'
<1>1. CASE Replayed
  BY <1>1, UnseenResolved
<1>2. ASSUME UNCHANGED <<base, resolved>> PROVE NothingUnseen'
  <2>1. \A k, j : StateBefore(k, j)' = StateBefore(k, j)
    BY <1>2 DEF StateBefore
  <2>2. seen \subseteq seen'
    BY SeenGrows
  <2> QED
    BY <1>2, <2>1, <2>2 DEF NothingUnseen
<1>3. CASE NextTransaction \/ Finish \/ ReplayStatement \/ StatementIssue \/ InvalidResult
  BY <1>2, <1>3 DEF NextTransaction, Finish, ReplayStatement, StatementIssue, InvalidResult
<1>4. CASE User
  BY <1>2, <1>4 DEF User, Type, DeleteStatement, Skip, Enter, Interrupt
<1>5. CASE Exited \/ UNCHANGED vars
  BY <1>2, <1>5 DEF Exited, vars
<1> QED
  BY <1>1, <1>3, <1>4, <1>5 DEF Next, Program

(* No statement leaves the check blocked, or with a warning that applies   *)
(* where it really runs and that the user was not shown of that statement. *)
THEOREM NothingUnseenHolds == Spec => []NothingUnseen
<1> DEFINE I == Typed /\ ReplayKept /\ ClearedSoFar /\ NothingUnseen
<1>1. Init => I
  <2> SUFFICES ASSUME Init PROVE ClearedSoFar /\ NothingUnseen
    BY TypedInit, ReplayInit
  <2>1. pc = "next" /\ resolved = <<>>
    BY DEF Init
  <2> QED
    BY <2>1 DEF ClearedSoFar, NothingUnseen
<1>2. I /\ [Next]_vars => I'
  BY TypedNext, ReplayKeptNext, ClearedNext, UnseenNext
<1>3. I => NothingUnseen
  OBVIOUS
<1> QED
  BY <1>1, <1>2, <1>3, PTL DEF Spec
=============================================================================
