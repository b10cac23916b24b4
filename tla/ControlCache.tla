----------------------------- MODULE ControlCache -----------------------------
(***************************************************************************)
(* The cache in front of the control rewriter (_control_sql_for in         *)
(* src/src/merge/accepted_replay.py).  The SQL a statement gets on the     *)
(* control database is remembered under id(statement), its address in      *)
(* memory, for the whole merge.  Python gives the address of an object     *)
(* that died to a later one.  Statements loaded from a branch log stay     *)
(* alive in the lists of _resolve_merge_transactions; what the user typed  *)
(* dies when it leaves its queue, and the strict form of a conflict clause *)
(* dies as soon as it has been probed.                                     *)
(***************************************************************************)
EXTENDS Naturals, Sequences, FiniteSets, Functions, SequencesExt

CONSTANTS Addresses,  \* where a LoggedStatement can live
          Texts,      \* replay SQL of statements
          Clauses,    \* those, among Texts, with a conflict clause to probe
          Logs,       \* the statements of one branch, as loaded
          MaxEdits    \* how many statements the user types

VARIABLES
  heap,    \* the live statements: a function from some addresses to SQL
  loaded,  \* the addresses the loaded lists keep alive
  queue,   \* the statements still to be merged, by address
  cache,   \* control_sql_cache: what the control SQL was computed from
  ran,     \* the last control replay: the statement's SQL and what was sent
  edits    \* how many statements the user has typed

vars == <<heap, loaded, queue, cache, ran, edits>>

Sql(text) == <<"as logged", text>>
StrictSql(text) == <<"without clause", text>>
Free == Addresses \ DOMAIN heap
Nothing == [own |-> <<>>, sent |-> <<>>]

Init ==
  /\ \E log \in Logs : \E at \in Injection(DOMAIN log, Addresses) :
       /\ queue = at
       /\ heap = [a \in Range(at) |-> Sql(log[CHOOSE i \in DOMAIN log : at[i] = a])]
  /\ loaded = Range(queue)
  /\ cache = <<>> /\ ran = Nothing /\ edits = 0

(* _control_sql_for of a statement at address a: the rewriter runs only if *)
(* nothing is remembered under that address.                               *)
Remembered(a, sql) == IF a \in DOMAIN cache THEN cache[a] ELSE sql
SendToControl(a, sql) ==
  /\ cache' = [x \in DOMAIN cache \cup {a} |-> IF x = a THEN Remembered(a, sql) ELSE cache[x]]
  /\ ran' = [own |-> sql, sent |-> Remembered(a, sql)]

(* Python frees a statement when the last reference goes.                  *)
Freed(a) == [x \in DOMAIN heap \ (IF a \in loaded THEN {} ELSE {a}) |-> heap[x]]

(* _execute_statement_on_control, for the head or during a scan.           *)
ReplayOnControl(i) ==
  /\ SendToControl(queue[i], heap[queue[i]])
  /\ UNCHANGED <<heap, loaded, queue, edits>>

(* _strict_constraint_resolution_failure: dataclasses.replace makes a new  *)
(* statement, which is probed on control and dropped.                      *)
ProbeStrictForm(i, a) ==
  /\ heap[queue[i]][2] \in Clauses /\ a \in Free
  /\ SendToControl(a, StrictSql(heap[queue[i]][2]))
  /\ UNCHANGED <<heap, loaded, queue, edits>>

(* The user types a statement in place of another: the new object exists   *)
(* before _replace_or_delete_transaction lets go of the old one.           *)
Edit(i, a, text) ==
  /\ edits < MaxEdits /\ a \in Free
  /\ heap' = [x \in DOMAIN Freed(queue[i]) \cup {a} |-> IF x = a THEN Sql(text) ELSE heap[x]]
  /\ queue' = [queue EXCEPT ![i] = a]
  /\ edits' = edits + 1
  /\ UNCHANGED <<loaded, cache, ran>>

(* The head was accepted, or deleted at a prompt.                          *)
DropHead ==
  /\ queue # <<>>
  /\ heap' = Freed(Head(queue)) /\ queue' = Tail(queue)
  /\ UNCHANGED <<loaded, cache, ran, edits>>

Next ==
  \/ \E i \in DOMAIN queue :
       \/ ReplayOnControl(i)
       \/ \E a \in Addresses : ProbeStrictForm(i, a)
       \/ \E a \in Addresses, text \in Texts : Edit(i, a, text)
  \/ DropHead
Spec == Init /\ [][Next]_vars

-----------------------------------------------------------------------------
(* "Return SQL rewritten to use the attached control database"             *)
(* (accepted_replay.py:429): what is sent for a statement is the rewriting *)
(* of that statement, not of another one that lived at its address.        *)
ControlRunsOwnSql == ran.sent = ran.own
=============================================================================
