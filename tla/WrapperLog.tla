----------------------------- MODULE WrapperLog ------------------------------
(***************************************************************************)
(* SQLiteWrapper (src/src/sqlite_wrapper/wrapper.py): connections to one   *)
(* database whose committed DML is copied into two log tables.  The        *)
(* wrapper mirrors SQLite's transaction in a buffer of its own and writes  *)
(* the log only after SQLite has committed, row by row, each row an        *)
(* autocommitted INSERT.                                                   *)
(*                                                                         *)
(* sql[c] is what SQLite knows of connection c (external), wrap[c] what    *)
(* the wrapper object knows.                                               *)
(***************************************************************************)
EXTENDS Naturals, Sequences, FiniteSets, SequencesExt

CONSTANTS Conns,     \* connections, one SQLiteWrapper each
          Names,     \* savepoint names
          Settings   \* records of env, the situations below that may happen,
                     \* conns, how many connections are used, maxDml, a bound
                     \* on the DML statements of all of them, and maxSaves, a
                     \* bound on the wrapper's savepoint list

(* "crash"  the process dies inside a call, between two SQL statements     *)
(* "busy"   a lock wait times out                                          *)
(* "end"    the application commits with END instead of COMMIT             *)
(* "reuse"  it opens a savepoint under the name of one that is still open  *)
Situations == {"crash", "busy", "end", "reuse"}
ASSUME SettingsAssumption ==
  \A s \in Settings : /\ s.env \subseteq Situations
                     /\ s.conns \in Nat /\ s.maxDml \in Nat /\ s.maxSaves \in Nat

Nobody == "nobody"
ASSUME NobodyAssumption == Nobody \notin Conns

VARIABLES
  sql,        \* per connection: transaction, uncommitted DML, savepoint stack
  lock,       \* the connection holding SQLite's write lock
  committed,  \* the transactions SQLite has committed, in order
  wrap,       \* per connection: the wrapper's fields and the write in progress
  logTable,   \* the rows of _sqlite_merge_log
  txCount,    \* the largest id of _sqlite_merge_transactions
  dmlCount,   \* DML statements run so far; they are numbered
  setting,    \* the setting at work
  used        \* the connections it uses

vars == <<sql, lock, committed, wrap, logTable, txCount, dmlCount, setting, used>>
tables == <<logTable, txCount, setting, used>>
Env == setting.env
MaxDml == setting.maxDml
MaxSaves == setting.maxSaves

Entries == [id : Nat, safe : BOOLEAN]
NamedTwice(n, at) == [name |-> n, at |-> n]   \* mutant
Savepoint(n, at) == [name |-> n, at |-> at]

NoTx == [tx |-> "none", work |-> <<>>, saves |-> <<>>, raised |-> FALSE]
Fresh == [pc |-> "idle", inTx |-> FALSE, buffer |-> <<>>, saves |-> <<>>, failed |-> FALSE,
          writing |-> <<>>, txId |-> 0]

Init ==
  /\ sql = [c \in Conns |-> NoTx] /\ lock = Nobody /\ committed = <<>>
  /\ wrap = [c \in Conns |-> Fresh]
  /\ logTable = <<>> /\ txCount = 0 /\ dmlCount = 0
  /\ setting \in Settings
  /\ used \in {s \in SUBSET Conns : Cardinality(s) = setting.conns}

Idle(c) == wrap[c].pc = "idle"
InSqlTx(c) == sql[c].tx # "none"
Unlocked(c) == lock \in {Nobody, c}
OpenNames(c) == {sql[c].saves[i].name : i \in DOMAIN sql[c].saves}

(* The last entry with a name: what both SQLite and _rollback_to_savepoint *)
(* look for.                                                               *)
LastNamed(saves, n) ==
  CHOOSE i \in DOMAIN saves : /\ saves[i].name = n
                              /\ \A j \in DOMAIN saves : j > i => saves[j].name # n
Named(saves, n) == \E i \in DOMAIN saves : saves[i].name = n

-----------------------------------------------------------------------------
(* _begin, _discard, _flush (its start: marking the entries).              *)
Begun(w) == [w EXCEPT !.inTx = TRUE, !.buffer = <<>>, !.saves = <<>>, !.failed = FALSE]
Discarded(w) == [w EXCEPT !.inTx = FALSE, !.buffer = <<>>, !.saves = <<>>, !.failed = FALSE]
MarkedLast(w) == IF w.failed /\ w.buffer # <<>>   \* mutant
                 THEN [w.buffer EXCEPT ![Len(w.buffer)].safe = FALSE] ELSE w.buffer
Marked(w) == IF w.failed THEN [i \in DOMAIN w.buffer |-> [w.buffer[i] EXCEPT !.safe = FALSE]]
             ELSE w.buffer
Written(w, entries) == [w EXCEPT !.pc = "txRow", !.writing = entries]
FlushedUnfailed(w) == IF w.buffer = <<>> \/ w.failed THEN Discarded(w)   \* mutant
                      ELSE Written(w, w.buffer)
Flushed(w) == IF w.buffer = <<>> THEN Discarded(w)
              ELSE Written([w EXCEPT !.buffer = Marked(w)], Marked(w))

(* SQLite ends the transaction of c.                                       *)
SqlCommit(c) ==
  /\ sql' = [sql EXCEPT ![c] = NoTx]
  /\ lock' = IF lock = c THEN Nobody ELSE lock
  /\ committed' = IF sql[c].work = <<>> THEN committed
                  ELSE Append(committed, [conn |-> c, stmts |-> sql[c].work,
                                          raised |-> sql[c].raised])
SqlRollback(c) ==
  /\ sql' = [sql EXCEPT ![c] = NoTx]
  /\ lock' = IF lock = c THEN Nobody ELSE lock
  /\ UNCHANGED committed

-----------------------------------------------------------------------------
(* _execute_on, one action per kind of statement.                          *)
Begin(c) ==
  /\ Idle(c) /\ ~InSqlTx(c)
  /\ sql' = [sql EXCEPT ![c].tx = "begin"]
  /\ wrap' = [wrap EXCEPT ![c] = Begun(@)]
  /\ UNCHANGED <<lock, committed, tables, dmlCount>>

Commit(c) ==
  /\ Idle(c) /\ InSqlTx(c)
  /\ SqlCommit(c)
  /\ wrap' = [wrap EXCEPT ![c] = Flushed(@)]
  /\ UNCHANGED <<tables, dmlCount>>

(* END is COMMIT to SQLite, and any other statement to the wrapper.        *)
End(c) ==
  /\ "end" \in Env
  /\ Idle(c) /\ InSqlTx(c)
  /\ SqlCommit(c)
  /\ UNCHANGED <<wrap, tables, dmlCount>>

Rollback(c) ==
  /\ Idle(c) /\ InSqlTx(c)
  /\ SqlRollback(c)
  /\ wrap' = [wrap EXCEPT ![c] = Discarded(@)]
  /\ UNCHANGED <<tables, dmlCount>>

(* _savepoint: outside a transaction SQLite and the wrapper start one.     *)
OpenSavepoint(c, n) ==
  /\ Idle(c) /\ Len(wrap[c].saves) < MaxSaves
  /\ n \notin OpenNames(c) \/ "reuse" \in Env
  /\ sql' = [sql EXCEPT ![c].tx = IF @ = "none" THEN "savepoint" ELSE @,
                        ![c].saves = Append(@, Savepoint(n, Len(sql[c].work)))]
  /\ LET w == IF wrap[c].inTx THEN wrap[c] ELSE Begun(wrap[c]) IN
     wrap' = [wrap EXCEPT ![c] = [w EXCEPT !.saves = Append(@, Savepoint(n, Len(w.buffer)))]]
  /\ UNCHANGED <<lock, committed, tables, dmlCount>>

(* RELEASE of the savepoint that started the transaction commits it.       *)
(* SQLite releases n and all above it; _release_savepoint pops one entry.  *)
ReleaseSavepoint(c, n) ==
  /\ Idle(c) /\ n \in OpenNames(c)
  /\ LET at == LastNamed(sql[c].saves, n)
         w  == [wrap[c] EXCEPT !.saves = IF @ = <<>> THEN @ ELSE Front(@)]
     IN  \/ /\ sql[c].tx = "savepoint" /\ at = 1
            /\ SqlCommit(c)
            /\ wrap' = [wrap EXCEPT ![c] = IF w.inTx THEN Flushed(w) ELSE w]
         \/ /\ sql[c].tx = "begin" \/ at > 1
            /\ sql' = [sql EXCEPT ![c].saves = SubSeq(@, 1, at - 1)]
            /\ wrap' = [wrap EXCEPT ![c] = w]
            /\ UNCHANGED <<lock, committed>>
  /\ UNCHANGED <<tables, dmlCount>>

PopsOnRollback(c, n) ==   \* mutant
  /\ Idle(c) /\ n \in OpenNames(c)
  /\ LET at == LastNamed(sql[c].saves, n)
         to == LastNamed(wrap[c].saves, n)
     IN  /\ sql' = [sql EXCEPT ![c].work = SubSeq(@, 1, sql[c].saves[at].at),
                               ![c].saves = SubSeq(@, 1, at)]
         /\ wrap' = IF Named(wrap[c].saves, n)
                    THEN [wrap EXCEPT ![c].buffer = SubSeq(@, 1, wrap[c].saves[to].at),
                                      ![c].saves = SubSeq(@, 1, to - 1)]
                    ELSE wrap
  /\ UNCHANGED <<lock, committed, tables, dmlCount>>

RollbackTo(c, n) ==
  /\ Idle(c) /\ n \in OpenNames(c)
  /\ LET at == LastNamed(sql[c].saves, n)
         to == LastNamed(wrap[c].saves, n)
     IN  /\ sql' = [sql EXCEPT ![c].work = SubSeq(@, 1, sql[c].saves[at].at),
                               ![c].saves = SubSeq(@, 1, at)]
         /\ wrap' = IF Named(wrap[c].saves, n)
                    THEN [wrap EXCEPT ![c].buffer = SubSeq(@, 1, wrap[c].saves[to].at),
                                      ![c].saves = SubSeq(@, 1, to)]
                    ELSE wrap
  /\ UNCHANGED <<lock, committed, tables, dmlCount>>

(* A DML statement changes rows: SQLite commits it at once or takes the    *)
(* lock, _record_effectful_entry buffers or writes its entry.  raises: an  *)
(* OR FAIL statement that fails after its first rows; its entry is unsafe. *)
Dml(c, safe, raises) ==
  /\ Idle(c) /\ Unlocked(c) /\ dmlCount < MaxDml
  /\ raises => ~safe
  /\ dmlCount' = dmlCount + 1
  /\ LET e == [id |-> dmlCount + 1, safe |-> safe] IN
     /\ \/ /\ InSqlTx(c)
           /\ sql' = [sql EXCEPT ![c].work = Append(@, e), ![c].raised = @ \/ raises]
           /\ lock' = c
           /\ UNCHANGED committed
        \/ /\ ~InSqlTx(c)
           /\ committed' = Append(committed, [conn |-> c, stmts |-> <<e>>, raised |-> raises])
           /\ UNCHANGED <<sql, lock>>
     /\ IF raises /\ wrap[c].inTx /\ ~InSqlTx(c)
        THEN wrap' = [wrap EXCEPT ![c] = Discarded(@)]
        ELSE IF wrap[c].inTx
             THEN wrap' = [wrap EXCEPT ![c].buffer = Append(@, e), ![c].failed = @ \/ raises]
             ELSE wrap' = [wrap EXCEPT ![c] = Written(@, <<e>>)]
  /\ UNCHANGED tables

(* A statement of any kind that raises and changes nothing: a violated     *)
(* constraint, a nested BEGIN, a COMMIT with no transaction, a lock.       *)
StatementFails(c) ==
  /\ Idle(c) /\ wrap[c].inTx
  /\ \/ /\ InSqlTx(c)
        /\ sql' = [sql EXCEPT ![c].raised = TRUE]
        /\ wrap' = [wrap EXCEPT ![c].failed = TRUE]
     \/ /\ ~InSqlTx(c)
        /\ wrap' = [wrap EXCEPT ![c] = Discarded(@)]
        /\ UNCHANGED sql
  /\ UNCHANGED <<lock, committed, tables, dmlCount>>

KeepsRolledBack(c) ==   \* mutant
  /\ Idle(c) /\ InSqlTx(c) /\ Unlocked(c)
  /\ SqlRollback(c)
  /\ UNCHANGED <<wrap, tables, dmlCount>>

(* An OR ROLLBACK statement fails: SQLite has ended the transaction.       *)
DmlRollsBack(c) ==
  /\ Idle(c) /\ InSqlTx(c) /\ Unlocked(c)
  /\ SqlRollback(c)
  /\ wrap' = [wrap EXCEPT ![c] = IF @.inTx THEN Discarded(@) ELSE @]
  /\ UNCHANGED <<tables, dmlCount>>

-----------------------------------------------------------------------------
(* _write, one autocommitted INSERT at a time, and the _discard after it.  *)
WriteTxRow(c) ==
  /\ wrap[c].pc = "txRow" /\ lock = Nobody
  /\ txCount' = txCount + 1
  /\ wrap' = [wrap EXCEPT ![c].pc = "logRows", ![c].txId = txCount + 1]
  /\ UNCHANGED <<sql, lock, committed, logTable, dmlCount, setting, used>>

WriteUnderNewest(c) ==   \* mutant
  /\ wrap[c].pc = "logRows" /\ lock = Nobody
  /\ LET w == wrap[c]
         e == Head(w.writing)
         rest == [w EXCEPT !.writing = Tail(@)]
     IN  /\ logTable' = Append(logTable, [tx |-> txCount, id |-> e.id, safe |-> e.safe])
         /\ wrap' = [wrap EXCEPT ![c] =
                       IF rest.writing # <<>> THEN rest
                       ELSE Discarded([rest EXCEPT !.pc = "idle", !.txId = 0])]
  /\ UNCHANGED <<sql, lock, committed, txCount, dmlCount, setting, used>>

KeepsWritten(c) ==   \* mutant
  /\ wrap[c].pc = "logRows" /\ lock = Nobody
  /\ LET w == wrap[c]
         e == Head(w.writing)
         rest == [w EXCEPT !.writing = Tail(@)]
     IN  /\ logTable' = Append(logTable, [tx |-> w.txId, id |-> e.id, safe |-> e.safe])
         /\ wrap' = [wrap EXCEPT ![c] =
                       IF rest.writing # <<>> THEN rest
                       ELSE [rest EXCEPT !.pc = "idle", !.txId = 0]]
  /\ UNCHANGED <<sql, lock, committed, txCount, dmlCount, setting, used>>

WriteLogRow(c) ==
  /\ wrap[c].pc = "logRows" /\ lock = Nobody
  /\ LET w == wrap[c]
         e == Head(w.writing)
         rest == [w EXCEPT !.writing = Tail(@)]
     IN  /\ logTable' = Append(logTable, [tx |-> w.txId, id |-> e.id, safe |-> e.safe])
         /\ wrap' = [wrap EXCEPT ![c] =
                       IF rest.writing # <<>> THEN rest
                       ELSE Discarded([rest EXCEPT !.pc = "idle", !.txId = 0])]
  /\ UNCHANGED <<sql, lock, committed, txCount, dmlCount, setting, used>>

(* An INSERT of _write times out on another connection's lock: the         *)
(* exception leaves _in_transaction and the buffer as they are.            *)
WriteTimesOut(c) ==
  /\ "busy" \in Env
  /\ ~Idle(c) /\ lock # Nobody
  /\ wrap' = [wrap EXCEPT ![c] = [@ EXCEPT !.pc = "idle", !.writing = <<>>, !.txId = 0]]
  /\ UNCHANGED <<sql, lock, committed, tables, dmlCount>>

(* close() between calls, or the process dying inside one; SQLite rolls    *)
(* back, and a new connection takes the place of the old.                  *)
Close(c) ==
  /\ Idle(c) \/ "crash" \in Env
  /\ SqlRollback(c)
  /\ wrap' = [wrap EXCEPT ![c] = Fresh]
  /\ UNCHANGED <<tables, dmlCount>>

Call(c) ==
  \/ Begin(c) \/ Commit(c) \/ End(c) \/ Rollback(c)
  \/ \E n \in Names : OpenSavepoint(c, n) \/ ReleaseSavepoint(c, n) \/ RollbackTo(c, n)
  \/ \E safe, raises \in BOOLEAN : Dml(c, safe, raises)
  \/ StatementFails(c) \/ DmlRollsBack(c) \/ Close(c)
Next == \E c \in used : Call(c) \/ WriteTxRow(c) \/ WriteLogRow(c) \/ WriteTimesOut(c)
Spec == Init /\ [][Next]_vars

-----------------------------------------------------------------------------
Savepoints == [name : Names, at : Nat]
Transactions == [conn : Conns, stmts : Seq(Entries), raised : BOOLEAN]
LogRows == [tx : Nat \ {0}, id : Nat, safe : BOOLEAN]
SqlStates == [tx : {"none", "begin", "savepoint"}, work : Seq(Entries),
              saves : Seq(Savepoints), raised : BOOLEAN]
WrapStates == [pc : {"idle", "txRow", "logRows"}, inTx : BOOLEAN, buffer : Seq(Entries),
               saves : Seq(Savepoints), failed : BOOLEAN, writing : Seq(Entries), txId : Nat]

(* Types of all variables.                                                 *)
TypeOK ==
  /\ sql \in [Conns -> SqlStates] /\ wrap \in [Conns -> WrapStates]
  /\ lock \in Conns \cup {Nobody} /\ committed \in Seq(Transactions)
  /\ logTable \in Seq(LogRows) /\ txCount \in Nat /\ dmlCount \in Nat

Undisturbed == Env \cap {"crash", "busy", "end"} = {}

(* The buffer is SQLite's uncommitted work: as long as a transaction is    *)
(* open, the wrapper holds exactly the statements that COMMIT would make   *)
(* permanent, through every SAVEPOINT, RELEASE and ROLLBACK TO ("Savepoints*)
(* are tracked so ROLLBACK TO SAVEPOINT only discards statements added     *)
(* after that savepoint", class docstring).                                *)
BufferIsWork ==
  Undisturbed => \A c \in Conns : InSqlTx(c) => wrap[c].inTx /\ wrap[c].buffer = sql[c].work

Ids(entries) == [i \in DOMAIN entries |-> entries[i].id]
RowsIn(log, t) ==
  LET rows[i \in 0..Len(log)] == IF i = 0 THEN <<>>
                                 ELSE IF log[i].tx = t THEN Append(rows[i - 1], log[i])
                                 ELSE rows[i - 1]
  IN  rows[Len(log)]
RowsOf(t) == RowsIn(logTable, t)
IsLoggedAs(k, t) == Ids(RowsOf(t)) = Ids(committed[k].stmts)

Held(k, c) == LET w == wrap[c]  mine == {e.id : e \in ToSet(committed[k].stmts)}
                  kept == {e.id : e \in ToSet(w.buffer)} \cup {e.id : e \in ToSet(w.writing)}
              IN  mine \subseteq kept \cup {logTable[i].id : i \in {j \in DOMAIN logTable :
                                                                   logTable[j].tx = w.txId}}

(* README "Each committed transaction receives a transaction record, and   *)
(* each logged DML statement is stored": a committed transaction is in the *)
(* log as one record with its statements in order, or the wrapper still    *)
(* holds them to write.  The code keeps this promise as long as nothing    *)
(* disturbs it; END breaks it without any fault.                           *)
EveryCommitLogged ==
  Undisturbed => \A k \in DOMAIN committed :
    (\E t \in 1..txCount : IsLoggedAs(k, t)) \/ Held(k, committed[k].conn)

(* The log invents nothing: each record is the beginning of one committed  *)
(* transaction, no two records show the same one, and the records of a     *)
(* connection are in the order of its commits.                             *)
Shows(t, k) == RowsOf(t) # <<>> /\ IsPrefix(Ids(RowsOf(t)), Ids(committed[k].stmts))
LogFollowsCommits ==
  Undisturbed => \A t \in 1..txCount :
    RowsOf(t) # <<>> =>
      \E k \in DOMAIN committed :
        /\ Shows(t, k)
        /\ \A u \in 1..txCount, l \in DOMAIN committed :
             Shows(u, l) /\ committed[l].conn = committed[k].conn =>
               (u < t <=> l < k)

(* Nothing that was rolled back is logged, whatever happens: every logged  *)
(* statement is part of a committed transaction.  It may be missing from   *)
(* the log, and after a time-out be there twice.                           *)
LoggedIsCommitted ==
  \A i \in DOMAIN logTable :
    \E k \in DOMAIN committed : logTable[i].id \in {e.id : e \in ToSet(committed[k].stmts)}

(* Nothing is repeated or reordered, through crashes and END too: the rows *)
(* of one record are in the order in which their statements ran, and no    *)
(* statement is in two rows unless a write of the log timed out, after     *)
(* which the buffer stays and a later RELEASE writes it a second time.     *)
LoggedOnce ==
  \A i, j \in DOMAIN logTable :
    i < j => /\ logTable[i].tx = logTable[j].tx => logTable[i].id < logTable[j].id
             /\ logTable[i].id = logTable[j].id => "busy" \in Env

(* A transaction in which a statement raised is not replayed unseen: all   *)
(* its rows are marked unsafe.                                             *)
RaisedIsUnsafe ==
  \A k \in DOMAIN committed :
    committed[k].raised =>
      \A i \in DOMAIN logTable :
        logTable[i].id \in {e.id : e \in ToSet(committed[k].stmts)} => ~logTable[i].safe
=============================================================================
