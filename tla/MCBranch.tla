------------------------------- MODULE MCBranch -------------------------------
(* Branch logs for model checking BranchReplay.                            *)
EXTENDS BranchReplay

CONSTANTS r1, r2, va

Sql(op, r) == [op |-> op, row |-> r, val |-> va, src |-> r, safe |-> TRUE]
Plain(op, r) == [sql |-> Sql(op, r), reason |-> "none", from |-> FALSE, accepted |-> {}]
Warned == [Plain("update", r1) EXCEPT !.reason = "warning"]
Blocked == [Plain("update", r1) EXCEPT !.reason = "block"]
Joined == [Plain("update", r1) EXCEPT !.from = TRUE]

(* Every statement form that can fail, hit a conflict clause or break the  *)
(* reference, and one statement for each thing the user must be shown.     *)
Alphabet == {Plain(op, r) : op \in {"insert", "ignore", "delete"}, r \in Rows}
              \cup {Plain("upsert", r2), Warned, Blocked, Joined}
MCLogs == {<<<<s>>, <<t>>>> : s, t \in Alphabet} \cup {<<<<s, t>>>> : s, t \in Alphabet}
            \cup {<<<<s, t>>, <<u>>>> : s, t, u \in Alphabet}

(* Row r2 refers to row r1.                                                *)
MCBases == {[r \in Rows |-> IF r = r1 THEN va ELSE NoRow]}
MCBroken == {d \in Databases : Present(d, r2) /\ ~Present(d, r1)}
MCTypable == {Plain("ignore", r2), Plain("delete", r2), Joined}
=============================================================================
