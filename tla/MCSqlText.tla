----------------------------- MODULE MCSqlText -----------------------------
EXTENDS SqlText

\* Words that look like a clause, and marks that look like an end.
MCHostile ==
    { <<"ON", "sp", "CONFLICT">>, <<"INSERT", "sp", "OR", "sp", "ROLLBACK", "sp">>,
      <<"UPDATE", "sp", "OR", "sp", "IGNORE", "sp">>, <<"REPLACE", "sp", "INTO", "sp">>,
      <<"DEFAULT", "sp", "VALUES">>, <<")", "ON", "sp", "CONFLICT", "(">> }
MCString(x) == <<"'">> \o x \o <<"'">>
MCValues ==
    {MCString(x) : x \in MCHostile}
    \cup {MCString(<<"'", "'">> \o x) : x \in MCHostile}
    \cup {MCString(<<"-", "-">>), MCString(<<"/", "*">>), MCString(<<"[">>), MCString(<<"quote">>)}
    \cup {<<"quote">> \o <<"ON", "sp", "CONFLICT">> \o <<"quote">>,
          <<"[", "'", "ON", "sp", "CONFLICT", "]">>, <<"tick", "REPLACE", "sp", "INTO", "sp", "tick">>}
MCNotes ==
    {<<"/", "*">> \o x \o <<"*", "/">> : x \in MCHostile}
    \cup {<<"-", "-">> \o x \o <<"nl">> : x \in MCHostile}
    \cup {<<"/", "*", "'", "*", "/">>, <<"-", "-", "(", "nl">>, <<"/", "*", "[", "*", "/">>}

MCPlain == [verb |-> "INSERT", clause |-> "none", gap |-> <<"sp">>, columns |-> <<"c">>,
            source |-> "values", rows |-> << << <<"1">> >> >>, upsert |-> "none",
            set |-> <<"1">>, where |-> FALSE, with |-> <<>>, note |-> <<>>, semi |-> FALSE]
MCVerbs ==
    {[MCPlain EXCEPT !.clause = c] : c \in Algorithms \cup {"none"}}
    \cup {[MCPlain EXCEPT !.verb = "REPLACE"]}
MCUpdates ==
    {[MCPlain EXCEPT !.verb = "UPDATE", !.source = "update", !.columns = <<>>, !.clause = c] :
        c \in Algorithms \cup {"none"}}
MCUpserts(s) ==
    {s, [s EXCEPT !.upsert = "nothing"]}
    \cup {[s EXCEPT !.upsert = "update", !.where = w] : w \in BOOLEAN}
MCWritten(S) == (UNION {MCUpserts(s) : s \in S}) \cup MCUpdates

\* Every clause, with a hostile value, note or prefix somewhere.
MCQuoted ==
    LET forms == MCWritten(MCVerbs \cup {[s EXCEPT !.source = "select"] : s \in MCVerbs})
    IN  {[s EXCEPT !.rows[1][1] = v, !.semi = b] : s \in forms, v \in MCValues, b \in BOOLEAN}
        \cup {[s EXCEPT !.note = n] : s \in forms, n \in MCNotes}
        \cup {[s EXCEPT !.with = v] : s \in forms, v \in MCValues}
        \cup {[s EXCEPT !.gap = g] : s \in forms,
              g \in {<<"nl", "sp">>, <<"sp", "/", "*", "*", "/", "sp">>}}
\* Every place and kind of a nondeterministic call.
MCCells == {<<"1">>, Random, Now, SubRandom}
MCCalls ==
    LET rows == {<< <<x>> >> : x \in MCCells} \cup {<< <<x>>, <<y>> >> : x, y \in MCCells}
        wide == {<< <<x, y>> >> : x, y \in MCCells} \cup {<< <<x, y>>, <<x, y>> >> : x, y \in MCCells}
        inserts == {[v EXCEPT !.rows = r] : v \in MCVerbs, r \in rows}
                   \cup {[v EXCEPT !.columns = <<>>, !.rows = r] : v \in MCVerbs, r \in wide}
        selects == {[v EXCEPT !.source = "select", !.rows = << <<x>> >>] :
                        v \in MCVerbs, x \in MCCells}
    IN  UNION {MCUpserts(s) : s \in inserts \cup selects}
        \cup {[MCPlain EXCEPT !.rows = r, !.upsert = "update", !.set = x, !.where = w] :
              r \in rows, x \in MCCells, w \in BOOLEAN}
        \cup {[s EXCEPT !.rows[1][1] = x] : s \in MCUpdates, x \in MCCells}
        \cup {[s EXCEPT !.source = "default", !.columns = <<>>, !.rows = <<>>, !.note = n] :
              s \in MCVerbs, n \in {<<>>, <<"/", "*", "DEFAULT", "sp", "VALUES", "*", "/">>}}

MCStatements == MCQuoted \cup MCCalls
MCConditional == {s \in MCCalls : s.where /\ s.set # SubRandom}
MCFresh == <<"r1", "r2", "r3", "r4", "r5">>
MCDefaults == {<<"1">>, Random, Now}
=============================================================================
