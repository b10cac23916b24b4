------------------------------ MODULE SqlText ------------------------------
(***************************************************************************)
(* The text of one statement on its way from the application to a merge:   *)
(* prepare_logged_sql replaces what would not replay the same by literals  *)
(* (sqlite_replay_preparation.py), the loader takes OR ROLLBACK off        *)
(* (merge/log_merge.py), and the check for hidden constraint violations    *)
(* takes the clauses off that hide them (merge/accepted_replay.py).  The   *)
(* last two, and the fallback of the first, edit text with the scanner of  *)
(* sqlite_conflict_resolution.py.                                          *)
(*                                                                         *)
(* A text is a sequence of words, literals and single marks.  A statement  *)
(* is the record SQLite and sqlglot read from it; Render writes it down.   *)
(* The table is t(id, c, d), and d has a DEFAULT.                          *)
(***************************************************************************)
EXTENDS Integers, SequencesExt

CONSTANTS Statements,    \* what the application may execute
          Defaults,      \* the expressions column d may have as DEFAULT
          Fresh          \* what calls of random() return, one after the other

VARIABLES stmt, default, parsesUpsert, stage, entry, loaded, strict
vars == <<stmt, default, parsesUpsert, stage, entry, loaded, strict>>

----------------------------------------------------------------------------
(* Statements and their text *)

Blanks == {"sp", "nl"}
Quotes == {"'", "quote", "tick"}
Marks == Blanks \cup Quotes \cup {"[", "]", "(", ")", "-", "/", "*", ",", "=", "semi"}
Algorithms == {"ROLLBACK", "ABORT", "IGNORE", "REPLACE"}
Reviewable == {"IGNORE", "REPLACE"}
Words == Algorithms \cup
    {"INSERT", "UPDATE", "INTO", "OR", "WITH", "AS", "SELECT", "SET", "WHERE",
     "DEFAULT", "VALUES", "ON", "CONFLICT", "DO", "NOTHING", "t", "c", "d", "x",
     "random", "CURRENT_TIMESTAMP"}
Elements == Marks \cup Words \cup ToSet(Fresh) \cup {"1", "then"}

Random == <<"random", "(", ")">>
Now == <<"CURRENT_TIMESTAMP">>    \* any value fixed during one statement
SubRandom == <<"(", "SELECT", "sp">> \o Random \o <<")">>
PerEvaluation(cell) == cell \in {Random, SubRandom}
Nondeterministic(cell) == PerEvaluation(cell) \/ cell = Now

Separated(parts, mark) ==
    IF parts = <<>> THEN <<>>
    ELSE Tail(FlattenSeq([i \in DOMAIN parts |-> <<mark>> \o parts[i]]))
Listed(parts) == <<"(">> \o Separated(parts, ",") \o <<")">>
Optional(cond, text) == IF cond THEN text ELSE <<>>

Verb(s) ==
    <<s.verb>> \o s.gap \o Optional(s.clause # "none", <<"OR", "sp", s.clause, "sp">>)
        \o Optional(s.verb # "UPDATE", <<"INTO", "sp">>) \o <<"t">>
Body(s) ==
    Separated(CASE s.source = "default" -> << <<"DEFAULT", "sp", "VALUES">> >>
                [] s.source = "update" -> << <<"SET", "sp", "c", "=">> \o s.rows[1][1] >>
                [] OTHER ->
                    Optional(s.columns # <<>>,
                             << Listed([i \in DOMAIN s.columns |-> <<s.columns[i]>>]) >>)
                    \o (IF s.source = "values"
                        THEN << <<"VALUES">>,
                                Separated([i \in DOMAIN s.rows |-> Listed(s.rows[i])], ",") >>
                        ELSE << <<"SELECT">>, Separated(s.rows[1], ",") >>),
              "sp")
Upsert(s) ==
    IF s.upsert = "none" THEN <<>>
    ELSE <<"sp", "ON", "sp", "CONFLICT", "sp", "DO", "sp">>
         \o (IF s.upsert = "nothing" THEN <<"NOTHING">>
             ELSE <<"UPDATE", "sp", "SET", "sp", "c", "=">> \o s.set
                  \o Optional(s.where, <<"sp", "WHERE", "sp", "1">>))
Render(s) ==
    Optional(s.with # <<>>, <<"WITH", "sp", "x", "sp", "AS", "(", "SELECT", "sp">> \o s.with
                            \o <<")", "sp">>)
    \o Verb(s) \o <<"sp">> \o Optional(s.note # <<>>, s.note \o <<"sp">>)
    \o Body(s) \o Upsert(s) \o Optional(s.semi, <<"semi">>)

----------------------------------------------------------------------------
(* What the constants may be: the SQL that can be written *)

\* A string or a quoted name: a quote inside is one of a pair.
Quoted(text) ==
    \E q \in Quotes :
        /\ Len(text) >= 2 /\ text[1] = q /\ text[Len(text)] = q
        /\ \E pairs \in SUBSET {i \in 2 .. Len(text) - 2 : text[i] = q /\ text[i + 1] = q} :
               \A i \in 2 .. Len(text) - 1 :
                   /\ text[i] = q <=> (i \in pairs \/ i - 1 \in pairs)
                   /\ ~(i \in pairs /\ i - 1 \in pairs)
Bracketed(text) ==
    /\ Len(text) >= 2 /\ text[1] = "[" /\ text[Len(text)] = "]"
    /\ \A i \in 2 .. Len(text) - 1 : text[i] # "]"
LineComment(text) ==
    /\ Len(text) >= 3 /\ text[1] = "-" /\ text[2] = "-" /\ text[Len(text)] = "nl"
    /\ \A i \in 3 .. Len(text) - 1 : text[i] # "nl"
BlockComment(text) ==
    /\ Len(text) >= 4 /\ text[1] = "/" /\ text[2] = "*"
    /\ text[Len(text) - 1] = "*" /\ text[Len(text)] = "/"
    /\ \A i \in 3 .. Len(text) - 2 : ~(text[i] = "*" /\ text[i + 1] = "/")
Comment(text) == LineComment(text) \/ BlockComment(text)
IsBlank(text) == \A i \in DOMAIN text : text[i] \in Blanks
\* Blanks, or blanks and one comment.
Gap(text) ==
    \/ text # <<>> /\ IsBlank(text)
    \/ \E i \in 0 .. Len(text) : \E j \in i .. Len(text) :
          /\ IsBlank(SubSeq(text, 1, i)) /\ IsBlank(SubSeq(text, j + 1, Len(text)))
          /\ Comment(SubSeq(text, i + 1, j))
Written(cell) == cell \in {<<"1">>, Random, Now, SubRandom} \/ Quoted(cell) \/ Bracketed(cell)

Text == Seq(Elements)
Records ==
    [verb : {"INSERT", "REPLACE", "UPDATE"}, clause : Algorithms \cup {"none"}, gap : Text,
     columns : {<<>>, <<"c">>, <<"d">>, <<"c", "d">>, <<"d", "c">>},
     source : {"values", "select", "default", "update"}, rows : Seq(Seq(Text)),
     upsert : {"none", "nothing", "update"}, set : Text, where : BOOLEAN,
     with : Text, note : Text, semi : BOOLEAN]
\* The columns a statement gives values for.
Columns(s) == IF s.columns = <<>> THEN <<"c", "d">> ELSE s.columns
Grammatical(s) ==
    /\ s \in Records
    /\ Gap(s.gap)
    /\ s.note = <<>> \/ Comment(s.note)
    /\ s.with = <<>> \/ Written(s.with)
    /\ Written(s.set)
    /\ s.upsert # "update" => s.set = <<"1">> /\ ~s.where
    /\ \A i \in DOMAIN s.rows : \A j \in DOMAIN s.rows[i] : Written(s.rows[i][j])
    /\ s.verb = "REPLACE" => s.clause = "none"
    /\ s.verb = "UPDATE" <=> s.source = "update"
    /\ CASE s.source = "default" -> s.columns = <<>> /\ s.rows = <<>> /\ s.upsert = "none"
         [] s.source = "update" -> /\ s.columns = <<>> /\ s.upsert = "none"
                                   /\ Len(s.rows) = 1 /\ Len(s.rows[1]) = 1
         [] OTHER -> /\ IF s.source = "select" THEN Len(s.rows) = 1 ELSE s.rows # <<>>
                     /\ \A i \in DOMAIN s.rows : Len(s.rows[i]) = Len(Columns(s))

ASSUME StatementsAssumption == \A s \in Statements : Grammatical(s)
ASSUME DefaultsAssumption == \A d \in Defaults : d \in Text /\ Written(d) /\ d # SubRandom
\* Calls of random() return different values, none of them written in a statement.
ASSUME FreshAssumption ==
    /\ Fresh \in Seq(STRING) /\ Len(Fresh) >= 2
    /\ \A s \in Statements : 2 * Len(s.rows) + 1 <= Len(Fresh)
    /\ \A i, j \in DOMAIN Fresh : Fresh[i] = Fresh[j] => i = j
    /\ ToSet(Fresh) \cap (Marks \cup Words \cup {"1", "then", "first", "later", "none"}) = {}

----------------------------------------------------------------------------
(* The scanner: where a word starts outside quotes, comments, parentheses *)

NoLineComments(c, after) == FALSE    \* mutant
StartsLineComment(c, after) == c = "-" /\ after = "-"
InCode(s, c, after, i) ==
    CASE StartsLineComment(c, after) -> [s EXCEPT !.mode = "line", !.skip = TRUE]
      [] c = "/" /\ after = "*" -> [s EXCEPT !.mode = "block", !.skip = TRUE]
      [] c \in Quotes \cup {"["} -> [s EXCEPT !.mode = c]
      [] c = "(" -> [s EXCEPT !.depth = @ + 1]
      [] c = ")" -> [s EXCEPT !.depth = IF @ = 0 THEN 0 ELSE @ - 1]
      [] c \in Words /\ s.depth = 0 -> [s EXCEPT !.found = @ \cup {i}]
      [] OTHER -> s
InQuotes(s, c, after) ==
    CASE s.mode = "[" /\ c = "]" -> [s EXCEPT !.mode = "code"]
      [] c = s.mode /\ c # "[" -> IF after = c THEN [s EXCEPT !.skip = TRUE]
                                   ELSE [s EXCEPT !.mode = "code"]
      [] OTHER -> s
Advance(s, c, after, i) ==
    IF s.skip THEN [s EXCEPT !.skip = FALSE]
    ELSE CASE s.mode = "code" -> InCode(s, c, after, i)
           [] s.mode = "line" -> IF c = "nl" THEN [s EXCEPT !.mode = "code"] ELSE s
           [] s.mode = "block" -> IF c = "*" /\ after = "/"
                                  THEN [s EXCEPT !.mode = "code", !.skip = TRUE] ELSE s
           [] OTHER -> InQuotes(s, c, after)

TopLevelKeywords(text) ==
    LET after(i) == IF i < Len(text) THEN text[i + 1] ELSE "none"
        scan[i \in 0 .. Len(text)] ==
            IF i = 0 THEN [mode |-> "code", depth |-> 0, skip |-> FALSE, found |-> {}]
            ELSE Advance(scan[i - 1], text[i], after(i), i)
    IN  scan[Len(text)].found

\* The position after the blanks that start at i; none of them is \s* .
PastBlanks(text, i) ==
    CHOOSE j \in i .. Len(text) + 1 :
        /\ \A k \in i .. j - 1 : text[k] \in Blanks
        /\ j <= Len(text) => text[j] \notin Blanks
\* pattern.match(sql, i): words with \s+ after each; the position after, or 0.
MatchAt(text, i, pattern) ==
    LET past[n \in 0 .. Len(pattern)] ==
            IF n = 0 THEN i
            ELSE LET j == past[n - 1]
                 IN  IF /\ j \in 1 .. Len(text) - 1
                        /\ text[j] \in pattern[n]
                        /\ text[j + 1] \in Blanks
                     THEN PastBlanks(text, j + 1) ELSE 0
    IN  past[Len(pattern)]
\* The top-level words where the pattern matches; the code takes the first one.
Matches(text, pattern) == {i \in TopLevelKeywords(text) : MatchAt(text, i, pattern) # 0}
First(at) == CHOOSE i \in at : \A j \in at : i <= j

Before(text, i) == SubSeq(text, 1, i - 1)
From(text, i) == SubSeq(text, i, Len(text))

----------------------------------------------------------------------------
(* sqlite_conflict_resolution.py *)

NoResolution == [kind |-> "none", algorithm |-> "none"]
OrClause(verb, algorithms) == << {verb}, {"OR"}, algorithms >>
OrResolution(text, verb, algorithms) ==
    LET at == Matches(text, OrClause(verb, algorithms))
    IN  IF at = {} THEN NoResolution
        ELSE [kind |-> verb, algorithm |-> text[MatchAt(text, First(at), << {verb}, {"OR"} >>)]]
RemoveOrClause(text, verb, algorithms) ==
    LET pattern == OrClause(verb, algorithms)
        at == Matches(text, pattern)
    IN  IF at = {} THEN text
        ELSE Before(text, First(at)) \o <<verb, "sp">>
             \o From(text, MatchAt(text, First(at), pattern))

\* REPLACE INTO with its blanks kept and the word before them replaced.
RewriteReplaceInto(text, by) ==
    LET at == Matches(text, << {"REPLACE"}, {"INTO"} >>)
    IN  IF at = {} THEN text ELSE Before(text, First(at)) \o by \o From(text, First(at) + 1)

Trimmed(text) ==
    LET kept == {i \in DOMAIN text : text[i] \notin Blanks}
    IN  SubSeq(text, 1, CHOOSE i \in kept : \A j \in kept : j <= i)
InsertOnly(text) == text[1] = "INSERT"    \* mutant: nothing before the verb
InsertLike(text) == text[1] \in {"INSERT", "WITH"}
StripUpsert(text) ==
    LET on == {i \in TopLevelKeywords(text) :
                  /\ text[i] = "ON"
                  /\ PastBlanks(text, i + 1) \in DOMAIN text
                  /\ text[PastBlanks(text, i + 1)] = "CONFLICT"}
    IN  IF ~InsertLike(text) \/ on = {} THEN text
        ELSE Trimmed(Before(text, First(on))) \o Optional(Last(text) = "semi", <<"semi">>)

Normalized(text) ==
    LET update == OrResolution(text, "UPDATE", Algorithms)
        found == IF update # NoResolution THEN update
                 ELSE OrResolution(text, "INSERT", Algorithms)
        noOr == RemoveOrClause(text, "UPDATE", Algorithms)
        noReplace == IF found # NoResolution THEN noOr
                     ELSE RewriteReplaceInto(noOr, <<"INSERT", "sp", "OR", "sp", "REPLACE">>)
    IN  [sql |-> StripUpsert(noReplace),
         resolution |-> IF noReplace = noOr THEN found
                        ELSE [kind |-> "INSERT", algorithm |-> "REPLACE"],
         strippedUpsert |-> StripUpsert(noReplace) # noReplace]

RestoredClause(r) == <<"UPDATE", "sp", "OR", "sp", r.algorithm, "sp">>
RestoreUpdate(text, resolution) ==
    LET at == Matches(text, << {"UPDATE"} >>)
    IN  IF resolution.kind # "UPDATE" \/ at = {} THEN text
        ELSE Before(text, First(at)) \o RestoredClause(resolution)
             \o From(text, MatchAt(text, First(at), << {"UPDATE"} >>))

Neutralized(text) ==
    RemoveOrClause(RemoveOrClause(text, "INSERT", {"ROLLBACK"}), "UPDATE", {"ROLLBACK"})
\* The strict form; the text itself when there is nothing to take off.
StrictRewrite(text) ==
    StripUpsert(RewriteReplaceInto(
        RemoveOrClause(RemoveOrClause(text, "INSERT", Reviewable), "UPDATE", Reviewable),
        <<"INSERT">>))

----------------------------------------------------------------------------
(* What sqlglot and SQLite make of a text (external) *)

WithoutUpsert(s) == [s EXCEPT !.upsert = "none", !.set = <<"1">>, !.where = FALSE]
\* The statements a rewriting of s could have produced.
Variants(s) ==
    {[r EXCEPT !.verb = v, !.clause = c, !.gap = g] :
        r \in {s, WithoutUpsert(s)}, v \in {s.verb, "INSERT"},
        c \in {s.clause, "none", "REPLACE"}, g \in {s.gap, <<"sp">>}}
Readings(text, s) == {r \in Variants(s) : Render(r) = text}
\* REPLACE INTO, UPDATE OR, DEFAULT VALUES and some UPSERTs are not parsed.
Parses(s) ==
    /\ s.source # "default"
    /\ s.verb # "REPLACE"
    /\ s.verb = "UPDATE" => s.clause = "none"
    /\ s.upsert # "none" => parsesUpsert /\ ~s.where
Trees(text, s) == {r \in Readings(text, s) : Parses(r)}
Rendered(tree) == Render([tree EXCEPT !.gap = <<"sp">>, !.semi = FALSE])

\* The values a statement leaves in the columns c and d of its rows, and those
\* of its DO UPDATE: a call of random() gives a new value every time.
Expression(s, row, col) ==
    IF col = "set" THEN Optional(s.upsert = "update", s.set)
    ELSE IF s.source = "update" THEN Optional(col = "c", s.rows[1][1])
    ELSE IF s.source = "default" \/ col \notin ToSet(Columns(s)) THEN Optional(col = "d", default)
    ELSE LET j == CHOOSE j \in DOMAIN Columns(s) : Columns(s)[j] = col
         IN  s.rows[IF s.source = "values" THEN row ELSE 1][j]
Outcome(s, time) ==
    LET count == CASE s.source = "values" -> Len(s.rows)
                   [] s.source = "default" -> 1
                   [] OTHER -> 2
    IN  [p \in (1 .. count) \X {"c", "d", "set"} |->
            LET e == Expression(s, p[1], p[2])
            IN  IF PerEvaluation(e) THEN <<time, p[2], Fresh[p[1]]>>
                ELSE IF e = Now THEN <<time>> ELSE e]

----------------------------------------------------------------------------
(* sqlite_replay_preparation.py *)

\* The calls a tree holds: in its rows and in a DO UPDATE that was parsed.  Those of a
\* WITH prefix, which is a name here, are in neither this nor the Outcome.
Cells(s) ==
    (UNION {ToSet(s.rows[i]) : i \in DOMAIN s.rows}) \cup {c \in {s.set} : s.upsert = "update"}
AnyInsertValues(s, cell) == s.source = "values"    \* mutant: subqueries not looked at
SafeContext(s, cell) == s.source = "values" /\ cell # SubRandom
UnsafeCalls(s) == {c \in Cells(s) : PerEvaluation(c) /\ ~SafeContext(s, c)}

\* SELECT of one expression, n telling its place from the other ones.
Evaluated(cell, n) ==
    CASE cell = Now -> <<"then">>
      [] cell = Random -> <<Fresh[n]>>
      [] OTHER -> cell
ReplaceCalls(s) ==
    [s EXCEPT !.rows = [i \in DOMAIN @ |-> [j \in DOMAIN @[i] |->
                            Evaluated(@[i][j], (i - 1) * 2 + j)]],
              !.set = Evaluated(@, 2 * Len(s.rows) + 1)]

NeedsDefault(s, explicit) ==
    s.verb # "UPDATE" /\ "d" \notin explicit /\ Nondeterministic(default)
SharedSite(row) == 2    \* mutant: one evaluation for all rows
DefaultSite(row) == row * 2
AppendDefaults(s) ==
    [s EXCEPT !.columns = Append(@, "d"),
              !.rows = [i \in DOMAIN @ |-> Append(@[i], Evaluated(default, DefaultSite(i)))]]

\* mutant: the text the parser was given is kept
BlockedStripped(text) == [replay |-> StripUpsert(text), safe |-> FALSE]
Blocked(text) == [replay |-> text, safe |-> FALSE]
Verbatim(text) == [replay |-> text, safe |-> TRUE]

\* _rewrite_default_values_insert: the first DEFAULT VALUES of the text, quoted
\* or not, becomes VALUES (), and the parser is asked again.
WithEmptyValues(text) ==
    LET at == {i \in 1 .. Len(text) - 2 : /\ text[i] = "DEFAULT"
                                          /\ text[i + 1] \in Blanks
                                          /\ text[PastBlanks(text, i + 1)] = "VALUES"}
        first == CHOOSE i \in at : \A j \in at : i <= j
    IN  IF at = {} THEN text
        ELSE Before(text, first) \o <<"VALUES", "sp", "(", ")">>
             \o From(text, PastBlanks(text, first + 1) + 1)
EmptyInsert(s) == [s EXCEPT !.source = "values", !.rows = << <<>> >>]
DefaultValuesTrees(text, s) ==
    {r \in {EmptyInsert(s)} : Parses(r) /\ Render(r) = WithEmptyValues(text) /\ r # s}
DefaultValuesEntry(text, tree) ==
    IF NeedsDefault(tree, {}) THEN Verbatim(Rendered(AppendDefaults(tree))) ELSE Verbatim(text)

\* The rest of prepare_logged_sql, once there is a tree.
EntryOf(text, tree, compatible) ==
    LET omitted == NeedsDefault(tree, ToSet(Columns(tree)))
        replaced == ReplaceCalls(tree)
        final == IF omitted THEN AppendDefaults(replaced) ELSE replaced
    IN  IF UnsafeCalls(tree) # {} \/ (omitted /\ tree.source # "values") THEN Blocked(text)
        ELSE IF final = tree THEN Verbatim(text)
        ELSE IF compatible.strippedUpsert THEN Blocked(text)
        ELSE Verbatim(RestoreUpdate(Rendered(final), compatible.resolution))

Untouched(text) == [sql |-> text, resolution |-> NoResolution, strippedUpsert |-> FALSE]
PreparedEntries(s) ==
    LET text == Render(s)
        compatible == Normalized(text)
    IN  IF Trees(text, s) # {}
          THEN {EntryOf(text, tree, Untouched(text)) : tree \in Trees(text, s)}
        ELSE IF DefaultValuesTrees(text, s) # {}
          THEN {DefaultValuesEntry(text, tree) : tree \in DefaultValuesTrees(text, s)}
        ELSE IF compatible.sql = text \/ Trees(compatible.sql, s) = {}
          THEN {Blocked(text)}
        ELSE {EntryOf(text, tree, compatible) : tree \in Trees(compatible.sql, s)}

----------------------------------------------------------------------------
(* The specification *)

TypeOK ==
    /\ stmt \in Statements /\ default \in Defaults /\ parsesUpsert \in BOOLEAN
    /\ stage \in {"execute", "logged", "loaded", "checked"}
    /\ entry.safe \in BOOLEAN
    /\ stage # "execute" /\ ~entry.safe => entry.replay = Render(stmt)
    /\ \A text \in {entry.replay, loaded, strict} : ToSet(text) \subseteq Elements

Init ==
    /\ stmt \in Statements
    /\ default \in Defaults
    /\ parsesUpsert \in (IF stmt.upsert = "none" THEN {TRUE} ELSE BOOLEAN)
    /\ stage = "execute"
    /\ entry = [replay |-> <<>>, safe |-> FALSE] /\ loaded = <<>> /\ strict = <<>>

Prepare ==
    /\ stage = "execute"
    /\ stage' = "logged"
    /\ entry' \in PreparedEntries(stmt)
    /\ UNCHANGED <<stmt, default, parsesUpsert, loaded, strict>>
Load ==
    /\ stage = "logged"
    /\ stage' = "loaded"
    /\ loaded' = Neutralized(entry.replay)
    /\ UNCHANGED <<stmt, default, parsesUpsert, entry, strict>>
CheckStrict ==
    /\ stage = "loaded"
    /\ stage' = "checked"
    /\ strict' = StrictRewrite(loaded)
    /\ UNCHANGED <<stmt, default, parsesUpsert, entry, loaded>>

Next == Prepare \/ Load \/ CheckStrict
Spec == Init /\ [][Next]_vars

----------------------------------------------------------------------------
(* Properties *)

Materialized(s) ==
    LET empty == EmptyInsert(s)
        done == ReplaceCalls(s)
    IN  {s} \cup {[r EXCEPT !.semi = FALSE] : r \in {done, AppendDefaults(done), AppendDefaults(empty)}}
ReadAs(text) == UNION {Readings(text, s) : s \in Materialized(stmt)}
Meaning(s) == [update |-> s.verb = "UPDATE",
               clause |-> IF s.verb = "REPLACE" THEN "REPLACE" ELSE s.clause,
               upsert |-> s.upsert, where |-> s.where]
BlankGap == IsBlank(stmt.gap)

\* A statement logged as safe to replay leaves the same rows whenever it runs:
\* no clock, random value or DEFAULT is read again (prepare_logged_sql).
SafeReplaysTheSame ==
    stage # "execute" /\ entry.safe =>
        \E r \in ReadAs(entry.replay) : Outcome(r, "first") = Outcome(r, "later")
\* The same, but for a DO UPDATE the parser never saw.
SafeIsSettled ==
    (stmt.upsert = "update" /\ Nondeterministic(stmt.set) => Parses(stmt)) => SafeReplaysTheSame

\* The text that replaces a statement, and is executed in its place, does what
\* the statement would: the same clauses, the same literals, values that are
\* equal or differ where they would have.
ReplayMeansOriginal ==
    stage # "execute" /\ entry.safe =>
        \E r \in ReadAs(entry.replay) :
            LET was == Outcome(stmt, "first")
                is == Outcome(r, "first")
                compared == {p \in DOMAIN was : p[2] = "set" => ~PerEvaluation(stmt.set)}
            IN  /\ Meaning(r) = Meaning(stmt)
                /\ DOMAIN is = DOMAIN was
                /\ \A p \in compared :
                      /\ Outcome(stmt, "later")[p] = was[p] => is[p] = was[p]
                      /\ \A q \in compared : (was[p] = was[q]) <=> (is[p] = is[q])

\* What the loader hands to the merge is the logged statement without its OR
\* ROLLBACK, and nothing else is missing: no replay can roll the merge's
\* savepoints back (neutralize_rollback_conflict_resolution).
ReplayCannotRollBack ==
    stage \in {"loaded", "checked"} /\ BlankGap =>
        \E r \in ReadAs(entry.replay) :
            loaded = Render(IF r.clause = "ROLLBACK"
                            THEN [r EXCEPT !.clause = "none", !.gap = <<"sp">>] ELSE r)

\* The strict statement is the replayed one without OR IGNORE, OR REPLACE,
\* REPLACE INTO and UPSERT, whatever else its text holds; so the check compares
\* the same change with and without them (strict_conflict_resolution_rewrite).
StrictIsExact ==
    stage = "checked" /\ BlankGap =>
        \E r \in ReadAs(loaded) :
            LET noOr == IF r.clause \in Reviewable
                        THEN [r EXCEPT !.clause = "none", !.gap = <<"sp">>] ELSE r
                noReplace == IF r.verb = "REPLACE" THEN [noOr EXCEPT !.verb = "INSERT"] ELSE noOr
            IN  strict = Render(WithoutUpsert(noReplace))
============================================================================
