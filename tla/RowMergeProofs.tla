--------------------------- MODULE RowMergeProofs ---------------------------
(***************************************************************************)
(* Theorems about the row-level merge driver, for any schema and contents. *)
(***************************************************************************)
EXTENDS RowMergeSafety, TLAPS

(* The statements the diff of a side has for the tables that are checked,  *)
(* and what the driver should make of them.                                *)
Valid(k) == schema.tableOf[k] \notin invalid
Built == {k \in Diff(BuildSide) : Valid(k)}
Same(k) == ours[k] = theirs[k]
Entry(side, k) == IF Op(side, k) = "delete" THEN {} ELSE UniqueValues(side, k)
Clash(k, l) == Entry(LookupSide, k) \cap Entry(BuildSide, l) # {}

Matches(k) == k \in Built /\ Same(k)
Found(k) ==
    {[pair |-> Pair(l, l), kind |-> "primary_key"] : l \in {m \in {k} \cap Built : ~Same(m)}}
    \cup {[pair |-> Pair(k, l), kind |-> "unique_index"] :
            l \in {m \in Built : ~Matches(k) /\ Clash(k, m)}}
IsExtra(k) == Valid(k) /\ k \notin Built /\ Found(k) = {}

(* What a set of statements adds to the index of values, and to the        *)
(* conflicts.                                                              *)
EntriesAt(k) == {[value |-> u, key |-> k] : u \in Entry(BuildSide, k)}
EntriesOf(keys) == UNION {EntriesAt(k) : k \in keys}
FoundIn(keys) == UNION {Found(k) : k \in keys}
ValidIn(keys) == {k \in keys : Valid(k)}
Skipped(side, keys) == {<<side, k>> : k \in {l \in keys : ~Valid(l)}}

-----------------------------------------------------------------------------
(* The inputs are contents of the instance at work.                        *)
Given ==
    /\ instance \in DOMAIN Instances
    /\ base \in schema.tables /\ ours \in schema.tables /\ theirs \in schema.tables
    /\ IsUnique(base) /\ IsUnique(ours) /\ IsUnique(theirs)

(* What the driver has of the build side after the statements in read.     *)
Indexed(read) ==
    /\ byKey = ValidIn(read) /\ byUnique = EntriesOf(ValidIn(read))
    /\ matched = {} /\ conflicts = {} /\ extra = [s \in Sides |-> {}]
    /\ unchecked = Skipped(BuildSide, read)

(* What it has made of the statements read of the lookup side; rest are    *)
(* the keys it has taken over from the build side.                         *)
Compared(read, rest) ==
    /\ byUnique = EntriesOf(Built) /\ byKey = Built \ read
    /\ matched = {k \in read : Matches(k)}
    /\ conflicts = FoundIn(ValidIn(read))
    /\ extra = [s \in Sides |-> IF s = LookupSide THEN {k \in read : IsExtra(k)} ELSE rest]
    /\ unchecked = Skipped(BuildSide, Diff(BuildSide)) \cup Skipped(LookupSide, read)

Sorting ==
    /\ phase = "build" =>
          todo \subseteq Diff(BuildSide) /\ Indexed(Diff(BuildSide) \ todo)
    /\ phase = "lookup" =>
          todo \subseteq Diff(LookupSide) /\ Compared(Diff(LookupSide) \ todo, {})
    /\ Bucketed =>
          todo = {} /\ Compared(Diff(LookupSide), Built \ Diff(LookupSide))

(* How the driver ends, and only then.                                     *)
Ending ==
    /\ phase \in {"build", "lookup", "check", "apply", "done"}
    /\ outcome.exit = "running" <=> phase # "done"
    /\ outcome.report => phase = "done"

(* The statements the script is made of, and the file while they run: it   *)
(* is unique whatever was refused, keeps base where there is no statement, *)
(* and if none was refused has the row of every statement that has run.    *)
Chosen ==
    Statements(1, "ours", matched) \cup Statements(2, "ours", extra["ours"])
        \cup Statements(3, "theirs", extra["theirs"])

Assembling ==
    /\ outcome.report => script = {} /\ ~refused
    /\ (phase = "apply" \/ outcome.report) =>
          /\ script \subseteq Chosen
          /\ file = [k \in DOMAIN base |-> file[k]] /\ IsUnique(file)
          /\ \A k \in DOMAIN base :
                (\A s \in Chosen \ script : s.key # k) => file[k] = base[k]
          /\ ~refused => \A s \in Chosen \ script :
                           file[s.key] = Contents(s.side)[s.key]

-----------------------------------------------------------------------------
(* What the assumption on the instances says of the files.                 *)
LEMMA GivenContents ==
  ASSUME Given, NEW side \in Sides
  PROVE  /\ DOMAIN Contents(side) = DOMAIN schema.tableOf
         /\ DOMAIN base = DOMAIN schema.tableOf
         /\ base = [k \in DOMAIN base |-> base[k]]
         /\ IsUnique(Contents(side))
         /\ \A k \in DOMAIN base :
              /\ Contents(side)[k] # NoRow =>
                   Contents(side)[k] \in [schema.columns[schema.tableOf[k]] ->
                                            Range(Contents(side)[k])]
              /\ base[k] # NoRow =>
                   base[k] \in [schema.columns[schema.tableOf[k]] -> Range(base[k])]
         /\ \A index \in schema.unique : index # {}
         /\ \A index \in schema.unique, k \in DOMAIN base :
              index \subseteq schema.columns[schema.tableOf[k]]
<1>1. \A t \in schema.tables :
        /\ DOMAIN t = DOMAIN schema.tableOf /\ t = [k \in DOMAIN t |-> t[k]]
        /\ \A k \in DOMAIN t :
             t[k] # NoRow => t[k] \in [schema.columns[schema.tableOf[k]] -> Range(t[k])]
  BY InstancesAssumption DEF Given, schema
<1>2. /\ \A index \in schema.unique : index # {}
      /\ \A index \in schema.unique, k \in DOMAIN schema.tableOf :
           index \subseteq schema.columns[schema.tableOf[k]]
  BY InstancesAssumption DEF Given, schema
<1>3. Contents(side) \in schema.tables /\ IsUnique(Contents(side)) /\ base \in schema.tables
  BY DEF Given, Contents
<1> QED
  BY <1>1, <1>2, <1>3

(* The two sides.                                                          *)
LEMMA TwoSides ==
  /\ BuildSide \in Sides /\ LookupSide \in Sides /\ BuildSide # LookupSide
  /\ Sides = {BuildSide, LookupSide} /\ Sides = {"ours", "theirs"}
  /\ \A k : Same(k) <=> Contents(BuildSide)[k] = Contents(LookupSide)[k]
BY DEF Sides, BuildSide, LookupSide, Opposite, Contents, Same

(* The operation of a statement tells which of its two rows there are.     *)
LEMMA OpRows ==
  ASSUME NEW side, NEW k \in Diff(side)
  PROVE  /\ k \in DOMAIN base /\ base[k] # Contents(side)[k]
         /\ Op(side, k) = "insert" <=> base[k] = NoRow
         /\ Op(side, k) = "delete" <=> Contents(side)[k] = NoRow
         /\ Op(side, k) = "update" <=> base[k] # NoRow /\ Contents(side)[k] # NoRow
BY DEF Diff, Op

(* Two statements are equal exactly when they leave equal rows.            *)
LEMMA EqualStatements ==
  ASSUME Given, NEW k \in Diff("ours"), k \in Diff("theirs")
  PROVE  Same(k) <=> /\ Op("ours", k) = Op("theirs", k)
                     /\ Op("ours", k) # "delete" =>
                          ColumnToLiteral("ours", k) = ColumnToLiteral("theirs", k)
<1> DEFINE cols == schema.columns[schema.tableOf[k]]
<1>1. Contents("ours") = ours /\ Contents("theirs") = theirs
  BY DEF Contents
<1>2. /\ k \in DOMAIN base
      /\ base[k] # NoRow => base[k] \in [cols -> Range(base[k])]
      /\ ours[k] # NoRow => ours[k] \in [cols -> Range(ours[k])]
      /\ theirs[k] # NoRow => theirs[k] \in [cols -> Range(theirs[k])]
  BY <1>1, GivenContents, OpRows DEF Sides
<1> HIDE DEF cols
<1>3. ASSUME Same(k)
      PROVE  /\ Op("ours", k) = Op("theirs", k)
             /\ ColumnToLiteral("ours", k) = ColumnToLiteral("theirs", k)
  BY <1>1, <1>3 DEF Same, Op, ColumnToLiteral, ColumnsSet
<1>4. ASSUME Op("ours", k) = Op("theirs", k), Op("ours", k) = "delete" PROVE Same(k)
  BY <1>1, <1>4, OpRows DEF Same
<1>5. ASSUME Op("ours", k) = Op("theirs", k), Op("ours", k) = "insert",
             ColumnToLiteral("ours", k) = ColumnToLiteral("theirs", k)
      PROVE  Same(k)
  <2>1. ours[k] # NoRow /\ theirs[k] # NoRow
    BY <1>1, <1>5, OpRows
  <2>2. /\ ColumnToLiteral("ours", k) = [c \in DOMAIN ours[k] |-> ours[k][c]]
        /\ ColumnToLiteral("theirs", k) = [c \in DOMAIN theirs[k] |-> theirs[k][c]]
    BY <1>1, <1>5 DEF ColumnToLiteral, ColumnsSet
  <2>3. ours[k] = ColumnToLiteral("ours", k) /\ theirs[k] = ColumnToLiteral("theirs", k)
    BY <1>2, <2>1, <2>2
  <2> QED
    BY <1>5, <2>3 DEF Same
<1>6. ASSUME Op("ours", k) = Op("theirs", k), Op("ours", k) = "update",
             ColumnToLiteral("ours", k) = ColumnToLiteral("theirs", k)
      PROVE  Same(k)
  <2>1. base[k] # NoRow /\ ours[k] # NoRow /\ theirs[k] # NoRow
    BY <1>1, <1>6, OpRows
  <2> DEFINE O == {c \in cols : ours[k][c] # base[k][c]}
             T == {c \in cols : theirs[k][c] # base[k][c]}
  <2>2. /\ ColumnToLiteral("ours", k) = [c \in O |-> ours[k][c]]
        /\ ColumnToLiteral("theirs", k) = [c \in T |-> theirs[k][c]]
    BY <1>1, <1>2, <1>6, <2>1 DEF ColumnToLiteral, ColumnsSet
  <2>3. O = T /\ \A c \in O : ours[k][c] = theirs[k][c]
    <3>1. DOMAIN [c \in O |-> ours[k][c]] = DOMAIN [c \in T |-> theirs[k][c]]
      BY <1>6, <2>2
    <3>2. O = T
      BY <3>1
    <3>3. \A c \in O : [d \in O |-> ours[k][d]][c] = [d \in T |-> theirs[k][d]][c]
      BY <1>6, <2>2
    <3> QED
      BY <3>2, <3>3
  <2>4. \A c \in cols : ours[k][c] = theirs[k][c]
    BY <2>3
  <2>5. ours[k] = theirs[k]
    BY <1>2, <2>1, <2>4
  <2> QED
    BY <2>5 DEF Same
<1>7. Op("ours", k) \in {"insert", "delete", "update"}
  BY DEF Op
<1> QED
  BY <1>3, <1>4, <1>5, <1>6, <1>7

-----------------------------------------------------------------------------
(* Two statements that give an index one value: what it takes.             *)
LEMMA SharedValue ==
  ASSUME NEW s, NEW k, NEW t, NEW l
  PROVE  Entry(s, k) \cap Entry(t, l) # {} <=>
           /\ Op(s, k) # "delete" /\ Op(t, l) # "delete"
           /\ schema.tableOf[k] = schema.tableOf[l]
           /\ \E index \in schema.unique :
                /\ index \cap ColumnsSet(s, k) # {} /\ index \cap ColumnsSet(t, l) # {}
                /\ \A c \in index : /\ Contents(s)[k][c] # Null
                                    /\ Contents(s)[k][c] = Contents(t)[l][c]
<1> DEFINE Value(side, m, index) ==
             [table |-> schema.tableOf[m], values |-> [c \in index |-> Contents(side)[m][c]]]
           Relevant(side, m, index) ==
             /\ index \cap ColumnsSet(side, m) # {}
             /\ \A c \in index : Contents(side)[m][c] # Null
<1>1. \A side, m, u : u \in UniqueValues(side, m) <=>
         \E index \in schema.unique : Relevant(side, m, index) /\ u = Value(side, m, index)
  BY DEF UniqueValues
<1>2. \A index, jndex : Value(s, k, index) = Value(t, l, jndex) =>
         /\ schema.tableOf[k] = schema.tableOf[l] /\ index = jndex
         /\ \A c \in index : Contents(s)[k][c] = Contents(t)[l][c]
  <2> SUFFICES ASSUME NEW index, NEW jndex, Value(s, k, index) = Value(t, l, jndex)
               PROVE  /\ schema.tableOf[k] = schema.tableOf[l] /\ index = jndex
                      /\ \A c \in index : Contents(s)[k][c] = Contents(t)[l][c]
    OBVIOUS
  <2> DEFINE f == [c \in index |-> Contents(s)[k][c]]
             g == [c \in jndex |-> Contents(t)[l][c]]
  <2>1. schema.tableOf[k] = schema.tableOf[l] /\ f = g
    OBVIOUS
  <2>2. DOMAIN f = DOMAIN g /\ \A c \in index : f[c] = g[c]
    BY <2>1
  <2>3. index = jndex
    BY <2>2
  <2> QED
    BY <2>1, <2>2, <2>3
<1>3. ASSUME schema.tableOf[k] = schema.tableOf[l], NEW index,
             \A c \in index : Contents(s)[k][c] = Contents(t)[l][c]
      PROVE  Value(s, k, index) = Value(t, l, index)
  <2>1. [c \in index |-> Contents(s)[k][c]] = [c \in index |-> Contents(t)[l][c]]
    BY <1>3
  <2> QED
    BY <1>3, <2>1
<1> HIDE DEF Value
<1>4. ASSUME NEW u \in Entry(s, k), u \in Entry(t, l)
      PROVE  /\ Op(s, k) # "delete" /\ Op(t, l) # "delete"
             /\ schema.tableOf[k] = schema.tableOf[l]
             /\ \E index \in schema.unique :
                  /\ index \cap ColumnsSet(s, k) # {} /\ index \cap ColumnsSet(t, l) # {}
                  /\ \A c \in index : /\ Contents(s)[k][c] # Null
                                      /\ Contents(s)[k][c] = Contents(t)[l][c]
  <2>1. /\ Op(s, k) # "delete" /\ Op(t, l) # "delete"
        /\ u \in UniqueValues(s, k) /\ u \in UniqueValues(t, l)
    BY <1>4 DEF Entry
  <2>2. PICK index \in schema.unique : Relevant(s, k, index) /\ u = Value(s, k, index)
    BY <1>1, <2>1
  <2>3. PICK jndex \in schema.unique : Relevant(t, l, jndex) /\ u = Value(t, l, jndex)
    BY <1>1, <2>1
  <2>4. /\ schema.tableOf[k] = schema.tableOf[l] /\ index = jndex
        /\ \A c \in index : Contents(s)[k][c] = Contents(t)[l][c]
    BY <1>2, <2>2, <2>3
  <2>5. index \cap ColumnsSet(t, l) # {}
    BY <2>3, <2>4
  <2> QED
    BY <2>1, <2>2, <2>4, <2>5
<1>5. ASSUME Op(s, k) # "delete", Op(t, l) # "delete",
             schema.tableOf[k] = schema.tableOf[l], NEW index \in schema.unique,
             index \cap ColumnsSet(s, k) # {}, index \cap ColumnsSet(t, l) # {},
             \A c \in index : /\ Contents(s)[k][c] # Null
                              /\ Contents(s)[k][c] = Contents(t)[l][c]
      PROVE  Entry(s, k) \cap Entry(t, l) # {}
  <2>1. Relevant(s, k, index) /\ Relevant(t, l, index)
    BY <1>5
  <2>2. Value(s, k, index) \in UniqueValues(s, k)
    BY <1>1, <2>1
  <2>3. Value(t, l, index) \in UniqueValues(t, l)
    BY <1>1, <2>1
  <2>4. Value(s, k, index) = Value(t, l, index)
    BY <1>3, <1>5
  <2> QED
    BY <1>5, <2>2, <2>3, <2>4 DEF Entry
<1> QED
  BY <1>4, <1>5

(* A match shares no value with another statement of the build side: both  *)
(* would be in the build side's file.                                      *)
LEMMA MatchIsAlone ==
  ASSUME Given, NEW k \in Diff(LookupSide), NEW l \in Built, Matches(k), Clash(k, l)
  PROVE  k = l
<1> DEFINE B == BuildSide
           L == LookupSide
<1>1. B \in Sides /\ L \in Sides
  BY TwoSides
<1>2. k \in Diff(B) /\ l \in Diff(B) /\ Contents(B)[k] = Contents(L)[k]
  BY TwoSides DEF Matches, Built
<1>3. /\ Op(L, k) # "delete" /\ Op(B, l) # "delete"
      /\ schema.tableOf[k] = schema.tableOf[l]
      /\ \E index \in schema.unique :
           /\ index \cap ColumnsSet(L, k) # {} /\ index \cap ColumnsSet(B, l) # {}
           /\ \A c \in index : /\ Contents(L)[k][c] # Null
                               /\ Contents(L)[k][c] = Contents(B)[l][c]
  BY SharedValue DEF Clash
<1>4. k \in DOMAIN base /\ l \in DOMAIN base /\ Contents(L)[k] # NoRow /\ Contents(B)[l] # NoRow
  BY <1>2, <1>3, OpRows
<1>5. /\ DOMAIN Contents(B) = DOMAIN base /\ IsUnique(Contents(B))
  BY <1>1, GivenContents
<1> HIDE DEF B, L
<1>6. PICK index \in schema.unique : \A c \in index : /\ Contents(L)[k][c] # Null
                                                      /\ Contents(L)[k][c] = Contents(B)[l][c]
  BY <1>3
<1>7. k # l => \E c \in index : Contents(B)[k][c] # Contents(B)[l][c]
  BY <1>2, <1>3, <1>4, <1>5, <1>6 DEF IsUnique
<1> QED
  BY <1>2, <1>6, <1>7

-----------------------------------------------------------------------------
(* No step changes the inputs.                                             *)
LEMMA InputsFixed == [Next]_rowVars => UNCHANGED inputs
BY DEF Next, rowVars, inputs, SkipInvalid, Build, LookupDelete, LookupMatch, LookupChange,
       StartLookup, CollectRemaining, ForeignKeyCheckRaises, CopyBase, ApplyStatement, Finish

(* So nothing made of them changes either.                                 *)
LEMMA InputsKept ==
  ASSUME UNCHANGED inputs
  PROVE  /\ schema' = schema /\ BuildSide' = BuildSide /\ LookupSide' = LookupSide
         /\ Given' = Given /\ Built' = Built
         /\ \A s : Diff(s)' = Diff(s) /\ Contents(s)' = Contents(s)
         /\ \A s, k : Op(s, k)' = Op(s, k) /\ Entry(s, k)' = Entry(s, k)
         /\ \A k : /\ Valid(k)' = Valid(k) /\ Same(k)' = Same(k) /\ Matches(k)' = Matches(k)
                   /\ Found(k)' = Found(k) /\ IsExtra(k)' = IsExtra(k)
         /\ \A k, l : Clash(k, l)' = Clash(k, l) /\ Pair(k, l)' = Pair(k, l)
         /\ \A keys : /\ EntriesOf(keys)' = EntriesOf(keys) /\ FoundIn(keys)' = FoundIn(keys)
                      /\ ValidIn(keys)' = ValidIn(keys)
         /\ \A s, keys : Skipped(s, keys)' = Skipped(s, keys)
<1>1. /\ base' = base /\ ours' = ours /\ theirs' = theirs
      /\ instance' = instance /\ invalid' = invalid
  BY DEF inputs
<1>2. schema' = schema /\ \A s : Contents(s)' = Contents(s)
  BY <1>1 DEF schema, Contents
<1>3. \A s : Diff(s)' = Diff(s)
  BY <1>1, <1>2 DEF Diff
<1>4. BuildSide' = BuildSide /\ LookupSide' = LookupSide
  BY <1>3 DEF BuildSide, LookupSide
<1>5. \A s, k : Op(s, k)' = Op(s, k)
  BY <1>1, <1>2 DEF Op
<1>6. \A s, k : UniqueValues(s, k)' = UniqueValues(s, k)
  BY <1>1, <1>2, <1>5 DEF UniqueValues, ColumnsSet
<1>7. \A s, k : Entry(s, k)' = Entry(s, k)
  BY <1>5, <1>6 DEF Entry
<1>8. \A k : Valid(k)' = Valid(k) /\ Same(k)' = Same(k)
  BY <1>1, <1>2 DEF Valid, Same
<1>9. Built' = Built
  BY <1>3, <1>4, <1>8 DEF Built
<1>10. \A k : Matches(k)' = Matches(k)
  BY <1>8, <1>9 DEF Matches
<1>11. \A k, l : Clash(k, l)' = Clash(k, l) /\ Pair(k, l)' = Pair(k, l)
  BY <1>4, <1>7 DEF Clash, Pair
<1>12. \A k : Found(k)' = Found(k)
  BY <1>8, <1>9, <1>10, <1>11 DEF Found
<1>13. \A k : IsExtra(k)' = IsExtra(k)
  BY <1>8, <1>9, <1>12 DEF IsExtra
<1>14. Given' = Given
  BY <1>1, <1>2 DEF Given, IsUnique
<1>15. \A keys : /\ EntriesOf(keys)' = EntriesOf(keys) /\ FoundIn(keys)' = FoundIn(keys)
                 /\ ValidIn(keys)' = ValidIn(keys)
  BY <1>4, <1>7, <1>8, <1>12 DEF EntriesOf, EntriesAt, FoundIn, ValidIn
<1>16. \A s, keys : Skipped(s, keys)' = Skipped(s, keys)
  BY <1>8 DEF Skipped
<1> QED
  BY <1>2, <1>3, <1>4, <1>5, <1>7, <1>8, <1>9, <1>10, <1>11, <1>12, <1>13, <1>14, <1>15, <1>16

-----------------------------------------------------------------------------
(* What one more statement adds.                                           *)
LEMMA OneMore ==
  ASSUME NEW keys, NEW k
  PROVE  /\ EntriesOf({}) = {} /\ FoundIn({}) = {} /\ ValidIn({}) = {}
         /\ \A s : Skipped(s, {}) = {}
         /\ EntriesOf(keys \cup {k}) = EntriesOf(keys) \cup EntriesAt(k)
         /\ FoundIn(keys \cup {k}) = FoundIn(keys) \cup Found(k)
         /\ ValidIn(keys \cup {k}) = ValidIn(keys) \cup (IF Valid(k) THEN {k} ELSE {})
         /\ \A s : Skipped(s, keys \cup {k})
                     = Skipped(s, keys) \cup (IF Valid(k) THEN {} ELSE {<<s, k>>})
<1>1. /\ EntriesOf({}) = {}
      /\ EntriesOf(keys \cup {k})
            = EntriesOf(keys) \cup EntriesAt(k)
  <2>1. \A ks : EntriesOf(ks) = UNION {EntriesAt(l) : l \in ks}
    BY DEF EntriesOf
  <2>2. \A ks : \A e : e \in EntriesOf(ks) <=> \E l \in ks : e \in EntriesAt(l)
    BY <2>1
  <2>3. \A e : e \in EntriesOf(keys \cup {k}) <=> e \in EntriesOf(keys) \/ e \in EntriesAt(k)
    BY <2>2
  <2>4. EntriesOf(keys \cup {k}) = EntriesOf(keys) \cup EntriesAt(k)
    BY <2>3
  <2>5. EntriesOf({}) = {}
    BY <2>2
  <2> QED
    BY <2>4, <2>5
<1>2. /\ FoundIn({}) = {}
      /\ FoundIn(keys \cup {k}) = FoundIn(keys) \cup Found(k)
  BY DEF FoundIn
<1>3. /\ ValidIn({}) = {}
      /\ ValidIn(keys \cup {k}) = ValidIn(keys) \cup (IF Valid(k) THEN {k} ELSE {})
  BY DEF ValidIn
<1>4. /\ \A s : Skipped(s, {}) = {}
      /\ \A s : Skipped(s, keys \cup {k})
                  = Skipped(s, keys) \cup (IF Valid(k) THEN {} ELSE {<<s, k>>})
  BY DEF Skipped
<1> QED
  BY <1>1, <1>2, <1>3, <1>4

(* The index of values has the entries of the statements it was made of.   *)
LEMMA EntriesRead ==
  ASSUME NEW keys
  PROVE  /\ \A e \in EntriesOf(keys) : e.key \in keys /\ e.value \in Entry(BuildSide, e.key)
         /\ \A l \in keys : \A u \in Entry(BuildSide, l) :
              [value |-> u, key |-> l] \in EntriesOf(keys)
<1>1. ASSUME NEW e \in EntriesOf(keys)
      PROVE  e.key \in keys /\ e.value \in Entry(BuildSide, e.key)
  <2>1. PICK l \in keys : e \in EntriesAt(l)
    BY DEF EntriesOf
  <2>2. PICK u \in Entry(BuildSide, l) : e = [value |-> u, key |-> l]
    BY <2>1 DEF EntriesAt
  <2> QED
    BY <2>2
<1>2. ASSUME NEW l \in keys, NEW u \in Entry(BuildSide, l)
      PROVE  [value |-> u, key |-> l] \in EntriesOf(keys)
  BY DEF EntriesOf, EntriesAt
<1> QED
  BY <1>1, <1>2

(* A match is what the driver takes for one.                               *)
LEMMA MatchSeen ==
  ASSUME Given, NEW k \in Diff(LookupSide)
  PROVE  Matches(k) <=>
           /\ k \in Built /\ Op(BuildSide, k) = Op(LookupSide, k)
           /\ Op(LookupSide, k) # "delete" =>
                ColumnToLiteral(BuildSide, k) = ColumnToLiteral(LookupSide, k)
<1>1. k \in Built => k \in Diff("ours") /\ k \in Diff("theirs")
  BY DEF Built, BuildSide, LookupSide, Opposite
<1>2. ASSUME k \in Built
      PROVE  Same(k) <=> /\ Op("ours", k) = Op("theirs", k)
                         /\ Op("ours", k) # "delete" =>
                              ColumnToLiteral("ours", k) = ColumnToLiteral("theirs", k)
  BY <1>1, <1>2, EqualStatements
<1>3. \/ BuildSide = "ours" /\ LookupSide = "theirs"
      \/ BuildSide = "theirs" /\ LookupSide = "ours"
  BY DEF BuildSide, LookupSide, Opposite
<1>4. CASE BuildSide = "ours" /\ LookupSide = "theirs"
  BY <1>2, <1>4 DEF Matches
<1>5. CASE BuildSide = "theirs" /\ LookupSide = "ours"
  BY <1>2, <1>5 DEF Matches
<1> QED
  BY <1>3, <1>4, <1>5

-----------------------------------------------------------------------------
(* The build phase: a statement read adds itself to both indexes.          *)
LEMMA IndexOneMore ==
  ASSUME UNCHANGED inputs, NEW read, Indexed(read), NEW k, k \notin read,
         byKey' = byKey \cup (IF Valid(k) THEN {k} ELSE {}),
         byUnique' = byUnique \cup
           (IF Valid(k) THEN EntriesAt(k) ELSE {}),
         unchecked' = unchecked \cup (IF Valid(k) THEN {} ELSE {<<BuildSide, k>>}),
         UNCHANGED <<matched, extra, conflicts>>
  PROVE  Indexed(read \cup {k})'
<1> DEFINE more == read \cup {k}
           keys == ValidIn(read)
<1>1. ValidIn(more) = keys \cup (IF Valid(k) THEN {k} ELSE {})
  BY OneMore
<1>2. EntriesOf(ValidIn(more)) = EntriesOf(keys) \cup
        (IF Valid(k) THEN EntriesAt(k) ELSE {})
  <2>1. CASE Valid(k)
    <3>1. ValidIn(more) = keys \cup {k}
      BY <1>1, <2>1
    <3> HIDE DEF keys
    <3>2. EntriesOf(keys \cup {k})
            = EntriesOf(keys) \cup EntriesAt(k)
      BY OneMore, Zenon
    <3> QED
      BY <2>1, <3>1, <3>2
  <2>2. CASE ~Valid(k)
    BY <1>1, <2>2
  <2> QED
    BY <2>1, <2>2
<1>3. Skipped(BuildSide, more)
        = Skipped(BuildSide, read) \cup (IF Valid(k) THEN {} ELSE {<<BuildSide, k>>})
  <2>1. \A s : Skipped(s, read \cup {k})
              = Skipped(s, read) \cup (IF Valid(k) THEN {} ELSE {<<s, k>>})
    BY OneMore, ZenonT(60)
  <2> QED
    BY <2>1
<1> HIDE DEF more, keys
<1>4. /\ BuildSide' = BuildSide /\ ValidIn(more)' = ValidIn(more)
      /\ EntriesOf(ValidIn(more))' = EntriesOf(ValidIn(more))
      /\ Skipped(BuildSide, more)' = Skipped(BuildSide, more)
  BY InputsKept DEF more
<1>5. /\ byKey = keys /\ byUnique = EntriesOf(keys)
      /\ matched = {} /\ conflicts = {} /\ extra = [s \in Sides |-> {}]
      /\ unchecked = Skipped(BuildSide, read)
  BY DEF Indexed, keys
<1>6. /\ byKey' = ValidIn(more)' /\ byUnique' = EntriesOf(ValidIn(more))'
      /\ unchecked' = Skipped(BuildSide, more)'
  BY <1>1, <1>2, <1>3, <1>4, <1>5
<1>7. Indexed(more)'
  BY <1>5, <1>6 DEF Indexed
<1> QED
  BY <1>7 DEF more

(* The lookup phase: a statement read goes to the bucket it belongs in.    *)
LEMMA CompareOneMore ==
  ASSUME UNCHANGED inputs, NEW read, Compared(read, {}), NEW k,
         byKey' = byKey \ {k},
         matched' = matched \cup (IF Matches(k) THEN {k} ELSE {}),
         conflicts' = conflicts \cup (IF Valid(k) THEN Found(k) ELSE {}),
         extra' = IF IsExtra(k) THEN [extra EXCEPT ![LookupSide] = @ \cup {k}] ELSE extra,
         unchecked' = unchecked \cup (IF Valid(k) THEN {} ELSE {<<LookupSide, k>>}),
         UNCHANGED byUnique
  PROVE  Compared(read \cup {k}, {})'
<1> DEFINE more == read \cup {k}
           skipped == Skipped(BuildSide, Diff(BuildSide))
<1>1. /\ byUnique = EntriesOf(Built) /\ byKey = Built \ read
      /\ matched = {l \in read : Matches(l)}
      /\ conflicts = FoundIn(ValidIn(read))
      /\ extra = [s \in Sides |-> IF s = LookupSide THEN {l \in read : IsExtra(l)} ELSE {}]
      /\ unchecked = skipped \cup Skipped(LookupSide, read)
  BY DEF Compared
<1>2. FoundIn(ValidIn(more)) = FoundIn(ValidIn(read)) \cup (IF Valid(k) THEN Found(k) ELSE {})
  <2>1. ValidIn(more) = ValidIn(read) \cup (IF Valid(k) THEN {k} ELSE {})
    BY OneMore
  <2> DEFINE keys == ValidIn(read)
  <2>2. FoundIn(keys \cup {k}) = FoundIn(keys) \cup Found(k)
    BY OneMore
  <2>3. CASE Valid(k)
    <3>1. ValidIn(more) = keys \cup {k}
      BY <2>1, <2>3
    <3> QED
      BY <2>2, <2>3, <3>1
  <2>4. CASE ~Valid(k)
    BY <2>1, <2>4
  <2> QED
    BY <2>3, <2>4
<1>3. Skipped(LookupSide, more)
        = Skipped(LookupSide, read) \cup (IF Valid(k) THEN {} ELSE {<<LookupSide, k>>})
  <2>1. \A s : Skipped(s, read \cup {k})
              = Skipped(s, read) \cup (IF Valid(k) THEN {} ELSE {<<s, k>>})
    BY OneMore, ZenonT(60)
  <2> QED
    BY <2>1
<1>4. {l \in more : Matches(l)}
        = {l \in read : Matches(l)} \cup (IF Matches(k) THEN {k} ELSE {})
  OBVIOUS
<1>5. {l \in more : IsExtra(l)}
        = {l \in read : IsExtra(l)} \cup (IF IsExtra(k) THEN {k} ELSE {})
  OBVIOUS
<1>6. extra' = [s \in Sides |-> IF s = LookupSide THEN {l \in more : IsExtra(l)} ELSE {}]
  <2>1. LookupSide \in Sides
    BY TwoSides
  <2> HIDE DEF more
  <2>2. CASE IsExtra(k)
    <3> DEFINE E == {l \in read : IsExtra(l)}
               M == {l \in more : IsExtra(l)}
    <3>1. M = E \cup {k}
      BY <1>5, <2>2
    <3>2. extra = [s \in Sides |-> IF s = LookupSide THEN E ELSE {}]
      BY <1>1
    <3>3. extra' = [extra EXCEPT ![LookupSide] = @ \cup {k}]
      BY <2>2
    <3> HIDE DEF E, M
    <3>4. extra' = [s \in Sides |-> IF s = LookupSide THEN M ELSE {}]
      BY <2>1, <3>1, <3>2, <3>3
    <3> QED
      BY <3>4 DEF M
  <2>3. CASE ~IsExtra(k)
    <3>1. {l \in more : IsExtra(l)} = {l \in read : IsExtra(l)}
      BY <1>5, <2>3
    <3> QED
      BY <1>1, <2>3, <3>1
  <2> QED
    BY <2>2, <2>3
<1> HIDE DEF more, skipped
<1>7. /\ BuildSide' = BuildSide /\ LookupSide' = LookupSide /\ Built' = Built
      /\ EntriesOf(Built)' = EntriesOf(Built)
      /\ FoundIn(ValidIn(more))' = FoundIn(ValidIn(more))
      /\ Skipped(LookupSide, more)' = Skipped(LookupSide, more) /\ skipped' = skipped
      /\ {l \in more : Matches(l)}' = {l \in more : Matches(l)}
      /\ {l \in more : IsExtra(l)}' = {l \in more : IsExtra(l)}
  <2>1. /\ BuildSide' = BuildSide /\ LookupSide' = LookupSide /\ Built' = Built
        /\ \A s : Diff(s)' = Diff(s)
        /\ \A l : Matches(l)' = Matches(l) /\ IsExtra(l)' = IsExtra(l)
        /\ \A keys : /\ EntriesOf(keys)' = EntriesOf(keys) /\ FoundIn(keys)' = FoundIn(keys)
                     /\ ValidIn(keys)' = ValidIn(keys)
        /\ \A s, keys : Skipped(s, keys)' = Skipped(s, keys)
    BY InputsKept
  <2> QED
    BY <2>1 DEF skipped, more
<1>8. /\ byUnique' = EntriesOf(Built)' /\ byKey' = Built' \ more
      /\ matched' = {l \in more : Matches(l)}'
      /\ conflicts' = FoundIn(ValidIn(more))'
      /\ unchecked' = skipped' \cup Skipped(LookupSide, more)'
  <2>1. byKey' = Built \ more
    BY <1>1 DEF more
  <2>2. byUnique' = EntriesOf(Built) /\ matched' = {l \in more : Matches(l)}
    BY <1>1, <1>4
  <2>3. conflicts' = FoundIn(ValidIn(more))
    BY <1>1, <1>2
  <2>4. unchecked' = skipped \cup Skipped(LookupSide, more)
    BY <1>1, <1>3
  <2> QED
    BY <1>7, <2>1, <2>2, <2>3, <2>4
<1>9. Compared(more, {})'
  BY <1>6, <1>7, <1>8 DEF Compared, skipped
<1> QED
  BY <1>9 DEF more

-----------------------------------------------------------------------------
(* What the handlers of the lookup phase find is what there is.            *)
LEMMA DeleteFinds ==
  ASSUME Given, NEW k \in Diff(LookupSide), Valid(k), Op(LookupSide, k) = "delete"
  PROVE  /\ k \notin Built => Found(k) = {} /\ IsExtra(k) /\ ~Matches(k)
         /\ k \in Built /\ Op(BuildSide, k) = "delete" =>
              Found(k) = {} /\ ~IsExtra(k) /\ Matches(k)
         /\ k \in Built /\ Op(BuildSide, k) = "update" =>
              Found(k) = PkConflict(k) /\ ~IsExtra(k) /\ ~Matches(k)
<1>1. \A l : ~Clash(k, l)
  BY DEF Clash, Entry
<1>2. Found(k) = {[pair |-> Pair(l, l), kind |-> "primary_key"] :
                    l \in {m \in {k} \cap Built : ~Same(m)}}
  BY <1>1 DEF Found
<1>3. Matches(k) <=> k \in Built /\ Op(BuildSide, k) = "delete"
  BY MatchSeen
<1>4. ASSUME k \notin Built PROVE Found(k) = {} /\ IsExtra(k) /\ ~Matches(k)
  BY <1>2, <1>4 DEF IsExtra, Matches
<1>5. ASSUME k \in Built, Op(BuildSide, k) = "delete"
      PROVE  Found(k) = {} /\ ~IsExtra(k) /\ Matches(k)
  <2>1. Matches(k) /\ Same(k)
    BY <1>3, <1>5 DEF Matches
  <2> QED
    BY <1>2, <1>5, <2>1 DEF IsExtra
<1>6. ASSUME k \in Built, Op(BuildSide, k) = "update"
      PROVE  Found(k) = PkConflict(k) /\ ~IsExtra(k) /\ ~Matches(k)
  <2>1. ~Matches(k) /\ ~Same(k)
    BY <1>3, <1>6 DEF Matches
  <2>2. {m \in {k} \cap Built : ~Same(m)} = {k}
    BY <1>6, <2>1
  <2>3. Found(k) = PkConflict(k)
    BY <1>2, <2>2 DEF PkConflict
  <2> QED
    BY <1>6, <2>1, <2>3 DEF IsExtra
<1> QED
  BY <1>4, <1>5, <1>6

(* A match is in no conflict and is not extra.                             *)
LEMMA MatchFinds ==
  ASSUME NEW k, Matches(k)
  PROVE  Found(k) = {} /\ ~IsExtra(k)
<1>1. k \in Built /\ Same(k)
  BY DEF Matches
<1>2. {m \in {k} \cap Built : ~Same(m)} = {} /\ {m \in Built : ~Matches(k) /\ Clash(k, m)} = {}
  BY <1>1
<1> QED
  BY <1>1, <1>2 DEF Found, IsExtra

(* What the lookup of a change that is no match puts among the conflicts.  *)
LEMMA ChangeFinds ==
  ASSUME NEW k, Op(LookupSide, k) # "delete", ~Matches(k), byUnique = EntriesOf(Built)
  PROVE  Found(k) = UniqueConflicts(k) \cup (IF k \in Built THEN PkConflict(k) ELSE {})
<1>1. Entry(LookupSide, k) = UniqueValues(LookupSide, k)
  BY DEF Entry
<1> DEFINE Of(l) == [pair |-> Pair(k, l), kind |-> "unique_index"]
           clashing == {m \in Built : ~Matches(k) /\ Clash(k, m)}
           entries == {f \in byUnique : f.value \in UniqueValues(LookupSide, k)}
<1>2. ASSUME NEW l \in clashing PROVE \E e \in entries : e.key = l
  <2>1. PICK u : u \in Entry(LookupSide, k) /\ u \in Entry(BuildSide, l)
    BY DEF Clash
  <2>2. [value |-> u, key |-> l] \in byUnique
    BY <2>1, EntriesRead
  <2>3. [value |-> u, key |-> l] \in entries
    BY <1>1, <2>1, <2>2
  <2> QED
    BY <2>3
<1>3. ASSUME NEW e \in entries PROVE e.key \in clashing
  <2>1. e.key \in Built /\ e.value \in Entry(BuildSide, e.key)
    BY EntriesRead
  <2> QED
    BY <1>1, <2>1 DEF Clash
<1>4. {Of(l) : l \in clashing} = {Of(e.key) : e \in entries}
  <2> HIDE DEF clashing, entries, Of
  <2> QED
    BY <1>2, <1>3
<1>5. UniqueConflicts(k) = {Of(l) : l \in clashing}
  BY <1>4 DEF UniqueConflicts
<1>6. {[pair |-> Pair(l, l), kind |-> "primary_key"] : l \in {m \in {k} \cap Built : ~Same(m)}}
        = IF k \in Built THEN PkConflict(k) ELSE {}
  <2>1. {m \in {k} \cap Built : ~Same(m)} = IF k \in Built THEN {k} ELSE {}
    BY DEF Matches
  <2> QED
    BY <2>1 DEF PkConflict
<1> QED
  BY <1>5, <1>6 DEF Found

-----------------------------------------------------------------------------
(* Reading a statement moves it from todo to what has been read.           *)
LEMMA ReadOne ==
  ASSUME NEW all, todo \subseteq all, NEW k \in todo, todo' = todo \ {k}
  PROVE  /\ todo' \subseteq all /\ k \in all /\ k \notin all \ todo
         /\ all \ todo' = (all \ todo) \cup {k}
OBVIOUS

(* What Sorting asks of the next state.                                    *)
LEMMA SortingNext ==
  ASSUME UNCHANGED inputs, NEW read
  PROVE  /\ phase' = "build" /\ todo' \subseteq Diff(BuildSide)
              /\ read = Diff(BuildSide) \ todo' /\ Indexed(read)' => Sorting'
         /\ phase' = "lookup" /\ todo' \subseteq Diff(LookupSide)
              /\ read = Diff(LookupSide) \ todo' /\ Compared(read, {})' => Sorting'
         /\ phase' \in {"check", "apply", "done"} /\ todo' = {}
              /\ read = Built \ Diff(LookupSide) /\ Compared(Diff(LookupSide), read)' => Sorting'
<1> DEFINE B == Diff(BuildSide)
           L == Diff(LookupSide)
<1>1. B' = B /\ L' = L /\ Built' = Built
  BY InputsKept
<1>2. ASSUME phase' = "build", todo' \subseteq B, read = B \ todo', Indexed(read)'
      PROVE  Sorting'
  <2>1. Indexed(B \ todo)'
    BY <1>1, <1>2 DEF Indexed
  <2> QED
    BY <1>1, <1>2, <2>1 DEF Sorting, Bucketed
<1>3. ASSUME phase' = "lookup", todo' \subseteq L, read = L \ todo', Compared(read, {})'
      PROVE  Sorting'
  <2>1. Compared(L \ todo, {})'
    BY <1>1, <1>3 DEF Compared
  <2> QED
    BY <1>1, <1>3, <2>1 DEF Sorting, Bucketed
<1>4. ASSUME phase' \in {"check", "apply", "done"}, todo' = {}, read = Built \ L,
             Compared(L, read)'
      PROVE  Sorting'
  <2>1. Compared(L, Built \ L)'
    BY <1>1, <1>4 DEF Compared
  <2> QED
    BY <1>1, <1>4, <2>1 DEF Sorting, Bucketed
<1> QED
  BY <1>2, <1>3, <1>4

-----------------------------------------------------------------------------
(* Sorting holds at the start, and every action keeps it.                  *)
LEMMA SortingInit == Init => Given /\ Sorting
<1> SUFFICES ASSUME Init PROVE Given /\ Sorting
  OBVIOUS
<1>1. Given
  BY DEF Init, Given
<1>2. Indexed({})
  <2>1. ValidIn({}) = {} /\ EntriesOf({}) = {} /\ Skipped(BuildSide, {}) = {}
    BY OneMore, Zenon
  <2> QED
    BY <2>1 DEF Init, Indexed
<1>3. Diff(BuildSide) \ todo = {} /\ todo \subseteq Diff(BuildSide) /\ phase = "build"
  BY DEF Init
<1>4. Sorting
  BY <1>2, <1>3 DEF Sorting, Bucketed
<1> QED
  BY <1>1, <1>4

(* One statement of the build side.                                        *)
LEMMA SortingBuild ==
  ASSUME Given, Sorting, NEW k \in todo, Reads("build", k),
         Build(k) \/ SkipInvalid(k)
  PROVE  Sorting'
<1>1. UNCHANGED inputs /\ phase = "build" /\ phase' = "build" /\ todo' = todo \ {k}
  BY DEF Build, SkipInvalid, Reads
<1>r. PICK read : read = Diff(BuildSide) \ todo
  OBVIOUS
<1>m. PICK more : more = read \cup {k}
  OBVIOUS
<1>2. todo \subseteq Diff(BuildSide) /\ Indexed(read)
  BY <1>1, <1>r DEF Sorting
<1>3. /\ todo' \subseteq Diff(BuildSide) /\ k \in Diff(BuildSide) /\ k \notin read
      /\ more = Diff(BuildSide) \ todo'
  BY <1>1, <1>2, <1>r, <1>m, ReadOne
<1>4. /\ byKey' = byKey \cup (IF Valid(k) THEN {k} ELSE {})
      /\ byUnique' = byUnique \cup (IF Valid(k) THEN EntriesAt(k) ELSE {})
      /\ unchecked' = unchecked \cup (IF Valid(k) THEN {} ELSE {<<BuildSide, k>>})
      /\ UNCHANGED <<matched, extra, conflicts>>
  <2>1. CASE Build(k)
    <3>1. (IF Op(BuildSide, k) = "delete" THEN {}
           ELSE {[value |-> u, key |-> k] : u \in UniqueValues(BuildSide, k)})
             = EntriesAt(k)
      BY DEF EntriesAt, Entry
    <3>2. Valid(k) /\ byUnique' = byUnique \cup EntriesAt(k)
      BY <2>1, <3>1 DEF Build, Valid
    <3> QED
      BY <2>1, <3>2 DEF Build, buckets
  <2>2. CASE SkipInvalid(k)
    BY <1>1, <2>2 DEF SkipInvalid, Reads, Valid
  <2> QED
    BY <2>1, <2>2
<1>5. Indexed(more)'
  BY <1>1, <1>2, <1>3, <1>4, <1>m, IndexOneMore
<1> QED
  BY <1>1, <1>3, <1>5, SortingNext

(* One statement of the lookup side.                                       *)
LEMMA SortingLookup ==
  ASSUME Given, Sorting, NEW k \in todo, Reads("lookup", k),
         SkipInvalid(k) \/ LookupDelete(k) \/ LookupMatch(k) \/ LookupChange(k)
  PROVE  Sorting'
<1>1. UNCHANGED <<inputs, phase, byUnique>> /\ phase = "lookup" /\ todo' = todo \ {k}
  BY DEF SkipInvalid, LookupDelete, LookupMatch, LookupChange, Reads
<1>r. PICK read : read = Diff(LookupSide) \ todo
  OBVIOUS
<1>m. PICK more : more = read \cup {k}
  OBVIOUS
<1>2. todo \subseteq Diff(LookupSide) /\ Compared(read, {})
  BY <1>1, <1>r DEF Sorting
<1>3. /\ todo' \subseteq Diff(LookupSide) /\ k \in Diff(LookupSide) /\ k \notin read
      /\ more = Diff(LookupSide) \ todo'
  BY <1>1, <1>2, <1>r, <1>m, ReadOne
<1>4. byUnique = EntriesOf(Built) /\ (k \in byKey <=> k \in Built)
  BY <1>2, <1>3 DEF Compared
<1>5. /\ byKey' = byKey \ {k}
      /\ matched' = matched \cup (IF Matches(k) THEN {k} ELSE {})
      /\ conflicts' = conflicts \cup (IF Valid(k) THEN Found(k) ELSE {})
      /\ extra' = IF IsExtra(k) THEN [extra EXCEPT ![LookupSide] = @ \cup {k}] ELSE extra
      /\ unchecked' = unchecked \cup (IF Valid(k) THEN {} ELSE {<<LookupSide, k>>})
  <2>1. CASE SkipInvalid(k)
    <3>1. ~Valid(k) /\ k \notin byKey /\ ~Matches(k) /\ ~IsExtra(k)
      BY <1>4, <2>1 DEF SkipInvalid, Valid, Built, Matches, IsExtra
    <3>2. /\ UNCHANGED <<byKey, matched, extra, conflicts>>
          /\ unchecked' = unchecked \cup {<<LookupSide, k>>}
      BY <1>1, <2>1 DEF SkipInvalid, Reads
    <3> QED
      BY <3>1, <3>2
  <2>2. CASE LookupDelete(k)
    <3>1. /\ Valid(k) /\ Op(LookupSide, k) = "delete"
          /\ byKey' = byKey \ {k} /\ unchecked' = unchecked
      BY <2>2 DEF LookupDelete, Valid
    <3>2. \/ k \notin Built /\ AddExtra(k) /\ UNCHANGED <<matched, conflicts>>
          \/ /\ k \in Built /\ Op(BuildSide, k) = "delete"
             /\ matched' = matched \cup {k} /\ UNCHANGED <<extra, conflicts>>
          \/ /\ k \in Built /\ Op(BuildSide, k) = "update"
             /\ conflicts' = conflicts \cup PkConflict(k) /\ UNCHANGED <<matched, extra>>
      BY <1>4, <2>2 DEF LookupDelete
    <3>3. /\ k \notin Built => Found(k) = {} /\ IsExtra(k) /\ ~Matches(k)
          /\ k \in Built /\ Op(BuildSide, k) = "delete" =>
               Found(k) = {} /\ ~IsExtra(k) /\ Matches(k)
          /\ k \in Built /\ Op(BuildSide, k) = "update" =>
               Found(k) = PkConflict(k) /\ ~IsExtra(k) /\ ~Matches(k)
      BY <1>3, <3>1, DeleteFinds
    <3> QED
      BY <3>1, <3>2, <3>3 DEF AddExtra
  <2>3. CASE LookupMatch(k)
    <3>1. Valid(k) /\ Matches(k)
      BY <1>3, <1>4, <2>3, MatchSeen DEF LookupMatch, Valid, IsMatch
    <3>2. Found(k) = {} /\ ~IsExtra(k)
      BY <3>1, MatchFinds
    <3> QED
      BY <2>3, <3>1, <3>2 DEF LookupMatch
  <2>4. CASE LookupChange(k)
    <3>1. /\ Valid(k) /\ Op(LookupSide, k) # "delete" /\ ~Matches(k)
          /\ byKey' = byKey \ {k} /\ UNCHANGED <<matched, unchecked>>
      BY <1>3, <1>4, <2>4, MatchSeen DEF LookupChange, Valid, IsMatch
    <3>2. Found(k) = UniqueConflicts(k) \cup (IF k \in Built THEN PkConflict(k) ELSE {})
      BY <1>4, <3>1, ChangeFinds
    <3>3. conflicts' = conflicts \cup UniqueConflicts(k)
                         \cup (IF k \in Built THEN PkConflict(k) ELSE {})
      BY <1>4, <2>4 DEF LookupChange
    <3>4. IF k \notin Built /\ UniqueConflicts(k) = {} THEN AddExtra(k) ELSE UNCHANGED extra
      BY <1>4, <2>4 DEF LookupChange, NewKey
    <3>5. IsExtra(k) <=> k \notin Built /\ UniqueConflicts(k) = {}
      BY <3>1, <3>2 DEF IsExtra
    <3>6. conflicts' = conflicts \cup Found(k)
      BY <3>2, <3>3
    <3>7. extra' = IF IsExtra(k) THEN [extra EXCEPT ![LookupSide] = @ \cup {k}] ELSE extra
      BY <3>4, <3>5 DEF AddExtra
    <3> QED
      BY <3>1, <3>6, <3>7
  <2> QED
    BY <2>1, <2>2, <2>3, <2>4
<1>6. Compared(more, {})'
  BY <1>1, <1>2, <1>5, <1>m, CompareOneMore
<1> QED
  BY <1>1, <1>3, <1>6, SortingNext

(* From one phase to the next.                                             *)
LEMMA SortingTurns ==
  ASSUME Given, Sorting, StartLookup \/ CollectRemaining
  PROVE  Sorting'
<1>1. UNCHANGED inputs
  BY DEF StartLookup, CollectRemaining
<1>2. CASE StartLookup
  <2>1. phase = "build" /\ todo = {} /\ phase' = "lookup" /\ todo' = Diff(LookupSide)
    BY <1>2 DEF StartLookup
  <2>2. UNCHANGED <<byKey, byUnique, buckets>>
    BY <1>2 DEF StartLookup
  <2>3. Indexed(Diff(BuildSide))
    <3>1. Indexed(Diff(BuildSide) \ todo) /\ Diff(BuildSide) \ todo = Diff(BuildSide)
      BY <2>1 DEF Sorting
    <3> QED
      BY <3>1
  <2>4. ValidIn(Diff(BuildSide)) = Built
    BY DEF ValidIn, Built
  <2>5. Compared({}, {})
    <3>1. ValidIn({}) = {} /\ FoundIn({}) = {} /\ Skipped(LookupSide, {}) = {}
      BY OneMore, Zenon
    <3>2. {k \in {} : Matches(k)} = {} /\ {k \in {} : IsExtra(k)} = {}
      OBVIOUS
    <3> QED
      BY <2>3, <2>4, <3>1, <3>2 DEF Indexed, Compared
  <2>6. Compared({}, {})'
    <3>1. /\ BuildSide' = BuildSide /\ LookupSide' = LookupSide /\ Built' = Built
          /\ Diff(BuildSide)' = Diff(BuildSide)
          /\ \A keys : /\ EntriesOf(keys)' = EntriesOf(keys) /\ FoundIn(keys)' = FoundIn(keys)
                       /\ ValidIn(keys)' = ValidIn(keys)
          /\ \A s, keys : Skipped(s, keys)' = Skipped(s, keys)
      BY <1>1, InputsKept
    <3>2. {k \in {} : Matches(k)}' = {k \in {} : Matches(k)}
          /\ {k \in {} : IsExtra(k)}' = {k \in {} : IsExtra(k)}
      OBVIOUS
    <3> QED
      BY <2>2, <2>5, <3>1, <3>2 DEF Compared, buckets
  <2>7. Diff(LookupSide) \ todo' = {} /\ todo' \subseteq Diff(LookupSide)
    BY <2>1
  <2> QED
    BY <1>1, <2>1, <2>6, <2>7, SortingNext
<1>3. CASE CollectRemaining
  <2>1. /\ phase = "lookup" /\ todo = {} /\ phase' = "check" /\ todo' = {}
        /\ UNCHANGED <<byUnique, byKey, matched, conflicts, unchecked>>
        /\ extra' = [extra EXCEPT ![BuildSide] = @ \cup byKey]
    BY <1>3 DEF CollectRemaining, RemainingSide
  <2>2. Compared(Diff(LookupSide), {})
    <3>1. Compared(Diff(LookupSide) \ todo, {}) /\ Diff(LookupSide) \ todo = Diff(LookupSide)
      BY <2>1 DEF Sorting
    <3> QED
      BY <3>1
  <2>r. PICK rest : rest = Built \ Diff(LookupSide)
    OBVIOUS
  <2>3. Compared(Diff(LookupSide), rest)'
    <3>e. PICK E : E = {k \in Diff(LookupSide) : IsExtra(k)}
      OBVIOUS
    <3>1. extra = [s \in Sides |-> IF s = LookupSide THEN E ELSE {}] /\ byKey = rest
      BY <2>2, <2>r, <3>e DEF Compared
    <3>2. extra' = [s \in Sides |-> IF s = LookupSide THEN E ELSE rest]
      BY <2>1, <3>1, TwoSides
    <3>3. /\ BuildSide' = BuildSide /\ LookupSide' = LookupSide /\ Built' = Built
          /\ \A s : Diff(s)' = Diff(s)
          /\ \A l : Matches(l)' = Matches(l) /\ IsExtra(l)' = IsExtra(l)
          /\ \A keys : /\ EntriesOf(keys)' = EntriesOf(keys) /\ FoundIn(keys)' = FoundIn(keys)
                       /\ ValidIn(keys)' = ValidIn(keys)
          /\ \A s, keys : Skipped(s, keys)' = Skipped(s, keys)
      BY <1>1, InputsKept
    <3>4. /\ byUnique' = EntriesOf(Built)' /\ byKey' = (Built \ Diff(LookupSide))'
          /\ matched' = {l \in Diff(LookupSide) : Matches(l)}'
          /\ conflicts' = FoundIn(ValidIn(Diff(LookupSide)))'
      BY <2>1, <2>2, <3>3 DEF Compared
    <3>5. unchecked' = Skipped(BuildSide, Diff(BuildSide))'
                         \cup Skipped(LookupSide, Diff(LookupSide))'
      BY <2>1, <2>2, <3>3 DEF Compared
    <3> QED
      BY <3>e, <3>2, <3>3, <3>4, <3>5 DEF Compared
  <2> QED
    BY <1>1, <2>1, <2>r, <2>3, SortingNext
<1> QED
  BY <1>2, <1>3

(* Once the statements are sorted they stay so.                            *)
LEMMA SortingStays ==
  ASSUME Sorting, UNCHANGED <<inputs, todo, byKey, byUnique, buckets>>,
         phase' = phase \/ (Bucketed /\ phase' \in {"check", "apply", "done"})
  PROVE  Sorting'
<1>1. /\ BuildSide' = BuildSide /\ LookupSide' = LookupSide /\ Built' = Built
      /\ \A s : Diff(s)' = Diff(s)
      /\ \A l : Matches(l)' = Matches(l) /\ IsExtra(l)' = IsExtra(l)
      /\ \A keys : /\ EntriesOf(keys)' = EntriesOf(keys) /\ FoundIn(keys)' = FoundIn(keys)
                   /\ ValidIn(keys)' = ValidIn(keys)
      /\ \A s, keys : Skipped(s, keys)' = Skipped(s, keys)
  BY InputsKept
<1>2. /\ \A read : Indexed(read) => Indexed(read)'
      /\ \A read, rest : Compared(read, rest) => Compared(read, rest)'
  BY <1>1 DEF Indexed, Compared, buckets
<1>3. CASE phase' = "build"
  <2>r. PICK read : read = Diff(BuildSide) \ todo
    OBVIOUS
  <2> QED
    BY <1>1, <1>2, <1>3, <2>r, SortingNext DEF Sorting, Bucketed
<1>4. CASE phase' = "lookup"
  <2>r. PICK read : read = Diff(LookupSide) \ todo
    OBVIOUS
  <2> QED
    BY <1>1, <1>2, <1>4, <2>r, SortingNext DEF Sorting, Bucketed
<1>5. CASE phase' \in {"check", "apply", "done"}
  <2>r. PICK rest : rest = Built \ Diff(LookupSide)
    OBVIOUS
  <2>l. PICK all : all = Diff(LookupSide)
    OBVIOUS
  <2>1. Bucketed
    BY <1>5 DEF Bucketed
  <2>2. todo = {} /\ Compared(all, rest)
    BY <2>1, <2>r, <2>l DEF Sorting
  <2>3. Compared(all, rest)' /\ todo' = {}
    BY <1>2, <2>2
  <2>4. Compared(Diff(LookupSide), rest)'
    BY <1>1, <2>l, <2>3 DEF Compared
  <2> QED
    BY <1>5, <2>r, <2>3, <2>4, SortingNext
<1>6. CASE phase' \notin {"build", "lookup", "check", "apply", "done"}
  BY <1>6 DEF Sorting, Bucketed
<1> QED
  BY <1>3, <1>4, <1>5, <1>6

(* Every step keeps the inputs and the buckets in order.                   *)
LEMMA SortingNextHolds ==
  ASSUME Given, Sorting, [Next]_rowVars PROVE Given' /\ Sorting'
<1>1. UNCHANGED inputs /\ Given'
  BY InputsFixed, InputsKept
<1> SUFFICES Sorting'
  BY <1>1
<1>2. ASSUME NEW k \in todo, SkipInvalid(k) PROVE Sorting'
  <2>1. Reads("build", k) \/ Reads("lookup", k)
    BY <1>2 DEF SkipInvalid
  <2> QED
    BY <1>2, <2>1, SortingBuild, SortingLookup
<1>3. ASSUME NEW k \in todo, Build(k) PROVE Sorting'
  <2>1. Reads("build", k)
    BY <1>3 DEF Build
  <2> QED
    BY <1>3, <2>1, SortingBuild
<1>4. ASSUME NEW k \in todo, LookupDelete(k) \/ LookupMatch(k) \/ LookupChange(k)
      PROVE  Sorting'
  <2>1. Reads("lookup", k)
    BY <1>4 DEF LookupDelete, LookupMatch, LookupChange
  <2> QED
    BY <1>4, <2>1, SortingLookup
<1>5. CASE StartLookup \/ CollectRemaining
  BY <1>5, SortingTurns
<1>6. CASE ForeignKeyCheckRaises \/ CopyBase \/ ApplyStatement \/ Finish
  <2>1. /\ UNCHANGED <<inputs, todo, byKey, byUnique, buckets>>
        /\ phase' = phase \/ (Bucketed /\ phase' \in {"check", "apply", "done"})
    BY <1>6 DEF ForeignKeyCheckRaises, CopyBase, ApplyStatement, Finish, Ends, Bucketed
  <2> QED
    BY <2>1, SortingStays
<1>7. CASE UNCHANGED rowVars
  BY <1>7, SortingStays DEF rowVars
<1> QED
  BY <1>1, <1>2, <1>3, <1>4, <1>5, <1>6, <1>7 DEF Next

(* The driver ends once.                                                   *)
LEMMA EndingHolds ==
  /\ Init => Ending
  /\ Ending /\ [Next]_rowVars => Ending'
<1>1. Init => Ending
  BY DEF Init, Ending
<1>2. ASSUME Ending, [Next]_rowVars PROVE Ending'
  <2>1. ASSUME NEW k, \/ SkipInvalid(k) \/ Build(k)
                      \/ LookupDelete(k) \/ LookupMatch(k) \/ LookupChange(k)
        PROVE  Ending'
    BY <1>2, <2>1 DEF Ending, SkipInvalid, Build, LookupDelete, LookupMatch, LookupChange,
                      Reads, output
  <2>2. CASE StartLookup \/ CollectRemaining \/ CopyBase \/ ApplyStatement
    BY <1>2, <2>2 DEF Ending, StartLookup, CollectRemaining, CopyBase, ApplyStatement, output
  <2>3. CASE ForeignKeyCheckRaises \/ Finish
    <3>1. phase' = "done" /\ outcome'.exit \in {"failed", "merged"}
      BY <2>3 DEF ForeignKeyCheckRaises, Finish, Ends
    <3> QED
      BY <3>1 DEF Ending
  <2>4. CASE UNCHANGED rowVars
    BY <1>2, <2>4 DEF Ending, rowVars, output
  <2> QED
    BY <1>2, <2>1, <2>2, <2>3, <2>4 DEF Next
<1> QED
  BY <1>1, <1>2

-----------------------------------------------------------------------------
(* What the script is made of: statements of the two diffs, one for a key. *)
LEMMA ChosenStatements ==
  ASSUME Sorting, Bucketed
  PROVE  /\ \A s \in Chosen : /\ s.side \in Sides /\ s.key \in Diff(s.side)
                              /\ s.key \in DOMAIN base /\ <<s.side, s.key>> \in Applied
         /\ \A side \in Sides : \A k : <<side, k>> \in Applied =>
              \E s \in Chosen : s.side = side /\ s.key = k
         /\ \A r, s \in Chosen : r.key = s.key => r = s
         /\ \A r, s \in Sides : \A k : <<r, k>> \in Applied /\ <<s, k>> \in Applied => r = s
<1>1. /\ matched = {k \in Diff(LookupSide) : Matches(k)}
      /\ extra = [s \in Sides |-> IF s = LookupSide THEN {k \in Diff(LookupSide) : IsExtra(k)}
                                  ELSE Built \ Diff(LookupSide)]
  BY DEF Sorting, Compared
<1>2. /\ BuildSide \in Sides /\ LookupSide \in Sides /\ BuildSide # LookupSide
      /\ Sides = {BuildSide, LookupSide} /\ Sides = {"ours", "theirs"}
  BY TwoSides
<1>3. /\ extra[LookupSide] = {k \in Diff(LookupSide) : IsExtra(k)}
      /\ extra[BuildSide] = Built \ Diff(LookupSide)
  BY <1>1, <1>2
<1>4. /\ matched \subseteq Built /\ matched \subseteq Diff(LookupSide)
      /\ Built \subseteq Diff(BuildSide)
      /\ extra[LookupSide] \subseteq Diff(LookupSide) /\ extra[LookupSide] \cap Built = {}
  BY <1>1, <1>3 DEF Matches, IsExtra, Built
<1>5. /\ matched \subseteq Diff("ours") \cap Diff("theirs")
      /\ extra["ours"] \subseteq Diff("ours") /\ extra["theirs"] \subseteq Diff("theirs")
      /\ matched \cap extra["ours"] = {} /\ matched \cap extra["theirs"] = {}
      /\ extra["ours"] \cap extra["theirs"] = {}
  <2>1. CASE BuildSide = "ours" /\ LookupSide = "theirs"
    BY <1>3, <1>4, <2>1
  <2>2. CASE BuildSide = "theirs" /\ LookupSide = "ours"
    BY <1>3, <1>4, <2>2
  <2> QED
    BY <1>2, <2>1, <2>2
<1>6. \A s : s \in Chosen <=>
         \/ \E k \in matched : s = [part |-> 1, side |-> "ours", key |-> k]
         \/ \E k \in extra["ours"] : s = [part |-> 2, side |-> "ours", key |-> k]
         \/ \E k \in extra["theirs"] : s = [part |-> 3, side |-> "theirs", key |-> k]
  BY DEF Chosen, Statements
<1>7. \A side, k : <<side, k>> \in Applied <=>
         \/ side = "ours" /\ k \in matched \cup extra["ours"]
         \/ side = "theirs" /\ k \in extra["theirs"]
  BY <1>2 DEF Applied
<1>8. \A k \in Diff("ours") \cup Diff("theirs") : k \in DOMAIN base
  BY DEF Diff
<1>9. ASSUME NEW s \in Chosen
      PROVE  /\ s.side \in Sides /\ s.key \in Diff(s.side)
             /\ s.key \in DOMAIN base /\ <<s.side, s.key>> \in Applied
  BY <1>2, <1>5, <1>6, <1>7, <1>8
<1>10. ASSUME NEW side \in Sides, NEW k, <<side, k>> \in Applied
       PROVE  \E s \in Chosen : s.side = side /\ s.key = k
  <2>1. CASE side = "ours" /\ k \in matched
    <3>1. [part |-> 1, side |-> "ours", key |-> k] \in Chosen
      BY <1>6, <2>1
    <3> QED
      BY <2>1, <3>1
  <2>2. CASE side = "ours" /\ k \in extra["ours"]
    <3>1. [part |-> 2, side |-> "ours", key |-> k] \in Chosen
      BY <1>6, <2>2
    <3> QED
      BY <2>2, <3>1
  <2>3. CASE side = "theirs" /\ k \in extra["theirs"]
    <3>1. [part |-> 3, side |-> "theirs", key |-> k] \in Chosen
      BY <1>6, <2>3
    <3> QED
      BY <2>3, <3>1
  <2> QED
    BY <1>7, <1>10, <2>1, <2>2, <2>3
<1>11. ASSUME NEW r \in Chosen, NEW s \in Chosen, r.key = s.key PROVE r = s
  BY <1>5, <1>6, <1>11
<1>12. ASSUME NEW r \in Sides, NEW s \in Sides, NEW k,
              <<r, k>> \in Applied, <<s, k>> \in Applied
       PROVE  r = s
  BY <1>5, <1>7, <1>12
<1> QED
  BY <1>9, <1>10, <1>11, <1>12

(* The next file is unique if it was, or if it was looked at.              *)
LEMMA UniqueNext ==
  ASSUME UNCHANGED inputs, IsUnique(file') PROVE IsUnique(file)'
BY InputsKept DEF IsUnique

(* The file while the script runs.                                         *)
LEMMA AssemblingCopy ==
  ASSUME Given, CopyBase, ~outcome.report PROVE Assembling'
<1>1. /\ UNCHANGED <<inputs, buckets, outcome>>
      /\ file' = base
      /\ script' = Chosen
  BY DEF CopyBase, Chosen
<1>2. base' = base /\ Chosen' = Chosen
  BY <1>1 DEF inputs, buckets, Chosen
<1>3. base = [k \in DOMAIN base |-> base[k]] /\ IsUnique(base)
  BY GivenContents DEF Given, Sides
<1>4. IsUnique(file)'
  BY <1>1, <1>3, UniqueNext
<1> QED
  BY <1>1, <1>2, <1>3, <1>4 DEF Assembling

(* One statement of the script.                                            *)
LEMMA AssemblingApply ==
  ASSUME Given, Sorting, Assembling, ~outcome.report, ApplyStatement PROVE Assembling'
<1>1. /\ UNCHANGED <<inputs, buckets, outcome, phase>> /\ phase = "apply" /\ Bucketed
      /\ base' = base /\ Chosen' = Chosen
  BY DEF ApplyStatement, Bucketed, inputs, buckets, Chosen
<1>2. PICK s \in script :
        /\ LET result == [file EXCEPT ![s.key] = Contents(s.side)[s.key]]
           IN IF IsUnique(result) THEN file' = result /\ UNCHANGED refused
                                  ELSE refused' = TRUE /\ UNCHANGED file
        /\ script' = script \ {s}
  BY DEF ApplyStatement
<1>3. /\ script \subseteq Chosen
      /\ file = [k \in DOMAIN base |-> file[k]] /\ IsUnique(file)
      /\ \A k \in DOMAIN base :
           (\A r \in Chosen \ script : r.key # k) => file[k] = base[k]
      /\ ~refused => \A r \in Chosen \ script :
                       file[r.key] = Contents(r.side)[r.key]
  BY <1>1 DEF Assembling
<1>4. /\ \A r \in Chosen : r.key \in DOMAIN base
      /\ \A q, r \in Chosen : q.key = r.key => q = r
      /\ \A r : Contents(r)' = Contents(r)
  BY <1>1, ChosenStatements, InputsKept
<1>5. s \in Chosen /\ s.key \in DOMAIN base
  BY <1>3, <1>4
<1>6. \A r : r \in Chosen \ script' <=> r \in Chosen \ script \/ r = s
  BY <1>2, <1>5
<1> DEFINE result == [file EXCEPT ![s.key] = Contents(s.side)[s.key]]
<1>7. CASE IsUnique(result)
  <2>1. file' = result /\ refused' = refused
    BY <1>2, <1>7
  <2>2. /\ file' = [k \in DOMAIN base |-> file'[k]]
        /\ file'[s.key] = Contents(s.side)[s.key]
        /\ \A k \in DOMAIN base : k # s.key => file'[k] = file[k]
    <3>p. PICK row : row = Contents(s.side)[s.key]
      OBVIOUS
    <3>1. file' = [file EXCEPT ![s.key] = row]
      BY <2>1, <3>p
    <3> QED
      BY <1>3, <1>5, <3>1, <3>p
  <2>3. IsUnique(file)'
    BY <1>1, <1>7, <2>1, UniqueNext
  <2>4. ASSUME NEW k \in DOMAIN base, \A r \in Chosen \ script' : r.key # k
        PROVE  file'[k] = base[k]
    BY <1>3, <1>6, <2>2, <2>4
  <2>5. ASSUME ~refused', NEW r \in Chosen \ script'
        PROVE  file'[r.key] = Contents(r.side)'[r.key]
    <3>1. CASE r = s
      BY <1>4, <2>2, <3>1
    <3>2. CASE r # s
      <4>1. r \in Chosen \ script /\ r.key # s.key /\ r.key \in DOMAIN base
        BY <1>4, <1>5, <1>6, <2>5, <3>2
      <4>2. file[r.key] = Contents(r.side)[r.key]
        BY <1>3, <2>1, <2>5, <4>1
      <4> QED
        BY <1>4, <2>2, <4>1, <4>2
    <3> QED
      BY <3>1, <3>2
  <2> QED
    BY <1>1, <1>2, <1>3, <2>2, <2>3, <2>4, <2>5 DEF Assembling
<1>8. CASE ~IsUnique(result)
  <2>1. refused' /\ file' = file
    BY <1>2, <1>8
  <2>2. IsUnique(file)'
    BY <1>1, <1>3, <2>1, UniqueNext
  <2>3. ASSUME NEW k \in DOMAIN base, \A r \in Chosen \ script' : r.key # k
        PROVE  file'[k] = base[k]
    BY <1>3, <1>6, <2>1, <2>3
  <2> QED
    BY <1>1, <1>2, <1>3, <2>1, <2>2, <2>3 DEF Assembling
<1> QED
  BY <1>7, <1>8

(* The file being rebuilt is right initially and after every step.         *)
LEMMA AssemblingHolds ==
  /\ Init => Assembling
  /\ Given /\ Sorting /\ Ending /\ Assembling /\ [Next]_rowVars => Assembling'
<1>1. Init => Assembling
  BY DEF Init, Assembling
<1>2. ASSUME Given, Sorting, Ending, Assembling, [Next]_rowVars PROVE Assembling'
  <2>0. UNCHANGED inputs /\ base' = base
    BY <1>2, InputsFixed DEF inputs
  <2>1. ASSUME NEW k, \/ SkipInvalid(k) \/ Build(k)
                      \/ LookupDelete(k) \/ LookupMatch(k) \/ LookupChange(k)
        PROVE  Assembling'
    <3>1. phase' \in {"build", "lookup"} /\ outcome' = outcome /\ ~outcome.report
      BY <1>2, <2>1 DEF Ending, SkipInvalid, Build, LookupDelete, LookupMatch, LookupChange,
                        Reads, output
    <3> QED
      BY <3>1 DEF Assembling
  <2>2. CASE StartLookup \/ CollectRemaining \/ ForeignKeyCheckRaises
    <3>1. phase' # "apply" /\ ~outcome'.report
      BY <1>2, <2>2 DEF Ending, StartLookup, CollectRemaining, ForeignKeyCheckRaises, Ends, output
    <3> QED
      BY <3>1 DEF Assembling
  <2>3. CASE CopyBase
    <3>1. ~outcome.report
      BY <1>2, <2>3 DEF Ending, CopyBase
    <3> QED
      BY <1>2, <2>3, <3>1, AssemblingCopy
  <2>4. CASE ApplyStatement
    <3>1. ~outcome.report
      BY <1>2, <2>4 DEF Ending, ApplyStatement
    <3> QED
      BY <1>2, <2>4, <3>1, AssemblingApply
  <2>5. ASSUME UNCHANGED <<inputs, buckets, script, file, refused>>,
               \/ phase = "apply" /\ phase' = "done" /\ (outcome'.report => script = {} /\ ~refused)
               \/ UNCHANGED <<phase, outcome>>
        PROVE  Assembling'
    <3>1. /\ Chosen' = Chosen /\ base' = base
          /\ \A s : Contents(s)' = Contents(s)
      BY <2>0, <2>5, InputsKept DEF Chosen, buckets
    <3>2. IsUnique(file) => IsUnique(file)'
      BY <2>5, UniqueNext
    <3> QED
      BY <1>2, <2>5, <3>1, <3>2 DEF Assembling
  <2>6. CASE Finish
    <3>1. /\ UNCHANGED <<inputs, buckets, script, file, refused>>
          /\ phase = "apply" /\ phase' = "done" /\ (outcome'.report => script = {} /\ ~refused)
      BY <2>6 DEF Finish, Ends, ExitCodeIsError
    <3> QED
      BY <2>5, <3>1
  <2>7. CASE UNCHANGED rowVars
    BY <2>5, <2>7 DEF rowVars, output
  <2> QED
    BY <1>2, <2>1, <2>2, <2>3, <2>4, <2>6, <2>7 DEF Next
<1> QED
  BY <1>1, <1>2

-----------------------------------------------------------------------------
(***************************************************************************)
(* The invariant and what follows from it.                                 *)
(***************************************************************************)
Inv == Given /\ Sorting /\ Ending /\ Assembling

(* The invariant holds in every state.                                     *)
LEMMA InvHolds == Spec => []Inv
<1>1. Init => Inv
  BY SortingInit, EndingHolds, AssemblingHolds DEF Inv
<1>2. Inv /\ [Next]_rowVars => Inv'
  BY SortingNextHolds, EndingHolds, AssemblingHolds DEF Inv
<1> QED
  BY <1>1, <1>2, PTL DEF Spec

(* A conflict pairs a statement of the lookup side with one of the build   *)
(* side, and is stored in the order (ours, theirs).                        *)
LEMMA ConflictPairs ==
  ASSUME NEW k, NEW x
  PROVE  x \in Found(k) <=>
           \/ k \in Built /\ ~Same(k) /\ x = [pair |-> Pair(k, k), kind |-> "primary_key"]
           \/ \E l \in Built : /\ ~Matches(k) /\ Clash(k, l)
                               /\ x = [pair |-> Pair(k, l), kind |-> "unique_index"]
BY DEF Found

(* What was found of a set of statements.                                  *)
LEMMA FoundInSet ==
  ASSUME NEW keys, NEW x
  PROVE  x \in FoundIn(keys) <=> \E k \in keys : x \in Found(k)
BY DEF FoundIn

(* Every bucket holds statements of the diffs.                             *)
THEOREM RowMergeTypeCorrect == Spec => []TypeOK
<1>1. Inv => TypeOK
  <2> SUFFICES ASSUME Inv PROVE TypeOK
    OBVIOUS
  <2>1. /\ BuildSide \in Sides /\ LookupSide \in Sides /\ BuildSide # LookupSide
        /\ Sides = {BuildSide, LookupSide} /\ Sides = {"ours", "theirs"}
    BY TwoSides
  <2>2. /\ \A s : Diff(s) \subseteq DOMAIN base
        /\ Built \subseteq Diff(BuildSide)
        /\ \A keys : ValidIn(keys) \subseteq keys
    BY DEF Diff, Built, ValidIn
  <2>3. ASSUME NEW k \in Diff(LookupSide), NEW c \in Found(k)
        PROVE  c.pair[1] \in Diff("ours") /\ c.pair[2] \in Diff("theirs")
    <3>1. \E l \in Built : c.pair = Pair(k, l)
      BY <2>3, ConflictPairs
    <3>2. PICK l \in Diff(BuildSide) : c.pair = Pair(k, l)
      BY <2>2, <3>1
    <3> QED
      BY <2>1, <2>3, <3>2 DEF Pair
  <2>4. ASSUME NEW read \in SUBSET Diff(LookupSide), NEW rest \in SUBSET Built,
               Compared(read, rest)
        PROVE  /\ byKey \subseteq Diff(BuildSide)
               /\ \A e \in byUnique : e.key \in Diff(BuildSide)
               /\ matched \subseteq Diff("ours") \cap Diff("theirs")
               /\ \A s \in Sides : extra[s] \subseteq Diff(s)
               /\ \A c \in conflicts :
                     c.pair[1] \in Diff("ours") /\ c.pair[2] \in Diff("theirs")
    <3>1. byKey \subseteq Built /\ byUnique = EntriesOf(Built)
      BY <2>4 DEF Compared
    <3>2. \A e \in byUnique : e.key \in Built
      BY <3>1, EntriesRead
    <3>3. matched \subseteq read /\ matched \subseteq Built
      BY <2>4 DEF Compared, Matches
    <3>4. matched \subseteq Diff("ours") \cap Diff("theirs")
      BY <2>1, <2>2, <3>3
    <3>5. \A s \in Sides : extra[s] \subseteq Diff(s)
      <4>1. extra[LookupSide] \subseteq read /\ extra[BuildSide] = rest
        BY <2>1, <2>4 DEF Compared
      <4> QED
        BY <2>1, <2>2, <4>1
    <3>6. \A c \in conflicts : \E k \in Diff(LookupSide) : c \in Found(k)
      BY <2>2, <2>4, FoundInSet DEF Compared
    <3> QED
      BY <2>2, <2>3, <3>1, <3>2, <3>4, <3>5, <3>6
  <2>5. /\ phase \in {"build", "lookup", "check", "apply", "done"}
        /\ outcome.exit = "running" <=> phase # "done"
    BY DEF Inv, Ending
  <2>6. CASE phase = "build"
    <3>r. PICK read : read = Diff(BuildSide) \ todo
      OBVIOUS
    <3>1. todo \subseteq DOMAIN base /\ Indexed(read) /\ read \subseteq Diff(BuildSide)
      BY <2>2, <2>6, <3>r DEF Inv, Sorting
    <3>2. byKey \subseteq Diff(BuildSide) /\ byUnique = EntriesOf(ValidIn(read))
          /\ ValidIn(read) \subseteq Diff(BuildSide)
      BY <2>2, <3>1 DEF Indexed
    <3>3. \A e \in byUnique : e.key \in Diff(BuildSide)
      BY <3>2, EntriesRead
    <3>4. matched = {} /\ conflicts = {} /\ \A s \in Sides : extra[s] = {}
      BY <3>1 DEF Indexed
    <3> QED
      BY <2>5, <3>1, <3>2, <3>3, <3>4 DEF TypeOK
  <2>7. CASE phase = "lookup"
    <3>r. PICK read : read = Diff(LookupSide) \ todo
      OBVIOUS
    <3>1. todo \subseteq DOMAIN base /\ Compared(read, {}) /\ read \subseteq Diff(LookupSide)
      BY <2>2, <2>7, <3>r DEF Inv, Sorting
    <3> QED
      BY <2>4, <2>5, <3>1 DEF TypeOK
  <2>8. CASE Bucketed
    <3>r. PICK rest : rest = Built \ Diff(LookupSide)
      OBVIOUS
    <3>1. todo = {} /\ Compared(Diff(LookupSide), rest) /\ rest \subseteq Built
      BY <2>8, <3>r DEF Inv, Sorting
    <3>2. /\ byKey \subseteq Diff(BuildSide)
          /\ \A e \in byUnique : e.key \in Diff(BuildSide)
          /\ matched \subseteq Diff("ours") \cap Diff("theirs")
          /\ \A s \in Sides : extra[s] \subseteq Diff(s)
          /\ \A c \in conflicts :
                c.pair[1] \in Diff("ours") /\ c.pair[2] \in Diff("theirs")
      <4>l. PICK all : all = Diff(LookupSide)
        OBVIOUS
      <4> QED
        BY <2>4, <3>1, <4>l
    <3> QED
      BY <2>5, <3>1, <3>2 DEF TypeOK
  <2> QED
    BY <2>5, <2>6, <2>7, <2>8 DEF Bucketed
<1> QED
  BY <1>1, InvHolds, PTL

(* No statement of either diff is dropped.                                 *)
THEOREM NoStatementLostHolds == Spec => []NoStatementLost
<1>1. Inv => NoStatementLost
  <2> SUFFICES ASSUME Inv, Bucketed, NEW s \in Sides, NEW k \in Diff(s)
               PROVE  \/ k \in matched \cup extra[s] \/ <<s, k>> \in unchecked
                      \/ \E c \in conflicts : c.pair[IF s = "ours" THEN 1 ELSE 2] = k
    BY DEF NoStatementLost
  <2>1. /\ BuildSide \in Sides /\ LookupSide \in Sides /\ BuildSide # LookupSide
        /\ Sides = {BuildSide, LookupSide} /\ Sides = {"ours", "theirs"}
    BY TwoSides
  <2>2. /\ matched = {l \in Diff(LookupSide) : Matches(l)}
        /\ conflicts = FoundIn(ValidIn(Diff(LookupSide)))
        /\ extra[LookupSide] = {l \in Diff(LookupSide) : IsExtra(l)}
        /\ extra[BuildSide] = Built \ Diff(LookupSide)
        /\ unchecked = Skipped(BuildSide, Diff(BuildSide))
                       \cup Skipped(LookupSide, Diff(LookupSide))
    BY <2>1 DEF Inv, Sorting, Compared
  <2>3. CASE ~Valid(k)
    BY <2>1, <2>2, <2>3 DEF Skipped
  <2>4. \A l : Pair(k, l)[IF LookupSide = "ours" THEN 1 ELSE 2] = k
    BY <2>1 DEF Pair
  <2>5. Pair(k, k)[IF s = "ours" THEN 1 ELSE 2] = k
    BY <2>1 DEF Pair
  <2>6. \A l \in Diff(LookupSide) : Valid(l) => Found(l) \subseteq conflicts
    BY <2>2, FoundInSet DEF ValidIn
  <2>7. ASSUME Valid(k), k \in Diff(LookupSide), k \in Built, ~Matches(k)
        PROVE  \E c \in conflicts : c.pair[IF s = "ours" THEN 1 ELSE 2] = k
    <3>1. ~Same(k)
      BY <2>7 DEF Matches
    <3>2. [pair |-> Pair(k, k), kind |-> "primary_key"] \in conflicts
      BY <2>6, <2>7, <3>1, ConflictPairs
    <3> QED
      BY <2>5, <3>2
  <2>8. CASE Valid(k) /\ s = BuildSide
    <3>1. k \in Built
      BY <2>8 DEF Built
    <3>2. CASE k \in Diff(LookupSide)
      BY <2>2, <2>7, <2>8, <3>1, <3>2
    <3>3. CASE k \notin Diff(LookupSide)
      BY <2>2, <2>8, <3>1, <3>3
    <3> QED
      BY <3>2, <3>3
  <2>9. CASE Valid(k) /\ s = LookupSide
    <3>1. CASE k \in Built
      BY <2>2, <2>7, <2>9, <3>1
    <3>2. CASE k \notin Built /\ Found(k) = {}
      BY <2>2, <2>9, <3>2 DEF IsExtra
    <3>3. CASE k \notin Built /\ Found(k) # {}
      <4>1. PICK c : c \in Found(k)
        BY <3>3
      <4>2. c \in conflicts
        BY <2>6, <2>9, <4>1
      <4>3. \E l : c.pair = Pair(k, l)
        BY <4>1, ConflictPairs
      <4> QED
        BY <2>4, <2>9, <4>2, <4>3
    <3> QED
      BY <3>1, <3>2, <3>3
  <2> QED
    BY <2>1, <2>3, <2>8, <2>9
<1> QED
  BY <1>1, InvHolds, PTL

(* The conflicts, as two sets of pairs.  A unique value two statements     *)
(* share makes a conflict of one row too, when they differ.                *)
FoundPairs ==
    LET checked(s) == {k \in Diff(s) : schema.tableOf[k] \notin invalid}
        same(k, l) == k = l /\ ours[k] = theirs[k]
        sameRow == {p \in checked("ours") \X checked("theirs") :
                        p[1] = p[2] /\ ~same(p[1], p[2])}
        given(s, k) == IF Op(s, k) = "delete" THEN {} ELSE UniqueValues(s, k)
        sameValue == {p \in checked("ours") \X checked("theirs") :
                        /\ given("ours", p[1]) \cap given("theirs", p[2]) # {}
                        /\ ~same(p[1], p[2])}
    IN Bucketed => conflicts =
          {[pair |-> p, kind |-> "primary_key"] : p \in sameRow}
          \cup {[pair |-> p, kind |-> "unique_index"] : p \in sameValue}

(* The conflicts are these pairs, whichever side was hashed.               *)
LEMMA FoundPairsHolds == Inv => FoundPairs
<1> DEFINE checked(s) == {k \in Diff(s) : schema.tableOf[k] \notin invalid}
           same(k, l) == k = l /\ ours[k] = theirs[k]
           sameRow == {p \in checked("ours") \X checked("theirs") :
                           p[1] = p[2] /\ ~same(p[1], p[2])}
           given(s, k) == IF Op(s, k) = "delete" THEN {} ELSE UniqueValues(s, k)
           sameValue == {p \in checked("ours") \X checked("theirs") :
                           /\ given("ours", p[1]) \cap given("theirs", p[2]) # {}
                           /\ ~same(p[1], p[2])}
           rowConflict(p) == [pair |-> p, kind |-> "primary_key"]
           valueConflict(p) == [pair |-> p, kind |-> "unique_index"]
<1> SUFFICES ASSUME Inv, Bucketed
             PROVE  conflicts = {rowConflict(p) : p \in sameRow}
                                \cup {valueConflict(p) : p \in sameValue}
  BY DEF FoundPairs
<1>1. /\ BuildSide \in Sides /\ LookupSide \in Sides /\ BuildSide # LookupSide
      /\ Sides = {BuildSide, LookupSide} /\ Sides = {"ours", "theirs"}
  BY TwoSides
<1>2. Given /\ conflicts = FoundIn(ValidIn(Diff(LookupSide)))
  BY DEF Inv, Sorting, Compared
<1>3. /\ checked(LookupSide) = ValidIn(Diff(LookupSide)) /\ checked(BuildSide) = Built
      /\ checked(LookupSide) \subseteq Diff(LookupSide)
  BY DEF ValidIn, Built, Valid
<1>4. \A s, k : given(s, k) = Entry(s, k)
  BY DEF Entry
<1>5. \A k \in Built : same(k, k) <=> Matches(k)
  BY DEF Matches, Same
<1>6. ASSUME NEW k \in checked(LookupSide), NEW l \in Built
      PROVE  ~Matches(k) /\ Clash(k, l) <=> Clash(k, l) /\ ~same(k, l)
  <2>1. Matches(k) /\ Clash(k, l) => same(k, l)
    BY <1>2, <1>3, MatchIsAlone DEF Matches, Same
  <2>2. same(k, l) => Matches(k)
    BY <1>5
  <2> QED
    BY <2>1, <2>2
<1>7. \A k, l : same(k, l) <=> same(l, k)
  OBVIOUS
<1>8. ASSUME NEW k \in checked(LookupSide), NEW l \in Built
      PROVE  /\ Pair(k, l) \in sameRow <=> k = l /\ ~Same(k)
             /\ Pair(k, l) \in sameValue <=> ~Matches(k) /\ Clash(k, l)
  <2>1. CASE BuildSide = "ours" /\ LookupSide = "theirs"
    <3>1. Pair(k, l) = <<l, k>> /\ l \in checked("ours") /\ k \in checked("theirs")
      BY <1>3, <1>8, <2>1 DEF Pair
    <3>2. Clash(k, l) <=> given("ours", l) \cap given("theirs", k) # {}
      BY <1>4, <2>1 DEF Clash
    <3> HIDE DEF checked, given
    <3>3. Pair(k, l) \in sameRow <=> k = l /\ ~Same(k)
      BY <3>1 DEF Same
    <3>4. Pair(k, l) \in sameValue <=> Clash(k, l) /\ ~same(k, l)
      BY <1>7, <3>1, <3>2
    <3> QED
      BY <1>6, <3>3, <3>4
  <2>2. CASE BuildSide = "theirs" /\ LookupSide = "ours"
    <3>1. Pair(k, l) = <<k, l>> /\ k \in checked("ours") /\ l \in checked("theirs")
      BY <1>3, <1>8, <2>2 DEF Pair
    <3>2. Clash(k, l) <=> given("ours", k) \cap given("theirs", l) # {}
      BY <1>4, <2>2 DEF Clash
    <3> HIDE DEF checked, given
    <3>3. Pair(k, l) \in sameRow <=> k = l /\ ~Same(k)
      BY <3>1 DEF Same
    <3>4. Pair(k, l) \in sameValue <=> Clash(k, l) /\ ~same(k, l)
      BY <3>1, <3>2
    <3> QED
      BY <1>6, <3>3, <3>4
  <2> QED
    BY <1>1, <2>1, <2>2
<1>9. ASSUME NEW p \in sameRow \cup sameValue
      PROVE  \E k \in checked(LookupSide), l \in Built : p = Pair(k, l)
  <2>1. PICK i \in checked("ours"), j \in checked("theirs") : p = <<i, j>>
    BY <1>9
  <2> HIDE DEF checked, sameRow, sameValue
  <2>2. CASE BuildSide = "ours" /\ LookupSide = "theirs"
    BY <1>3, <2>1, <2>2 DEF Pair
  <2>3. CASE BuildSide = "theirs" /\ LookupSide = "ours"
    BY <1>3, <2>1, <2>3 DEF Pair
  <2> QED
    BY <1>1, <2>2, <2>3
<1> HIDE DEF checked, given, same, sameRow, sameValue
<1>10. ASSUME NEW x \in conflicts
       PROVE  \/ \E p \in sameRow : x = rowConflict(p)
              \/ \E p \in sameValue : x = valueConflict(p)
  <2>1. PICK k \in checked(LookupSide) : x \in Found(k)
    BY <1>2, <1>3, FoundInSet
  <2>2. CASE k \in Built /\ ~Same(k) /\ x = [pair |-> Pair(k, k), kind |-> "primary_key"]
    BY <1>8, <2>2
  <2>3. ASSUME NEW l \in Built, ~Matches(k), Clash(k, l),
               x = [pair |-> Pair(k, l), kind |-> "unique_index"]
        PROVE  \E p \in sameValue : x = valueConflict(p)
    BY <1>8, <2>3
  <2> QED
    BY <2>1, <2>2, <2>3, ConflictPairs
<1>11. ASSUME NEW p \in sameRow PROVE rowConflict(p) \in conflicts
  <2>1. PICK k \in checked(LookupSide), l \in Built : p = Pair(k, l)
    BY <1>9
  <2>2. k = l /\ ~Same(k)
    BY <1>8, <2>1
  <2>3. rowConflict(p) \in Found(k)
    BY <2>1, <2>2, ConflictPairs
  <2> QED
    BY <1>2, <1>3, <2>3, FoundInSet
<1>12. ASSUME NEW p \in sameValue PROVE valueConflict(p) \in conflicts
  <2>1. PICK k \in checked(LookupSide), l \in Built : p = Pair(k, l)
    BY <1>9
  <2>2. ~Matches(k) /\ Clash(k, l)
    BY <1>8, <2>1
  <2>3. valueConflict(p) \in Found(k)
    BY <2>1, <2>2, ConflictPairs
  <2> QED
    BY <1>2, <1>3, <2>3, FoundInSet
<1> QED
  <2> HIDE DEF rowConflict, valueConflict
  <2> QED
    BY <1>10, <1>11, <1>12

(* Different statements for one row, and rows given one unique value, are  *)
(* reported together, and no others are: the detection model but for       *)
(* foreign keys, whichever side was hashed.                                *)
THEOREM ConflictsAreDocumentedHolds == Spec => []ConflictsAreDocumented
<1>1. Inv => ConflictsAreDocumented
  <2> DEFINE checked(s) == {k \in Diff(s) : schema.tableOf[k] \notin invalid}
             given(s, k) == IF Op(s, k) = "delete" THEN {} ELSE UniqueValues(s, k)
             differ(k, l) == k = l /\ ours[k] # theirs[l]
             collide(k, l) == k # l /\ given("ours", k) \cap given("theirs", l) # {}
             reported(k, l) == {c.kind : c \in {d \in conflicts : d.pair = <<k, l>>}}
             pairs == checked("ours") \X checked("theirs")
             same(k, l) == k = l /\ ours[k] = theirs[k]
             sameRow == {p \in pairs : p[1] = p[2] /\ ~same(p[1], p[2])}
             sameValue == {p \in pairs : /\ given("ours", p[1]) \cap given("theirs", p[2]) # {}
                                         /\ ~same(p[1], p[2])}
  <2> SUFFICES ASSUME Inv, Bucketed
               PROVE  /\ \A c \in conflicts : c.pair \in pairs
                      /\ \A k \in checked("ours"), l \in checked("theirs") :
                            /\ differ(k, l) => reported(k, l) \in
                                  {{"primary_key"}, {"primary_key", "unique_index"}}
                            /\ ~differ(k, l) => reported(k, l) =
                                  IF collide(k, l) THEN {"unique_index"} ELSE {}
    BY DEF ConflictsAreDocumented
  <2>1. conflicts = {[pair |-> p, kind |-> "primary_key"] : p \in sameRow}
                    \cup {[pair |-> p, kind |-> "unique_index"] : p \in sameValue}
    BY FoundPairsHolds DEF FoundPairs
  <2>2. \A p \in sameRow \cup sameValue : p \in pairs
    OBVIOUS
  <2>3. ASSUME NEW k \in checked("ours"), NEW l \in checked("theirs")
        PROVE  /\ <<k, l>> \in sameRow <=> differ(k, l)
               /\ <<k, l>> \in sameValue =>
                     differ(k, l) \/ collide(k, l)
               /\ collide(k, l) => <<k, l>> \in sameValue
    <3> HIDE DEF checked, given
    <3> QED
      BY <2>3
  <2> HIDE DEF checked, given, differ, pairs, sameRow, sameValue
  <2>4. \A p : /\ "primary_key" \in {c.kind : c \in {d \in conflicts : d.pair = p}}
                   <=> p \in sameRow
               /\ "unique_index" \in {c.kind : c \in {d \in conflicts : d.pair = p}}
                   <=> p \in sameValue
               /\ {c.kind : c \in {d \in conflicts : d.pair = p}}
                   \subseteq {"primary_key", "unique_index"}
    <3>1. \A c \in conflicts : \/ c.kind = "primary_key" /\ c.pair \in sameRow
                               \/ c.kind = "unique_index" /\ c.pair \in sameValue
      BY <2>1
    <3>2. ASSUME NEW p \in sameRow
          PROVE  \E d \in conflicts : d.pair = p /\ d.kind = "primary_key"
      <4>1. [pair |-> p, kind |-> "primary_key"] \in conflicts
        BY <2>1, <3>2
      <4> QED
        BY <4>1
    <3>3. ASSUME NEW p \in sameValue
          PROVE  \E d \in conflicts : d.pair = p /\ d.kind = "unique_index"
      <4>1. [pair |-> p, kind |-> "unique_index"] \in conflicts
        BY <2>1, <3>3
      <4> QED
        BY <4>1
    <3> QED
      BY <3>1, <3>2, <3>3
  <2>5. \A c \in conflicts : c.pair \in pairs
    BY <2>1, <2>2
  <2>6. ASSUME NEW k \in checked("ours"), NEW l \in checked("theirs")
        PROVE  /\ differ(k, l) => reported(k, l) \in
                     {{"primary_key"}, {"primary_key", "unique_index"}}
               /\ ~differ(k, l) => reported(k, l) =
                     IF collide(k, l) THEN {"unique_index"} ELSE {}
    <3>1. /\ "primary_key" \in reported(k, l) <=> differ(k, l)
          /\ "unique_index" \in reported(k, l) => differ(k, l) \/ collide(k, l)
          /\ collide(k, l) => "unique_index" \in reported(k, l)
          /\ reported(k, l) \subseteq {"primary_key", "unique_index"}
      BY <2>3, <2>4
    <3> HIDE DEF reported, collide
    <3> QED
      BY <3>1
  <2> QED
    BY <2>5, <2>6
<1> QED
  BY <1>1, InvHolds, PTL

-----------------------------------------------------------------------------
(* The row the assembled file has for a key.                               *)
LEMMA AssembledRow ==
  ASSUME Sorting, Bucketed, NEW k \in DOMAIN base
  PROVE  /\ \A s \in Sides : <<s, k>> \in Applied => Assembled[k] = Contents(s)[k]
         /\ (\A s \in Sides : <<s, k>> \notin Applied) => Assembled[k] = base[k]
         /\ DOMAIN Assembled = DOMAIN base
         /\ Assembled = [l \in DOMAIN base |-> Assembled[l]]
<1>1. ASSUME NEW s \in Sides, <<s, k>> \in Applied PROVE Assembled[k] = Contents(s)[k]
  <2>1. \A r \in Sides : <<r, k>> \in Applied => r = s
    BY <1>1, ChosenStatements
  <2>2. (CHOOSE r \in Sides : <<r, k>> \in Applied) = s
    BY <1>1, <2>1
  <2> QED
    BY <1>1, <2>2 DEF Assembled
<1> QED
  BY <1>1 DEF Assembled

(* A row with two different statements keeps its base contents.            *)
THEOREM ConflictingRowKeepsBaseHolds == Spec => []ConflictingRowKeepsBase
<1>1. Inv => ConflictingRowKeepsBase
  <2> SUFFICES ASSUME Inv, phase = "apply" \/ outcome.report,
                      NEW c \in conflicts, c.kind = "primary_key"
               PROVE  file[c.pair[1]] = base[c.pair[1]]
    BY DEF ConflictingRowKeepsBase
  <2>1. Bucketed
    BY DEF Inv, Ending, Bucketed
  <2>2. /\ matched = {l \in Diff(LookupSide) : Matches(l)}
        /\ conflicts = FoundIn(ValidIn(Diff(LookupSide)))
        /\ extra[LookupSide] = {l \in Diff(LookupSide) : IsExtra(l)}
        /\ extra[BuildSide] = Built \ Diff(LookupSide)
    BY <2>1, TwoSides DEF Inv, Sorting, Compared
  <2>3. PICK k \in Diff(LookupSide) : c \in Found(k)
    BY <2>2, FoundInSet DEF ValidIn
  <2>4. k \in Built /\ ~Same(k) /\ c.pair = Pair(k, k)
    BY <2>3, ConflictPairs
  <2>5. c.pair[1] = k
    BY <2>4 DEF Pair
  <2>6. k \notin matched /\ k \notin extra["ours"] /\ k \notin extra["theirs"]
    <3>1. k \notin matched /\ k \notin extra[LookupSide] /\ k \notin extra[BuildSide]
      BY <2>2, <2>3, <2>4 DEF Matches, IsExtra
    <3> QED
      BY <3>1, TwoSides
  <2>7. \A s \in Chosen : s.key # k
    BY <2>6 DEF Chosen, Statements
  <2>8. k \in DOMAIN base
    BY <2>3 DEF Diff
  <2> QED
    BY <2>5, <2>7, <2>8 DEF Inv, Assembling
<1> QED
  BY <1>1, InvHolds, PTL

(* The file beside a report is the assembled one.                          *)
THEOREM ReportMatchesFileHolds == Spec => []ReportMatchesFile
<1>1. Inv => ReportMatchesFile
  <2> SUFFICES ASSUME Inv, outcome.report PROVE file = Assembled /\ IsUnique(file)
    BY DEF ReportMatchesFile
  <2>1. Bucketed /\ Sorting
    BY DEF Inv, Ending, Bucketed
  <2>2. /\ script = {} /\ ~refused /\ IsUnique(file)
        /\ file = [k \in DOMAIN base |-> file[k]]
        /\ \A k \in DOMAIN base :
              (\A s \in Chosen : s.key # k) => file[k] = base[k]
        /\ \A s \in Chosen : file[s.key] = Contents(s.side)[s.key]
    BY DEF Inv, Assembling
  <2>3. ASSUME NEW k \in DOMAIN base PROVE file[k] = Assembled[k]
    <3>1. ASSUME NEW s \in Chosen, s.key = k PROVE file[k] = Assembled[k]
      <4>1. s.side \in Sides /\ <<s.side, k>> \in Applied
        BY <2>1, <3>1, ChosenStatements
      <4>2. Assembled[k] = Contents(s.side)[k]
        BY <2>1, <4>1, AssembledRow
      <4> QED
        BY <2>2, <3>1, <4>2
    <3>2. ASSUME \A s \in Chosen : s.key # k PROVE file[k] = Assembled[k]
      <4>1. \A s \in Sides : <<s, k>> \notin Applied
        BY <2>1, <3>2, ChosenStatements
      <4> QED
        BY <2>1, <2>2, <3>2, <4>1, AssembledRow
    <3> QED
      BY <3>1, <3>2
  <2>4. Assembled = [k \in DOMAIN base |-> Assembled[k]]
    BY DEF Assembled
  <2> QED
    BY <2>2, <2>3, <2>4
<1> QED
  BY <1>1, InvHolds, PTL

-----------------------------------------------------------------------------
(* Without a conflict or an invalid table, both sides' changes to a row    *)
(* are equal, and no two changed rows clash unless they are one match.     *)
LEMMA NoConflicts ==
  ASSUME Sorting, Bucketed, conflicts = {}, invalid = {}
  PROVE  /\ Built = Diff(BuildSide)
         /\ \A k \in Diff(LookupSide) \cap Diff(BuildSide) : Same(k)
         /\ \A k \in Diff(LookupSide) : \A l \in Diff(BuildSide) : Clash(k, l) => Matches(k)
         /\ matched = Diff(LookupSide) \cap Diff(BuildSide)
         /\ extra[LookupSide] = Diff(LookupSide) \ Diff(BuildSide)
         /\ extra[BuildSide] = Diff(BuildSide) \ Diff(LookupSide)
<1>1. /\ matched = {k \in Diff(LookupSide) : Matches(k)}
      /\ conflicts = FoundIn(ValidIn(Diff(LookupSide)))
      /\ extra[LookupSide] = {k \in Diff(LookupSide) : IsExtra(k)}
      /\ extra[BuildSide] = Built \ Diff(LookupSide)
  BY TwoSides DEF Sorting, Compared
<1>2. \A k : Valid(k)
  BY DEF Valid
<1>3. Built = Diff(BuildSide)
  BY <1>2 DEF Built
<1>4. \A k \in Diff(LookupSide) : Found(k) = {}
  BY <1>1, <1>2, FoundInSet DEF ValidIn
<1>5. ASSUME NEW k \in Diff(LookupSide), k \in Diff(BuildSide) PROVE Same(k)
  <2>1. ~Same(k) => [pair |-> Pair(k, k), kind |-> "primary_key"] \in Found(k)
    BY <1>3, <1>5, ConflictPairs
  <2> QED
    BY <1>4, <2>1
<1>6. ASSUME NEW k \in Diff(LookupSide), NEW l \in Diff(BuildSide), Clash(k, l)
      PROVE  Matches(k)
  <2>1. ~Matches(k) => [pair |-> Pair(k, l), kind |-> "unique_index"] \in Found(k)
    BY <1>3, <1>6, ConflictPairs
  <2> QED
    BY <1>4, <2>1
<1>7. \A k \in Diff(LookupSide) : /\ Matches(k) <=> k \in Diff(BuildSide)
                                  /\ IsExtra(k) <=> k \notin Diff(BuildSide)
  BY <1>2, <1>3, <1>4, <1>5 DEF Matches, IsExtra
<1> QED
  BY <1>1, <1>3, <1>5, <1>6, <1>7

(* The rows assembled then are those of the three-way merge.               *)
LEMMA ThreeWayRows ==
  ASSUME Sorting, Bucketed, conflicts = {}, invalid = {}, NEW k \in DOMAIN base
  PROVE  Assembled[k] = IF ours[k] = base[k] THEN theirs[k] ELSE ours[k]
<1>1. /\ matched = Diff("ours") \cap Diff("theirs")
      /\ extra["ours"] = Diff("ours") \ Diff("theirs")
      /\ extra["theirs"] = Diff("theirs") \ Diff("ours")
  <2>1. CASE BuildSide = "ours" /\ LookupSide = "theirs"
    BY <2>1, NoConflicts
  <2>2. CASE BuildSide = "theirs" /\ LookupSide = "ours"
    BY <2>2, NoConflicts
  <2> QED
    BY <2>1, <2>2, TwoSides
<1>2. /\ Sides = {"ours", "theirs"} /\ Contents("ours") = ours /\ Contents("theirs") = theirs
  BY DEF Sides, Contents
<1>3. \A side : <<side, k>> \in Applied <=>
         \/ side = "ours" /\ k \in matched \cup extra["ours"]
         \/ side = "theirs" /\ k \in extra["theirs"]
  BY <1>2 DEF Applied
<1>4. /\ k \in Diff("ours") <=> base[k] # ours[k]
      /\ k \in Diff("theirs") <=> base[k] # theirs[k]
  BY <1>2 DEF Diff
<1>5. CASE k \in Diff("ours")
  <2>1. <<"ours", k>> \in Applied
    BY <1>1, <1>3, <1>5
  <2>2. Assembled[k] = ours[k]
    BY <1>2, <2>1, AssembledRow
  <2> QED
    BY <1>4, <1>5, <2>2
<1>6. CASE k \notin Diff("ours") /\ k \in Diff("theirs")
  <2>1. <<"theirs", k>> \in Applied
    BY <1>1, <1>3, <1>6
  <2>2. Assembled[k] = theirs[k]
    BY <1>2, <2>1, AssembledRow
  <2> QED
    BY <1>4, <1>6, <2>2
<1>7. CASE k \notin Diff("ours") /\ k \notin Diff("theirs")
  <2>1. \A s \in Sides : <<s, k>> \notin Applied
    BY <1>1, <1>2, <1>3, <1>7
  <2>2. Assembled[k] = base[k]
    BY <2>1, AssembledRow
  <2> QED
    BY <1>4, <1>7, <2>2
<1> QED
  BY <1>5, <1>6, <1>7

(* A change that leaves an index alone leaves the row's values there: the  *)
(* other side's file, which has the base row, would hold them twice.       *)
LEMMA UntouchedIndex ==
  ASSUME Given, NEW s \in Sides, NEW t \in Sides,
         NEW k \in Diff(s), k \notin Diff(t), NEW l \in DOMAIN base, k # l,
         schema.tableOf[k] = schema.tableOf[l],
         Contents(s)[k] # NoRow, Contents(t)[l] # NoRow,
         NEW index \in schema.unique, index \cap ColumnsSet(s, k) = {},
         \A c \in index : /\ Contents(s)[k][c] # Null
                          /\ Contents(s)[k][c] = Contents(t)[l][c]
  PROVE  FALSE
<1>1. /\ k \in DOMAIN base /\ Op(s, k) # "delete"
      /\ Op(s, k) = "insert" <=> base[k] = NoRow
  BY OpRows
<1>2. Contents(t)[k] = base[k]
  BY <1>1 DEF Diff
<1>3. /\ index # {} /\ index \subseteq DOMAIN Contents(s)[k]
      /\ DOMAIN Contents(t) = DOMAIN base /\ IsUnique(Contents(t))
  BY <1>1, GivenContents
<1>4. base[k] # NoRow
  <2>1. Op(s, k) = "insert" => ColumnsSet(s, k) = DOMAIN Contents(s)[k]
    BY DEF ColumnsSet
  <2> QED
    BY <1>1, <1>3, <2>1
<1>5. \A c \in index : Contents(s)[k][c] = base[k][c]
  <2>1. ColumnsSet(s, k) = {c \in DOMAIN Contents(s)[k] : Contents(s)[k][c] # base[k][c]}
    BY <1>1, <1>4 DEF ColumnsSet
  <2> QED
    BY <1>3, <2>1
<1>6. \A c \in index : Contents(t)[k][c] # Null /\ Contents(t)[k][c] = Contents(t)[l][c]
  BY <1>2, <1>5
<1>7. /\ k \in {m \in DOMAIN Contents(t) : Contents(t)[m] # NoRow}
      /\ l \in {m \in DOMAIN Contents(t) : Contents(t)[m] # NoRow}
  BY <1>1, <1>2, <1>3, <1>4
<1>8. \E c \in index : Contents(t)[k][c] # Contents(t)[l][c]
  BY <1>3, <1>6, <1>7 DEF IsUnique
<1> QED
  BY <1>6, <1>8

(* Two rows changed on different sides, and only there, share no value.    *)
LEMMA ChangedApart ==
  ASSUME Given, Sorting, Bucketed, conflicts = {}, invalid = {},
         NEW k \in Diff(LookupSide), k \notin Diff(BuildSide),
         NEW l \in Diff(BuildSide), l \notin Diff(LookupSide),
         schema.tableOf[k] = schema.tableOf[l],
         Contents(LookupSide)[k] # NoRow, Contents(BuildSide)[l] # NoRow,
         NEW index \in schema.unique,
         \A c \in index : /\ Contents(LookupSide)[k][c] # Null
                          /\ Contents(LookupSide)[k][c] = Contents(BuildSide)[l][c]
  PROVE  FALSE
<1>1. BuildSide \in Sides /\ LookupSide \in Sides
  BY TwoSides
<1>2. k \in DOMAIN base /\ l \in DOMAIN base /\ k # l
  BY DEF Diff
<1>3. Op(LookupSide, k) # "delete" /\ Op(BuildSide, l) # "delete"
  BY OpRows
<1>4. ~Clash(k, l)
  BY NoConflicts DEF Matches
<1>5. \/ index \cap ColumnsSet(LookupSide, k) = {}
      \/ index \cap ColumnsSet(BuildSide, l) = {}
  BY <1>3, <1>4, SharedValue DEF Clash
<1>6. index \cap ColumnsSet(LookupSide, k) # {}
  BY <1>1, <1>2, UntouchedIndex
<1>7. index \cap ColumnsSet(BuildSide, l) # {}
  BY <1>1, <1>2, UntouchedIndex
<1> QED
  BY <1>5, <1>6, <1>7

(* With no conflict and no invalid table the driver puts the three-way     *)
(* merge of the rows together, and every unique index holds of it.         *)
THEOREM CleanMergeIsThreeWayHolds == Spec => []CleanMergeIsThreeWay
<1>1. Inv => CleanMergeIsThreeWay
  <2> SUFFICES ASSUME Inv, Bucketed, conflicts = {}, invalid = {}
               PROVE  /\ IsUnique(Assembled)
                      /\ \A k \in DOMAIN base : Assembled[k] =
                           IF ours[k] = base[k] THEN theirs[k] ELSE ours[k]
    BY DEF CleanMergeIsThreeWay
  <2>1. Given /\ Sorting
    BY DEF Inv
  <2>2. \A k \in DOMAIN base :
           Assembled[k] = IF ours[k] = base[k] THEN theirs[k] ELSE ours[k]
    BY <2>1, ThreeWayRows
  <2>3. DOMAIN Assembled = DOMAIN base
    BY DEF Assembled
  <2>4. /\ Contents("ours") = ours /\ Contents("theirs") = theirs
        /\ \/ BuildSide = "ours" /\ LookupSide = "theirs"
           \/ BuildSide = "theirs" /\ LookupSide = "ours"
    BY TwoSides DEF Contents
  <2>5. /\ DOMAIN ours = DOMAIN base /\ DOMAIN theirs = DOMAIN base
        /\ IsUnique(ours) /\ IsUnique(theirs)
    BY <2>1, <2>4, GivenContents DEF Sides
  <2>6. ASSUME NEW index \in schema.unique,
               NEW k \in DOMAIN base, NEW l \in DOMAIN base, k # l,
               Assembled[k] # NoRow, Assembled[l] # NoRow,
               schema.tableOf[k] = schema.tableOf[l],
               \A c \in index : Assembled[k][c] # Null,
               \A c \in index : Assembled[k][c] = Assembled[l][c]
        PROVE  FALSE
    <3>1. ~(Assembled[k] = ours[k] /\ Assembled[l] = ours[l])
      BY <2>5, <2>6 DEF IsUnique
    <3>2. ~(Assembled[k] = theirs[k] /\ Assembled[l] = theirs[l])
      BY <2>5, <2>6 DEF IsUnique
    <3>3. /\ Assembled[k] = ours[k] \/ Assembled[k] = theirs[k]
          /\ Assembled[l] = ours[l] \/ Assembled[l] = theirs[l]
          /\ Assembled[k] # ours[k] => ours[k] = base[k] /\ theirs[k] # base[k]
          /\ Assembled[l] # ours[l] => ours[l] = base[l] /\ theirs[l] # base[l]
      BY <2>2
    <3>4. \A m \in DOMAIN base : Assembled[m] # theirs[m] =>
                                   ours[m] # base[m] /\ theirs[m] = base[m]
      <4> SUFFICES ASSUME NEW m \in DOMAIN base, Assembled[m] # theirs[m]
                   PROVE  ours[m] # base[m] /\ theirs[m] = base[m]
        OBVIOUS
      <4>1. ours[m] # base[m] /\ ours[m] # theirs[m]
        BY <2>2
      <4>2. m \in Diff("ours") /\ (theirs[m] # base[m] => m \in Diff("theirs"))
        BY <2>4, <4>1 DEF Diff
      <4>3. m \in Diff("ours") /\ m \in Diff("theirs") => Same(m)
        BY <2>1, <2>4, NoConflicts
      <4> QED
        BY <4>1, <4>2, <4>3 DEF Same
    <3>5. CASE Assembled[k] # ours[k] /\ Assembled[l] # theirs[l]
      <4>1. /\ k \in Diff("theirs") /\ k \notin Diff("ours")
            /\ l \in Diff("ours") /\ l \notin Diff("theirs")
            /\ Assembled[k] = theirs[k] /\ Assembled[l] = ours[l]
        BY <2>4, <3>3, <3>4, <3>5 DEF Diff
      <4>2. \A c \in index : /\ theirs[k][c] # Null /\ theirs[k][c] = ours[l][c]
                             /\ ours[l][c] # Null /\ ours[l][c] = theirs[k][c]
        BY <2>6, <4>1
      <4>3. theirs[k] # NoRow /\ ours[l] # NoRow
        BY <2>6, <4>1
      <4>4. CASE BuildSide = "ours" /\ LookupSide = "theirs"
        BY <2>1, <2>4, <2>6, <4>1, <4>2, <4>3, <4>4, ChangedApart
      <4>5. CASE BuildSide = "theirs" /\ LookupSide = "ours"
        BY <2>1, <2>4, <2>6, <4>1, <4>2, <4>3, <4>5, ChangedApart
      <4> QED
        BY <2>4, <4>4, <4>5
    <3>6. CASE Assembled[l] # ours[l] /\ Assembled[k] # theirs[k]
      <4>1. /\ l \in Diff("theirs") /\ l \notin Diff("ours")
            /\ k \in Diff("ours") /\ k \notin Diff("theirs")
            /\ Assembled[l] = theirs[l] /\ Assembled[k] = ours[k]
        BY <2>4, <3>3, <3>4, <3>6 DEF Diff
      <4>2. \A c \in index : /\ theirs[l][c] # Null /\ theirs[l][c] = ours[k][c]
                             /\ ours[k][c] # Null /\ ours[k][c] = theirs[l][c]
        BY <2>6, <4>1
      <4>3. theirs[l] # NoRow /\ ours[k] # NoRow
        BY <2>6, <4>1
      <4>4. CASE BuildSide = "ours" /\ LookupSide = "theirs"
        BY <2>1, <2>4, <2>6, <4>1, <4>2, <4>3, <4>4, ChangedApart
      <4>5. CASE BuildSide = "theirs" /\ LookupSide = "ours"
        BY <2>1, <2>4, <2>6, <4>1, <4>2, <4>3, <4>5, ChangedApart
      <4> QED
        BY <2>4, <4>4, <4>5
    <3> QED
      BY <3>1, <3>2, <3>3, <3>5, <3>6
  <2>7. IsUnique(Assembled)
    BY <2>3, <2>6 DEF IsUnique
  <2> QED
    BY <2>2, <2>7
<1> QED
  BY <1>1, InvHolds, PTL
=============================================================================
