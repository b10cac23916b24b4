------------------------------- MODULE MCFilter -------------------------------
(* A grandparent, parent and child table, each with a key, a reference and *)
(* a value column.                                                         *)
EXTENDS FilterSafety

MCTables == {"g", "p", "c"}
MCColumnNames == {"id", "fk", "v"}
MCKeySets == [g |-> {{"id"}, {"v"}}, p |-> {{"id"}, {"id", "v"}}, c |-> {{"id"}, {"fk"}, {"fk", "v"}}]
MCIntegerKey == [t \in MCTables |-> IF t = "p" THEN NoColumn ELSE "id"]

Key(child, childColumns, parent, parentColumns, onDelete, onUpdate) ==
  [child |-> child, childColumns |-> childColumns, parent |-> parent,
   parentColumns |-> parentColumns, onDelete |-> onDelete, onUpdate |-> onUpdate]
Refers(child, parent, onDelete, onUpdate) ==
  Key(child, {"fk"}, parent, {"id"}, onDelete, onUpdate)

MCForeignKeysOf == [
  none    |-> <<>>,
  checked |-> <<Refers("c", "p", "NO ACTION", "RESTRICT")>>,
  cascade |-> <<Refers("c", "p", "CASCADE", "CASCADE")>>,
  chain   |-> <<Refers("c", "p", "SET NULL", "CASCADE"), Refers("p", "g", "CASCADE", "NO ACTION")>>,
  \* two ways from g to c
  diamond |-> <<Refers("p", "g", "CASCADE", "CASCADE"), Refers("c", "p", "CASCADE", "SET DEFAULT"),
                Key("c", {"v"}, "g", {"id"}, "SET NULL", "CASCADE")>>,
  pair    |-> <<Key("c", {"fk", "v"}, "p", {"id", "v"}, "RESTRICT", "CASCADE")>>,
  itself  |-> <<Refers("c", "c", "CASCADE", "CASCADE")>>,
  cycle   |-> <<Refers("c", "p", "CASCADE", "CASCADE"), Refers("p", "c", "SET NULL", "CASCADE")>>,
  \* past MaxDepth: g, p, c, a column of g not met before, and c again
  deep    |-> <<Refers("p", "g", "CASCADE", "CASCADE"), Refers("c", "p", "SET NULL", "SET NULL"),
                Key("g", {"v"}, "c", {"fk"}, "NO ACTION", "CASCADE"),
                Key("c", {"v"}, "g", {"v"}, "NO ACTION", "CASCADE")>> ]

Insert(t, reads, omits) == [kind |-> "insert", table |-> t, columns |-> {AllColumns},
                            reads |-> reads, omits |-> omits]
Update(t, columns, reads) == [kind |-> "update", table |-> t, columns |-> columns,
                              reads |-> reads, omits |-> FALSE]
DeleteFrom(t, reads) == [kind |-> "delete", table |-> t, columns |-> {AllColumns},
                         reads |-> reads, omits |-> FALSE]
ById(t) == {<<t, "id">>}

MCStatementsOf == [
  newChild      |-> <<Insert("c", {}, FALSE)>>,
  newUnnumbered |-> <<Insert("c", {}, TRUE)>>,
  copyParents   |-> <<Insert("p", {<<"g", AllColumns>>}, FALSE)>>,
  setValue      |-> <<Update("c", {"v"}, ById("c"))>>,
  setParent     |-> <<Update("c", {"fk"}, ById("c"))>>,
  moveChild     |-> <<Update("c", {"id"}, {<<"c", "v">>})>>,
  setRoot       |-> <<Update("g", {"v"}, {})>>,
  adoptParent   |-> <<Update("p", {"fk"}, {<<"g", "v">>})>>,
  moveParent    |-> <<Update("p", {"id"}, ById("p"))>>,
  moveAll       |-> <<Update("g", {"id"}, {})>>,
  dropChild     |-> <<DeleteFrom("c", ById("c"))>>,
  dropParent    |-> <<DeleteFrom("p", ById("p"))>>,
  dropAll       |-> <<DeleteFrom("g", {})>>,
  newFamily     |-> <<Insert("p", {}, FALSE), Insert("c", {<<"p", "id">>}, TRUE)>>,
  dropFamily    |-> <<DeleteFrom("c", ById("c")), DeleteFrom("p", ById("p"))>> ]
=============================================================================
