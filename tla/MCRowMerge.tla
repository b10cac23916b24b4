----------------------------- MODULE MCRowMerge -----------------------------
(***************************************************************************)
(* Instances of RowMerge: one table with a unique column, one with a plain *)
(* column beside it, one with a composite index, and two linked tables     *)
(* that may be invalid.                                                    *)
(***************************************************************************)
EXTENDS RowMergeSafety
CONSTANTS va, vb

Filled(keys, rows) == [keys -> rows \cup {NoRow}]
UniqueRows == [{"u"} -> {va, vb, Null}]
WideRows == [{"u", "v"} -> {va, vb}] \cup {[u |-> Null, v |-> va]}
CompositeRows == {[u |-> va, v |-> va], [u |-> va, v |-> vb],
                  [u |-> vb, v |-> vb], [u |-> Null, v |-> vb]}

OneTable == [k \in 1..3 |-> "t"]
TwoKeys == [k \in 1..2 |-> "t"]
MCInstances ==
    <<[tables |-> Filled(1..3, UniqueRows), tableOf |-> OneTable,
       columns |-> [t |-> {"u"}], unique |-> {{"u"}}, links |-> {}, invalid |-> {{}}, dangling |-> {}],
      [tables |-> Filled(1..2, WideRows), tableOf |-> TwoKeys, columns |-> [t |-> {"u", "v"}],
       unique |-> {{"u"}}, links |-> {}, invalid |-> {{}}, dangling |-> {}],
      [tables |-> Filled(1..2, CompositeRows), tableOf |-> TwoKeys, columns |-> [t |-> {"u", "v"}],
       unique |-> {{"u", "v"}}, links |-> {}, invalid |-> {{}}, dangling |-> {}],
      [tables |-> Filled(1..3, [{"u"} -> {va}]),
       tableOf |-> <<"c", "t", "t">>, columns |-> [c |-> {"u"}, t |-> {"u"}], unique |-> {{"u"}},
       links |-> {<<"c", "t">>}, invalid |-> {{}, {"c"}, {"t"}},
       dangling |-> {"c"}]>>
=============================================================================
