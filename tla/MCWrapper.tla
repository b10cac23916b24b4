------------------------------ MODULE MCWrapper ------------------------------
(* Model checking of WrapperLog: connections and savepoint names are       *)
(* interchangeable, and only safety is checked.                            *)
EXTENDS WrapperLog, TLC

CONSTANTS c1, c2, a, b

Setting(env, conns, maxDml, maxSaves) ==
  [env |-> env, conns |-> conns, maxDml |-> maxDml, maxSaves |-> maxSaves]

(* Two connections that interleave, one that nests savepoints, two with    *)
(* crashes, lock timeouts and END, and two with all of these but timeouts. *)
MCSettings == {Setting({}, 2, 3, 1), Setting({}, 1, 3, 4),
               Setting({"crash", "busy", "end"}, 2, 2, 1),
               Setting({"crash", "end"}, 2, 2, 1)}
MCReuse == {Setting({"reuse"}, 1, 2, 4)}

Symmetry == Permutations(Conns) \cup Permutations(Names)
=============================================================================
