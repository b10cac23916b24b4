------------------------------- MODULE MCCache -------------------------------
(* Model checking of ControlCache: addresses are interchangeable.          *)
EXTENDS ControlCache, TLC

CONSTANTS a1, a2, a3, a4, plain, ignore, replace

MCLogs == {<<ignore>>, <<plain, ignore>>, <<ignore, replace>>}
Symmetry == Permutations(Addresses)
=============================================================================
