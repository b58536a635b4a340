--------------------------- MODULE MCCanonicalQuery ---------------------------
(* The names a and a-, of which the joined strings order the other way round; *)
(* values of a, space, %, &, = and a byte above 127.                          *)
EXTENDS CanonicalQuery

MCNames == {<<97>>, <<97, 45>>}
=============================================================================
