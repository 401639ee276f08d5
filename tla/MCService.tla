----------------------------- MODULE MCService -----------------------------
(* Four requests on an engine with one place: three evaluations of one id, *)
(* one of which dies on its time budget, and one evaluation without an id. *)
EXTENDS Service, TLC

CONSTANTS a, b, c, d, one

MCRequests == {a, b, c, d}
MCIds == {one}
MCIdOf == (a :> one) @@ (b :> one) @@ (c :> one) @@ (d :> NoId)
MCUndurable == {c}
=============================================================================
