------------------------- MODULE MCSessionEvents ------------------------
(* Two runs of one watched session; three posts to one route, two of which *)
(* carry one event id, one of them with an empty body.                     *)
EXTENDS SessionEvents

CONSTANTS r1, r2, w1, w2, w3, s1, idA, idB, git, other

MC_SessionOf == [r \in Run |-> s1]
MC_IdOf == w1 :> idA @@ w2 :> idA @@ w3 :> idB
MC_RouteOf   == [w \in Post |-> git]
=========================================================================
