----------------------- MODULE MCRoundRobinScheduler -----------------------
(***************************************************************************)
(* Small instances of RoundRobinScheduler: two classic links, 1 and 2,     *)
(* share two buffers, an LE link, 3, has one buffer of its own.            *)
(***************************************************************************)
EXTENDS RoundRobinScheduler

MCTypeOf == [h \in Handle |-> IF h = 3 THEN "LE" ELSE "CLASSIC"]

MCMaxCredits == [t \in {"CLASSIC", "LE"} |-> IF t = "LE" THEN 1 ELSE 2]
=============================================================================
