--------------------------- MODULE MCRequestScope ---------------------------
(***************************************************************************)
(* Two tasks beside each other in one process: two logged requests, or two *)
(* runs of actors, or a request beside the lifespan of the application.    *)
(***************************************************************************)
EXTENDS RequestScope, TLC

CONSTANTS t1, t2

TwoTasks == {t1, t2}
TaskSymmetry == Permutations(TwoTasks)

Api == {<<"http", "http">>, <<"http", "lifespan">>, <<"options", "lifespan">>}
Worker == {<<"actor", "actor">>}

TwoOfAKind == {(t1 :> m[1] @@ t2 :> m[2]) : m \in Api \cup Worker}
=============================================================================
