--------------------------- MODULE MCConsumerMaker ---------------------------
(***************************************************************************)
(* ConsumerMaker on small instances: two workers, a short log, and as many *)
(* faults as it takes to make two sessions fail one after the other.       *)
(***************************************************************************)
EXTENDS ConsumerMaker, TLC

\* Workers are interchangeable: no action or safety property tells them apart.
WorkerSymmetry == Permutations(Workers)

NoPoison == {}
LastRecord == {MaxLog - 1}
=============================================================================
