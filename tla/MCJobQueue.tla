----------------------------- MODULE MCJobQueue -----------------------------
(* Constant definitions that TLC needs for the runs of JobQueue.           *)
EXTENDS JobQueue, TLC

Symmetric == Permutations(Worker) \union Permutations(Handler) \union Permutations(Job)

=============================================================================
