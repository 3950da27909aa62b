--------------------------- MODULE MCRunLifecycle ---------------------------
(* Small instances of RunLifecycle for TLC.                                 *)
EXTENDS RunLifecycle

WorkerSymmetry == Permutations(Workers) \cup Permutations(Publishers)

AnyPoint == Points
(* Every point but the one between a claim and the first look at the run.   *)
AfterEntry == Points \ {"enter"}

=============================================================================
