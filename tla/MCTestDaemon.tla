---------------------------- MODULE MCTestDaemon ----------------------------
(* Small instances of TestDaemon: two modules and two watched files.       *)
EXTENDS TestDaemon, TLC

CONSTANTS m1, m2, p1, p2

MCRank == m1 :> 1 @@ m2 :> 2

\* Each file concerns one module.
MCRouteSplit == p1 :> {m1} @@ p2 :> {m2}

\* Every file is under the roots of every module.
MCRouteAll == [p \in Paths |-> Modules]
=============================================================================
