------------------------------ MODULE MCTestRun ------------------------------
(* Two tests, and every profile of at most two blocks of two files. *)
EXTENDS TestRun

MCBlocks ==
  [file : {"a.go", "b.go"}, stmts : {0, 2}, count : {0, 1}]
    \cup {[file |-> "b.go", stmts |-> 18, count |-> 3], Junk}

MCProfiles == UNION {[1..n -> MCBlocks] : n \in 0..2}
=============================================================================
