----------------------------- MODULE MCRefresh -----------------------------
(* An instance of Refresh for TLC.                                         *)
EXTENDS Refresh, TLC

(* The list grows with the trace and is short for the later commit.        *)
SomeFound == [r \in Reports |-> IF r.sha = 1 THEN 2 + r.rows ELSE r.rows]
=============================================================================
