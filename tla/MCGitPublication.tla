-------------------------- MODULE MCGitPublication --------------------------
(***************************************************************************)
(* Two publishers race for one branch that outsiders push to and rewrite:  *)
(* a squashrebasemerge op and a standalone merge op; a squashrebasemerge   *)
(* op with nothing to publish and one that may not rebase; two workspaces  *)
(* that were created empty and both create the branch; one of those when   *)
(* the branch exists already; and a standalone merge with nothing to       *)
(* publish, which puts back a history that was rewritten meanwhile.        *)
(***************************************************************************)
EXTENDS GitPublication

Setup(p, q, rebases, idle, branch) ==
    [mode |-> [p |-> p, q |-> q], rebases |-> rebases, idle |-> idle, branch |-> branch]

MCSetups ==
    {Setup("chain", "merge", {"p", "q"}, {}, TRUE),
     Setup("chain", "chain", {"p"}, {"p"}, TRUE),
     Setup("empty", "empty", {"p", "q"}, {}, FALSE),
     Setup("empty", "chain", {"p", "q"}, {}, TRUE),
     Setup("merge", "chain", {"p", "q"}, {"p"}, TRUE)}
=============================================================================
