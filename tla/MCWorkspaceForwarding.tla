------------------------ MODULE MCWorkspaceForwarding ------------------------
(***************************************************************************)
(* The kinds of job the forwarding runs consider.                          *)
(***************************************************************************)
EXTENDS WorkspaceForwarding

(* Jobs whose root workspace was submitted with a scope, with and without a *)
(* snapshot, and jobs without one whose scopes are never retried.           *)
MCSetups ==
    {[rootScoped |-> TRUE, initialPack |-> TRUE, mayRetry |-> TRUE],
     [rootScoped |-> TRUE, initialPack |-> FALSE, mayRetry |-> TRUE],
     [rootScoped |-> FALSE, initialPack |-> FALSE, mayRetry |-> FALSE]}

(* A job without a root scope, with retries. *)
MCRootRetry == {[rootScoped |-> FALSE, initialPack |-> FALSE, mayRetry |-> TRUE]}
=============================================================================
