---------------------------- MODULE MCChildGroup ----------------------------
(***************************************************************************)
(* A group of three children (a required one awaited by goal, an optional  *)
(* one awaited by job, one that is skipped or has no recipe); a group that *)
(* reports reviews; the start-only group; two recipes run and awaited; and *)
(* a command that submits over the broker.                                 *)
(***************************************************************************)
EXTENDS ChildGroup

Plan(kind, wait, skipped, unnamed, required, review) ==
    [kind |-> kind, wait |-> wait, skipped |-> skipped, unnamed |-> unnamed, required |-> required,
     review |-> review]

MCPlans ==
    {Plan("group", <<"goal", "job">>, {}, {}, {1}, TRUE),
     Plan("group", <<"job_success", "goal", "goal">>, {2}, {}, {1}, FALSE),
     Plan("start", <<"goal", "goal">>, {}, {2}, {1, 2}, FALSE),
     Plan("multi", <<"goal", "job">>, {}, {}, {}, FALSE),
     Plan("multi", <<"goal", "goal">>, {}, {2}, {}, FALSE),
     Plan("command", <<>>, {}, {}, {}, FALSE)}
=============================================================================
