------------------------- MODULE MCExecutionRuntime -------------------------
(***************************************************************************)
(* A recipe of two tasks and two processes, a small one and a large one:   *)
(* the first task fits both until its extension asks for more than the     *)
(* small one has, the second needs all that the large one has.             *)
(***************************************************************************)
EXTENDS ExecutionRuntime

MCWorker == {"small", "large"}
MCAlloc == [small |-> 1, large |-> 3]
MCNeeds == <<1, 3>>
MCAsks == <<2, 0>>
=============================================================================
