--------------------------- MODULE MCRecipeScope ---------------------------
(***************************************************************************)
(* A recipe for RecipeScope that meets every construct at once:            *)
(*                                                                         *)
(*   root: sequence (retry)                                                *)
(*     fetch: op (retry, catch: fail)                                      *)
(*     flow: machine (catch: route to repair)                              *)
(*       work: state (timeout, retry)   build: sequence of compile         *)
(*       repair: state (catch: continue)   patch: op                       *)
(*     merge: op that retries its own steps                                *)
(***************************************************************************)
EXTENDS RecipeScope

MCNode == {"root", "fetch", "flow", "work_policy", "work", "build", "compile",
           "repair_policy", "repair", "patch", "merge"}
MCNoNode == "-"
MCRoot == "root"

Default(f, d) == [n \in MCNode |-> IF n \in DOMAIN f THEN f[n] ELSE d]

MCKind ==
    [root |-> "sequence", fetch |-> "op", flow |-> "machine",
     work_policy |-> "policy", work |-> "state", build |-> "sequence", compile |-> "op",
     repair_policy |-> "policy", repair |-> "state", patch |-> "op", merge |-> "op"]

MCParent ==
    [root |-> "-", fetch |-> "root", flow |-> "root", work_policy |-> "flow",
     work |-> "work_policy", build |-> "work", compile |-> "build",
     repair_policy |-> "flow", repair |-> "repair_policy", patch |-> "repair", merge |-> "root"]

MCFirst ==
    Default([root |-> "fetch", flow |-> "work_policy", work_policy |-> "work", work |-> "build",
             build |-> "compile", repair_policy |-> "repair", repair |-> "patch"], "-")

MCSucc == Default([fetch |-> "flow", flow |-> "merge"], "-")

MCCatch == Default([fetch |-> "fail", flow |-> "route", repair |-> "continue"], "none")
MCRouteTo == Default([flow |-> "repair_policy"], "-")
MCMaxAttempts == Default([root |-> 2, fetch |-> 2, work |-> 2], 1)
MCTimed == {"work", "compile"}
MCRetrySteps == {"merge"}
=============================================================================
