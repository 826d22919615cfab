------------------------ MODULE MCRecipeMachineCatch ------------------------
(***************************************************************************)
(* A recipe whose machine declares `catch: continue', a retry and a        *)
(* timeout, and whose second state runs a machine without a catch:         *)
(*                                                                         *)
(*   root: sequence (catch: continue)                                      *)
(*     flow: machine (catch: continue, retry, timeout)                     *)
(*       work: state (retry)   build: op                                   *)
(*       verify: state   inner: machine                                    *)
(*         probe: state (catch: route to mend)   ping: op                  *)
(*         mend: state   fix: op                                           *)
(*     report: op                                                          *)
(***************************************************************************)
EXTENDS RecipeStory

MCNode == {"root", "flow", "work_policy", "work", "build", "verify_policy", "verify", "inner",
           "probe", "ping", "mend", "fix", "report"}
MCNoNode == "-"
MCRoot == "root"

Default(f, d) == [n \in MCNode |-> IF n \in DOMAIN f THEN f[n] ELSE d]

MCKind ==
    [root |-> "sequence", flow |-> "machine",
     work_policy |-> "policy", work |-> "state", build |-> "op",
     verify_policy |-> "policy", verify |-> "state", inner |-> "machine",
     probe |-> "state", ping |-> "op", mend |-> "state", fix |-> "op", report |-> "op"]

MCParent ==
    [root |-> "-", flow |-> "root", work_policy |-> "flow", work |-> "work_policy", build |-> "work",
     verify_policy |-> "flow", verify |-> "verify_policy", inner |-> "verify",
     probe |-> "inner", ping |-> "probe", mend |-> "inner", fix |-> "mend", report |-> "root"]

MCFirst == Default([root |-> "flow", flow |-> "work_policy", work_policy |-> "work", work |-> "build",
                    verify_policy |-> "verify", verify |-> "inner", inner |-> "probe",
                    probe |-> "ping", mend |-> "fix"], "-")
MCSucc == Default([flow |-> "report", work_policy |-> "verify_policy"], "-")
MCCatch == Default([root |-> "continue", flow |-> "continue", probe |-> "route"], "none")
MCRouteTo == Default([probe |-> "mend"], "-")
MCMaxAttempts == Default([work |-> 2, flow |-> 2], 1)
MCTimed == {"flow"}
MCRetrySteps == {}
=============================================================================
