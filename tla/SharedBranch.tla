---------------------------- MODULE SharedBranch ----------------------------
(***************************************************************************)
(* What the git publication ops promise together: a branch is a set of     *)
(* commits, each with its author; an op adds one commit of its own, once,  *)
(* and never takes any out; it reports success only for a commit that the  *)
(* branch has held.  Writers outside may add and remove what they like.    *)
(***************************************************************************)
CONSTANTS Op, Outside
VARIABLES
    branch,   \* the branch's commits, <<commit, author>>
    ever,     \* every commit the branch has held
    idle,     \* the ops with nothing to publish
    outcome   \* what each op has reported

vars == <<branch, ever, idle, outcome>>

Of(p) == {c \in ever : c[2] = p}

Init ==
    /\ ever = branch /\ \A c \in branch : c[2] = Outside
    /\ idle \subseteq Op
    /\ outcome = [p \in Op |-> "none"]

(* One commit of p's, and the commits below it that had been taken out. *)
Publish(p) ==
    /\ outcome[p] = "none"
    /\ branch \subseteq branch'
    /\ ever' = ever \cup branch'
    /\ \E c \in branch' : c[2] = p /\ Of(p) \subseteq {c} /\ branch' \subseteq branch \cup ever \cup {c}
    /\ outcome' \in {outcome, [outcome EXCEPT ![p] = "success"]}
    /\ UNCHANGED idle

(* An op with nothing to publish may put back commits that were taken out. *)
PutBack(p) ==
    /\ outcome[p] = "none" /\ p \in idle
    /\ branch \subseteq branch' /\ branch' \subseteq ever
    /\ outcome' \in {outcome, [outcome EXCEPT ![p] = "success"]}
    /\ UNCHANGED <<ever, idle>>

Report(p, what) ==
    /\ outcome[p] = "none"
    /\ what = "success" => Of(p) # {} \/ p \in idle
    /\ outcome' = [outcome EXCEPT ![p] = what]
    /\ UNCHANGED <<branch, ever, idle>>

WriteOutside ==
    /\ \A c \in branch' \ branch : c[2] = Outside
    /\ ever' = ever \cup branch'
    /\ UNCHANGED <<idle, outcome>>

Next ==
    \/ \E p \in Op : Publish(p) \/ PutBack(p) \/ \E what \in {"success", "advanced", "diverged", "failed"} : Report(p, what)
    \/ WriteOutside

Spec == Init /\ [][Next]_vars
=============================================================================
