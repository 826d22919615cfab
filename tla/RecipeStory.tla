----------------------------- MODULE RecipeStory -----------------------------
(***************************************************************************)
(* The story of a job (pkg/story/live): a tree that a decorated executor   *)
(* and a state observer build while RecipeScope executes or replays the    *)
(* recipe.  A call is shown by one node, however often its scope repeats   *)
(* the body below it; a state is shown from the moment its machine enters  *)
(* it until the machine enters another one or returns.  Each new process   *)
(* starts a new tree, which the replay fills.  A reader's replay stops at  *)
(* the end of the history with a cache miss, which leaves the open nodes   *)
(* as they are: its story is the tree at that point.                       *)
(***************************************************************************)
EXTENDS RecipeScope

(* A policy scope runs the state it stands for, and nothing else. *)
ASSUME PolicyAssumption == \A n \in Node \ {Root} : Kind[Parent[n]] = "policy" => n = First[Parent[n]]

VARIABLE tree    \* the recorder: see NewStory

storyVars == <<vars, tree>>

-----------------------------------------------------------------------------
(* The tree builder: nodes in the order of their creation, and a stack. *)

Current(t) == t.open[Len(t.open)]

Add(t, of, kind, up, status) ==
    [t EXCEPT !.nodes = Append(@, [of |-> of, kind |-> kind, up |-> up, status |-> status])]

Push(t, of, kind) == [Add(t, of, kind, Current(t), "running") EXCEPT !.open = Append(@, Len(t.nodes) + 1)]

Pop(t) == [t EXCEPT !.open = SubSeq(@, 1, Len(@) - 1)]

Mark(t, i, status) == [t EXCEPT !.nodes[i].status = status]

DeriveContainerStatus(t, i) ==
    LET children == {j \in DOMAIN t.nodes : t.nodes[j].up = i}
        last == CHOOSE j \in children : \A k \in children : k <= j
    IN  IF children = {} THEN "unknown"
        ELSE IF t.nodes[last].status \in {"running", "unknown"} THEN t.nodes[last].status
        ELSE IF \E j \in children : t.nodes[j].status = "failed" THEN "failed" ELSE "succeeded"

Completed(t, i) ==
    LET status == DeriveContainerStatus(t, i) IN IF status = "unknown" THEN "succeeded" ELSE status

(* Only a sequence that ran nothing is shown as unknown. *)
StatusOf(t, n, sig) ==
    IF sig # "ok" THEN "failed"
    ELSE IF Kind[n] = "sequence" THEN DeriveContainerStatus(t, Current(t)) ELSE Completed(t, Current(t))

Unobserved == [state |-> 0, exited |-> FALSE, evaluated |-> FALSE]

(* The recipe's node, and the root's below it; per machine, its observer. *)
NewStory ==
    [nodes |-> <<[of |-> NoNode, kind |-> "recipe", up |-> 0, status |-> "running"],
                 [of |-> Root, kind |-> Kind[Root], up |-> 1, status |-> "running"]>>,
     open |-> <<1, 2>>,
     observed |-> [m \in Node |-> Unobserved]]

-----------------------------------------------------------------------------
(* The state observer of a machine. *)

IsVisit(k) == Kind[k] = "policy" \/ (Kind[k] = "state" /\ ~EnclosedBy(k, "policy"))
StateIn(k) == IF Kind[k] = "policy" THEN First[k] ELSE k

(* The node that encloses n in the story: policy scopes are not shown. *)
Container(n) == IF EnclosedBy(n, "policy") THEN Parent[Parent[n]] ELSE Parent[n]

CloseCurrentState(t, m) ==
    LET o == t.observed[m]
        judged == IF o.exited /\ t.nodes[o.state].status = "running" THEN Mark(t, o.state, Completed(t, o.state)) ELSE t
        popped == IF Current(t) = o.state THEN Pop(judged) ELSE judged
    IN  IF o.state = 0 THEN t
        ELSE [popped EXCEPT !.observed[m] = Unobserved]

StateEntered(t, m, s) ==
    LET closed == CloseCurrentState(t, m)
    IN  [Push(closed, s, "state") EXCEPT !.observed[m] = [Unobserved EXCEPT !.state = Len(closed.nodes) + 1]]

StateExited(t, m) == [t EXCEPT !.observed[m].exited = TRUE]

(* The transitions out of a state are one node below it.  A machine that    *)
(* starts over evaluates its initial ones while the last state is observed. *)
TransitionEvaluated(t, m) ==
    LET o == t.observed[m]
    IN  IF o.state = 0 \/ o.evaluated THEN t
        ELSE [Add(t, NoNode, "transition", o.state, "succeeded") EXCEPT !.observed[m].evaluated = TRUE]

(* Mutant: a machine that returns leaves its last state open. *)
KeepState(t, m) == t

Flush(t, m) == CloseCurrentState(t, m)

-----------------------------------------------------------------------------
(* The decorated calls. *)

(* A state runs its node in the observed node or, after a failed attempt,   *)
(* in a state node of its own below that one.                               *)
EnterNode(t, s) ==
    LET cur == t.nodes[Current(t)]
    IN  IF cur.kind = "state" /\ cur.status = "running" THEN t ELSE Push(t, s, "state")

LeaveNode(t, s, sig) ==
    LET cur == Current(t)
        repeated == cur # t.observed[Container(s)].state
        judged == IF sig # "ok" THEN Mark(t, cur, "failed")
                  ELSE IF repeated THEN Mark(t, cur, Completed(t, cur)) ELSE t
    IN  IF repeated THEN Pop(judged) ELSE judged

Enter(t, n, k) ==
    IF IsVisit(k) THEN StateEntered(t, n, StateIn(k))
    ELSE IF Kind[k] = "state" THEN t
    ELSE Push(IF Kind[n] = "state" THEN EnterNode(t, n) ELSE t, k, Kind[k])

(* The call of a shown node returns; what a handled catch ends has no exit. *)
Leave(t, n, sig) ==
    IF IsVisit(n) THEN IF sig = "handled" THEN t ELSE StateExited(t, Parent[n])
    ELSE IF Kind[n] = "state" THEN t
    ELSE LET ended == IF Kind[n] = "machine" THEN Flush(t, n) ELSE t
             judged == Pop(Mark(ended, Current(ended), StatusOf(ended, n, sig)))
         IN  IF n = Root THEN Pop(Mark(judged, Current(judged), IF sig = "ok" THEN "succeeded" ELSE "failed"))
             ELSE IF Kind[Parent[n]] = "state" THEN LeaveNode(judged, Parent[n], sig) ELSE judged

(* The task's step is added to the op that is current. *)
ShowTask(t, n, ok) == Add(t, n, "step", Current(t), IF ok THEN "succeeded" ELSE "failed")

-----------------------------------------------------------------------------
StoryInit == Init /\ tree = NewStory

TellTask(n) == RunTask(n) /\ tree' = ShowTask(tree, n, log'[pos'].what = "task_ok")

TellCall(n) == CallKid(n) /\ tree' = Enter(tree, n, act[n].kid)

TellReturn(n) ==
    /\ Settle(n) \/ FailScope(n)
    /\ tree' = Leave(tree, n, IF n = Root THEN result' ELSE act'[Parent[n]].sig)

(* A state without a successor is terminal, or none of its transitions matched. *)
TellTransitions(n) ==
    /\ Kind[n] = "machine"
    /\ \/ StartBody(n) /\ tree' = TransitionEvaluated(tree, n)
       \/ /\ Resume(n)
          /\ \/ act[n].sig = "ok" /\ tree' = TransitionEvaluated(tree, n)
             \/ (act[n].sig = "ok" => Succ[act[n].kid] = NoNode) /\ UNCHANGED tree

Untold(n) ==
    /\ \/ Kind[n] # "machine" /\ (StartBody(n) \/ Resume(n))
       \/ FinishBody(n) \/ Decide(n) \/ Handle(n)
    /\ UNCHANGED tree

Restarted == Crash /\ tree' = NewStory

StoryNext ==
    \/ \E n \in Node : TellTask(n) \/ TellCall(n) \/ TellReturn(n) \/ TellTransitions(n) \/ Untold(n)
    \/ Restarted
    \/ JobOver /\ UNCHANGED tree

StorySpec == StoryInit /\ [][StoryNext]_storyVars

-----------------------------------------------------------------------------
(* The nodes that show a step of an op, and the history's task results. *)
Steps == {i \in DOMAIN tree.nodes : tree.nodes[i].kind = "step"}
Tasks == {j \in 1..pos : log[j].what \in {"task_ok", "task_err"}}

(* The place of i among the numbers of a set. *)
Rank(S, i) == Cardinality({j \in S : j <= i})

(* A node shows a task result. *)
Shows(node, entry) == node.of = entry.site /\ (node.status = "succeeded" <=> entry.what = "task_ok")

(* The node that a node belongs below. *)
BelongsBelow(node, up) ==
    CASE node.kind = "step" -> up.kind = "op" /\ up.of = node.of
      [] node.kind = "transition" -> up.kind = "state"
      [] node.kind = "state" -> up.of \in {node.of, Container(node.of)}
      [] OTHER -> up.of = Container(node.of)

(* The story shows the run: the recorded task results, in their order and    *)
(* with their outcome, each below the calls that led to it and below no      *)
(* other, through retries, routes, handled catches, timeouts and replays;    *)
(* exactly the calls that have not returned are open (the stack of           *)
(* treeBuilder against that of the executor and its observers).              *)
StoryShowsTheRun ==
    /\ Cardinality(Steps) = Cardinality(Tasks)
    /\ \A i \in Steps, j \in Tasks : Rank(Steps, i) = Rank(Tasks, j) => Shows(tree.nodes[i], log[j])
    /\ \A i \in DOMAIN tree.nodes \ {1} : BelongsBelow(tree.nodes[i], tree.nodes[tree.nodes[i].up])
    /\ LET open == {tree.nodes[tree.open[i]] : i \in DOMAIN tree.open}
       IN  {node.of : node \in {x \in open : x.kind \notin {"recipe", "state"}}}
              = {n \in Node : act[n].pc # "idle" /\ Kind[n] \notin {"state", "policy"}}
=============================================================================
