-------------------------- MODULE RecipeStory_proofs --------------------------
(***************************************************************************)
(* The story shows the run, for every recipe and every number of faults    *)
(* and crashes.                                                            *)
(*                                                                         *)
(* The argument: the builder's stack mirrors the executor's.  What lies    *)
(* below an open node is fixed by the node alone: an op, a sequence or a   *)
(* machine lies on the node of its parent, a state on its machine or, when *)
(* it was entered again, on the node of the same state that the machine    *)
(* observes.  So whatever a step pushes or pops, the top of the stack is   *)
(* the node that shows the call on top of the executor.                    *)
(***************************************************************************)
EXTENDS RecipeStory, RecipeScope_proofs, SequenceTheorems, FiniteSetTheorems, WellFoundedInduction

-----------------------------------------------------------------------------
(* The invariant. *)

ShownKinds == {"op", "sequence", "machine"}
StoryKinds == ShownKinds \cup {"recipe", "state", "step", "transition"}
Statuses == {"running", "succeeded", "failed", "unknown"}
StoryNodes == [of : Node \cup {NoNode}, kind : StoryKinds, up : Nat, status : Statuses]
Observers == [state : Nat, exited : BOOLEAN, evaluated : BOOLEAN]
Trees == [nodes : Seq(StoryNodes), open : Seq(Nat), observed : [Node -> Observers]]

(* The nodes: the recipe's, and those that belong below an earlier one. *)
NodesOk(t) ==
    /\ Len(t.nodes) >= 1 /\ t.nodes[1].kind = "recipe" /\ t.nodes[1].of = NoNode
    /\ \A i \in 2..Len(t.nodes) :
          /\ t.nodes[i].kind # "recipe" /\ t.nodes[i].up \in 1..(i - 1)
          /\ BelongsBelow(t.nodes[i], t.nodes[t.nodes[i].up])

(* Node y, with index j, lies on node x, with index i, on the stack. *)
LiesOn(y, j, x, i, watched) ==
    /\ y.of \in Node
    /\ \/ /\ y.kind \in ShownKinds /\ y.kind = Kind[y.of]
          /\ x.of = Parent[y.of] /\ x.kind = IF y.of = Root THEN "recipe" ELSE Kind[Parent[y.of]]
       \/ /\ y.kind = "state" /\ Kind[y.of] = "state"
          /\ \/ j = watched[Container(y.of)].state /\ x.kind = "machine" /\ x.of = Container(y.of)
             \/ /\ j # watched[Container(y.of)].state /\ i = watched[Container(y.of)].state
                /\ x.kind = "state" /\ x.of = y.of

Sits(t, i) == LiesOn(t.nodes[t.open[i]], t.open[i], t.nodes[t.open[i - 1]], t.open[i - 1], t.observed)

StackOk(t) ==
    /\ \A i \in 1..Len(t.open) : t.open[i] \in 1..Len(t.nodes)
    /\ \A i, j \in 1..Len(t.open) : i < j => t.open[i] < t.open[j]
    /\ Len(t.open) >= 1 => t.open[1] = 1
    /\ \A i \in 2..Len(t.open) : Sits(t, i)

(* The calls that are open, each with one node. *)
OpenCall(t, i, n) == t.nodes[t.open[i]].kind \in ShownKinds /\ t.nodes[t.open[i]].of = n
OpenCalls(t) == {n \in Node : \E i \in 1..Len(t.open) : OpenCall(t, i, n)}
OpenOnce(t) == \A n \in Node : \A i, j \in 1..Len(t.open) : OpenCall(t, i, n) /\ OpenCall(t, j, n) => i = j

TreeOk(t) == t \in Trees /\ NodesOk(t) /\ StackOk(t) /\ OpenOnce(t)

(* The top of the stack shows the call n, or the state that is visited. *)
IsOn(t, n) == t.nodes[Current(t)].of = n /\ t.nodes[Current(t)].kind = Kind[n]
Visits(t, s) == t.nodes[Current(t)].kind = "state" /\ t.nodes[Current(t)].of = s /\ Current(t) = t.observed[Container(s)].state

TopOk(t, n) ==
    /\ Len(t.open) >= 1
    /\ Kind[n] \in {"op", "sequence"} => IsOn(t, n)
    /\ Kind[n] = "machine" => \/ t.observed[n].state = 0 /\ IsOn(t, n)
                              \/ \E s \in Node : Container(s) = n /\ Visits(t, s)
    /\ Kind[n] = "policy" => Visits(t, First[n])
    /\ Kind[n] = "state" => Visits(t, n)

(* The story's stack is the executor's. *)
CallsOk(t, acts) ==
    /\ OpenCalls(t) = {n \in Node : acts[n].pc # "idle" /\ Kind[n] \in ShownKinds}
    /\ \A m \in Node : acts[m].pc = "idle" \/ Kind[m] # "machine" => t.observed[m].state = 0

(* Steps and task results. *)
StepsOf(t) == {i \in 1..Len(t.nodes) : t.nodes[i].kind = "step"}
TasksOf(h, p) == {j \in 1..p : h[j].what \in {"task_ok", "task_err"}}
StepsOk(t, h, p) ==
    /\ Cardinality(StepsOf(t)) = Cardinality(TasksOf(h, p))
    /\ \A i \in StepsOf(t), j \in TasksOf(h, p) :
          Rank(StepsOf(t), i) = Rank(TasksOf(h, p), j) => Shows(t.nodes[i], h[j])

Tells(t, acts, node, h, p) ==
    /\ TreeOk(t) /\ CallsOk(t, acts) /\ StepsOk(t, h, p)
    /\ node = NoNode => Len(t.open) = 0
    /\ node # NoNode => TopOk(t, node)

StoryInv == Nested /\ Tells(tree, act, at, log, pos)

-----------------------------------------------------------------------------
(* Trees. *)

(* The types of a tree's parts. *)
LEMMA TreeParts ==
  ASSUME NEW t \in Trees
  PROVE  /\ t.nodes \in Seq(StoryNodes) /\ Len(t.nodes) \in Nat /\ DOMAIN t.nodes = 1..Len(t.nodes)
         /\ t.open \in Seq(Nat) /\ Len(t.open) \in Nat /\ DOMAIN t.open = 1..Len(t.open)
         /\ t.observed \in [Node -> Observers]
         /\ \A i \in 1..Len(t.nodes) : t.nodes[i] \in StoryNodes
         /\ \A i \in 1..Len(t.open) : t.open[i] \in Nat
         /\ \A m \in Node : t.observed[m] \in Observers /\ t.observed[m].state \in Nat
<1>1. t.nodes \in Seq(StoryNodes) /\ t.open \in Seq(Nat) /\ t.observed \in [Node -> Observers]
  BY DEF Trees
<1>2. \A i \in 1..Len(t.nodes) : t.nodes[i] \in StoryNodes
  BY <1>1
<1>3. \A m \in Node : t.observed[m] \in Observers /\ t.observed[m].state \in Nat
  BY <1>1 DEF Observers
<1> QED
  BY <1>1, <1>2, <1>3

(* The kinds above a node. *)
LEMMA KindsAre ==
  ASSUME NEW n \in Node
  PROVE  /\ Kind[n] \in Kinds /\ (n # Root => Parent[n] \in Node /\ Parent[n] # n) /\ Parent[Root] = NoNode
         /\ Parent[n] = NoNode <=> n = Root
         /\ Kind[n] \in ShownKinds /\ n # Root => Kind[Parent[n]] \in {"sequence", "state"} /\ Container(n) = Parent[n]
         /\ Kind[n] = "policy" => n # Root /\ Kind[Parent[n]] = "machine" /\ First[n] \in Node
                                  /\ Kind[First[n]] = "state" /\ Parent[First[n]] = n /\ Container(First[n]) = Parent[n]
         /\ Kind[n] = "state" => n # Root /\ Container(n) \in Node /\ Kind[Container(n)] = "machine"
                                 /\ Kind[Parent[n]] \in {"machine", "policy"}
         /\ Kind[n] = "state" /\ Kind[Parent[n]] = "machine" => Container(n) = Parent[n]
         /\ Kind[n] = "state" /\ Kind[Parent[n]] = "policy" => n = First[Parent[n]] /\ Container(n) = Parent[Parent[n]]
<1>1. /\ Kind[n] \in Kinds /\ (n # Root => Parent[n] \in Node /\ Parent[n] # n) /\ Parent[Root] = NoNode
      /\ Parent[n] = NoNode <=> n = Root
  BY NodeAssumption, TreeAssumption
<1>2. Kind[Root] \in ShownKinds
  BY TreeAssumption DEF ShownKinds
<1>3. Kind[n] \in ShownKinds /\ n # Root => Kind[Parent[n]] \in {"sequence", "state"} /\ Container(n) = Parent[n]
  BY TreeAssumption DEF ShownKinds, Container, EnclosedBy
<1>4. ASSUME Kind[n] = "policy"
      PROVE  n # Root /\ Kind[Parent[n]] = "machine" /\ First[n] \in Node
             /\ Kind[First[n]] = "state" /\ Parent[First[n]] = n /\ Container(First[n]) = Parent[n]
  <2>1. n # Root /\ Kind[Parent[n]] = "machine" /\ First[n] # NoNode
    BY <1>2, <1>4, TreeAssumption DEF ShownKinds
  <2>2. First[n] \in Node /\ Kind[First[n]] = "state" /\ Parent[First[n]] = n
    BY <1>4, <2>1, NodeAssumption, TreeAssumption
  <2> QED
    BY <1>4, <2>1, <2>2, NodeAssumption DEF Container, EnclosedBy
<1>5. ASSUME Kind[n] = "state"
      PROVE  /\ n # Root /\ Container(n) \in Node /\ Kind[Container(n)] = "machine"
             /\ Kind[Parent[n]] \in {"machine", "policy"}
             /\ Kind[Parent[n]] = "machine" => Container(n) = Parent[n]
             /\ Kind[Parent[n]] = "policy" => n = First[Parent[n]] /\ Container(n) = Parent[Parent[n]]
  <2>1. n # Root /\ Kind[Parent[n]] \in {"machine", "policy"} /\ Parent[n] \in Node
    BY <1>1, <1>2, <1>5, TreeAssumption DEF ShownKinds
  <2>2. CASE Kind[Parent[n]] = "machine"
    BY <2>1, <2>2 DEF Container, EnclosedBy
  <2>3. CASE Kind[Parent[n]] = "policy"
    <3>1. Parent[n] # Root /\ Kind[Parent[Parent[n]]] = "machine" /\ Parent[Parent[n]] \in Node
      BY <1>2, <2>1, <2>3, TreeAssumption DEF ShownKinds
    <3>2. Container(n) = Parent[Parent[n]]
      BY <2>1, <2>3, NodeAssumption DEF Container, EnclosedBy
    <3> QED
      BY <2>1, <2>3, <3>1, <3>2, PolicyAssumption
  <2> QED
    BY <2>1, <2>2, <2>3
<1> QED
  BY <1>1, <1>3, <1>4, <1>5

(* Adding a node leaves the others. *)
LEMMA AddIs ==
  ASSUME NEW t \in Trees, NEW of \in Node \cup {NoNode}, NEW kind \in StoryKinds,
         NEW up \in Nat, NEW status \in Statuses, NEW u, u = Add(t, of, kind, up, status)
  PROVE  /\ u \in Trees /\ Len(u.nodes) = Len(t.nodes) + 1 /\ u.open = t.open /\ u.observed = t.observed
         /\ \A i \in 1..Len(t.nodes) : u.nodes[i] = t.nodes[i]
         /\ u.nodes[Len(t.nodes) + 1] = [of |-> of, kind |-> kind, up |-> up, status |-> status]
<1> PICK x : x = [of |-> of, kind |-> kind, up |-> up, status |-> status]
  OBVIOUS
<1>1. x \in StoryNodes
  BY DEF StoryNodes
<1>2. u = [t EXCEPT !.nodes = Append(t.nodes, x)]
  BY DEF Add
<1>3. u.nodes = Append(t.nodes, x) /\ u.open = t.open /\ u.observed = t.observed
  BY <1>2 DEF Trees
<1>4. Append(t.nodes, x) \in Seq(StoryNodes)
  BY <1>1, TreeParts
<1>5. u \in Trees
  BY <1>2, <1>4 DEF Trees
<1>6. /\ Len(u.nodes) = Len(t.nodes) + 1
      /\ \A i \in 1..Len(t.nodes) : u.nodes[i] = t.nodes[i]
      /\ u.nodes[Len(t.nodes) + 1] = x
  BY <1>1, <1>3, TreeParts
<1> QED
  BY <1>3, <1>5, <1>6

(* Tree u is t with a node pushed; its observers are those of t but for the one of a state that is entered. *)
Pushed(t, u, of, kind) ==
    /\ u \in Trees /\ Len(u.nodes) = Len(t.nodes) + 1
    /\ \A i \in 1..Len(t.nodes) : u.nodes[i] = t.nodes[i]
    /\ u.nodes[Len(t.nodes) + 1] = [of |-> of, kind |-> kind, up |-> Current(t), status |-> "running"]
    /\ Len(u.open) = Len(t.open) + 1 /\ u.open[Len(t.open) + 1] = Len(t.nodes) + 1
    /\ \A i \in 1..Len(t.open) : u.open[i] = t.open[i]
Watched(t, u, of) ==
    \A m \in Node : \/ u.observed[m].state = t.observed[m].state
                    \/ m = Container(of) /\ t.observed[m].state = 0 /\ u.observed[m].state = Len(t.nodes) + 1

(* A pushed node is current. *)
LEMMA PushIs ==
  ASSUME NEW t \in Trees, Len(t.open) >= 1, NEW of \in Node \cup {NoNode}, NEW kind \in ShownKinds \cup {"state"},
         NEW u, u = Push(t, of, kind)
  PROVE  Pushed(t, u, of, kind) /\ u.observed = t.observed
<1> PICK a : a = Add(t, of, kind, Current(t), "running")
  OBVIOUS
<1>1. /\ Current(t) \in Nat /\ "running" \in Statuses
      /\ kind \in StoryKinds
  BY TreeParts DEF Current, Statuses, StoryKinds
<1>2. /\ a \in Trees /\ Len(a.nodes) = Len(t.nodes) + 1 /\ a.open = t.open /\ a.observed = t.observed
      /\ \A i \in 1..Len(t.nodes) : a.nodes[i] = t.nodes[i]
      /\ a.nodes[Len(t.nodes) + 1] = [of |-> of, kind |-> kind, up |-> Current(t), status |-> "running"]
  BY <1>1, AddIs
<1>3. u = [a EXCEPT !.open = Append(a.open, Len(t.nodes) + 1)]
  BY DEF Push
<1>4. u.nodes = a.nodes /\ u.open = Append(t.open, Len(t.nodes) + 1) /\ u.observed = t.observed
  BY <1>2, <1>3 DEF Trees
<1>5. Append(t.open, Len(t.nodes) + 1) \in Seq(Nat)
  BY TreeParts
<1>6. u \in Trees
  BY <1>2, <1>3, <1>5, ZenonT(60) DEF Trees
<1>7. /\ Len(u.open) = Len(t.open) + 1 /\ u.open[Len(t.open) + 1] = Len(t.nodes) + 1
      /\ \A i \in 1..Len(t.open) : u.open[i] = t.open[i]
  BY <1>4, TreeParts
<1> QED
  BY <1>2, <1>4, <1>6, <1>7 DEF Pushed

(* The node below the current one is current after it is popped. *)
LEMMA PopIs ==
  ASSUME NEW t \in Trees, Len(t.open) >= 1, NEW u, u = Pop(t)
  PROVE  /\ u \in Trees /\ u.nodes = t.nodes /\ u.observed = t.observed
         /\ Len(u.open) = Len(t.open) - 1 /\ \A i \in 1..(Len(t.open) - 1) : u.open[i] = t.open[i]
<1>1. u = [t EXCEPT !.open = SubSeq(t.open, 1, Len(t.open) - 1)]
  BY DEF Pop
<1>2. /\ SubSeq(t.open, 1, Len(t.open) - 1) \in Seq(Nat) /\ Len(SubSeq(t.open, 1, Len(t.open) - 1)) = Len(t.open) - 1
      /\ \A i \in 1..(Len(t.open) - 1) : SubSeq(t.open, 1, Len(t.open) - 1)[i] = t.open[i]
  BY TreeParts
<1>3. u.nodes = t.nodes /\ u.open = SubSeq(t.open, 1, Len(t.open) - 1) /\ u.observed = t.observed
  BY <1>1 DEF Trees
<1>4. u \in Trees
  BY <1>1, <1>2 DEF Trees
<1> QED
  BY <1>2, <1>3, <1>4

(* A status is marked, and nothing else. *)
LEMMA MarkIs ==
  ASSUME NEW t \in Trees, NEW j \in 1..Len(t.nodes), NEW status \in Statuses, NEW u, u = Mark(t, j, status)
  PROVE  /\ u \in Trees /\ Len(u.nodes) = Len(t.nodes) /\ u.open = t.open /\ u.observed = t.observed
         /\ \A i \in 1..Len(t.nodes) : /\ u.nodes[i].of = t.nodes[i].of /\ u.nodes[i].kind = t.nodes[i].kind
                                       /\ u.nodes[i].up = t.nodes[i].up /\ (i # j => u.nodes[i] = t.nodes[i])
<1> PICK x, s : x = [t.nodes[j] EXCEPT !.status = status] /\ s = [t.nodes EXCEPT ![j] = x]
  OBVIOUS
<1>1. x \in StoryNodes /\ x.of = t.nodes[j].of /\ x.kind = t.nodes[j].kind /\ x.up = t.nodes[j].up
  BY TreeParts, ZenonT(60) DEF StoryNodes
<1>2. s \in Seq(StoryNodes) /\ Len(s) = Len(t.nodes) /\ \A i \in 1..Len(t.nodes) : s[i] = IF i = j THEN x ELSE t.nodes[i]
  BY <1>1, TreeParts, ExceptSeq
<1>3. u = [t EXCEPT !.nodes = s]
  BY DEF Mark
<1>4. u.nodes = s /\ u.open = t.open /\ u.observed = t.observed
  BY <1>3 DEF Trees
<1>5. u \in Trees
  BY <1>2, <1>3 DEF Trees
<1> QED
  BY <1>1, <1>2, <1>4, <1>5

(* A nonempty set of numbers up to n has a greatest one. *)
LEMMA LastOf ==
  ASSUME NEW n \in Nat, NEW T \in SUBSET (1..n), T # {}
  PROVE  \E x \in T : \A y \in T : y <= x
<1> DEFINE D == {n - i : i \in T}
           Less == {s \in Nat \X Nat : s[1] < s[2]}
<1>1. D \in SUBSET Nat /\ D # {}
  <2>1. \A i \in T : n - i \in Nat
    OBVIOUS
  <2> QED
    BY <2>1
<1>2. OpToRel(<, Nat) = Less
  BY DEF OpToRel
<1>3. IsWellFoundedOn(Less, Nat)
  BY <1>2, NatLessThanWellFounded
<1>4. PICK d \in D : \A e \in D : ~ (<<e, d>> \in Less)
  <2> HIDE DEF D
  <2> QED
    BY <1>1, <1>3, WFMin
<1>5. PICK x \in T : d = n - x
  OBVIOUS
<1>6. ASSUME NEW y \in T PROVE y <= x
  <2>1. n - y \in D /\ n - y \in Nat /\ d \in Nat
    BY <1>1
  <2>2. <<n - y, d>> \in Nat \X Nat /\ <<n - y, d>>[1] = n - y /\ <<n - y, d>>[2] = d
    BY <2>1
  <2>3. ~(n - y < d)
    BY <1>4, <2>1, <2>2
  <2> QED
    BY <1>5, <2>3
<1> QED
  BY <1>6

(* What is derived for a container is a status. *)
LEMMA StatusType ==
  ASSUME NEW t \in Trees, NEW i
  PROVE  DeriveContainerStatus(t, i) \in Statuses /\ Completed(t, i) \in Statuses
<1> DEFINE children == {j \in DOMAIN t.nodes : t.nodes[j].up = i}
           last == CHOOSE j \in children : \A k \in children : k <= j
<1>1. children # {} => last \in children
  <2> SUFFICES ASSUME children # {} PROVE \E j \in children : \A k \in children : k <= j
    OBVIOUS
  <2>1. children \in SUBSET (1..Len(t.nodes)) /\ Len(t.nodes) \in Nat
    BY TreeParts
  <2> HIDE DEF children
  <2> QED
    BY <2>1, LastOf
<1>2. children # {} => t.nodes[last].status \in Statuses
  <2>1. \A j \in children : t.nodes[j].status \in Statuses
    BY TreeParts DEF StoryNodes
  <2> HIDE DEF children, last
  <2> QED
    BY <1>1, <2>1
<1>3. DeriveContainerStatus(t, i) = IF children = {} THEN "unknown"
          ELSE IF t.nodes[last].status \in {"running", "unknown"} THEN t.nodes[last].status
          ELSE IF \E j \in children : t.nodes[j].status = "failed" THEN "failed" ELSE "succeeded"
  BY DEF DeriveContainerStatus
<1> HIDE DEF children, last
<1>4. DeriveContainerStatus(t, i) \in Statuses
  BY <1>2, <1>3 DEF Statuses
<1> QED
  BY <1>4 DEF Completed, Statuses

(* What a call that returns is marked with is a status. *)
LEMMA StatusOfType ==
  ASSUME NEW t \in Trees, NEW n, NEW sig
  PROVE  StatusOf(t, n, sig) \in Statuses
<1>1. "failed" \in Statuses
  BY DEF Statuses
<1> QED
  BY <1>1, StatusType DEF StatusOf

(* A tree with the same nodes but for their status, the same stack and the same observed states. *)
Like(t, u) ==
    /\ u \in Trees /\ Len(u.nodes) = Len(t.nodes) /\ u.open = t.open
    /\ \A i \in 1..Len(t.nodes) : /\ u.nodes[i].of = t.nodes[i].of /\ u.nodes[i].kind = t.nodes[i].kind
                                  /\ u.nodes[i].up = t.nodes[i].up
                                  /\ t.nodes[i].kind = "step" => u.nodes[i].status = t.nodes[i].status
    /\ \A m \in Node : u.observed[m].state = t.observed[m].state

(* A tree that has more, but no other steps. *)
Grows(t, u) ==
    /\ u \in Trees /\ Len(u.nodes) >= Len(t.nodes)
    /\ \A i \in 1..Len(t.nodes) : /\ u.nodes[i].of = t.nodes[i].of /\ u.nodes[i].kind = t.nodes[i].kind
                                  /\ t.nodes[i].kind = "step" => u.nodes[i].status = t.nodes[i].status
    /\ \A i \in (Len(t.nodes) + 1)..Len(u.nodes) : u.nodes[i].kind # "step"

(* Growing twice is growing. *)
LEMMA GrowsMore ==
  ASSUME NEW t \in Trees, NEW u, NEW v, Grows(t, u), Grows(u, v)
  PROVE  Grows(t, v)
<1>1. u \in Trees /\ v \in Trees /\ Len(u.nodes) >= Len(t.nodes) /\ Len(v.nodes) >= Len(u.nodes)
  BY DEF Grows
<1>2. Len(t.nodes) \in Nat /\ Len(u.nodes) \in Nat /\ Len(v.nodes) \in Nat
  BY <1>1, TreeParts
<1>3. ASSUME NEW i \in 1..Len(t.nodes)
      PROVE  /\ v.nodes[i].of = t.nodes[i].of /\ v.nodes[i].kind = t.nodes[i].kind
             /\ t.nodes[i].kind = "step" => v.nodes[i].status = t.nodes[i].status
  <2>1. i \in 1..Len(u.nodes)
    BY <1>1, <1>2
  <2> QED
    BY <2>1 DEF Grows
<1>4. ASSUME NEW i \in (Len(t.nodes) + 1)..Len(v.nodes) PROVE v.nodes[i].kind # "step"
  <2>1. i \in (Len(u.nodes) + 1)..Len(v.nodes) \/ (i \in 1..Len(u.nodes) /\ i \in (Len(t.nodes) + 1)..Len(u.nodes))
    BY <1>1, <1>2
  <2> QED
    BY <2>1 DEF Grows
<1> QED
  BY <1>1, <1>2, <1>3, <1>4 DEF Grows

(* A tree that is alike has no other steps. *)
LEMMA LikeGrows == ASSUME NEW t \in Trees, NEW u, Like(t, u) PROVE Grows(t, u)
<1>1. Len(u.nodes) = Len(t.nodes) /\ Len(t.nodes) \in Nat
  BY TreeParts DEF Like
<1>2. (Len(t.nodes) + 1)..Len(u.nodes) = {}
  BY <1>1
<1> QED
  BY <1>1, <1>2 DEF Like, Grows

(* What the invariant says of a tree does not depend on the status of its nodes. *)
LEMMA LikeKeeps ==
  ASSUME NEW t, TreeOk(t), NEW u, Like(t, u)
  PROVE  /\ TreeOk(u) /\ OpenCalls(u) = OpenCalls(t) /\ Current(u) = Current(t)
         /\ \A n \in Node : Len(t.open) >= 1 /\ IsOn(t, n) => IsOn(u, n)
         /\ \A s \in Node : Kind[s] = "state" /\ Len(t.open) >= 1 /\ Visits(t, s) => Visits(u, s)
         /\ \A n \in Node : TopOk(t, n) => TopOk(u, n)
<1>1. t \in Trees /\ NodesOk(t) /\ StackOk(t) /\ OpenOnce(t)
  BY DEF TreeOk
<1>2. /\ u \in Trees /\ Len(u.nodes) = Len(t.nodes) /\ u.open = t.open
      /\ \A i \in 1..Len(t.nodes) : /\ u.nodes[i].of = t.nodes[i].of /\ u.nodes[i].kind = t.nodes[i].kind
                                    /\ u.nodes[i].up = t.nodes[i].up
      /\ \A m \in Node : u.observed[m].state = t.observed[m].state
  BY DEF Like
<1>3. /\ Len(t.nodes) \in Nat /\ Len(t.open) \in Nat
      /\ \A i \in 1..Len(t.open) : t.open[i] \in 1..Len(t.nodes)
  BY <1>1, TreeParts DEF StackOk
<1>4. NodesOk(u)
  <2>1. 1 \in 1..Len(t.nodes)
    BY <1>1, <1>3 DEF NodesOk
  <2>2. ASSUME NEW i \in 2..Len(t.nodes)
        PROVE  /\ u.nodes[i].kind # "recipe" /\ u.nodes[i].up \in 1..(i - 1)
               /\ BelongsBelow(u.nodes[i], u.nodes[u.nodes[i].up])
    <3>1. i \in 1..Len(t.nodes) /\ t.nodes[i].up \in 1..(i - 1) /\ t.nodes[i].up \in 1..Len(t.nodes)
      BY <1>1, <1>3 DEF NodesOk
    <3>2. t.nodes[i].kind # "recipe" /\ BelongsBelow(t.nodes[i], t.nodes[t.nodes[i].up])
      BY <1>1 DEF NodesOk
    <3> QED
      BY <1>2, <3>1, <3>2, SMTT(40) DEF BelongsBelow
  <2> QED
    BY <1>1, <1>2, <2>1, <2>2 DEF NodesOk
<1>5. \A i \in 1..Len(t.open) : u.nodes[u.open[i]].of = t.nodes[t.open[i]].of /\ u.nodes[u.open[i]].kind = t.nodes[t.open[i]].kind
  BY <1>2, <1>3
<1>6. StackOk(u)
  <2>1. ASSUME NEW i \in 2..Len(t.open) PROVE Sits(u, i)
    <3>1. i \in 1..Len(t.open) /\ i - 1 \in 1..Len(t.open) /\ Sits(t, i)
      BY <1>1, <1>3 DEF StackOk
    <3> PICK x, y, a, b : x = t.nodes[t.open[i - 1]] /\ y = t.nodes[t.open[i]] /\ a = u.nodes[u.open[i - 1]] /\ b = u.nodes[u.open[i]]
      OBVIOUS
    <3>2. a.of = x.of /\ a.kind = x.kind /\ b.of = y.of /\ b.kind = y.kind
      BY <1>5, <3>1
    <3>3. LiesOn(y, t.open[i], x, t.open[i - 1], t.observed)
      BY <3>1 DEF Sits
    <3>4. y.kind = "state" /\ y.of \in Node /\ Kind[y.of] = "state" =>
             u.observed[Container(y.of)].state = t.observed[Container(y.of)].state
      BY <1>2, KindsAre, SMTT(40)
    <3>5. LiesOn(b, t.open[i], a, t.open[i - 1], u.observed)
      BY <3>2, <3>3, <3>4 DEF LiesOn
    <3> QED
      BY <1>2, <3>5 DEF Sits
  <2> QED
    BY <1>1, <1>2, <2>1 DEF StackOk
<1>7. \A i \in 1..Len(t.open), n \in Node : OpenCall(u, i, n) <=> OpenCall(t, i, n)
  BY <1>5 DEF OpenCall
<1>8. OpenOnce(u) /\ OpenCalls(u) = OpenCalls(t)
  BY <1>1, <1>2, <1>7 DEF OpenOnce, OpenCalls
<1>9. Current(u) = Current(t) /\ (Len(t.open) >= 1 => Current(t) \in 1..Len(t.nodes))
  BY <1>2, <1>3 DEF Current
<1>10. \A n \in Node : Len(t.open) >= 1 /\ IsOn(t, n) => IsOn(u, n)
  BY <1>2, <1>9 DEF IsOn
<1>11. \A s \in Node : Kind[s] = "state" /\ Len(t.open) >= 1 /\ Visits(t, s) => Visits(u, s)
  BY <1>2, <1>9, KindsAre DEF Visits
<1>12. ASSUME NEW n \in Node, TopOk(t, n) PROVE TopOk(u, n)
  <2>1. Len(t.open) >= 1 /\ Len(u.open) >= 1
    BY <1>2, <1>12 DEF TopOk
  <2>2. Kind[n] \in {"op", "sequence"} => IsOn(u, n)
    BY <1>10, <1>12, <2>1 DEF TopOk
  <2>3. Kind[n] = "machine" => \/ u.observed[n].state = 0 /\ IsOn(u, n)
                               \/ \E s \in Node : Container(s) = n /\ Visits(u, s)
    <3>1. ASSUME NEW s \in Node, Kind[n] = "machine", Container(s) = n, Visits(t, s) PROVE Visits(u, s)
      BY <1>2, <1>9, <2>1, <3>1 DEF Visits
    <3> QED
      BY <1>2, <1>10, <1>12, <2>1, <3>1 DEF TopOk
  <2>4. Kind[n] = "policy" => Visits(u, First[n])
    BY <1>11, <1>12, <2>1, KindsAre DEF TopOk
  <2>5. Kind[n] = "state" => Visits(u, n)
    BY <1>11, <1>12, <2>1 DEF TopOk
  <2> QED
    BY <2>1, <2>2, <2>3, <2>4, <2>5 DEF TopOk
<1> QED
  BY <1>2, <1>4, <1>6, <1>8, <1>9, <1>10, <1>11, <1>12 DEF TreeOk

(* The node that is pushed shows a call that is not open, or a state that is entered (it becomes the *)
(* state that its machine observes) or entered again.                                                *)
LEMMA PushOk ==
  ASSUME NEW t, TreeOk(t), Len(t.open) >= 1, NEW of \in Node, NEW kind \in ShownKinds \cup {"state"},
         NEW u, Pushed(t, u, of, kind), Watched(t, u, of),
         kind \in ShownKinds => of \notin OpenCalls(t),
         BelongsBelow(u.nodes[Len(t.nodes) + 1], t.nodes[Current(t)]),
         LiesOn(u.nodes[Len(t.nodes) + 1], Len(t.nodes) + 1, t.nodes[Current(t)], Current(t), u.observed)
  PROVE  /\ TreeOk(u) /\ Current(u) = Len(t.nodes) + 1 /\ Len(u.open) >= 1 /\ Grows(t, u)
         /\ OpenCalls(u) = OpenCalls(t) \cup (IF kind \in ShownKinds THEN {of} ELSE {})
<1> /\ u \in Trees /\ Len(u.nodes) = Len(t.nodes) + 1 /\ \A i \in 1..Len(t.nodes) : u.nodes[i] = t.nodes[i]
    /\ u.nodes[Len(t.nodes) + 1] = [of |-> of, kind |-> kind, up |-> Current(t), status |-> "running"]
    /\ Len(u.open) = Len(t.open) + 1 /\ u.open[Len(t.open) + 1] = Len(t.nodes) + 1
    /\ \A i \in 1..Len(t.open) : u.open[i] = t.open[i]
  BY DEF Pushed
<1> PICK k, h, y : k = Len(t.nodes) /\ h = Len(t.open) /\ y = u.nodes[k + 1]
  OBVIOUS
<1>1. t \in Trees /\ NodesOk(t) /\ StackOk(t) /\ OpenOnce(t)
  BY DEF TreeOk
<1>2. k \in Nat /\ h \in Nat /\ h >= 1 /\ \A i \in 1..h : t.open[i] \in 1..k /\ t.nodes[t.open[i]] = u.nodes[u.open[i]]
  BY <1>1, TreeParts, ZenonT(60) DEF StackOk
<1>3. Current(t) = t.open[h] /\ Current(t) \in 1..k /\ Current(u) = k + 1 /\ y.of = of /\ y.kind = kind /\ y.up = Current(t)
  BY <1>2 DEF Current
<1>4. "recipe" \notin ShownKinds \cup {"state"} /\ "step" \notin ShownKinds \cup {"state"}
  BY DEF ShownKinds
<1>5. NodesOk(u)
  <2>1. ASSUME NEW i \in 2..(k + 1)
        PROVE  /\ u.nodes[i].kind # "recipe" /\ u.nodes[i].up \in 1..(i - 1)
               /\ BelongsBelow(u.nodes[i], u.nodes[u.nodes[i].up])
    <3>1. CASE i = k + 1
      <4>1. u.nodes[Current(t)] = t.nodes[Current(t)] /\ (k + 1) - 1 = k
        BY <1>2, <1>3, SMTT(40)
      <4> QED
        BY <1>3, <1>4, <3>1, <4>1
    <3>2. CASE i # k + 1
      <4>1. i \in 2..k /\ i \in 1..k
        BY <1>2, <3>2
      <4>2. /\ t.nodes[i].kind # "recipe" /\ t.nodes[i].up \in 1..(i - 1)
            /\ BelongsBelow(t.nodes[i], t.nodes[t.nodes[i].up])
        BY <1>1, <4>1 DEF NodesOk
      <4>3. t.nodes[i].up \in 1..k
        BY <4>1, <4>2
      <4> QED
        BY <4>1, <4>2, <4>3
    <3> QED
      BY <3>1, <3>2
  <2>2. 1 \in 1..k
    BY <1>1, <1>2 DEF NodesOk
  <2> QED
    BY <1>1, <1>2, <2>1, <2>2 DEF NodesOk
<1>6. StackOk(u)
  <2>1. \A i \in 1..(h + 1) : i \in 1..h \/ i = h + 1
    BY <1>2
  <2>2. ASSUME NEW i \in 1..(h + 1) PROVE u.open[i] \in 1..(k + 1)
    <3>1. CASE i = h + 1
      <4>1. u.open[i] = k + 1
        BY <3>1
      <4> QED
        BY <1>2, <4>1
    <3>2. CASE i \in 1..h
      <4>1. u.open[i] = t.open[i] /\ t.open[i] \in 1..k
        BY <1>2, <3>2
      <4> QED
        BY <1>2, <4>1
    <3> QED
      BY <2>1, <3>1, <3>2
  <2>3. ASSUME NEW i \in 1..(h + 1), NEW j \in 1..(h + 1), i < j PROVE u.open[i] < u.open[j]
    <3>1. i \in 1..h /\ u.open[i] = t.open[i] /\ t.open[i] \in 1..k
      BY <1>2, <2>3
    <3>2. CASE j = h + 1
      BY <1>2, <3>1, <3>2
    <3>3. CASE j # h + 1
      <4>1. j \in 1..h
        BY <2>1, <3>3
      <4> QED
        BY <1>1, <2>3, <3>1, <4>1 DEF StackOk
    <3> QED
      BY <3>2, <3>3
  <2>4. ASSUME NEW i \in 2..(h + 1) PROVE Sits(u, i)
    <3>1. CASE i = h + 1
      <4>1. i - 1 = h /\ h \in 1..h /\ u.nodes[u.open[h]] = t.nodes[t.open[h]] /\ u.open[h] = t.open[h]
        <5>1. h \in 1..h /\ i - 1 = h
          BY <1>2, <3>1
        <5> QED
          BY <1>2, <5>1
      <4> QED
        BY <1>3, <3>1, <4>1 DEF Sits
    <3>2. CASE i # h + 1
      <4>1. i \in 2..h /\ i \in 1..h /\ i - 1 \in 1..h
        BY <1>2, <3>2
      <4> PICK c, d, x, z : c = t.open[i] /\ d = t.open[i - 1] /\ z = t.nodes[c] /\ x = t.nodes[d]
        OBVIOUS
      <4>2. LiesOn(z, c, x, d, t.observed)
        BY <1>1, <4>1 DEF StackOk, Sits
      <4>3. c \in 1..k /\ d \in 1..k
        BY <1>2, <4>1
      <4>4. LiesOn(z, c, x, d, u.observed)
        <5>1. CASE z.kind \in ShownKinds
          BY <4>2, <5>1, ZenonT(60) DEF LiesOn, ShownKinds
        <5>2. CASE z.kind \notin ShownKinds
          <6>1. z.kind = "state" /\ z.of \in Node /\ Kind[z.of] = "state" /\ Container(z.of) \in Node
            BY <4>2, <5>2, KindsAre, ZenonT(60) DEF LiesOn
          <6>2. t.observed[Container(z.of)].state \in {c, d}
            BY <4>2, <5>2, ZenonT(60) DEF LiesOn
          <6>3. u.observed[Container(z.of)].state = t.observed[Container(z.of)].state
            <7>1. t.observed[Container(z.of)].state # 0
              <8>1. \A e \in 1..k : e # 0
                BY <1>2
              <8> QED
                BY <4>3, <6>2, <8>1
            <7> QED
              BY <6>1, <7>1, SMTT(40) DEF Watched
          <6> QED
            BY <4>2, <6>3, ZenonT(60) DEF LiesOn
        <5> QED
          BY <5>1, <5>2, SMTT(40)
      <4>5. u.open[i] = c /\ u.open[i - 1] = d /\ u.nodes[c] = z /\ u.nodes[d] = x
        BY <1>2, <4>1, <4>3
      <4> QED
        BY <4>4, <4>5 DEF Sits
    <3> QED
      BY <3>1, <3>2
  <2>5. u.open[1] = 1
    BY <1>1, <1>2 DEF StackOk
  <2> QED
    BY <2>2, <2>3, <2>4, <2>5 DEF StackOk
<1>7. \A i \in 1..h, n \in Node : OpenCall(u, i, n) <=> OpenCall(t, i, n)
  BY <1>2 DEF OpenCall
<1>8. \A n \in Node : OpenCall(u, h + 1, n) <=> kind \in ShownKinds /\ n = of
  BY <1>3 DEF OpenCall
<1>9. \A i \in 1..(h + 1) : i \in 1..h \/ i = h + 1
  BY <1>2
<1>10. h + 1 \in 1..(h + 1) /\ \A i \in 1..h : i \in 1..(h + 1)
  BY <1>2
<1>11. OpenCalls(u) = OpenCalls(t) \cup (IF kind \in ShownKinds THEN {of} ELSE {})
  <2>1. \A n \in Node : n \in OpenCalls(u) <=> \E i \in 1..(h + 1) : OpenCall(u, i, n)
    BY DEF OpenCalls
  <2>2. \A n \in Node : n \in OpenCalls(t) <=> \E i \in 1..h : OpenCall(t, i, n)
    BY DEF OpenCalls
  <2>3. OpenCalls(u) \subseteq Node /\ OpenCalls(t) \subseteq Node
    BY DEF OpenCalls
  <2>4. \A n \in Node : n \in OpenCalls(u) <=> n \in OpenCalls(t) \/ (kind \in ShownKinds /\ n = of)
    BY <1>7, <1>8, <1>9, <1>10, <2>1, <2>2, ZenonT(60)
  <2> QED
    BY <2>3, <2>4
<1>12. OpenOnce(u)
  <2> SUFFICES ASSUME NEW n \in Node, NEW i \in 1..(h + 1), NEW j \in 1..(h + 1), OpenCall(u, i, n), OpenCall(u, j, n)
               PROVE  i = j
    BY DEF OpenOnce
  <2>1. CASE i \in 1..h /\ j \in 1..h
    BY <1>1, <1>7, <2>1 DEF OpenOnce
  <2>2. ASSUME NEW l \in 1..h, OpenCall(u, l, n), OpenCall(u, h + 1, n) PROVE FALSE
    <3>1. n \in OpenCalls(t)
      BY <1>7, <2>2 DEF OpenCalls
    <3> QED
      BY <1>8, <2>2, <3>1
  <2> QED
    BY <1>9, <2>1, <2>2
<1>13. Grows(t, u)
  <2>1. \A i \in (k + 1)..(k + 1) : i = k + 1
    BY <1>2
  <2> QED
    BY <1>2, <1>3, <1>4, <2>1 DEF Grows
<1> QED
  BY <1>3, <1>5, <1>6, <1>11, <1>12, <1>13 DEF TreeOk

(* What is popped is the current node; an observer that watched it may watch anything then. *)
LEMMA PopOk ==
  ASSUME NEW t, TreeOk(t), Len(t.open) >= 1,
         NEW u \in Trees, u.nodes = t.nodes, Len(u.open) = Len(t.open) - 1,
         \A i \in 1..(Len(t.open) - 1) : u.open[i] = t.open[i],
         \A m \in Node : u.observed[m].state = t.observed[m].state \/ t.observed[m].state = Current(t)
  PROVE  /\ TreeOk(u) /\ Grows(t, u)
         /\ OpenCalls(u) = IF t.nodes[Current(t)].kind \in ShownKinds THEN OpenCalls(t) \ {t.nodes[Current(t)].of} ELSE OpenCalls(t)
<1> PICK k, h, y : k = Len(t.nodes) /\ h = Len(t.open) /\ y = t.nodes[Current(t)]
  OBVIOUS
<1>1. t \in Trees /\ NodesOk(t) /\ StackOk(t) /\ OpenOnce(t)
  BY DEF TreeOk
<1>2. /\ k \in Nat /\ h \in Nat /\ h >= 1 /\ Current(t) = t.open[h] /\ h \in 1..h /\ h - 1 \in Nat
      /\ \A i \in 1..h : t.open[i] \in 1..k
      /\ \A i \in 1..(h - 1) : i \in 1..h /\ u.open[i] = t.open[i]
      /\ \A i \in 1..h : i \in 1..(h - 1) \/ i = h
  BY <1>1, TreeParts DEF StackOk, Current
<1>3. \A i \in 1..(h - 1) : t.open[i] # t.open[h]
  <2> TAKE i \in 1..(h - 1)
  <2>1. i \in 1..h /\ i < h
    BY <1>2
  <2>2. t.open[i] < t.open[h] /\ t.open[i] \in Nat /\ t.open[h] \in Nat
    BY <1>1, <1>2, <2>1, SMTT(40) DEF StackOk
  <2> QED
    BY <2>2
<1>4. StackOk(u)
  <2>1. ASSUME NEW i \in 2..(h - 1) PROVE Sits(u, i)
    <3>1. i \in 2..h /\ i \in 1..(h - 1) /\ i - 1 \in 1..(h - 1)
      BY <1>2
    <3> PICK c, d, x, z : c = t.open[i] /\ d = t.open[i - 1] /\ z = t.nodes[c] /\ x = t.nodes[d]
      OBVIOUS
    <3>2. LiesOn(z, c, x, d, t.observed)
      BY <1>1, <3>1 DEF StackOk, Sits
    <3>3. c # Current(t) /\ d # Current(t) /\ u.open[i] = c /\ u.open[i - 1] = d
      BY <1>2, <1>3, <3>1
    <3>4. LiesOn(z, c, x, d, u.observed)
      <4>1. CASE z.kind \in ShownKinds
        BY <3>2, <4>1, ZenonT(60) DEF LiesOn, ShownKinds
      <4>2. CASE z.kind \notin ShownKinds
        <5>1. z.kind = "state" /\ z.of \in Node /\ Kind[z.of] = "state" /\ Container(z.of) \in Node
          BY <3>2, <4>2, KindsAre, ZenonT(60) DEF LiesOn
        <5>2. t.observed[Container(z.of)].state \in {c, d}
          BY <3>2, <4>2, ZenonT(60) DEF LiesOn
        <5>3. u.observed[Container(z.of)].state = t.observed[Container(z.of)].state
          BY <3>3, <5>1, <5>2
        <5> QED
          BY <3>2, <5>3, ZenonT(60) DEF LiesOn
      <4> QED
        BY <4>1, <4>2, SMTT(40)
    <3> QED
      BY <3>3, <3>4 DEF Sits
  <2>2. h - 1 >= 1 => u.open[1] = 1
    <3> SUFFICES ASSUME h - 1 >= 1 PROVE u.open[1] = 1
      OBVIOUS
    <3>1. 1 \in 1..(h - 1)
      BY <1>2
    <3> QED
      BY <1>1, <1>2, <3>1 DEF StackOk
  <2>3. \A i, j \in 1..(h - 1) : i < j => u.open[i] < u.open[j]
    BY <1>1, <1>2 DEF StackOk
  <2>4. \A i \in 1..(h - 1) : u.open[i] \in 1..k
    BY <1>2
  <2> QED
    BY <2>1, <2>2, <2>3, <2>4 DEF StackOk
<1>5. \A i \in 1..(h - 1), n \in Node : OpenCall(u, i, n) <=> OpenCall(t, i, n)
  BY <1>2 DEF OpenCall
<1>6. OpenOnce(u)
  BY <1>1, <1>2, <1>5 DEF OpenOnce
<1>7. OpenCalls(u) = IF y.kind \in ShownKinds THEN OpenCalls(t) \ {y.of} ELSE OpenCalls(t)
  <2>1. \A n \in Node : n \in OpenCalls(u) <=> \E i \in 1..(h - 1) : OpenCall(t, i, n)
    BY <1>5 DEF OpenCalls
  <2>2. \A n \in Node : n \in OpenCalls(t) <=> \E i \in 1..h : OpenCall(t, i, n)
    BY DEF OpenCalls
  <2>3. OpenCalls(u) \subseteq Node /\ OpenCalls(t) \subseteq Node
    BY DEF OpenCalls
  <2>4. \A n \in Node : OpenCall(t, h, n) <=> y.kind \in ShownKinds /\ n = y.of
    BY <1>2 DEF OpenCall
  <2>5. \A n \in Node, i \in 1..(h - 1) : OpenCall(t, i, n) => ~OpenCall(t, h, n)
    <3> SUFFICES ASSUME NEW n \in Node, NEW i \in 1..(h - 1), OpenCall(t, i, n), OpenCall(t, h, n) PROVE FALSE
      OBVIOUS
    <3>1. i = h
      BY <1>1, <1>2 DEF OpenOnce
    <3> QED
      BY <1>2, <3>1
  <2>6. \A n \in Node : n \in OpenCalls(u) <=> n \in OpenCalls(t) /\ ~(y.kind \in ShownKinds /\ n = y.of)
    BY <1>2, <2>1, <2>2, <2>4, <2>5
  <2> QED
    BY <2>3, <2>6
<1>8. Grows(t, u)
  <2>1. (k + 1)..k = {}
    BY <1>2
  <2> QED
    BY <1>2, <2>1 DEF Grows
<1>9. NodesOk(u)
  BY <1>1 DEF NodesOk
<1> QED
  BY <1>4, <1>6, <1>7, <1>8, <1>9 DEF TreeOk

(* Below a current node that shows a node of the recipe is another one. *)
LEMMA BelowTop ==
  ASSUME NEW t, TreeOk(t), Len(t.open) >= 1, t.nodes[Current(t)].kind # "recipe"
  PROVE  /\ Len(t.open) >= 2 /\ t.open[Len(t.open) - 1] \in 1..Len(t.nodes)
         /\ LiesOn(t.nodes[Current(t)], Current(t), t.nodes[t.open[Len(t.open) - 1]], t.open[Len(t.open) - 1], t.observed)
<1>1. t \in Trees /\ NodesOk(t) /\ StackOk(t) /\ Len(t.open) \in Nat /\ Current(t) = t.open[Len(t.open)]
  BY TreeParts DEF TreeOk, Current
<1>2. Len(t.open) # 1
  BY <1>1 DEF StackOk, NodesOk
<1>3. Len(t.open) \in 2..Len(t.open) /\ Len(t.open) - 1 \in 1..Len(t.open)
  <2>1. \A h \in Nat : h >= 1 /\ h # 1 => h \in 2..h /\ h - 1 \in 1..h
    OBVIOUS
  <2> QED
    BY <1>1, <1>2, <2>1
<1>4. Sits(t, Len(t.open))
  BY <1>1, <1>3 DEF StackOk
<1> QED
  BY <1>1, <1>2, <1>3, <1>4 DEF Sits, StackOk

(* The current node is one of the tree's. *)
LEMMA CurrentIs ==
  ASSUME NEW t, TreeOk(t), Len(t.open) >= 1
  PROVE  t \in Trees /\ Current(t) \in 1..Len(t.nodes) /\ Current(t) \in Nat /\ Current(t) # 0
<1>1. t \in Trees /\ Len(t.open) \in Nat /\ Len(t.open) \in 1..Len(t.open) /\ StackOk(t)
  BY TreeParts DEF TreeOk
<1>2. Current(t) \in 1..Len(t.nodes)
  BY <1>1 DEF Current, StackOk
<1> QED
  BY <1>1, <1>2

(* A mark on a node that is not a step. *)
LEMMA MarkLike ==
  ASSUME NEW t \in Trees, NEW i \in 1..Len(t.nodes), t.nodes[i].kind # "step", NEW status \in Statuses
  PROVE  Like(t, Mark(t, i, status))
BY MarkIs, SMTT(40) DEF Like

(* The same tree. *)
LEMMA SameLike == ASSUME NEW t \in Trees PROVE Like(t, t)
BY DEF Like

(* The observer of a machine closes its state: the machine's node is current again. *)
LEMMA CloseIs ==
  ASSUME NEW t, TreeOk(t), NEW m \in Node, Kind[m] = "machine", TopOk(t, m), NEW u, u = CloseCurrentState(t, m)
  PROVE  /\ TreeOk(u) /\ Grows(t, u) /\ OpenCalls(u) = OpenCalls(t) /\ Len(u.open) >= 1 /\ IsOn(u, m)
         /\ u.observed[m].state = 0 /\ \A q \in Node \ {m} : u.observed[q].state = t.observed[q].state
<1> PICK o : o = t.observed[m]
  OBVIOUS
<1>1. t \in Trees /\ Len(t.open) >= 1 /\ Current(t) \in 1..Len(t.nodes) /\ Current(t) # 0
  BY CurrentIs DEF TopOk
<1>2. CASE o.state = 0
  <2>1. u = t
    BY <1>2 DEF CloseCurrentState
  <2>2. IsOn(t, m)
    BY <1>1, <1>2 DEF TopOk, Visits
  <2> QED
    BY <1>1, <1>2, <2>1, <2>2, SameLike, LikeGrows
<1>3. CASE o.state # 0
  <2> DEFINE judged == IF o.exited /\ t.nodes[o.state].status = "running" THEN Mark(t, o.state, Completed(t, o.state)) ELSE t
  <2>1. PICK s \in Node : Container(s) = m /\ Visits(t, s)
    BY <1>3 DEF TopOk
  <2>2. t.nodes[Current(t)].kind = "state" /\ t.nodes[Current(t)].of = s /\ Current(t) = o.state
    BY <2>1, SMTT(40) DEF Visits
  <2>3. u = [Pop(judged) EXCEPT !.observed[m] = Unobserved]
    BY <1>3, <2>2 DEF CloseCurrentState
  <2> PICK j, p : j = judged /\ p = Pop(judged)
    OBVIOUS
  <2>4. Like(t, j)
    BY <1>1, <2>2, MarkLike, SameLike, StatusType
  <2>5. TreeOk(j) /\ OpenCalls(j) = OpenCalls(t) /\ Current(j) = Current(t) /\ j \in Trees /\ Len(j.open) >= 1 /\ j.open = t.open
    <3> HIDE DEF judged
    <3>1. TreeOk(j) /\ OpenCalls(j) = OpenCalls(t) /\ Current(j) = Current(t)
      BY <2>4, LikeKeeps
    <3> QED
      BY <1>1, <2>4, <3>1 DEF Like
  <2> HIDE DEF judged
  <2>6. /\ p \in Trees /\ p.nodes = j.nodes /\ p.observed = j.observed
        /\ Len(p.open) = Len(j.open) - 1 /\ \A i \in 1..(Len(j.open) - 1) : p.open[i] = j.open[i]
    BY <2>5, PopIs
  <2>7. /\ u \in Trees /\ u.nodes = j.nodes /\ u.open = p.open
        /\ u.observed[m] = Unobserved /\ \A q \in Node \ {m} : u.observed[q] = j.observed[q]
    <3>1. Unobserved \in Observers
      BY DEF Unobserved, Observers
    <3>2. u = [p EXCEPT !.observed = [p.observed EXCEPT ![m] = Unobserved]]
      BY <2>3
    <3>3. p.observed \in [Node -> Observers]
      BY <2>6, TreeParts
    <3>4. u.nodes = p.nodes /\ u.open = p.open /\ u.observed = [p.observed EXCEPT ![m] = Unobserved]
      BY <2>6, <3>2 DEF Trees
    <3>5. [p.observed EXCEPT ![m] = Unobserved] \in [Node -> Observers]
      BY <3>1, <3>3
    <3>6. u \in Trees
      BY <2>6, <3>2, <3>5 DEF Trees
    <3> QED
      BY <2>6, <3>3, <3>4, <3>6
  <2>8. j.observed[m].state = Current(j) /\ \A q \in Node : j.observed[q].state = t.observed[q].state
    BY <2>2, <2>4, <2>5 DEF Like
  <2>9. \A q \in Node : u.observed[q].state = j.observed[q].state \/ j.observed[q].state = Current(j)
    BY <2>7, <2>8
  <2>10. j.nodes[Current(j)].kind = "state" /\ j.nodes[Current(j)].of = s
    BY <1>1, <2>2, <2>4, <2>5 DEF Like
  <2>11. TreeOk(u) /\ Grows(j, u) /\ OpenCalls(u) = OpenCalls(j)
    <3>1. "state" \notin ShownKinds
      BY DEF ShownKinds
    <3>2. Len(u.open) = Len(j.open) - 1 /\ \A i \in 1..(Len(j.open) - 1) : u.open[i] = j.open[i]
      BY <2>6, <2>7
    <3>3. u \in Trees /\ u.nodes = j.nodes
      BY <2>7
    <3>4. /\ TreeOk(u) /\ Grows(j, u)
          /\ OpenCalls(u) = IF j.nodes[Current(j)].kind \in ShownKinds THEN OpenCalls(j) \ {j.nodes[Current(j)].of} ELSE OpenCalls(j)
      BY <2>5, <2>9, <3>2, <3>3, PopOk
    <3> QED
      BY <2>10, <3>1, <3>4
  <2>12. /\ Len(j.open) >= 2
         /\ LiesOn(j.nodes[Current(j)], Current(j), j.nodes[j.open[Len(j.open) - 1]], j.open[Len(j.open) - 1], j.observed)
    BY <2>5, <2>10, BelowTop
  <2>13. j.nodes[j.open[Len(j.open) - 1]].kind = "machine" /\ j.nodes[j.open[Len(j.open) - 1]].of = m
    BY <2>1, <2>8, <2>10, <2>12 DEF LiesOn, ShownKinds
  <2>14. Len(u.open) >= 1 /\ Current(u) = j.open[Len(j.open) - 1]
    <3>1. Len(j.open) \in Nat /\ Len(j.open) - 1 \in 1..(Len(j.open) - 1)
      BY <2>5, <2>12, TreeParts
    <3> QED
      BY <2>6, <2>7, <2>12, <3>1, SMTT(40) DEF Current
  <2>15. IsOn(u, m)
    BY <2>7, <2>13, <2>14 DEF IsOn
  <2>16. Grows(t, u)
    BY <1>1, <2>4, <2>11, LikeGrows, GrowsMore
  <2>17. u.observed[m].state = 0 /\ \A q \in Node \ {m} : u.observed[q].state = t.observed[q].state
    BY <2>7, <2>8 DEF Unobserved
  <2> QED
    BY <2>5, <2>11, <2>14, <2>15, <2>16, <2>17
<1> QED
  BY <1>2, <1>3

(* A machine enters a state: the state is current, and observed. *)
LEMMA EnteredIs ==
  ASSUME NEW t, TreeOk(t), NEW m \in Node, Kind[m] = "machine", TopOk(t, m),
         NEW s \in Node, Kind[s] = "state", Container(s) = m, NEW u, u = StateEntered(t, m, s)
  PROVE  /\ TreeOk(u) /\ Grows(t, u) /\ OpenCalls(u) = OpenCalls(t) /\ Len(u.open) >= 1 /\ Visits(u, s)
         /\ \A q \in Node \ {m} : u.observed[q].state = t.observed[q].state
<1> PICK c, p : c = CloseCurrentState(t, m) /\ p = Push(c, s, "state")
  OBVIOUS
<1>1. /\ TreeOk(c) /\ Grows(t, c) /\ OpenCalls(c) = OpenCalls(t) /\ Len(c.open) >= 1 /\ IsOn(c, m)
      /\ c.observed[m].state = 0 /\ \A q \in Node \ {m} : c.observed[q].state = t.observed[q].state
  BY CloseIs
<1>2. c \in Trees /\ Len(c.nodes) \in Nat /\ Len(c.open) \in Nat /\ Current(c) \in 1..Len(c.nodes)
  BY <1>1, CurrentIs, TreeParts
<1>3. Pushed(c, p, s, "state") /\ p.observed = c.observed /\ p \in Trees
  <2>1. Pushed(c, p, s, "state") /\ p.observed = c.observed
    BY <1>1, <1>2, PushIs
  <2> QED
    BY <2>1 DEF Pushed
<1> PICK w : w = [Unobserved EXCEPT !.state = Len(c.nodes) + 1]
  OBVIOUS
<1>4. w \in Observers /\ w.state = Len(c.nodes) + 1
  <2>1. w = [state |-> Len(c.nodes) + 1, exited |-> FALSE, evaluated |-> FALSE]
    BY DEF Unobserved
  <2>2. Len(c.nodes) + 1 \in Nat
    BY <1>2
  <2>3. \A n \in Nat : LET v == [state |-> n, exited |-> FALSE, evaluated |-> FALSE] IN v \in Observers /\ v.state = n
    BY DEF Observers
  <2> QED
    BY <2>1, <2>2, <2>3, Zenon
<1>5. u = [p EXCEPT !.observed = [p.observed EXCEPT ![m] = w]]
  BY DEF StateEntered
<1>6. p.observed \in [Node -> Observers]
  BY <1>3, TreeParts
<1>7. /\ u \in Trees /\ u.nodes = p.nodes /\ u.open = p.open /\ u.observed[m] = w
      /\ \A q \in Node \ {m} : u.observed[q] = c.observed[q]
  <2>1. u.nodes = p.nodes /\ u.open = p.open /\ u.observed = [p.observed EXCEPT ![m] = w]
    BY <1>3, <1>5 DEF Trees
  <2>2. [p.observed EXCEPT ![m] = w] \in [Node -> Observers]
    BY <1>4, <1>6
  <2>3. u \in Trees
    BY <1>3, <1>5, <2>2 DEF Trees
  <2> QED
    BY <1>3, <1>6, <2>1, <2>3
<1>8. c.nodes[Current(c)].of = m /\ c.nodes[Current(c)].kind = "machine"
  BY <1>1 DEF IsOn
<1> PICK y : y = u.nodes[Len(c.nodes) + 1]
  OBVIOUS
<1>9. Pushed(c, u, s, "state")
  BY <1>3, <1>7 DEF Pushed
<1>10. y.of = s /\ y.kind = "state"
  BY <1>9 DEF Pushed
<1>11. BelongsBelow(y, c.nodes[Current(c)])
  BY <1>8, <1>10 DEF BelongsBelow
<1>12. LiesOn(y, Len(c.nodes) + 1, c.nodes[Current(c)], Current(c), u.observed)
  <2>1. u.observed[Container(y.of)].state = Len(c.nodes) + 1
    BY <1>4, <1>7, <1>10, ZenonT(60)
  <2> QED
    BY <1>8, <1>10, <2>1 DEF LiesOn
<1>13. Watched(c, u, s)
  <2>1. \A q \in Node : q # m => u.observed[q].state = c.observed[q].state
    BY <1>7
  <2>2. u.observed[m].state = Len(c.nodes) + 1 /\ c.observed[m].state = 0
    BY <1>1, <1>4, <1>7
  <2> QED
    BY <2>1, <2>2 DEF Watched
<1>14. "state" \notin ShownKinds /\ "state" \in ShownKinds \cup {"state"}
  BY DEF ShownKinds
<1>15. /\ TreeOk(u) /\ Current(u) = Len(c.nodes) + 1 /\ Len(u.open) >= 1 /\ Grows(c, u)
       /\ OpenCalls(u) = OpenCalls(c) \cup (IF "state" \in ShownKinds THEN {s} ELSE {})
  BY <1>1, <1>9, <1>11, <1>12, <1>13, <1>14, PushOk
<1>16. Visits(u, s)
  BY <1>4, <1>7, <1>10, <1>15 DEF Visits
<1>17. Grows(t, u)
  <2>1. t \in Trees
    BY DEF TreeOk
  <2> QED
    BY <1>1, <1>15, <2>1, GrowsMore
<1>18. OpenCalls(u) = OpenCalls(t)
  BY <1>1, <1>14, <1>15
<1> QED
  BY <1>1, <1>7, <1>15, <1>16, <1>17, <1>18

(* A call is shown below the node of the call that makes it. *)
LEMMA ShowCall ==
  ASSUME NEW t, TreeOk(t), Len(t.open) >= 1, NEW k \in Node, k # Root, Kind[k] \in ShownKinds, k \notin OpenCalls(t),
         t.nodes[Current(t)].of = Parent[k], t.nodes[Current(t)].kind = Kind[Parent[k]],
         NEW u, u = Push(t, k, Kind[k])
  PROVE  /\ TreeOk(u) /\ Grows(t, u) /\ OpenCalls(u) = OpenCalls(t) \cup {k} /\ Len(u.open) >= 1 /\ IsOn(u, k)
         /\ u.observed = t.observed
<1>1. t \in Trees /\ Len(t.nodes) \in Nat /\ Len(t.open) \in Nat /\ Kind[k] \in ShownKinds \cup {"state"}
  BY CurrentIs, TreeParts
<1>2. Pushed(t, u, k, Kind[k]) /\ u.observed = t.observed
  BY <1>1, PushIs
<1> PICK y : y = u.nodes[Len(t.nodes) + 1]
  OBVIOUS
<1>3. y.of = k /\ y.kind = Kind[k] /\ Container(k) = Parent[k] /\ Watched(t, u, k)
  BY <1>2, KindsAre DEF Pushed, Watched
<1>4. BelongsBelow(y, t.nodes[Current(t)])
  BY <1>3 DEF BelongsBelow, ShownKinds
<1>5. LiesOn(y, Len(t.nodes) + 1, t.nodes[Current(t)], Current(t), u.observed)
  BY <1>3 DEF LiesOn
<1>6. /\ TreeOk(u) /\ Current(u) = Len(t.nodes) + 1 /\ Len(u.open) >= 1 /\ Grows(t, u)
      /\ OpenCalls(u) = OpenCalls(t) \cup (IF Kind[k] \in ShownKinds THEN {k} ELSE {})
  BY <1>1, <1>2, <1>3, <1>4, <1>5, PushOk
<1> QED
  BY <1>1, <1>2, <1>3, <1>6 DEF IsOn

(* A state runs its node in a node of the state. *)
LEMMA EnterNodeIs ==
  ASSUME NEW t, TreeOk(t), Len(t.open) >= 1, NEW s \in Node, Kind[s] = "state", Visits(t, s), NEW u, u = EnterNode(t, s)
  PROVE  /\ TreeOk(u) /\ Grows(t, u) /\ OpenCalls(u) = OpenCalls(t) /\ Len(u.open) >= 1 /\ u.observed = t.observed
         /\ u.nodes[Current(u)].kind = "state" /\ u.nodes[Current(u)].of = s
<1>1. /\ t \in Trees /\ Len(t.nodes) \in Nat /\ Len(t.open) \in Nat /\ "state" \in ShownKinds \cup {"state"} /\ "state" \notin ShownKinds
      /\ Current(t) \in 1..Len(t.nodes)
  BY CurrentIs, TreeParts DEF ShownKinds
<1>2. t.nodes[Current(t)].kind = "state" /\ t.nodes[Current(t)].of = s /\ Current(t) = t.observed[Container(s)].state
  BY DEF Visits
<1>3. CASE u = t
  BY <1>1, <1>2, <1>3, SameLike, LikeGrows
<1>4. CASE u = Push(t, s, "state")
  <2>1. Pushed(t, u, s, "state") /\ u.observed = t.observed
    BY <1>1, <1>4, PushIs
  <2> PICK y : y = u.nodes[Len(t.nodes) + 1]
    OBVIOUS
  <2>2. y.of = s /\ y.kind = "state" /\ Watched(t, u, s)
    BY <2>1 DEF Pushed, Watched
  <2>3. BelongsBelow(y, t.nodes[Current(t)])
    BY <1>2, <2>2 DEF BelongsBelow
  <2>4. LiesOn(y, Len(t.nodes) + 1, t.nodes[Current(t)], Current(t), u.observed)
    <3>1. Len(t.nodes) + 1 # Current(t)
      BY <1>1
    <3> QED
      BY <1>2, <2>1, <2>2, <3>1 DEF LiesOn
  <2>5. /\ TreeOk(u) /\ Current(u) = Len(t.nodes) + 1 /\ Len(u.open) >= 1 /\ Grows(t, u)
        /\ OpenCalls(u) = OpenCalls(t) \cup (IF "state" \in ShownKinds THEN {s} ELSE {})
    BY <1>1, <2>1, <2>2, <2>3, <2>4, PushOk
  <2> QED
    BY <1>1, <2>1, <2>2, <2>5
<1> QED
  BY <1>3, <1>4 DEF EnterNode

(* A call that ends is closed: the node below it is current. *)
LEMMA EndsCall ==
  ASSUME NEW t, TreeOk(t), Len(t.open) >= 1, NEW n \in Node, Kind[n] \in ShownKinds, IsOn(t, n),
         NEW status \in Statuses, NEW u, u = Pop(Mark(t, Current(t), status))
  PROVE  /\ TreeOk(u) /\ Grows(t, u) /\ OpenCalls(u) = OpenCalls(t) \ {n} /\ Len(u.open) >= 1
         /\ \A q \in Node : u.observed[q].state = t.observed[q].state
         /\ u.nodes[Current(u)].of = Parent[n] /\ u.nodes[Current(u)].kind = IF n = Root THEN "recipe" ELSE Kind[Parent[n]]
         /\ n = Root => Len(u.open) = 1
<1> PICK j : j = Mark(t, Current(t), status)
  OBVIOUS
<1>1. t \in Trees /\ Current(t) \in 1..Len(t.nodes) /\ t.nodes[Current(t)].of = n /\ t.nodes[Current(t)].kind = Kind[n]
  BY CurrentIs DEF IsOn
<1>2. Like(t, j)
  BY <1>1, MarkLike DEF ShownKinds
<1>3. TreeOk(j) /\ OpenCalls(j) = OpenCalls(t) /\ Current(j) = Current(t)
  BY <1>2, LikeKeeps
<1>4. /\ j \in Trees /\ Len(j.open) >= 1 /\ j.nodes[Current(j)].of = n /\ j.nodes[Current(j)].kind = Kind[n]
      /\ \A q \in Node : j.observed[q].state = t.observed[q].state
  BY <1>1, <1>2, <1>3 DEF Like
<1>5. /\ u \in Trees /\ u.nodes = j.nodes /\ u.observed = j.observed
      /\ Len(u.open) = Len(j.open) - 1 /\ \A i \in 1..(Len(j.open) - 1) : u.open[i] = j.open[i]
  BY <1>4, PopIs
<1>6. /\ TreeOk(u) /\ Grows(j, u)
      /\ OpenCalls(u) = IF j.nodes[Current(j)].kind \in ShownKinds THEN OpenCalls(j) \ {j.nodes[Current(j)].of} ELSE OpenCalls(j)
  BY <1>3, <1>4, <1>5, PopOk, SMTT(40)
<1> PICK x, d : d = j.open[Len(j.open) - 1] /\ x = j.nodes[d]
  OBVIOUS
<1>7. Len(j.open) >= 2 /\ LiesOn(j.nodes[Current(j)], Current(j), x, d, j.observed)
  <2>1. j.nodes[Current(j)].kind # "recipe"
    BY <1>4 DEF ShownKinds
  <2> QED
    BY <1>3, <1>4, <2>1, BelowTop
<1>8. x.of = Parent[n] /\ x.kind = IF n = Root THEN "recipe" ELSE Kind[Parent[n]]
  BY <1>4, <1>7 DEF LiesOn, ShownKinds
<1>9. Len(j.open) \in Nat /\ Len(u.open) >= 1 /\ Current(u) = d
  <2>1. Len(j.open) \in Nat
    BY <1>4, TreeParts
  <2>2. Len(j.open) - 1 \in 1..(Len(j.open) - 1) /\ Len(j.open) - 1 >= 1
    BY <1>7, <2>1
  <2>3. u.open[Len(j.open) - 1] = d
    BY <1>5, <2>2, SMTT(40)
  <2> QED
    BY <1>5, <2>1, <2>2, <2>3 DEF Current
<1>10. n = Root => Len(u.open) = 1
  <2> SUFFICES ASSUME n = Root, Len(u.open) # 1 PROVE FALSE
    OBVIOUS
  <2>1. u.nodes[Current(u)].kind = "recipe"
    BY <1>5, <1>8, <1>9
  <2>2. Len(u.open) \in 2..Len(u.open) /\ Len(u.open) \in Nat
    <3>1. Len(u.open) \in Nat /\ \A h \in Nat : h >= 1 /\ h # 1 => h \in 2..h
      BY <1>5, TreeParts
    <3> QED
      BY <1>9, <3>1
  <2>3. Sits(u, Len(u.open))
    BY <1>6, <2>2 DEF TreeOk, StackOk
  <2> QED
    BY <2>1, <2>3 DEF Sits, LiesOn, Current, ShownKinds
<1>11. Grows(t, u)
  BY <1>1, <1>2, <1>6, LikeGrows, GrowsMore
<1>12. OpenCalls(u) = OpenCalls(t) \ {n}
  BY <1>3, <1>4, <1>6
<1> QED
  BY <1>4, <1>5, <1>6, <1>8, <1>9, <1>10, <1>11, <1>12

(* The current node shows state s, entered once or again. *)
AtState(t, s) == t.nodes[Current(t)].kind = "state" /\ t.nodes[Current(t)].of = s

(* The node of a state returns: the observed state is current. *)
LEMMA LeaveNodeIs ==
  ASSUME NEW t, TreeOk(t), Len(t.open) >= 1, NEW s, s \in Node, Kind[s] = "state",
         AtState(t, s), NEW sig, NEW u, u = LeaveNode(t, s, sig)
  PROVE  /\ TreeOk(u) /\ Grows(t, u) /\ OpenCalls(u) = OpenCalls(t) /\ Len(u.open) >= 1 /\ Visits(u, s)
         /\ \A q \in Node : u.observed[q].state = t.observed[q].state
<1> t.nodes[Current(t)].kind = "state" /\ t.nodes[Current(t)].of = s
  BY DEF AtState
<1> DEFINE cur == Current(t)
           repeated == cur # t.observed[Container(s)].state
           judged == IF sig # "ok" THEN Mark(t, cur, "failed")
                     ELSE IF repeated THEN Mark(t, cur, Completed(t, cur)) ELSE t
<1> PICK j : j = judged
  OBVIOUS
<1>1. t \in Trees /\ cur \in 1..Len(t.nodes) /\ Container(s) \in Node /\ "failed" \in Statuses
  BY CurrentIs, KindsAre DEF Statuses
<1>2. Like(t, j)
  BY <1>1, MarkLike, SameLike, StatusType
<1>3. u = IF repeated THEN Pop(j) ELSE j
  BY DEF LeaveNode
<1> HIDE DEF judged
<1>4. TreeOk(j) /\ OpenCalls(j) = OpenCalls(t) /\ Current(j) = Current(t)
  BY <1>2, LikeKeeps
<1>5. /\ j \in Trees /\ Len(j.open) >= 1 /\ j.nodes[Current(j)].of = s /\ j.nodes[Current(j)].kind = "state"
      /\ \A q \in Node : j.observed[q].state = t.observed[q].state
  BY <1>1, <1>2, <1>4 DEF Like
<1>6. CASE ~repeated
  <2>1. u = j /\ Visits(j, s)
    BY <1>1, <1>3, <1>4, <1>5, <1>6 DEF Visits
  <2> QED
    BY <1>1, <1>2, <1>4, <1>5, <2>1, LikeGrows
<1>7. CASE repeated
  <2>1. /\ u \in Trees /\ u.nodes = j.nodes /\ u.observed = j.observed
        /\ Len(u.open) = Len(j.open) - 1 /\ \A i \in 1..(Len(j.open) - 1) : u.open[i] = j.open[i]
    BY <1>3, <1>5, <1>7, PopIs
  <2>2. /\ TreeOk(u) /\ Grows(j, u)
        /\ OpenCalls(u) = IF j.nodes[Current(j)].kind \in ShownKinds THEN OpenCalls(j) \ {j.nodes[Current(j)].of} ELSE OpenCalls(j)
    BY <1>4, <1>5, <2>1, PopOk
  <2> PICK x, d : d = j.open[Len(j.open) - 1] /\ x = j.nodes[d]
    OBVIOUS
  <2>3. Len(j.open) >= 2 /\ LiesOn(j.nodes[Current(j)], Current(j), x, d, j.observed)
    BY <1>4, <1>5, BelowTop
  <2>4. x.kind = "state" /\ x.of = s /\ d = j.observed[Container(s)].state
    <3>1. Current(j) # j.observed[Container(s)].state
      BY <1>1, <1>4, <1>5, <1>7
    <3> QED
      BY <1>5, <2>3, <3>1 DEF LiesOn, ShownKinds
  <2>5. Len(u.open) >= 1 /\ Current(u) = d
    <3>1. Len(j.open) \in Nat
      BY <1>5, TreeParts
    <3>2. Len(j.open) - 1 \in 1..(Len(j.open) - 1)
      BY <2>3, <3>1
    <3> QED
      BY <2>1, <2>3, <3>1, <3>2, SMTT(40) DEF Current
  <2>6. Visits(u, s)
    BY <2>1, <2>4, <2>5 DEF Visits
  <2>7. Grows(t, u)
    BY <1>1, <1>2, <2>2, LikeGrows, GrowsMore
  <2>8. OpenCalls(u) = OpenCalls(t)
    BY <1>4, <1>5, <2>2 DEF ShownKinds
  <2> QED
    BY <1>5, <2>1, <2>2, <2>5, <2>6, <2>7, <2>8
<1> QED
  BY <1>6, <1>7

(* Tree u is t with a node added below node up that is not pushed. *)
Added(t, u, of, kind, up, status) ==
    /\ u \in Trees /\ Len(u.nodes) = Len(t.nodes) + 1 /\ u.open = t.open
    /\ \A i \in 1..Len(t.nodes) : u.nodes[i] = t.nodes[i]
    /\ u.nodes[Len(t.nodes) + 1] = [of |-> of, kind |-> kind, up |-> up, status |-> status]
    /\ \A m \in Node : u.observed[m].state = t.observed[m].state

(* A node that is added below a node it belongs below leaves the stack as it was. *)
LEMMA AddOk ==
  ASSUME NEW t, TreeOk(t), Len(t.open) >= 1, NEW of, NEW kind, kind \in {"step", "transition"}, NEW up, up \in 1..Len(t.nodes), NEW status,
         NEW u, Added(t, u, of, kind, up, status), BelongsBelow(u.nodes[Len(t.nodes) + 1], t.nodes[up])
  PROVE  /\ TreeOk(u) /\ OpenCalls(u) = OpenCalls(t)
         /\ \A n \in Node : TopOk(t, n) => TopOk(u, n)
<1> /\ u \in Trees /\ Len(u.nodes) = Len(t.nodes) + 1 /\ u.open = t.open
    /\ \A i \in 1..Len(t.nodes) : u.nodes[i] = t.nodes[i]
    /\ u.nodes[Len(t.nodes) + 1] = [of |-> of, kind |-> kind, up |-> up, status |-> status]
    /\ \A m \in Node : u.observed[m].state = t.observed[m].state
  BY DEF Added
<1> PICK k : k = Len(t.nodes)
  OBVIOUS
<1>1. t \in Trees /\ NodesOk(t) /\ StackOk(t) /\ OpenOnce(t) /\ Current(t) \in 1..k /\ Current(u) = Current(t)
  BY CurrentIs DEF TreeOk, Current
<1>2. k \in Nat /\ Len(t.open) \in Nat /\ \A i \in 1..Len(t.open) : t.open[i] \in 1..k /\ u.nodes[u.open[i]] = t.nodes[t.open[i]]
  BY <1>1, TreeParts DEF StackOk
<1>3. NodesOk(u)
  <2>1. ASSUME NEW i \in 2..(k + 1)
        PROVE  /\ u.nodes[i].kind # "recipe" /\ u.nodes[i].up \in 1..(i - 1)
               /\ BelongsBelow(u.nodes[i], u.nodes[u.nodes[i].up])
    <3>1. CASE i = k + 1
      <4>1. u.nodes[up] = t.nodes[up] /\ (k + 1) - 1 = k
        BY <1>2
      <4> QED
        BY <3>1, <4>1
    <3>2. CASE i # k + 1
      <4>1. i \in 2..k /\ i \in 1..k
        BY <1>2, <3>2
      <4>2. /\ t.nodes[i].kind # "recipe" /\ t.nodes[i].up \in 1..(i - 1)
            /\ BelongsBelow(t.nodes[i], t.nodes[t.nodes[i].up])
        BY <1>1, <4>1 DEF NodesOk
      <4>3. t.nodes[i].up \in 1..k
        BY <4>1, <4>2
      <4> QED
        BY <4>1, <4>2, <4>3
    <3> QED
      BY <3>1, <3>2
  <2>2. 1 \in 1..k
    BY <1>1, <1>2 DEF NodesOk
  <2> QED
    BY <1>1, <1>2, <2>1, <2>2, SMTT(40) DEF NodesOk
<1>4. StackOk(u)
  <2>1. ASSUME NEW i \in 2..Len(t.open) PROVE Sits(u, i)
    <3>1. i \in 1..Len(t.open) /\ i - 1 \in 1..Len(t.open)
      BY <1>2
    <3> PICK c, d, x, z : c = t.open[i] /\ d = t.open[i - 1] /\ z = t.nodes[c] /\ x = t.nodes[d]
      OBVIOUS
    <3>2. LiesOn(z, c, x, d, t.observed)
      BY <1>1 DEF StackOk, Sits
    <3>3. u.nodes[c] = z /\ u.nodes[d] = x
      BY <1>2, <3>1
    <3>4. z.kind = "state" /\ z.of \in Node /\ Kind[z.of] = "state" =>
             u.observed[Container(z.of)].state = t.observed[Container(z.of)].state
      BY KindsAre, SMTT(40)
    <3>5. LiesOn(z, c, x, d, u.observed)
      BY <3>2, <3>4 DEF LiesOn
    <3> QED
      BY <3>3, <3>5 DEF Sits
  <2>2. \A i \in 1..Len(t.open) : t.open[i] \in 1..(k + 1)
    BY <1>2
  <2> QED
    BY <1>1, <2>1, <2>2 DEF StackOk
<1>5. \A i \in 1..Len(t.open), n \in Node : OpenCall(u, i, n) <=> OpenCall(t, i, n)
  BY <1>2 DEF OpenCall
<1>6. OpenOnce(u) /\ OpenCalls(u) = OpenCalls(t)
  BY <1>1, <1>5 DEF OpenOnce, OpenCalls
<1>7. \A n : IsOn(t, n) <=> IsOn(u, n)
  BY <1>1 DEF IsOn
<1>8. \A s \in Node : Container(s) \in Node => (Visits(t, s) <=> Visits(u, s))
  BY <1>1 DEF Visits
<1>9. ASSUME NEW n \in Node, TopOk(t, n) PROVE TopOk(u, n)
  <2>1. Kind[n] = "policy" => First[n] \in Node /\ Container(First[n]) \in Node
    BY KindsAre
  <2>2. Kind[n] = "state" => Container(n) \in Node
    BY KindsAre
  <2> QED
    BY <1>7, <1>8, <1>9, <2>1, <2>2 DEF TopOk
<1> QED
  BY <1>3, <1>4, <1>6, <1>9 DEF TreeOk

-----------------------------------------------------------------------------
(* Steps and task results. *)

(* The set T is S and the number after all of S. *)
OneMore(n, S, T) == n \in Nat /\ S \subseteq 1..n /\ T = S \cup {n + 1}
RanksMore(n, S, T) ==
    /\ Cardinality(S) \in Nat /\ Cardinality(T) = Cardinality(S) + 1 /\ Rank(T, n + 1) = Cardinality(S) + 1
    /\ \A i \in S : Rank(T, i) = Rank(S, i) /\ Rank(S, i) \in Nat /\ Rank(S, i) <= Cardinality(S)

(* The number after all others of a set is the last one of the larger set. *)
LEMMA RankNext ==
  ASSUME NEW n, NEW S, NEW T, OneMore(n, S, T)
  PROVE  RanksMore(n, S, T)
<1> n \in Nat /\ S \subseteq 1..n /\ T = S \cup {n + 1}
  BY DEF OneMore
<1>1. IsFiniteSet(1..n)
  BY FS_Interval
<1>2. IsFiniteSet(S) /\ Cardinality(S) \in Nat
  BY <1>1, FS_Subset, FS_CardinalityType
<1>3. n + 1 \notin S
  OBVIOUS
<1>4. Cardinality(T) = Cardinality(S) + 1
  BY <1>2, <1>3, FS_AddElement
<1>5. Rank(T, n + 1) = Cardinality(S) + 1
  <2>1. \A j \in T : j <= n + 1
    OBVIOUS
  <2>2. {j \in T : j <= n + 1} = T
    BY <2>1
  <2> QED
    BY <1>4, <2>2 DEF Rank
<1>6. ASSUME NEW i \in S PROVE Rank(T, i) = Rank(S, i) /\ Rank(S, i) \in Nat /\ Rank(S, i) <= Cardinality(S)
  <2> PICK A : A = {j \in S : j <= i}
    OBVIOUS
  <2>1. {j \in T : j <= i} = A
    <3>1. i \in 1..n /\ ~(n + 1 <= i)
      OBVIOUS
    <3> QED
      BY <3>1
  <2>2. IsFiniteSet(A) /\ Cardinality(A) <= Cardinality(S) /\ Cardinality(A) \in Nat
    BY <1>2, FS_Subset, FS_CardinalityType
  <2> QED
    BY <2>1, <2>2 DEF Rank
<1> QED
  BY <1>2, <1>4, <1>5, <1>6 DEF RanksMore

(* A tree without new steps tells a history without new task results. *)
LEMMA StepsKept ==
  ASSUME NEW t \in Trees, NEW u, Grows(t, u), NEW h, NEW p, NEW g, NEW q, StepsOk(t, h, p),
         TasksOf(g, q) = TasksOf(h, p), \A j \in TasksOf(h, p) : g[j] = h[j]
  PROVE  StepsOk(u, g, q)
<1>1. u \in Trees /\ Len(t.nodes) \in Nat /\ Len(u.nodes) \in Nat /\ Len(u.nodes) >= Len(t.nodes)
  BY TreeParts DEF Grows
<1>2. \A i \in 1..Len(u.nodes) : i \in 1..Len(t.nodes) \/ i \in (Len(t.nodes) + 1)..Len(u.nodes)
  BY <1>1
<1>3. \A i \in 1..Len(t.nodes) : i \in 1..Len(u.nodes)
  BY <1>1
<1>4. StepsOf(u) = StepsOf(t)
  BY <1>2, <1>3 DEF StepsOf, Grows
<1>5. \A i \in StepsOf(t) : u.nodes[i].of = t.nodes[i].of /\ u.nodes[i].status = t.nodes[i].status
  BY DEF StepsOf, Grows
<1> QED
  BY <1>4, <1>5 DEF StepsOk, Shows

(* A new step tells a new task result. *)
LEMMA StepAdded ==
  ASSUME NEW t \in Trees, NEW u, NEW of, NEW up, NEW status, Added(t, u, of, "step", up, status),
         NEW h, NEW p \in Nat, NEW g, StepsOk(t, h, p),
         \A j \in 1..p : g[j] = h[j], g[p + 1].what \in {"task_ok", "task_err"}, Shows(u.nodes[Len(t.nodes) + 1], g[p + 1])
  PROVE  StepsOk(u, g, p + 1)
<1> PICK k, S, T, A, B : k = Len(t.nodes) /\ S = StepsOf(t) /\ T = TasksOf(h, p) /\ A = StepsOf(u) /\ B = TasksOf(g, p + 1)
  OBVIOUS
<1>1. k \in Nat /\ Len(u.nodes) = k + 1 /\ (\A i \in 1..k : u.nodes[i] = t.nodes[i]) /\ u.nodes[k + 1].kind = "step"
  BY TreeParts DEF Added
<1>2. A = S \cup {k + 1} /\ S \in SUBSET (1..k)
  <2>1. 1..(k + 1) = 1..k \cup {k + 1}
    BY <1>1
  <2> QED
    BY <1>1, <2>1 DEF StepsOf
<1>3. B = T \cup {p + 1} /\ T \in SUBSET (1..p)
  <2>1. 1..(p + 1) = 1..p \cup {p + 1}
    OBVIOUS
  <2> QED
    BY <2>1 DEF TasksOf
<1>4. /\ Cardinality(S) \in Nat /\ Cardinality(A) = Cardinality(S) + 1 /\ Rank(A, k + 1) = Cardinality(S) + 1
      /\ \A i \in S : Rank(A, i) = Rank(S, i) /\ Rank(S, i) \in Nat /\ Rank(S, i) <= Cardinality(S)
  <2>1. OneMore(k, S, A)
    BY <1>1, <1>2 DEF OneMore
  <2>2. RanksMore(k, S, A)
    BY <2>1, RankNext
  <2> QED
    BY <2>2 DEF RanksMore
<1>5. /\ Cardinality(T) \in Nat /\ Cardinality(B) = Cardinality(T) + 1 /\ Rank(B, p + 1) = Cardinality(T) + 1
      /\ \A i \in T : Rank(B, i) = Rank(T, i) /\ Rank(T, i) \in Nat /\ Rank(T, i) <= Cardinality(T)
  <2>1. OneMore(p, T, B)
    BY <1>3 DEF OneMore
  <2>2. RanksMore(p, T, B)
    BY <2>1, RankNext
  <2> QED
    BY <2>2 DEF RanksMore
<1>6. Cardinality(S) = Cardinality(T) /\ \A i \in S, j \in T : Rank(S, i) = Rank(T, j) => Shows(t.nodes[i], h[j])
  BY DEF StepsOk
<1>7. ASSUME NEW i \in A, NEW j \in B, Rank(A, i) = Rank(B, j) PROVE Shows(u.nodes[i], g[j])
  <2>1. CASE i \in S /\ j \in T
    <3>1. u.nodes[i] = t.nodes[i] /\ g[j] = h[j]
      BY <1>1, <1>2, <1>3, <2>1
    <3> QED
      BY <1>4, <1>5, <1>6, <1>7, <2>1, <3>1
  <2>2. CASE i = k + 1 /\ j = p + 1
    BY <2>2
  <2>3. CASE i \in S /\ j = p + 1
    BY <1>4, <1>5, <1>6, <1>7, <2>3
  <2>4. CASE i = k + 1 /\ j \in T
    BY <1>4, <1>5, <1>6, <1>7, <2>4
  <2> QED
    BY <1>2, <1>3, <2>1, <2>2, <2>3, <2>4
<1> QED
  BY <1>4, <1>5, <1>6, <1>7 DEF StepsOk

-----------------------------------------------------------------------------
(* The executor's steps. *)

(* A recorded step extends the part of the history that this process has passed. *)
LEMMA RecordIs ==
  ASSUME TypeOK, NEW n \in Node, NEW what, NEW frame, Record(n, what, frame)
  PROVE  /\ pos \in Nat /\ pos' = pos + 1 /\ log'[pos + 1].site = n /\ log'[pos + 1].what = what
         /\ \A j \in 1..pos : log'[j] = log[j]
<1>1. log \in Seq(Entries) /\ Len(log) \in Nat /\ pos \in 0..Len(log) /\ pos \in Nat
  BY DEF TypeOK
<1>2. CASE Replaying
  BY <1>1, <1>2 DEF Record
<1>3. CASE ~Replaying
  <2> PICK e : e = [site |-> n, what |-> what, frame |-> frame]
    OBVIOUS
  <2>1. log' = Append(log, e) /\ pos' = pos + 1 /\ e.site = n /\ e.what = what
    BY <1>3 DEF Record
  <2>2. pos = Len(log)
    BY <1>1, <1>3 DEF Replaying
  <2>3. log'[pos + 1] = e /\ \A j \in 1..pos : log'[j] = log[j]
    BY <1>1, <2>1, <2>2
  <2> QED
    BY <1>1, <2>1, <2>3
<1> QED
  BY <1>2, <1>3

(* The history's task results are as they were. *)
SameTasks == TasksOf(log', pos') = TasksOf(log, pos) /\ \A j \in TasksOf(log, pos) : log'[j] = log[j]

(* Nothing was recorded, or something that is no task result. *)
LEMMA KeptTasks == ASSUME UNCHANGED <<log, pos>> PROVE SameTasks
BY DEF SameTasks

(* What JobDB decides about a scope is no task result. *)
LEMMA RecordTasks ==
  ASSUME TypeOK, NEW n \in Node, NEW what, what \notin {"task_ok", "task_err"}, NEW frame, Record(n, what, frame)
  PROVE  SameTasks
<1>1. /\ pos \in Nat /\ pos' = pos + 1 /\ log'[pos + 1].what = what
      /\ \A j \in 1..pos : log'[j] = log[j]
  BY RecordIs
<1>2. 1..(pos + 1) = 1..pos \cup {pos + 1}
  BY <1>1
<1> QED
  BY <1>1, <1>2 DEF SameTasks, TasksOf

(* The same calls are open. *)
SameCalls == at' = at /\ \A m \in Node : act'[m].pc = "idle" <=> act[m].pc = "idle"
Quiet == SameCalls /\ SameTasks

(* The call on top goes on. *)
LEMMA LocalCalls ==
  ASSUME TypeOK, NEW n \in Node, act[n].pc # "idle", NEW b, b.pc # "idle", act' = [act EXCEPT ![n] = b], at' = at
  PROVE  SameCalls
BY DEF SameCalls, TypeOK

(* A body returns inside its call. *)
LEMMA ReturnBodyCalls ==
  ASSUME TypeOK, NEW n \in Node, act[n].pc # "idle", NEW a \in Acts, NEW sig, NEW fatal, ReturnBody(n, a, sig, fatal), at' = at
  PROVE  SameCalls
<1> DEFINE b == [a EXCEPT !.pc = "returned", !.sig = sig, !.fatal = fatal, !.caught = FALSE, !.last = a.cur]
<1>1. b.pc = "returned" /\ act' = [act EXCEPT ![n] = b]
  BY DEF ReturnBody, Acts
<1> HIDE DEF b
<1> QED
  BY <1>1, LocalCalls

(* The steps inside one call. *)
LEMMA QuietSteps ==
  ASSUME TypeOK, NEW n \in Node, StartBody(n) \/ FinishBody(n) \/ Resume(n) \/ Decide(n) \/ Handle(n)
  PROVE  n = at /\ Quiet
<1> PICK a : a = act[n]
  OBVIOUS
<1>1. a \in Acts /\ act \in [Node -> Acts] /\ pos \in Nat
  BY DEF TypeOK
<1>2. CASE StartBody(n)
  <2> DEFINE b == [NewFrame(a) EXCEPT !.pc = "call", !.attempt = a.attempt + 1, !.kid = First[n], !.sig = "none", !.to = NoNode]
  <2>1. n = at /\ a.pc = "entry" /\ at' = at /\ act' = [act EXCEPT ![n] = b] /\ UNCHANGED <<log, pos>>
    BY <1>2 DEF StartBody, At
  <2>2. b.pc = "call"
    BY <1>1, NewFrameType DEF Acts
  <2> HIDE DEF b
  <2> QED
    BY <2>1, <2>2, LocalCalls, KeptTasks DEF Quiet
<1>3. CASE FinishBody(n)
  <2> PICK c : c = IF Kind[n] \in {"sequence", "machine"} THEN [a EXCEPT !.out = [scope |-> n, val |-> pos]] ELSE a
    OBVIOUS
  <2>1. n = at /\ a.pc = "call" /\ at' = at /\ ReturnBody(n, c, "ok", FALSE) /\ UNCHANGED <<log, pos>>
    BY <1>3 DEF FinishBody, At
  <2>2. c \in Acts
    <3>1. [scope |-> n, val |-> pos] \in Outs
      BY <1>1 DEF Outs
    <3> QED
      BY <1>1, <3>1 DEF Acts
  <2> QED
    BY <2>1, <2>2, ReturnBodyCalls, KeptTasks DEF Quiet
<1>4. CASE Resume(n)
  <2>1. n = at /\ a.pc = "resume" /\ at' = at /\ UNCHANGED <<log, pos>>
    BY <1>4 DEF Resume, At
  <2>2. ASSUME NEW k, act' = [act EXCEPT ![n] = [a EXCEPT !.pc = "call", !.kid = k]] PROVE SameCalls
    <3> PICK b : b = [a EXCEPT !.pc = "call", !.kid = k]
      OBVIOUS
    <3>1. b.pc = "call"
      BY <1>1 DEF Acts
    <3> QED
      BY <2>1, <2>2, <3>1, LocalCalls
  <2>3. ASSUME NEW sig, NEW fatal, ReturnBody(n, a, sig, fatal) PROVE SameCalls
    BY <1>1, <2>1, <2>3, ReturnBodyCalls
  <2>4. SameCalls
    BY <1>4, <2>2, <2>3 DEF Resume
  <2> QED
    BY <2>1, <2>4, KeptTasks DEF Quiet
<1>5. CASE Decide(n)
  <2>1. n = at /\ a.pc = "returned" /\ at' = at
    BY <1>5 DEF Decide, At
  <2>2. SameTasks
    BY <1>5, RecordTasks DEF Decide
  <2>3. ASSUME NEW b, b.pc # "idle", act' = [act EXCEPT ![n] = b] PROVE SameCalls
    BY <2>1, <2>3, LocalCalls
  <2>4. PICK b : act' = [act EXCEPT ![n] = b] /\ b.pc # "idle"
    <3>1. /\ [a EXCEPT !.pc = "accepted", !.acc = RecordedFrame(a.cur)].pc = "accepted"
          /\ [a EXCEPT !.sig = "err", !.fatal = TRUE].pc = a.pc
          /\ [a EXCEPT !.pc = "handling", !.caught = TRUE].pc = "handling"
          /\ [a EXCEPT !.pc = "entry"].pc = "entry"
          /\ [a EXCEPT !.pc = "failed"].pc = "failed"
      BY <1>1 DEF Acts
    <3>2. \/ act' = [act EXCEPT ![n] = [a EXCEPT !.pc = "accepted", !.acc = RecordedFrame(a.cur)]]
          \/ act' = [act EXCEPT ![n] = [a EXCEPT !.sig = "err", !.fatal = TRUE]]
          \/ act' = [act EXCEPT ![n] = [a EXCEPT !.pc = "handling", !.caught = TRUE]]
          \/ act' = [act EXCEPT ![n] = [a EXCEPT !.pc = "entry"]]
          \/ act' = [act EXCEPT ![n] = [a EXCEPT !.pc = "failed"]]
      BY <1>5, Zenon DEF Decide
    <3> QED
      BY <2>1, <3>1, <3>2, Zenon
  <2> QED
    BY <2>1, <2>2, <2>3, <2>4 DEF Quiet
<1>6. CASE Handle(n)
  <2> DEFINE f == NewFrame(a)
             done(sig, out) == [f EXCEPT !.pc = "accepted", !.sig = sig, !.out = out, !.last = f.cur, !.acc = RecordedFrame(f.cur)]
             handled == done(IF Kind[n] = "policy" THEN "handled" ELSE "ok", [scope |-> CompletedBy(n), val |-> pos])
             routed == [done("route", NoOut) EXCEPT !.to = RouteTo[CompletedBy(n)]]
  <2>1. n = at /\ a.pc = "handling" /\ at' = at
    BY <1>6 DEF Handle, At
  <2>2. SameTasks
    BY <1>6, RecordTasks DEF Handle
  <2>3. ASSUME NEW b, b.pc # "idle", act' = [act EXCEPT ![n] = b] PROVE SameCalls
    BY <2>1, <2>3, LocalCalls
  <2>4. f \in Acts
    BY <1>1, NewFrameType
  <2>5. PICK b : act' = [act EXCEPT ![n] = b] /\ b.pc # "idle"
    <3>1. handled.pc = "accepted" /\ routed.pc = "accepted" /\ [f EXCEPT !.pc = "returned"].pc = "returned"
          /\ [f EXCEPT !.pc = "failed"].pc = "failed"
      <4> HIDE DEF f
      <4> QED
        BY <2>4 DEF Acts
    <3>2. \/ act' = [act EXCEPT ![n] = handled]
          \/ act' = [act EXCEPT ![n] = routed]
          \/ act' = [act EXCEPT ![n] = [f EXCEPT !.pc = "returned"]]
          \/ act' = [act EXCEPT ![n] = [f EXCEPT !.pc = "failed"]]
      BY <1>6, Zenon DEF Handle
    <3> HIDE DEF f, handled, routed
    <3> QED
      BY <3>1, <3>2, Zenon
  <2> QED
    BY <2>1, <2>2, <2>3, <2>5 DEF Quiet
<1> QED
  BY <1>2, <1>3, <1>4, <1>5, <1>6

(* A body opens the call of its next child. *)
LEMMA CallIs ==
  ASSUME TypeOK, CallStack, NEW n \in Node, CallKid(n), NEW k, k = act[n].kid
  PROVE  /\ n = at /\ k \in Node /\ k # Root /\ Parent[k] = n /\ at' = k /\ act[n].pc # "idle" /\ act[k].pc = "idle" /\ SameTasks
         /\ \A m \in Node : act'[m].pc = "idle" <=> act[m].pc = "idle" /\ m # k
<1> DEFINE called == [Idle EXCEPT !.pc = "entry", !.covered = act[n].covered \/ DeclaredCatch(n) # "none"]
<1>1. n = at /\ act[n].pc = "call" /\ k # NoNode /\ k \in Node /\ at' = k /\ SameTasks
  BY KeptTasks DEF CallKid, At, TypeOK, Acts
<1>2. Parent[k] = n /\ k # n /\ k # Root
  BY <1>1, TreeAssumption, NodeAssumption DEF CallStack
<1>3. act[n] \in Acts /\ called.pc = "entry" /\ act' = [act EXCEPT ![n].pc = "wait", ![k] = called]
  BY DEF TypeOK, Idle, CallKid
<1>4. act[k].pc = "idle"
  BY <1>1, <1>2, NodeAssumption DEF CallStack
<1> HIDE DEF called
<1>5. act'[n].pc = "wait" /\ act'[k] = called /\ \A m \in Node : m # n /\ m # k => act'[m] = act[m]
  BY <1>1, <1>2, <1>3 DEF TypeOK, Acts
<1> QED
  BY <1>1, <1>2, <1>3, <1>4, <1>5

(* The call on top returns to the body that made it. *)
LEMMA ReturnClears ==
  ASSUME TypeOK, CallStack, NEW n \in Node, act[n].pc # "idle", NEW acts \in [Node -> Acts],
         \A m \in Node : acts[m].pc = act[m].pc, NEW sig, NEW to, NEW fatal, Return(n, acts, sig, to, fatal)
  PROVE  at' = Parent[n] /\ \A m \in Node : act'[m].pc = "idle" <=> act[m].pc = "idle" \/ m = n
<1> DEFINE p == Parent[n]
           up == [acts[p] EXCEPT !.pc = "resume", !.sig = sig, !.to = to, !.fatal = fatal]
<1>1. Idle.pc = "idle" /\ at' = p
  BY DEF Idle, Return
<1>2. CASE p = NoNode
  <2>1. act' = [acts EXCEPT ![n] = Idle]
    BY <1>2 DEF Return
  <2> QED
    BY <1>1, <2>1
<1>3. CASE p # NoNode
  <2>1. p \in Node /\ p # n /\ act[p].pc = "wait"
    BY <1>3, NodeAssumption, TreeAssumption DEF CallStack
  <2>2. act' = [acts EXCEPT ![n] = Idle, ![p] = up]
    BY <1>3 DEF Return
  <2>3. up.pc = "resume"
    BY <2>1 DEF Acts
  <2> HIDE DEF up, p
  <2>4. act'[n] = Idle /\ act'[p] = up /\ \A m \in Node : m # n /\ m # p => act'[m] = acts[m]
    BY <2>1, <2>2
  <2>5. act'[n].pc = "idle" /\ act'[p].pc # "idle" /\ act[p].pc # "idle"
    BY <1>1, <2>1, <2>3, <2>4
  <2>6. \A m \in Node : m # n /\ m # p => act'[m].pc = act[m].pc
    BY <2>4
  <2> QED
    BY <1>1, <2>5, <2>6 DEF p
<1> QED
  BY <1>2, <1>3

(* The call on top ends, accepted or failed. *)
LEMMA ReturnIs ==
  ASSUME TypeOK, CallStack, NEW n \in Node, Settle(n) \/ FailScope(n)
  PROVE  /\ n = at /\ at' = Parent[n] /\ act[n].pc # "idle" /\ SameTasks
         /\ \A m \in Node : act'[m].pc = "idle" <=> act[m].pc = "idle" \/ m = n
<1> PICK a : a = act[n]
  OBVIOUS
<1>1. act \in [Node -> Acts] /\ a \in Acts
  BY DEF TypeOK
<1>2. n = at /\ a.pc \in {"accepted", "failed"} /\ SameTasks
  BY KeptTasks DEF Settle, FailScope, At
<1>3. CASE Settle(n)
  <2>1. ASSUME NEW f \in AcceptedFrames(n), f.out # NoOut, DeferToState(n),
               Return(n, [act EXCEPT ![Parent[n]].out = [f.out EXCEPT !.scope = Parent[n]]], a.sig, a.to, FALSE)
        PROVE  \E acts \in [Node -> Acts] :
                  Return(n, acts, a.sig, a.to, FALSE) /\ \A m \in Node : acts[m].pc = act[m].pc
    <3> DEFINE p == Parent[n]
               o == [f.out EXCEPT !.scope = p]
               acts == [act EXCEPT ![p].out = o]
    <3>1. p \in Node /\ act[p] \in Acts
      BY <1>1, <2>1, NodeAssumption DEF DeferToState, EnclosedBy
    <3>2. o \in Outs
      <4>1. f.out \in Outs
        BY DEF AcceptedFrames, TypeOK, Frames
      <4> QED
        BY <2>1, <3>1, <4>1, OutScope DEF Outs
    <3> HIDE DEF o
    <3>3. [act[p] EXCEPT !.out = o] \in Acts /\ [act[p] EXCEPT !.out = o].pc = act[p].pc
      BY <3>1, <3>2 DEF Acts
    <3>4. acts \in [Node -> Acts] /\ \A m \in Node : acts[m].pc = act[m].pc
      BY <1>1, <3>1, <3>3
    <3>5. Return(n, acts, a.sig, a.to, FALSE)
      BY <2>1 DEF o
    <3> HIDE DEF acts
    <3> QED
      BY <3>4, <3>5
  <2>2. CASE Return(n, act, "err", NoNode, FALSE) \/ Return(n, act, a.sig, a.to, FALSE)
    BY <1>1, <1>2, <2>2, ReturnClears
  <2>3. CASE \E f \in AcceptedFrames(n) : f.out # NoOut /\ DeferToState(n)
               /\ Return(n, [act EXCEPT ![Parent[n]].out = [f.out EXCEPT !.scope = Parent[n]]], a.sig, a.to, FALSE)
    <3>1. PICK acts \in [Node -> Acts] : Return(n, acts, a.sig, a.to, FALSE) /\ \A m \in Node : acts[m].pc = act[m].pc
      BY <2>1, <2>3
    <3> QED
      BY <1>1, <1>2, <3>1, ReturnClears
  <2> QED
    BY <1>3, <2>2, <2>3, Zenon DEF Settle
<1>4. CASE FailScope(n)
  <2>1. Return(n, act, "err", NoNode, act[n].fatal \/ n \in RetrySteps)
    BY <1>4 DEF FailScope
  <2> QED
    BY <1>1, <1>2, <2>1, ReturnClears
<1> QED
  BY <1>3, <1>4

-----------------------------------------------------------------------------
(* The story follows every step. *)

(* What is left to show when no task result is recorded. *)
LEMMA TellsFrom ==
  ASSUME Tells(tree, act, at, log, pos), SameTasks, NEW u, TreeOk(u), Grows(tree, u),
         OpenCalls(u) = {m \in Node : act'[m].pc # "idle" /\ Kind[m] \in ShownKinds},
         \A m \in Node : act'[m].pc = "idle" \/ Kind[m] # "machine" => u.observed[m].state = 0,
         at' = NoNode => Len(u.open) = 0, at' # NoNode => TopOk(u, at')
  PROVE  Tells(u, act', at', log', pos')
<1>1. tree \in Trees /\ StepsOk(tree, log, pos)
  BY DEF Tells, TreeOk
<1>2. StepsOk(u, log', pos')
  BY <1>1, StepsKept DEF SameTasks
<1> QED
  BY <1>2 DEF Tells, CallsOk

(* A step inside one call. *)
LEMMA TellsQuiet ==
  ASSUME Tells(tree, act, at, log, pos), at \in Node, Quiet, NEW u, TreeOk(u), Grows(tree, u), OpenCalls(u) = OpenCalls(tree),
         \A m \in Node : u.observed[m].state = tree.observed[m].state, TopOk(u, at)
  PROVE  Tells(u, act', at', log', pos')
<1>1. CallsOk(tree, act) /\ SameTasks /\ at' = at /\ at' # NoNode
  BY NodeAssumption DEF Tells, Quiet, SameCalls
<1>2. /\ OpenCalls(u) = {m \in Node : act'[m].pc # "idle" /\ Kind[m] \in ShownKinds}
      /\ \A m \in Node : act'[m].pc = "idle" \/ Kind[m] # "machine" => u.observed[m].state = 0
  BY <1>1 DEF CallsOk, Quiet, SameCalls
<1> QED
  BY <1>1, <1>2, TellsFrom

(* A step inside one call that is not told. *)
LEMMA TellsSame ==
  ASSUME Tells(tree, act, at, log, pos), at \in Node, Quiet
  PROVE  Tells(tree, act', at', log', pos')
<1>1. TreeOk(tree) /\ tree \in Trees /\ TopOk(tree, at)
  BY NodeAssumption DEF Tells, TreeOk
<1>2. Grows(tree, tree)
  BY <1>1, SameLike, LikeGrows
<1> QED
  BY <1>1, <1>2, TellsQuiet

(* The task's step is told with its result. *)
LEMMA TaskTells ==
  ASSUME Nested, Tells(tree, act, at, log, pos), NEW n \in Node, TellTask(n)
  PROVE  Tells(tree', act', at', log', pos')
<1> TypeOK /\ act[n] \in Acts /\ pos \in Nat
  BY DEF Nested, TypeOK
<1> DEFINE status == IF log'[pos'].what = "task_ok" THEN "succeeded" ELSE "failed"
<1>1. n = at /\ act[n].pc = "call" /\ Kind[n] = "op" /\ at' = at /\ RunTask(n) /\ tree' = Add(tree, n, "step", Current(tree), status)
  BY DEF TellTask, RunTask, At, ShowTask
<1>2. PICK what \in {"task_ok", "task_err"} : Record(n, what, 0)
  BY <1>1 DEF RunTask
<1>3. /\ pos' = pos + 1 /\ log'[pos + 1].site = n /\ log'[pos + 1].what = what
      /\ \A j \in 1..pos : log'[j] = log[j]
  BY <1>2, RecordIs
<1>4. SameCalls
  <2>1. CASE ReturnBody(n, act[n], "err", FALSE)
    BY <1>1, <2>1, ReturnBodyCalls
  <2>2. CASE ReturnBody(n, [act[n] EXCEPT !.out = [scope |-> n, val |-> pos + 1]], "ok", FALSE)
    <3>1. [scope |-> n, val |-> pos + 1] \in Outs
      BY DEF Outs
    <3>2. [act[n] EXCEPT !.out = [scope |-> n, val |-> pos + 1]] \in Acts
      BY <3>1 DEF Acts
    <3> QED
      BY <1>1, <2>2, <3>2, ReturnBodyCalls
  <2> QED
    BY <1>1, <2>1, <2>2 DEF RunTask
<1>5. /\ TreeOk(tree) /\ CallsOk(tree, act) /\ StepsOk(tree, log, pos) /\ TopOk(tree, n)
      /\ Len(tree.open) >= 1 /\ IsOn(tree, n)
  BY <1>1, NodeAssumption DEF Tells, TopOk
<1>6. tree \in Trees /\ Current(tree) \in 1..Len(tree.nodes) /\ Current(tree) \in Nat
  BY <1>5, CurrentIs
<1>7. Added(tree, tree', n, "step", Current(tree), status)
  <2>1. "step" \in StoryKinds /\ status \in Statuses
    BY DEF StoryKinds, Statuses
  <2> HIDE DEF status
  <2> QED
    BY <1>1, <1>6, <2>1, AddIs DEF Added
<1> PICK x : x = tree'.nodes[Len(tree.nodes) + 1]
  OBVIOUS
<1>8. x.of = n /\ x.kind = "step" /\ x.status = status
  <2> HIDE DEF status
  <2> QED
    BY <1>7 DEF Added
<1>9. BelongsBelow(x, tree.nodes[Current(tree)])
  BY <1>1, <1>5, <1>8 DEF BelongsBelow, IsOn
<1>10. Shows(x, log'[pos + 1])
  BY <1>2, <1>3, <1>8 DEF Shows
<1> HIDE DEF status
<1>11. TreeOk(tree') /\ OpenCalls(tree') = OpenCalls(tree) /\ TopOk(tree', n)
  <2>1. BelongsBelow(tree'.nodes[Len(tree.nodes) + 1], tree.nodes[Current(tree)]) /\ "step" \in {"step", "transition"}
    BY <1>9
  <2> QED
    BY <1>5, <1>6, <1>7, <2>1, AddOk
<1>12. StepsOk(tree', log', pos + 1)
  BY <1>2, <1>3, <1>5, <1>6, <1>7, <1>10, StepAdded
<1>13. CallsOk(tree', act')
  BY <1>4, <1>5, <1>7, <1>11 DEF CallsOk, SameCalls, Added
<1> QED
  BY <1>1, <1>3, <1>11, <1>12, <1>13, NodeAssumption DEF Tells

(* The transitions of a machine are told below the state they leave. *)
LEMMA EvaluatedIs ==
  ASSUME NEW t, TreeOk(t), NEW m \in Node, Kind[m] = "machine", TopOk(t, m), NEW u, u = TransitionEvaluated(t, m)
  PROVE  /\ TreeOk(u) /\ Grows(t, u) /\ OpenCalls(u) = OpenCalls(t) /\ TopOk(u, m)
         /\ \A q \in Node : u.observed[q].state = t.observed[q].state
<1> PICK o, i, a : o = t.observed[m] /\ i = o.state /\ a = Add(t, NoNode, "transition", i, "succeeded")
  OBVIOUS
<1>1. t \in Trees /\ Len(t.open) >= 1 /\ o \in Observers /\ Len(t.nodes) \in Nat
  BY TreeParts DEF TreeOk, TopOk
<1>2. CASE i = 0 \/ o.evaluated
  <2>1. u = t
    BY <1>2 DEF TransitionEvaluated
  <2> QED
    BY <1>1, <2>1, SameLike, LikeGrows
<1>3. CASE ~(i = 0 \/ o.evaluated)
  <2>1. u = [a EXCEPT !.observed[m].evaluated = TRUE]
    BY <1>3 DEF TransitionEvaluated
  <2>2. PICK s \in Node : Container(s) = m /\ Visits(t, s)
    BY <1>3 DEF TopOk
  <2>3. i = Current(t) /\ t.nodes[i].kind = "state"
    BY <2>2 DEF Visits
  <2>4. i \in 1..Len(t.nodes) /\ i \in Nat
    BY <1>1, <2>3, CurrentIs
  <2>5. /\ a \in Trees /\ Len(a.nodes) = Len(t.nodes) + 1 /\ a.open = t.open /\ a.observed = t.observed
        /\ \A j \in 1..Len(t.nodes) : a.nodes[j] = t.nodes[j]
        /\ a.nodes[Len(t.nodes) + 1] = [of |-> NoNode, kind |-> "transition", up |-> i, status |-> "succeeded"]
    <3>1. NoNode \in Node \cup {NoNode} /\ "transition" \in StoryKinds /\ "succeeded" \in Statuses
      BY DEF StoryKinds, Statuses
    <3> QED
      BY <1>1, <2>4, <3>1, AddIs
  <2> PICK w : w = [o EXCEPT !.evaluated = TRUE]
    OBVIOUS
  <2>6. w \in Observers /\ w.state = o.state
    BY <1>1 DEF Observers
  <2>7. u = [a EXCEPT !.observed = [a.observed EXCEPT ![m] = w]]
    BY <2>1, <2>5
  <2>8. a.observed \in [Node -> Observers] /\ [a.observed EXCEPT ![m] = w] \in [Node -> Observers]
    BY <2>5, <2>6, TreeParts
  <2>9. u.nodes = a.nodes /\ u.open = a.open /\ u.observed = [a.observed EXCEPT ![m] = w] /\ u \in Trees
    BY <2>5, <2>7, <2>8 DEF Trees
  <2>10. \A q \in Node : u.observed[q].state = t.observed[q].state
    BY <2>5, <2>6, <2>8, <2>9
  <2>11. Added(t, u, NoNode, "transition", i, "succeeded")
    BY <2>5, <2>9, <2>10 DEF Added
  <2>12. BelongsBelow(u.nodes[Len(t.nodes) + 1], t.nodes[i])
    <3> PICK x : x = u.nodes[Len(t.nodes) + 1]
      OBVIOUS
    <3>1. x.kind = "transition"
      BY <2>5, <2>9, SMTT(40)
    <3> QED
      BY <2>3, <3>1 DEF BelongsBelow
  <2>13. Grows(t, u)
    <3>1. (Len(t.nodes) + 1)..Len(u.nodes) = {Len(t.nodes) + 1}
      BY <1>1, <2>5, <2>9
    <3>2. u.nodes[Len(t.nodes) + 1].kind # "step"
      BY <2>5, <2>9
    <3> QED
      BY <1>1, <2>5, <2>9, <3>1, <3>2 DEF Grows
  <2>14. TreeOk(u) /\ OpenCalls(u) = OpenCalls(t) /\ TopOk(u, m)
    <3>1. "transition" \in {"step", "transition"}
      OBVIOUS
    <3> QED
      BY <1>1, <2>4, <2>11, <2>12, <3>1, AddOk
  <2> QED
    BY <2>10, <2>13, <2>14
<1> QED
  BY <1>2, <1>3

(* A machine's transitions are told, or a state has none. *)
LEMMA TransitionsTell ==
  ASSUME Nested, Tells(tree, act, at, log, pos), NEW n \in Node, TellTransitions(n)
  PROVE  Tells(tree', act', at', log', pos')
<1>1. Kind[n] = "machine" /\ (StartBody(n) \/ Resume(n)) /\ (tree' = TransitionEvaluated(tree, n) \/ tree' = tree)
  BY DEF TellTransitions
<1>2. n = at /\ Quiet
  BY <1>1, QuietSteps DEF Nested
<1>3. TreeOk(tree) /\ TopOk(tree, n)
  BY <1>2, NodeAssumption DEF Tells
<1>4. CASE tree' = TransitionEvaluated(tree, n)
  <2>1. /\ TreeOk(tree') /\ Grows(tree, tree') /\ OpenCalls(tree') = OpenCalls(tree) /\ TopOk(tree', n)
        /\ \A q \in Node : tree'.observed[q].state = tree.observed[q].state
    BY <1>1, <1>3, <1>4, EvaluatedIs
  <2> QED
    BY <1>2, <2>1, TellsQuiet
<1>5. CASE tree' = tree
  BY <1>2, <1>5, TellsSame
<1> QED
  BY <1>1, <1>4, <1>5

(* The other steps inside a call are not told. *)
LEMMA UntoldTells ==
  ASSUME Nested, Tells(tree, act, at, log, pos), NEW n \in Node, Untold(n)
  PROVE  Tells(tree', act', at', log', pos')
<1>1. n = at /\ Quiet /\ tree' = tree
  BY QuietSteps DEF Untold, Nested
<1> QED
  BY <1>1, TellsSame

(* A call is told below the call that made it. *)
LEMMA CallTells ==
  ASSUME Nested, Tells(tree, act, at, log, pos), NEW n \in Node, TellCall(n)
  PROVE  Tells(tree', act', at', log', pos')
<1> PICK k, u : k = act[n].kid /\ u = tree'
  OBVIOUS
<1>1. /\ n = at /\ k \in Node /\ k # Root /\ Parent[k] = n /\ at' = k /\ act[n].pc # "idle" /\ act[k].pc = "idle" /\ SameTasks
      /\ \A m \in Node : act'[m].pc = "idle" <=> act[m].pc = "idle" /\ m # k
  BY CallIs DEF TellCall, Nested
<1>2. u = Enter(tree, n, k)
  BY DEF TellCall
<1>3. /\ TreeOk(tree) /\ TopOk(tree, n) /\ Len(tree.open) >= 1 /\ tree \in Trees
      /\ OpenCalls(tree) = {m \in Node : act[m].pc # "idle" /\ Kind[m] \in ShownKinds}
      /\ \A m \in Node : act[m].pc = "idle" \/ Kind[m] # "machine" => tree.observed[m].state = 0
  BY <1>1, NodeAssumption DEF Tells, CallsOk, TopOk, TreeOk
<1>4. SUFFICES /\ TreeOk(u) /\ Grows(tree, u) /\ TopOk(u, k)
               /\ OpenCalls(u) = IF Kind[k] \in ShownKinds THEN OpenCalls(tree) \cup {k} ELSE OpenCalls(tree)
               /\ \A m \in Node : m # n \/ Kind[n] # "machine" => u.observed[m].state = tree.observed[m].state
  <2>1. OpenCalls(u) = {m \in Node : act'[m].pc # "idle" /\ Kind[m] \in ShownKinds}
    BY <1>1, <1>3, <1>4
  <2>2. \A m \in Node : act'[m].pc = "idle" \/ Kind[m] # "machine" => u.observed[m].state = 0
    BY <1>1, <1>3, <1>4
  <2> QED
    BY <1>1, <1>4, <2>1, <2>2, TellsFrom, NodeAssumption
<1>5. Kind[k] \in ShownKinds \/ Kind[k] \in {"policy", "state"}
  BY <1>1, KindsAre DEF Kinds, ShownKinds
<1>6. CASE IsVisit(k)
  <2> PICK s : s = StateIn(k)
    OBVIOUS
  <2>1. Kind[k] \in {"policy", "state"} /\ Kind[k] \notin ShownKinds
    BY <1>6 DEF IsVisit, ShownKinds
  <2>2. s \in Node /\ Kind[s] = "state" /\ Container(s) = n /\ Kind[n] = "machine"
    BY <1>1, <1>6, <2>1, KindsAre DEF IsVisit, StateIn, EnclosedBy
  <2>3. u = StateEntered(tree, n, s)
    BY <1>2, <1>6 DEF Enter
  <2>4. /\ TreeOk(u) /\ Grows(tree, u) /\ OpenCalls(u) = OpenCalls(tree) /\ Len(u.open) >= 1 /\ Visits(u, s)
        /\ \A q \in Node \ {n} : u.observed[q].state = tree.observed[q].state
    BY <1>3, <2>2, <2>3, EnteredIs
  <2>5. TopOk(u, k)
    BY <2>1, <2>4 DEF TopOk, StateIn
  <2> QED
    BY <2>1, <2>2, <2>4, <2>5
<1>7. CASE ~IsVisit(k) /\ Kind[k] = "state"
  <2>1. u = tree /\ Kind[n] = "policy" /\ k = First[n] /\ Kind[k] \notin ShownKinds
    <3>1. EnclosedBy(k, "policy")
      BY <1>7 DEF IsVisit
    <3> QED
      BY <1>1, <1>2, <1>7, <3>1, KindsAre DEF Enter, EnclosedBy, ShownKinds
  <2>2. Visits(tree, k)
    BY <1>3, <2>1 DEF TopOk
  <2>3. TopOk(tree, k)
    BY <1>3, <1>7, <2>2 DEF TopOk
  <2>4. Grows(tree, tree)
    BY <1>3, SameLike, LikeGrows
  <2> QED
    BY <1>3, <2>1, <2>3, <2>4
<1>8. CASE Kind[k] \in ShownKinds
  <2> PICK v : v = IF Kind[n] = "state" THEN EnterNode(tree, n) ELSE tree
    OBVIOUS
  <2>1. u = Push(v, k, Kind[k]) /\ Kind[n] \in {"sequence", "state"}
    <3>1. ~IsVisit(k) /\ Kind[k] # "state"
      BY <1>8 DEF IsVisit, ShownKinds
    <3> QED
      BY <1>1, <1>2, <1>8, <3>1, KindsAre DEF Enter
  <2>2. /\ TreeOk(v) /\ Grows(tree, v) /\ OpenCalls(v) = OpenCalls(tree) /\ Len(v.open) >= 1 /\ v.observed = tree.observed
        /\ v.nodes[Current(v)].kind = Kind[n] /\ v.nodes[Current(v)].of = n
    <3>1. CASE Kind[n] = "state"
      <4>1. Visits(tree, n) /\ v = EnterNode(tree, n)
        BY <1>3, <3>1 DEF TopOk
      <4> QED
        BY <1>3, <3>1, <4>1, EnterNodeIs
    <3>2. CASE Kind[n] = "sequence"
      <4>1. IsOn(tree, n) /\ v = tree
        BY <1>3, <3>2 DEF TopOk
      <4>2. Grows(tree, tree)
        BY <1>3, SameLike, LikeGrows
      <4> QED
        BY <1>3, <4>1, <4>2 DEF IsOn
    <3> QED
      BY <2>1, <3>1, <3>2
  <2>3. k \notin OpenCalls(v)
    BY <1>1, <1>3, <2>2
  <2>4. /\ TreeOk(u) /\ Grows(v, u) /\ OpenCalls(u) = OpenCalls(v) \cup {k} /\ Len(u.open) >= 1 /\ IsOn(u, k)
        /\ u.observed = v.observed
    BY <1>1, <1>8, <2>1, <2>2, <2>3, ShowCall
  <2>5. Grows(tree, u)
    BY <1>3, <2>2, <2>4, GrowsMore
  <2>6. TopOk(u, k)
    <3>1. Kind[k] = "machine" => u.observed[k].state = 0
      BY <1>1, <1>3, <2>2, <2>4
    <3> QED
      BY <1>8, <2>4, <3>1 DEF TopOk, ShownKinds
  <2> QED
    BY <1>8, <2>2, <2>4, <2>5, <2>6
<1> QED
  BY <1>5, <1>6, <1>7, <1>8 DEF IsVisit

(* The observer notes that the visit of a state has returned. *)
LEMMA ExitedLike == ASSUME NEW t \in Trees, NEW m \in Node PROVE Like(t, StateExited(t, m))
<1> PICK o, w, u : o = t.observed[m] /\ w = [o EXCEPT !.exited = TRUE] /\ u = StateExited(t, m)
  OBVIOUS
<1>1. t.observed \in [Node -> Observers] /\ o \in Observers
  BY TreeParts
<1>2. w \in Observers /\ w.state = o.state
  BY <1>1 DEF Observers
<1>3. u = [t EXCEPT !.observed = [t.observed EXCEPT ![m] = w]]
  BY DEF StateExited
<1>4. [t.observed EXCEPT ![m] = w] \in [Node -> Observers]
  BY <1>1, <1>2
<1>5. u.nodes = t.nodes /\ u.open = t.open /\ u.observed = [t.observed EXCEPT ![m] = w] /\ u \in Trees
  BY <1>3, <1>4 DEF Trees
<1>6. \A q \in Node : u.observed[q].state = t.observed[q].state
  BY <1>1, <1>2, <1>5
<1> QED
  BY <1>5, <1>6 DEF Like

(* The recipe ends. *)
LEMMA EndsRecipe ==
  ASSUME NEW j, TreeOk(j), Len(j.open) >= 1, j.nodes[Current(j)].kind = "recipe", NEW last, last \in Statuses,
         NEW u, u = Pop(Mark(j, Current(j), last))
  PROVE  /\ TreeOk(u) /\ Grows(j, u) /\ Len(u.open) = Len(j.open) - 1
         /\ OpenCalls(u) = OpenCalls(j) /\ \A q \in Node : u.observed[q].state = j.observed[q].state
<1>1. PICK w : w = Mark(j, Current(j), last)
  OBVIOUS
<1>2. j \in Trees /\ Current(j) \in 1..Len(j.nodes) /\ u = Pop(w)
  BY <1>1, CurrentIs
<1>3. Like(j, w)
  BY <1>1, <1>2, MarkLike
<1>4. TreeOk(w) /\ OpenCalls(w) = OpenCalls(j) /\ Current(w) = Current(j) /\ Grows(j, w) /\ w \in Trees
  BY <1>2, <1>3, LikeKeeps, LikeGrows DEF TreeOk
<1>5. w.open = j.open /\ w.nodes[Current(w)].kind = "recipe" /\ \A q \in Node : w.observed[q].state = j.observed[q].state
  BY <1>2, <1>3, <1>4 DEF Like
<1>6. Len(w.open) >= 1 /\ w.nodes[Current(w)].kind \notin ShownKinds
  BY <1>5 DEF ShownKinds
<1>7. /\ u \in Trees /\ u.nodes = w.nodes /\ u.observed = w.observed
      /\ Len(u.open) = Len(w.open) - 1 /\ \A i \in 1..(Len(w.open) - 1) : u.open[i] = w.open[i]
  BY <1>2, <1>4, <1>6, PopIs
<1>8. TreeOk(u) /\ Grows(w, u) /\ OpenCalls(u) = OpenCalls(w)
  BY <1>4, <1>6, <1>7, PopOk
<1>9. Grows(j, u)
  BY <1>2, <1>4, <1>8, GrowsMore
<1> QED
  BY <1>4, <1>5, <1>6, <1>7, <1>8, <1>9

(* A call that returns is told as closed, and the call it returns to is on top. *)
LEMMA ReturnTells ==
  ASSUME Nested, Tells(tree, act, at, log, pos), NEW n \in Node, TellReturn(n)
  PROVE  Tells(tree', act', at', log', pos')
<1>0. PICK u, p, sig : u = tree' /\ p = Parent[n] /\ sig = IF n = Root THEN result' ELSE act'[Parent[n]].sig
  OBVIOUS
<1>1. /\ n = at /\ at' = p /\ act[n].pc # "idle" /\ SameTasks
      /\ \A m \in Node : act'[m].pc = "idle" <=> act[m].pc = "idle" \/ m = n
  BY <1>0, ReturnIs DEF TellReturn, Nested
<1>2. u = Leave(tree, n, sig) /\ p = Parent[n]
  BY <1>0 DEF TellReturn
<1>3. /\ TreeOk(tree) /\ TopOk(tree, n) /\ Len(tree.open) >= 1 /\ tree \in Trees
      /\ OpenCalls(tree) = {m \in Node : act[m].pc # "idle" /\ Kind[m] \in ShownKinds}
      /\ \A m \in Node : act[m].pc = "idle" \/ Kind[m] # "machine" => tree.observed[m].state = 0
  BY <1>1, NodeAssumption DEF Tells, CallsOk, TopOk, TreeOk
<1>4. SUFFICES /\ TreeOk(u) /\ Grows(tree, u) /\ (n = Root => Len(u.open) = 0) /\ (n # Root => TopOk(u, p))
               /\ OpenCalls(u) = IF Kind[n] \in ShownKinds THEN OpenCalls(tree) \ {n} ELSE OpenCalls(tree)
               /\ \A m \in Node \ {n} : u.observed[m].state = tree.observed[m].state
               /\ u.observed[n].state = IF Kind[n] = "machine" THEN 0 ELSE tree.observed[n].state
  <2>1. OpenCalls(u) = {m \in Node : act'[m].pc # "idle" /\ Kind[m] \in ShownKinds}
    BY <1>1, <1>3, <1>4
  <2>2. \A m \in Node : act'[m].pc = "idle" \/ Kind[m] # "machine" => u.observed[m].state = 0
    BY <1>1, <1>3, <1>4
  <2>3. p = NoNode <=> n = Root
    BY <1>2, KindsAre
  <2> QED
    BY <1>0, <1>1, <1>4, <2>1, <2>2, <2>3, TellsFrom
<1>5. Kind[n] \in ShownKinds \/ Kind[n] \in {"policy", "state"}
  BY KindsAre DEF Kinds, ShownKinds
<1>6. CASE IsVisit(n)
  <2> PICK s : s = StateIn(n)
    OBVIOUS
  <2>1. Kind[n] \in {"policy", "state"} /\ Kind[n] \notin ShownKinds /\ Kind[n] # "machine"
    BY <1>6 DEF IsVisit, ShownKinds
  <2>2. n # Root /\ p \in Node /\ s \in Node /\ Kind[s] = "state" /\ Container(s) = p /\ Kind[p] = "machine"
    BY <1>2, <1>6, <2>1, KindsAre DEF IsVisit, StateIn, EnclosedBy
  <2>3. Visits(tree, s)
    BY <1>3, <2>1 DEF TopOk, StateIn
  <2>4. Like(tree, u)
    <3>1. u = tree \/ u = StateExited(tree, p)
      BY <1>2, <1>6 DEF Leave
    <3> QED
      BY <1>3, <2>2, <3>1, SameLike, ExitedLike
  <2>5. TreeOk(u) /\ OpenCalls(u) = OpenCalls(tree) /\ Visits(u, s) /\ Grows(tree, u)
    BY <1>3, <2>2, <2>3, <2>4, LikeKeeps, LikeGrows
  <2>6. u.open = tree.open /\ \A m \in Node : u.observed[m].state = tree.observed[m].state
    BY <2>4 DEF Like
  <2>7. TopOk(u, p)
    BY <1>3, <2>2, <2>5, <2>6 DEF TopOk
  <2> QED
    BY <2>1, <2>2, <2>5, <2>6, <2>7
<1>7. CASE ~IsVisit(n) /\ Kind[n] = "state"
  <2>1. EnclosedBy(n, "policy") /\ u = tree
    BY <1>2, <1>7 DEF IsVisit, Leave
  <2>2. n # Root /\ p \in Node /\ Kind[p] = "policy" /\ n = First[p] /\ Kind[n] \notin ShownKinds
    BY <1>2, <1>7, <2>1, KindsAre DEF EnclosedBy, ShownKinds
  <2>3. Visits(tree, n)
    BY <1>3, <1>7 DEF TopOk
  <2>4. TopOk(tree, p)
    BY <1>3, <2>2, <2>3 DEF TopOk
  <2>5. Grows(tree, tree)
    BY <1>3, SameLike, LikeGrows
  <2> QED
    BY <1>3, <1>7, <2>1, <2>2, <2>4, <2>5
<1>8. CASE Kind[n] \in ShownKinds
  <2>0. PICK e, j, status : /\ e = IF Kind[n] = "machine" THEN Flush(tree, n) ELSE tree
                            /\ status = StatusOf(e, n, sig) /\ j = Pop(Mark(e, Current(e), status))
    OBVIOUS
  <2>1. u = IF n = Root THEN Pop(Mark(j, Current(j), IF sig = "ok" THEN "succeeded" ELSE "failed"))
            ELSE IF Kind[p] = "state" THEN LeaveNode(j, p, sig) ELSE j
    <3>1. ~IsVisit(n) /\ Kind[n] # "state"
      BY <1>8 DEF IsVisit, ShownKinds
    <3> QED
      BY <1>2, <2>0, <3>1 DEF Leave
  <2>2. /\ TreeOk(e) /\ Grows(tree, e) /\ OpenCalls(e) = OpenCalls(tree) /\ Len(e.open) >= 1 /\ IsOn(e, n)
        /\ e.observed[n].state = (IF Kind[n] = "machine" THEN 0 ELSE tree.observed[n].state)
        /\ \A q \in Node \ {n} : e.observed[q].state = tree.observed[q].state
    <3>1. CASE Kind[n] = "machine"
      <4>1. e = CloseCurrentState(tree, n)
        BY <2>0, <3>1 DEF Flush
      <4> QED
        BY <1>3, <3>1, <4>1, CloseIs
    <3>2. CASE Kind[n] # "machine"
      <4>1. e = tree /\ Grows(tree, tree)
        BY <1>3, <2>0, <3>2, SameLike, LikeGrows
      <4>2. IsOn(tree, n)
        BY <1>3, <1>8, <3>2 DEF TopOk, ShownKinds
      <4> QED
        BY <1>3, <3>2, <4>1, <4>2
    <3> QED
      BY <3>1, <3>2
  <2>3. e \in Trees /\ status \in Statuses
    BY <2>0, <2>2, StatusOfType DEF TreeOk
  <2>4. /\ TreeOk(j) /\ Grows(e, j) /\ OpenCalls(j) = OpenCalls(e) \ {n} /\ Len(j.open) >= 1
        /\ \A q \in Node : j.observed[q].state = e.observed[q].state
        /\ j.nodes[Current(j)].of = p /\ j.nodes[Current(j)].kind = (IF n = Root THEN "recipe" ELSE Kind[p])
        /\ n = Root => Len(j.open) = 1
    BY <1>2, <1>8, <2>0, <2>2, <2>3, EndsCall
  <2>5. Grows(tree, j) /\ j \in Trees
    BY <1>3, <2>2, <2>4, GrowsMore DEF TreeOk
  <2>6. SUFFICES /\ TreeOk(u) /\ Grows(j, u) /\ (n = Root => Len(u.open) = 0) /\ (n # Root => TopOk(u, p))
                 /\ OpenCalls(u) = OpenCalls(j) /\ \A q \in Node : u.observed[q].state = j.observed[q].state
    <3>1. Grows(tree, u)
      BY <1>3, <2>5, <2>6, GrowsMore
    <3> QED
      BY <1>8, <2>2, <2>4, <2>6, <3>1
  <2>7. CASE n = Root
    <3>1. PICK last \in Statuses : u = Pop(Mark(j, Current(j), last))
      BY <2>1, <2>7 DEF Statuses
    <3>2. TreeOk(j) /\ Len(j.open) >= 1 /\ j.nodes[Current(j)].kind = "recipe"
      BY <2>4, <2>7
    <3>3. /\ TreeOk(u) /\ Grows(j, u) /\ Len(u.open) = Len(j.open) - 1
          /\ OpenCalls(u) = OpenCalls(j) /\ \A q \in Node : u.observed[q].state = j.observed[q].state
      BY <3>1, <3>2, EndsRecipe
    <3>4. Len(u.open) = 0
      BY <2>4, <2>7, <3>3
    <3> QED
      BY <2>7, <3>3, <3>4
  <2>8. CASE n # Root /\ Kind[p] = "state"
    <3>1. /\ p \in Node /\ Kind[p] = "state" /\ u = LeaveNode(j, p, sig) /\ TreeOk(j) /\ Len(j.open) >= 1
          /\ AtState(j, p)
      BY <1>2, <2>1, <2>4, <2>8, KindsAre DEF AtState
    <3>2. /\ TreeOk(u) /\ Grows(j, u) /\ OpenCalls(u) = OpenCalls(j) /\ Len(u.open) >= 1 /\ Visits(u, p)
          /\ \A q \in Node : u.observed[q].state = j.observed[q].state
      BY <3>1, LeaveNodeIs
    <3>3. TopOk(u, p)
      BY <2>8, <3>2 DEF TopOk
    <3> QED
      BY <2>8, <3>2, <3>3
  <2>9. CASE n # Root /\ Kind[p] # "state"
    <3>1. p \in Node /\ Kind[p] = "sequence" /\ u = j
      BY <1>2, <1>8, <2>1, <2>9, KindsAre
    <3>2. IsOn(j, p)
      BY <2>4, <2>9 DEF IsOn
    <3>3. TopOk(j, p)
      BY <2>4, <3>1, <3>2 DEF TopOk
    <3>4. Grows(j, j)
      BY <2>5, SameLike, LikeGrows
    <3> QED
      BY <2>4, <2>9, <3>1, <3>3, <3>4
  <2> QED
    BY <2>7, <2>8, <2>9
<1> QED
  BY <1>5, <1>6, <1>7, <1>8 DEF IsVisit

(* A new process tells the recipe and its root. *)
LEMMA StoryStarts == ASSUME NEW h PROVE Tells(NewStory, StartActs, Root, h, 0)
<1>1. PICK t, x, y : /\ t = NewStory /\ x = [of |-> NoNode, kind |-> "recipe", up |-> 0, status |-> "running"]
                     /\ y = [of |-> Root, kind |-> Kind[Root], up |-> 1, status |-> "running"]
  OBVIOUS
<1>2. Kind[Root] \in ShownKinds /\ Root \in Node /\ Parent[Root] = NoNode /\ Root # NoNode
  BY TreeAssumption, NodeAssumption DEF ShownKinds
<1>3. x \in StoryNodes /\ y \in StoryNodes
  BY <1>1, <1>2 DEF StoryNodes, StoryKinds, Statuses, ShownKinds
<1>4. Unobserved \in Observers /\ Unobserved.state = 0
  BY DEF Unobserved, Observers
<1>5. t.nodes = <<x, y>> /\ t.open = <<1, 2>> /\ t.observed = [m \in Node |-> Unobserved]
  BY <1>1 DEF NewStory
<1>6. /\ Len(t.nodes) = 2 /\ t.nodes[1] = x /\ t.nodes[2] = y /\ Len(t.open) = 2 /\ t.open[1] = 1 /\ t.open[2] = 2
      /\ 1..Len(t.nodes) = {1, 2} /\ 2..Len(t.nodes) = {2} /\ 1..Len(t.open) = {1, 2} /\ 2..Len(t.open) = {2}
  BY <1>5
<1>7. t \in Trees
  <2>1. <<x, y>> \in Seq(StoryNodes) /\ <<1, 2>> \in Seq(Nat) /\ [m \in Node |-> Unobserved] \in [Node -> Observers]
    BY <1>3, <1>4
  <2>2. t = [nodes |-> <<x, y>>, open |-> <<1, 2>>, observed |-> [m \in Node |-> Unobserved]]
    BY <1>1 DEF NewStory
  <2> QED
    BY <2>1, <2>2 DEF Trees
<1>8. x.kind = "recipe" /\ x.of = NoNode /\ y.kind = Kind[Root] /\ y.of = Root /\ y.up = 1
  BY <1>1
<1>9. NodesOk(t)
  <2>1. BelongsBelow(y, x)
    <3>1. Container(Root) = NoNode
      BY <1>2 DEF Container, EnclosedBy
    <3> QED
      BY <1>2, <1>8, <3>1 DEF BelongsBelow, ShownKinds
  <2>2. y.kind # "recipe" /\ y.up \in 1..(2 - 1)
    BY <1>2, <1>8 DEF ShownKinds
  <2> QED
    BY <1>6, <1>8, <2>1, <2>2 DEF NodesOk
<1>10. StackOk(t)
  <2>1. LiesOn(y, 2, x, 1, t.observed)
    BY <1>2, <1>8 DEF LiesOn
  <2>2. Sits(t, 2)
    BY <1>6, <2>1 DEF Sits
  <2> QED
    BY <1>6, <2>2 DEF StackOk
<1>11. OpenOnce(t) /\ OpenCalls(t) = {Root}
  <2>1. x.kind \notin ShownKinds
    BY <1>8 DEF ShownKinds
  <2>2. \A n \in Node : ~OpenCall(t, 1, n) /\ (OpenCall(t, 2, n) <=> n = Root)
    BY <1>2, <1>6, <1>8, <2>1 DEF OpenCall
  <2> QED
    BY <1>2, <1>6, <2>2 DEF OpenOnce, OpenCalls
<1>12. CallsOk(t, StartActs)
  <2>1. \A n \in Node : StartActs[n].pc # "idle" <=> n = Root
    BY DEF StartActs, Idle
  <2>2. \A m \in Node : t.observed[m].state = 0
    BY <1>4, <1>5
  <2> QED
    BY <1>2, <1>11, <2>1, <2>2 DEF CallsOk
<1>13. StepsOk(t, h, 0)
  <2>1. StepsOf(t) = {}
    BY <1>2, <1>6, <1>8 DEF StepsOf, ShownKinds
  <2>2. TasksOf(h, 0) = {}
    BY DEF TasksOf
  <2> QED
    BY <2>1, <2>2 DEF StepsOk
<1>14. TopOk(t, Root)
  <2>1. Current(t) = 2
    BY <1>6 DEF Current
  <2>2. IsOn(t, Root) /\ t.observed[Root].state = 0
    BY <1>2, <1>4, <1>5, <1>6, <1>8, <2>1 DEF IsOn
  <2> QED
    BY <1>2, <1>6, <2>2 DEF TopOk, ShownKinds
<1> QED
  BY <1>1, <1>2, <1>7, <1>9, <1>10, <1>11, <1>12, <1>13, <1>14 DEF Tells, TreeOk

-----------------------------------------------------------------------------
(* The theorems. *)

(* Telling a step of the executor is that step. *)
LEMMA StoryStepIsStep == [StoryNext]_storyVars => [Next]_vars
BY DEF StoryNext, storyVars, TellTask, TellCall, TellReturn, TellTransitions, Untold, Restarted, Next, Step

(* The story tells the run, step by step. *)
LEMMA StoryStep == StoryInv /\ [StoryNext]_storyVars => StoryInv'
<1> SUFFICES ASSUME Nested, Tells(tree, act, at, log, pos), [StoryNext]_storyVars
             PROVE  Nested' /\ Tells(tree', act', at', log', pos')
  BY DEF StoryInv
<1>1. Nested'
  BY StoryStepIsStep, NestedStep
<1>2. ASSUME NEW n \in Node, TellTask(n) \/ TellCall(n) \/ TellReturn(n) \/ TellTransitions(n) \/ Untold(n)
      PROVE  Tells(tree', act', at', log', pos')
  BY <1>2, TaskTells, CallTells, ReturnTells, TransitionsTell, UntoldTells
<1>3. CASE Restarted
  <2>1. tree' = NewStory /\ act' = StartActs /\ at' = Root /\ pos' = 0
    BY <1>3 DEF Restarted, Crash
  <2> QED
    BY <1>1, <2>1, StoryStarts
<1>4. CASE UNCHANGED storyVars \/ (JobOver /\ UNCHANGED tree)
  BY <1>1, <1>4 DEF storyVars, vars, JobOver
<1> QED
  BY <1>1, <1>2, <1>3, <1>4 DEF StoryNext

(* The first story tells the run. *)
LEMMA StoryBegins == StoryInit => StoryInv
<1> SUFFICES ASSUME Init, tree = NewStory PROVE Nested /\ Tells(tree, act, at, log, pos)
  BY DEF StoryInit, StoryInv
<1>1. Nested /\ act = StartActs /\ at = Root /\ pos = 0
  BY NestedInit DEF Init
<1> QED
  BY <1>1, StoryStarts

(* A story that mirrors the executor shows its run. *)
LEMMA StoryInvShows == StoryInv => StoryShowsTheRun
<1> SUFFICES ASSUME Tells(tree, act, at, log, pos) PROVE StoryShowsTheRun
  BY DEF StoryInv
<1>1. tree \in Trees /\ NodesOk(tree) /\ StackOk(tree) /\ CallsOk(tree, act) /\ StepsOk(tree, log, pos)
  BY DEF Tells, TreeOk
<1>2. /\ Len(tree.nodes) \in Nat /\ DOMAIN tree.nodes = 1..Len(tree.nodes)
      /\ Len(tree.open) \in Nat /\ DOMAIN tree.open = 1..Len(tree.open)
  BY <1>1, TreeParts
<1>3. Steps = StepsOf(tree) /\ Tasks = TasksOf(log, pos)
  BY <1>2 DEF Steps, StepsOf, Tasks, TasksOf
<1>4. /\ Cardinality(Steps) = Cardinality(Tasks)
      /\ \A i \in Steps, j \in Tasks : Rank(Steps, i) = Rank(Tasks, j) => Shows(tree.nodes[i], log[j])
  BY <1>1, <1>3 DEF StepsOk
<1>5. \A i \in DOMAIN tree.nodes \ {1} : BelongsBelow(tree.nodes[i], tree.nodes[tree.nodes[i].up])
  <2>1. \A i \in DOMAIN tree.nodes \ {1} : i \in 2..Len(tree.nodes)
    BY <1>2
  <2> QED
    BY <1>1, <2>1 DEF NodesOk
<1> DEFINE open == {tree.nodes[tree.open[i]] : i \in DOMAIN tree.open}
<1>6. ASSUME NEW i \in 1..Len(tree.open)
      PROVE  /\ tree.nodes[tree.open[i]].kind \notin {"recipe", "state"} <=> tree.nodes[tree.open[i]].kind \in ShownKinds
             /\ tree.nodes[tree.open[i]].kind \in ShownKinds => tree.nodes[tree.open[i]].of \in Node
  <2>1. CASE i = 1
    <3>1. tree.nodes[tree.open[i]].kind = "recipe"
      BY <1>1, <1>2, <1>6, <2>1, SMTT(40) DEF StackOk, NodesOk
    <3> QED
      BY <3>1 DEF ShownKinds
  <2>2. CASE i # 1
    <3>1. i \in 2..Len(tree.open)
      BY <1>2, <1>6, <2>2
    <3>2. Sits(tree, i)
      BY <1>1, <3>1 DEF StackOk
    <3> QED
      BY <3>2 DEF Sits, LiesOn, ShownKinds
  <2> QED
    BY <2>1, <2>2
<1>7. {node.of : node \in {x \in open : x.kind \notin {"recipe", "state"}}} = OpenCalls(tree)
  BY <1>2, <1>6 DEF OpenCalls, OpenCall
<1>8. \A n \in Node : Kind[n] \notin {"state", "policy"} <=> Kind[n] \in ShownKinds
  BY NodeAssumption DEF ShownKinds, Kinds
<1>9. OpenCalls(tree) = {n \in Node : act[n].pc # "idle" /\ Kind[n] \notin {"state", "policy"}}
  BY <1>1, <1>8 DEF CallsOk
<1> QED
  BY <1>4, <1>5, <1>7, <1>9 DEF StoryShowsTheRun

(* The story's stack and steps mirror the executor's calls and results in   *)
(* every state: the inductive invariant.                                    *)
THEOREM StoryMirrorsTheExecutor == StorySpec => []StoryInv
  BY StoryBegins, StoryStep, PTL DEF StorySpec

(* The story that a live view or a reader's replay builds shows exactly what *)
(* the executor ran: every task result, in order and with its outcome, below *)
(* the calls that led to it, and the open calls as open, for every recipe    *)
(* and through every retry, route, handled catch, timeout, crash and replay. *)
THEOREM EveryStoryShowsTheRun == StorySpec => []StoryShowsTheRun
  BY StoryBegins, StoryStep, StoryInvShows, PTL DEF StorySpec

(* Telling a story changes nothing about the run: the observed executor      *)
(* takes the steps of the executor, or none.                                 *)
THEOREM StoryRunsTheExecutor == StorySpec => Init /\ [][Next]_vars
<1>1. StoryInit => Init
  BY DEF StoryInit
<1> QED
  BY <1>1, StoryStepIsStep, PTL DEF StorySpec
===============================================================================
