----------------------------- MODULE RecipeScope -----------------------------
(***************************************************************************)
(* The recipe executor of pkg/worker/compiler: a tree of nodes (ops,       *)
(* sequences, state machines, states) in which every node runs inside a    *)
(* durable JobDB scope (executeNodeScope).  A scope runs its body in a new *)
(* frame, JobDB records a decision about the body's result (accept, time   *)
(* out, catch, retry, fail), and only then does the caller publish the     *)
(* accepted frame's output into the enclosing context.                     *)
(*                                                                         *)
(* The executor is one serial thread; `at' is the node it is executing and *)
(* the call stack is given by Parent.  A process may crash at any step:    *)
(* everything but JobDB's history is lost and the recipe is run again from *)
(* its root, taking each recorded result instead of producing a new one.   *)
(***************************************************************************)
EXTENDS Naturals, Sequences, FiniteSets

CONSTANTS
    Node,         \* the nodes of the recipe, "policy" wrappers included
    NoNode,       \* no node
    Root,         \* the recipe's root node
    Kind,         \* [Node -> "op" | "sequence" | "machine" | "policy" | "state"]
    Parent,       \* the enclosing node; NoNode for the root
    First,        \* the first child of a composite (a machine's initial state)
    Succ,         \* the next child of the parent; NoNode: last, terminal or no match
    Catch,        \* a node's catch clause: "none" | "continue" | "route" | "fail"
    RouteTo,      \* the state a "route" clause names
    MaxAttempts,  \* a node's retry policy; 1 is none
    Timed,        \* the nodes with a timeout
    RetrySteps,   \* the ops whose retry policy belongs to their tasks
    MaxFaults,    \* bound: task failures, timeouts and broken handlers in a history
    MaxCrashes    \* bound: process crashes

Kinds == {"op", "sequence", "machine", "policy", "state"}
Clauses == {"none", "continue", "route", "fail"}

ASSUME NodeAssumption ==
    /\ Root \in Node
    /\ NoNode \notin Node
    /\ Kind \in [Node -> Kinds]
    /\ Parent \in [Node -> Node \cup {NoNode}]
    /\ First \in [Node -> Node \cup {NoNode}]
    /\ Succ \in [Node -> Node \cup {NoNode}]
    /\ Catch \in [Node -> Clauses]
    /\ RouteTo \in [Node -> Node \cup {NoNode}]
    /\ MaxAttempts \in [Node -> Nat \ {0}]
    /\ Timed \subseteq Node
    /\ RetrySteps \subseteq {n \in Node : Kind[n] = "op"}

(* A recipe is a tree: children name their parent, and the loader nests     *)
(* kinds as the grammar does.  A policy scope stands between a machine that *)
(* declares a catch and each of its states.                                 *)
ASSUME TreeAssumption ==
    /\ Parent[Root] = NoNode
    /\ \A n \in Node : n # Root => Parent[n] \in Node /\ Parent[n] # n
    /\ \A n \in Node : First[n] # NoNode => Parent[First[n]] = n
    /\ \A n \in Node : Succ[n] # NoNode => Parent[Succ[n]] = Parent[n]
    /\ \A n \in Node : Kind[n] = "op" <=> First[n] = NoNode
    /\ \A n \in Node \ {Root} :
          /\ Kind[n] = "policy" => Kind[Parent[n]] = "machine"
          /\ Kind[n] = "state" => Kind[Parent[n]] \in {"machine", "policy"}
          /\ Kind[n] \in {"op", "sequence", "machine"} => Kind[Parent[n]] \in {"sequence", "state"}
    /\ Kind[Root] \in {"op", "sequence", "machine"}
    /\ \A n \in Node : Kind[n] = "policy" => Kind[First[n]] = "state"

ASSUME BoundAssumption == MaxFaults \in Nat /\ MaxCrashes \in Nat

VARIABLES
    log,       \* JobDB's history of task results and scope decisions (durable)
    pos,       \* how much of log this process has replayed or written
    at,        \* the node whose executeNodeScope call is on top; NoNode: job over
    act,       \* per node: its current executeNodeScope invocation
    frames,    \* per node: the frames that invocation has saved
    written,   \* per node: completionPosition.written of its current attempt
    outputs,   \* per node: the outputs published in its slot, latest last
    result,    \* how the job ended: "none" | "ok" | "err"
    crashes,   \* process crashes so far
    accepted   \* history: per node, the outputs JobDB has accepted

vars == <<log, pos, at, act, frames, written, outputs, result, crashes, accepted>>

-----------------------------------------------------------------------------
(* The policy that is left on a node when its scope is entered. *)

EnclosedBy(n, kind) == Parent[n] # NoNode /\ Kind[Parent[n]] = kind

(* A state and the node it runs share their metadata; the state's scope     *)
(* keeps the policy and the inner node is stripped of it.  A policy scope   *)
(* takes its machine's catch, and the retry of the state below it.          *)
DeclaredCatch(n) ==
    CASE Kind[n] = "policy"      -> Catch[Parent[n]]
      [] EnclosedBy(n, "state")  -> "none"
      [] OTHER                   -> Catch[n]

(* A machine's own scope has no rules: its catch runs in its policy scopes. *)
CatchRules(n) == IF Kind[n] = "machine" THEN "none" ELSE DeclaredCatch(n)

DeclaredAttempts(n) ==
    CASE Kind[n] = "policy"      -> MaxAttempts[First[n]]
      [] EnclosedBy(n, "policy") -> 1
      [] EnclosedBy(n, "state")  -> 1
      [] OTHER                   -> MaxAttempts[n]

(* covered: some enclosing scope declares a catch, which must see the       *)
(* failure before anything below it is retried.                             *)
RetryLimit(n, covered) ==
    IF n \notin RetrySteps /\ (~covered \/ DeclaredCatch(n) # "none")
    THEN DeclaredAttempts(n)
    ELSE 1

HasTimeout(n) == n \in Timed /\ Kind[n] # "policy" /\ ~EnclosedBy(n, "state")

(* A child of a state hands its output to that state instead of publishing. *)
DeferToState(n) == EnclosedBy(n, "state") /\ Kind[n] # "state"

(* Mutant: a continuing catch of a machine completes the policy scope.      *)
CompletesItself(n) == n

(* The context a scope completes: its own or, for a policy scope whose      *)
(* catch continues, the machine's.                                          *)
CompletedBy(n) == IF Kind[n] = "policy" THEN Parent[n] ELSE n

-----------------------------------------------------------------------------
(* Data. *)

(* An output is the point of the history at which it was prepared: two      *)
(* outputs of a node are the same iff they come from the same attempt.      *)
NoOut == [scope |-> NoNode, val |-> 0]
Outs == {NoOut} \cup [scope : Node, val : Nat]

Pcs == {"idle", "entry", "call", "wait", "resume", "returned", "handling", "accepted", "failed"}
Signals == {"none", "ok", "err", "route", "handled"}

Acts == [pc : Pcs,
         next : Nat,             \* frames created
         last : Nat,             \* the frame saved last; 0: none since the last newFrame
         cur : Nat,              \* the frame being filled
         attempt : Nat,          \* body executions so far
         kid : Node \cup {NoNode},
         out : Outs,             \* scopeCompletion of frame cur
         sig : Signals,          \* what the body, or the child below it, returned
         to : Node \cup {NoNode},
         fatal : BOOLEAN,        \* the failure is not retryable
         caught : BOOLEAN,       \* this failure's catch clause has been considered
         covered : BOOLEAN,      \* Options.CatchBeforeRetry of the parent
         acc : Nat]              \* scopeOutcome.Frame of the recorded outcome

Idle == [pc |-> "idle", next |-> 0, last |-> 0, cur |-> 0, attempt |-> 0, kid |-> NoNode,
         out |-> NoOut, sig |-> "none", to |-> NoNode, fatal |-> FALSE, caught |-> FALSE,
         covered |-> FALSE, acc |-> 0]

Frames == [id : Nat, out : Outs]

Whats == {"task_ok", "task_err", "accept", "timeout", "catch", "retry", "fail",
          "handled", "routed", "rethrown", "broken"}
Faulty == {"task_err", "timeout", "broken"}
Entries == [site : Node, what : Whats, frame : Nat]

(* The slot of the enclosing map that appendExecution writes. *)
Slot(n) == IF DeferToState(n) THEN Parent[n] ELSE n

(* The slots a new attempt of n starts with empty: the maps of a sequence's *)
(* or a machine's new context.                                              *)
OwnSlots(n) ==
    {k \in Node : \/ Kind[n] \in {"sequence", "machine"} /\ Parent[k] = n
                  \/ Kind[n] = "machine" /\ Parent[k] # NoNode /\ Parent[Parent[k]] = n
                                         /\ Kind[k] = "state"}

-----------------------------------------------------------------------------
(* JobDB's history: a step that has a recorded outcome takes it, any other  *)
(* step appends its own.                                                    *)

Replaying == pos < Len(log)

FaultsOf(h) == Cardinality({i \in DOMAIN h : h[i].what \in Faulty})

Record(n, what, frame) ==
    /\ IF Replaying
       THEN /\ log[pos + 1].site = n
            /\ log[pos + 1].what = what
            /\ UNCHANGED log
       ELSE /\ what \in Faulty => FaultsOf(log) < MaxFaults
            /\ log' = Append(log, [site |-> n, what |-> what, frame |-> frame])
    /\ pos' = pos + 1

(* The outcome's frame number comes back from JobDB, not from this process. *)
RecordedFrame(frame) == IF Replaying THEN log[pos + 1].frame ELSE frame

-----------------------------------------------------------------------------
(* Frames. *)

NewFrameId(a) == a.next + 1

NewFrame(a) == [a EXCEPT !.next = NewFrameId(a), !.cur = NewFrameId(a), !.last = 0, !.out = NoOut]

(* Mutant: only a frame that completed its scope is saved. *)
SaveCompletedFrame(n, a) ==
    frames' = IF a.out = NoOut THEN frames
              ELSE [frames EXCEPT ![n] = @ \cup {[id |-> a.cur, out |-> a.out]}]

SaveFrame(n, a) == frames' = [frames EXCEPT ![n] = @ \cup {[id |-> a.cur, out |-> a.out]}]

(* The body of n returns: its frame is saved before JobDB selects its outcome. *)
ReturnBody(n, a, sig, fatal) ==
    /\ act' = [act EXCEPT ![n] = [a EXCEPT !.pc = "returned", !.sig = sig, !.fatal = fatal,
                                           !.caught = FALSE, !.last = a.cur]]
    /\ SaveFrame(n, a)

-----------------------------------------------------------------------------
(* Bodies. *)

At(n, pc) == n = at /\ act[n].pc = pc

(* JobDB runs the body: a new frame and, inside it, a new resolution context *)
(* with an unwritten completion position and empty output maps.              *)
StartBody(n) ==
    /\ At(n, "entry")
    /\ act' = [act EXCEPT ![n] = [NewFrame(@) EXCEPT !.pc = "call", !.attempt = act[n].attempt + 1,
                                                     !.kid = First[n], !.sig = "none", !.to = NoNode]]
    /\ written' = IF Kind[n] = "policy" THEN written ELSE [written EXCEPT ![n] = FALSE]
    /\ outputs' = [k \in Node |-> IF k \in OwnSlots(n) THEN <<>> ELSE outputs[k]]
    /\ UNCHANGED <<log, pos, at, frames, result, crashes, accepted>>

(* Mutant: an output is stamped with the result before its own. *)
RunTaskStale(n) ==
    /\ At(n, "call")
    /\ Kind[n] = "op"
    /\ Record(n, "task_ok", 0)
    /\ ReturnBody(n, [act[n] EXCEPT !.out = [scope |-> n, val |-> pos - 1]], "ok", FALSE)
    /\ UNCHANGED <<at, written, outputs, result, crashes, accepted>>

(* An op's body: its task runs, or its recorded result is taken. *)
RunTask(n) ==
    /\ At(n, "call")
    /\ Kind[n] = "op"
    /\ \/ /\ Record(n, "task_ok", 0)
          /\ ReturnBody(n, [act[n] EXCEPT !.out = [scope |-> n, val |-> pos + 1]], "ok", FALSE)
       \/ /\ Record(n, "task_err", 0)
          /\ ReturnBody(n, act[n], "err", FALSE)
    /\ UNCHANGED <<at, written, outputs, result, crashes, accepted>>

(* A composite's body calls executeNodeScope for its next child. *)
CallKid(n) ==
    LET k == act[n].kid
    IN  /\ At(n, "call")
        /\ k # NoNode
        /\ act' = [act EXCEPT ![n].pc = "wait",
                              ![k] = [Idle EXCEPT !.pc = "entry",
                                       !.covered = act[n].covered \/ DeclaredCatch(n) # "none"]]
        /\ at' = k
        /\ UNCHANGED <<log, pos, frames, written, outputs, result, crashes, accepted>>

(* Mutants: the body publishes its own output; a machine prepares none. *)
FinishBodyPublishes(n) ==
    /\ At(n, "call")
    /\ Kind[n] # "op"
    /\ act[n].kid = NoNode
    /\ ReturnBody(n, IF Kind[n] \in {"sequence", "machine"}
                     THEN [act[n] EXCEPT !.out = [scope |-> n, val |-> pos]]
                     ELSE act[n],
                  "ok", FALSE)
    /\ outputs' = IF Kind[n] \in {"sequence", "machine"}
                  THEN [outputs EXCEPT ![Slot(n)] = Append(@, pos)]
                  ELSE outputs
    /\ UNCHANGED <<log, pos, at, written, result, crashes, accepted>>

FinishBodyEmpty(n) ==
    /\ At(n, "call")
    /\ Kind[n] # "op"
    /\ act[n].kid = NoNode
    /\ ReturnBody(n, act[n], "ok", FALSE)
    /\ UNCHANGED <<log, pos, at, written, outputs, result, crashes, accepted>>

(* The last child is done: a sequence or a machine completes its own        *)
(* context; a state was completed by its child, a policy completes nothing. *)
FinishBody(n) ==
    /\ At(n, "call")
    /\ Kind[n] # "op"
    /\ act[n].kid = NoNode
    /\ ReturnBody(n, IF Kind[n] \in {"sequence", "machine"}
                     THEN [act[n] EXCEPT !.out = [scope |-> n, val |-> pos]]
                     ELSE act[n],
                  "ok", FALSE)
    /\ UNCHANGED <<log, pos, at, written, outputs, result, crashes, accepted>>

IsStateOf(k, n) == Kind[n] = "machine" /\ k \in Node /\ Parent[k] = n

(* Mutant: a machine does not know the handled result of its policy scope. *)
ResumeUnhandled(n) ==
    LET a == act[n]
    IN  /\ At(n, "resume")
        /\ \/ /\ a.sig = "ok"
              /\ act' = [act EXCEPT ![n] = [a EXCEPT !.pc = "call", !.kid = Succ[a.kid]]]
              /\ UNCHANGED frames
           \/ /\ a.sig = "err"
              /\ ReturnBody(n, a, "err", a.fatal)
        /\ UNCHANGED <<log, pos, at, written, outputs, result, crashes, accepted>>

(* The child has returned.  A machine follows a route to one of its states, *)
(* and stops, without an output of its own, when its catch handled the      *)
(* failure; every other body passes a route or a failure on.                *)
Resume(n) ==
    LET a == act[n]
    IN  /\ At(n, "resume")
        /\ \/ /\ a.sig = "ok"
              /\ act' = [act EXCEPT ![n] = [a EXCEPT !.pc = "call", !.kid = Succ[a.kid]]]
              /\ UNCHANGED frames
           \/ /\ a.sig = "route"
              /\ IsStateOf(a.to, n)
              /\ act' = [act EXCEPT ![n] = [a EXCEPT !.pc = "call", !.kid = a.to]]
              /\ UNCHANGED frames
           \/ /\ a.sig = "route"
              /\ ~IsStateOf(a.to, n)
              /\ ReturnBody(n, a, IF Kind[n] = "machine" THEN "err" ELSE "route", FALSE)
           \/ /\ a.sig = "handled"
              /\ ReturnBody(n, a, "ok", FALSE)
           \/ /\ a.sig = "err"
              /\ ReturnBody(n, a, "err", a.fatal)
        /\ UNCHANGED <<log, pos, at, written, outputs, result, crashes, accepted>>

-----------------------------------------------------------------------------
(* JobDB's decisions about a returned body, and the catch handler. *)

(* The outputs held by the frame of fs with that number. *)
OutputsOf(fs, frame) == {f.out.val : f \in {g \in fs : g.id = frame /\ g.out # NoOut}}

(* Mutants: a process that takes a job over has lost its catch rules, or    *)
(* counts the attempts of the process before it.                            *)
MayCatchOnce(a, n) == CatchRules(n) # "none" /\ ~a.caught /\ crashes = 0
MayRetryAcross(a, n) == ~a.fatal /\ a.attempt + crashes < RetryLimit(n, a.covered)

MayCatch(a, n) == CatchRules(n) # "none" /\ ~a.caught
MayRetry(a, n) == ~a.fatal /\ a.attempt < RetryLimit(n, a.covered)

(* The scope's time may be up before its body returned or before its result *)
(* is recorded; it is noticed once, and the timeout is not retried.         *)
MayTimeOut(a, n) == HasTimeout(n) /\ ~(a.sig = "err" /\ (a.fatal \/ a.caught))

Decide(n) ==
    LET a == act[n]
    IN  /\ At(n, "returned")
        /\ \/ /\ a.sig \in {"ok", "route"}
              /\ Record(n, "accept", a.cur)
              /\ act' = [act EXCEPT ![n] = [a EXCEPT !.pc = "accepted", !.acc = RecordedFrame(a.cur)]]
              /\ accepted' = [accepted EXCEPT ![n] = @ \cup OutputsOf(frames[n], RecordedFrame(a.cur))]
           \/ /\ MayTimeOut(a, n)
              /\ Record(n, "timeout", 0)
              /\ act' = [act EXCEPT ![n] = [a EXCEPT !.sig = "err", !.fatal = TRUE]]
              /\ UNCHANGED accepted
           \/ /\ a.sig = "err"
              /\ MayCatch(a, n)
              /\ Record(n, "catch", 0)
              /\ act' = [act EXCEPT ![n] = [a EXCEPT !.pc = "handling", !.caught = TRUE]]
              /\ UNCHANGED accepted
           \/ /\ a.sig = "err"
              /\ MayRetry(a, n)
              /\ Record(n, "retry", 0)
              /\ act' = [act EXCEPT ![n] = [a EXCEPT !.pc = "entry"]]
              /\ UNCHANGED accepted
           \/ /\ a.sig = "err"
              /\ ~MayRetry(a, n)
              /\ Record(n, "fail", 0)
              /\ act' = [act EXCEPT ![n] = [a EXCEPT !.pc = "failed"]]
              /\ UNCHANGED accepted
        /\ UNCHANGED <<at, frames, written, outputs, result, crashes>>

(* The selected clause runs in a frame of its own.  `continue' completes the *)
(* scope with the clause's outputs and `route' names the next state; both    *)
(* save the frame.  `fail' hands JobDB a new failure and saves nothing, and  *)
(* so does a clause that cannot be evaluated.                                *)
Handle(n) ==
    LET f == NewFrame(act[n])
        done(sig, out) == [f EXCEPT !.pc = "accepted", !.sig = sig, !.out = out, !.last = f.cur,
                                    !.acc = RecordedFrame(f.cur)]
        handled == done(IF Kind[n] = "policy" THEN "handled" ELSE "ok",
                        [scope |-> CompletedBy(n), val |-> pos])
        routed == [done("route", NoOut) EXCEPT !.to = RouteTo[CompletedBy(n)]]
    IN  /\ At(n, "handling")
        /\ \/ /\ CatchRules(n) = "continue"
              /\ Record(n, "handled", f.cur)
              /\ act' = [act EXCEPT ![n] = handled]
              /\ SaveFrame(n, handled)
              /\ accepted' = [accepted EXCEPT ![n] = @ \cup OutputsOf(frames'[n], handled.acc)]
           \/ /\ CatchRules(n) = "route"
              /\ Record(n, "routed", f.cur)
              /\ act' = [act EXCEPT ![n] = routed]
              /\ SaveFrame(n, routed)
              /\ accepted' = [accepted EXCEPT ![n] = @ \cup OutputsOf(frames'[n], routed.acc)]
           \/ /\ CatchRules(n) = "fail"
              /\ Record(n, "rethrown", 0)
              /\ act' = [act EXCEPT ![n] = [f EXCEPT !.pc = "returned"]]
              /\ UNCHANGED <<frames, accepted>>
           \/ /\ Record(n, "broken", 0)
              /\ act' = [act EXCEPT ![n] = [f EXCEPT !.pc = "failed"]]
              /\ UNCHANGED <<frames, accepted>>
        /\ UNCHANGED <<at, written, outputs, result, crashes>>

-----------------------------------------------------------------------------
(* After DoScope: the caller publishes the accepted frame and returns.      *)

(* executeNodeScope returns to the body of the parent; the root's return    *)
(* ends the job.                                                            *)
Return(n, acts, sig, to, fatal) ==
    /\ at' = Parent[n]
    /\ frames' = [frames EXCEPT ![n] = {}]
    /\ IF Parent[n] = NoNode
       THEN /\ act' = [acts EXCEPT ![n] = Idle]
            /\ result' = IF sig = "ok" THEN "ok" ELSE "err"
       ELSE /\ act' = [acts EXCEPT ![n] = Idle,
                          ![Parent[n]] = [acts[Parent[n]] EXCEPT !.pc = "resume", !.sig = sig,
                                                              !.to = to, !.fatal = fatal]]
            /\ UNCHANGED result

AcceptedFrames(n) == {f \in frames[n] : f.id = act[n].acc}

Settle(n) ==
    LET a == act[n]
        fails == Return(n, act, "err", NoNode, FALSE) /\ UNCHANGED <<written, outputs>>
    IN  /\ At(n, "accepted")
        /\ \/ AcceptedFrames(n) = {} /\ fails
           \/ \E f \in AcceptedFrames(n) :
                 \/ /\ f.out = NoOut
                    /\ Return(n, act, a.sig, a.to, FALSE)
                    /\ UNCHANGED <<written, outputs>>
                 \/ /\ f.out # NoOut
                    /\ DeferToState(n)
                    /\ IF act[Parent[n]].out # NoOut
                       THEN fails
                       ELSE /\ Return(n, [act EXCEPT ![Parent[n]].out = [f.out EXCEPT !.scope = Parent[n]]],
                                      a.sig, a.to, FALSE)
                            /\ UNCHANGED <<written, outputs>>
                 \/ /\ f.out # NoOut
                    /\ ~DeferToState(n)
                    /\ IF written[f.out.scope]
                       THEN fails
                       ELSE /\ written' = [written EXCEPT ![f.out.scope] = TRUE]
                            /\ outputs' = [outputs EXCEPT ![Slot(f.out.scope)] = Append(@, f.out.val)]
                            /\ Return(n, act, a.sig, a.to, FALSE)
        /\ UNCHANGED <<log, pos, crashes, accepted>>

(* Mutant: the output a rejected body prepared is published as well. *)
FailScopePublishes(n) ==
    /\ At(n, "failed")
    /\ Return(n, act, "err", NoNode, act[n].fatal \/ n \in RetrySteps)
    /\ outputs' = [outputs EXCEPT ![n] = IF act[n].out = NoOut THEN @ ELSE Append(@, act[n].out.val)]
    /\ UNCHANGED <<log, pos, written, crashes, accepted>>

(* The scope failed.  An op that retries its own steps must not be retried  *)
(* again by an enclosing scope.                                             *)
FailScope(n) ==
    /\ At(n, "failed")
    /\ Return(n, act, "err", NoNode, act[n].fatal \/ n \in RetrySteps)
    /\ UNCHANGED <<log, pos, written, outputs, crashes, accepted>>

-----------------------------------------------------------------------------
(* A process starts the job at its root with nothing but JobDB's history.   *)
StartActs == [n \in Node |-> IF n = Root THEN [Idle EXCEPT !.pc = "entry"] ELSE Idle]

Init ==
    /\ log = <<>>
    /\ pos = 0
    /\ at = Root
    /\ act = StartActs
    /\ frames = [n \in Node |-> {}]
    /\ written = [n \in Node |-> FALSE]
    /\ outputs = [n \in Node |-> <<>>]
    /\ result = "none"
    /\ crashes = 0
    /\ accepted = [n \in Node |-> {}]

(* The process dies, or loses the job's lease, and another one takes over. *)
Crash ==
    /\ at # NoNode
    /\ crashes < MaxCrashes
    /\ crashes' = crashes + 1
    /\ pos' = 0
    /\ at' = Root
    /\ act' = StartActs
    /\ frames' = [n \in Node |-> {}]
    /\ written' = [n \in Node |-> FALSE]
    /\ outputs' = [n \in Node |-> <<>>]
    /\ UNCHANGED <<log, result, accepted>>

Step(n) ==
    \/ StartBody(n)
    \/ RunTask(n)
    \/ CallKid(n)
    \/ FinishBody(n)
    \/ Resume(n)
    \/ Decide(n)
    \/ Handle(n)
    \/ Settle(n)
    \/ FailScope(n)

JobOver == at = NoNode /\ UNCHANGED vars

Next == (\E n \in Node : Step(n)) \/ Crash \/ JobOver

(* The worker that holds the job's lease keeps executing it. *)
Fairness == WF_vars(\E n \in Node : Step(n))

Spec == Init /\ [][Next]_vars /\ Fairness

-----------------------------------------------------------------------------
(* Properties. *)

(* The executor's state has the shape its code gives it. *)
TypeOK ==
    /\ log \in Seq(Entries)
    /\ pos \in 0..Len(log)
    /\ at \in Node \cup {NoNode}
    /\ act \in [Node -> Acts]
    /\ frames \in [Node -> SUBSET Frames]
    /\ written \in [Node -> BOOLEAN]
    /\ outputs \in [Node -> Seq(Nat)]
    /\ result \in {"none", "ok", "err"}
    /\ crashes \in Nat
    /\ accepted \in [Node -> SUBSET Nat]

(* "The caller publishes it only after DoScope accepts that outcome": every *)
(* output a context shows for a node, earlier runs included, was accepted by*)
(* JobDB as the outcome of that node's own scope; nothing prepared by a     *)
(* failed, timed out or retried attempt is ever visible.                    *)
PublishedWasAccepted ==
    \A n \in Node : \A i \in DOMAIN outputs[n] : outputs[n][i] \in accepted[n]

(* One invocation publishes at most once: no output appears twice among the *)
(* latest output and the runs of a slot, whatever retries, catches, nested  *)
(* scopes and replays led there.                                            *)
PublishedOnce ==
    \A n \in Node : \A i, j \in DOMAIN outputs[n] : outputs[n][i] = outputs[n][j] => i = j

(* The frame number JobDB recorded with an outcome always names a frame that*)
(* this process has rebuilt ("outcome has no reconstructed frame" is never  *)
(* returned), on a first execution and on every replay.                     *)
AcceptedFrameReconstructed ==
    at # NoNode /\ act[at].pc = "accepted" => AcceptedFrames(at) # {}

(* What JobDB may record next for the node on top. *)
Choices(n) ==
    LET a == act[n]
    IN  CASE a.pc = "call" /\ Kind[n] = "op" -> {"task_ok", "task_err"}
          [] a.pc = "returned" /\ a.sig \in {"ok", "route"} ->
                {"accept"} \cup (IF MayTimeOut(a, n) THEN {"timeout"} ELSE {})
          [] a.pc = "returned" /\ a.sig = "err" ->
                (IF MayTimeOut(a, n) THEN {"timeout"} ELSE {})
                    \cup (IF MayCatch(a, n) THEN {"catch"} ELSE {})
                    \cup {IF MayRetry(a, n) THEN "retry" ELSE "fail"}
          [] a.pc = "handling" -> {"handled", "routed", "rethrown", "broken"}
          [] OTHER -> {}

(* Replay asks for the recorded steps in the recorded order, whatever point *)
(* the process crashed at: JobDB never sees a nondeterministic execution.   *)
ReplayFollowsHistory ==
    (at # NoNode /\ Replaying /\ Choices(at) # {})
        => /\ log[pos + 1].site = at
           /\ log[pos + 1].what \in Choices(at)

(* A body that succeeds has an output from every child that succeeded: when *)
(* a sequence or a machine moves past a child, the child's slot holds an    *)
(* output of this attempt.                                                  *)
SucceededChildHasOutput ==
    \A n \in Node :
        (/\ Kind[n] \in {"sequence", "machine"}
         /\ act[n].pc = "resume"
         /\ act[n].sig = "ok"
         /\ act[n].kid # NoNode)
        => LET k == act[n].kid
           IN  outputs[IF Kind[k] = "policy" THEN First[k] ELSE k] # <<>>

(* "Catch outputs use the same boundary": when a child's scope has failed,  *)
(* the enclosing sequence sees no output of that child that the child's own *)
(* scope did not accept.                                                    *)
RejectedScopeShowsNothing ==
    \A n \in Node :
        (/\ Kind[n] = "sequence"
         /\ act[n].pc = "resume"
         /\ act[n].sig = "err"
         /\ act[n].kid # NoNode)
        => LET k == act[n].kid
           IN  \A i \in DOMAIN outputs[k] : outputs[k][i] \in accepted[k]

(* A job that fails finitely often and crashes finitely often ends. *)
JobEnds == <>(at = NoNode)
====
