-------------------------- MODULE RecipeScope_proofs --------------------------
(***************************************************************************)
(* What the checks of RecipeScope show on two recipes, proved for every    *)
(* recipe, retry policy and number of failures and crashes: its state      *)
(* stays well typed, a context shows only outputs that JobDB accepted, it  *)
(* shows none of them twice, and a process that takes a job over asks      *)
(* JobDB for exactly what was recorded and rebuilds the frame of every     *)
(* recorded outcome.                                                       *)
(*                                                                         *)
(* The argument about replay: between two results of JobDB the executor is *)
(* a function of its own state (NextExec).  So the history determines one  *)
(* execution, and the process is always somewhere on it (ReplayInv): a     *)
(* step that replays follows it, a step at its end prolongs it, and a      *)
(* crash returns to its start.  On top of it (SuccessInv): a child that    *)
(* succeeded has left an output in its slot, whichever scope below or      *)
(* above it published it.                                                  *)
(***************************************************************************)
EXTENDS RecipeScope, TLAPS

-----------------------------------------------------------------------------
(* Facts about the data. *)

(* No output, and an idle invocation, are values of their types. *)
LEMMA IdleType == NoOut \in Outs /\ Idle \in Acts
  BY NodeAssumption DEF NoOut, Outs, Idle, Acts, Pcs, Signals

(* An output other than NoOut names the node that it completes. *)
LEMMA OutScope ==
  ASSUME NEW o \in Outs, o # NoOut
  PROVE  o.scope \in Node /\ o.val \in Nat /\ o = [scope |-> o.scope, val |-> o.val]
  BY DEF Outs

(* newFrame keeps an invocation well typed. *)
LEMMA NewFrameType ==
  ASSUME NEW a \in Acts
  PROVE  /\ NewFrame(a) \in Acts
         /\ NewFrame(a).out = NoOut
         /\ NewFrame(a).pc = a.pc
         /\ NewFrame(a).cur \in Nat
<1>1. a.next + 1 \in Nat /\ 0 \in Nat /\ NoOut \in Outs
  BY IdleType DEF Acts
<1>2. NewFrame(a) = [a EXCEPT !.next = a.next + 1, !.cur = a.next + 1, !.last = 0, !.out = NoOut]
  BY DEF NewFrame, NewFrameId
<1> HIDE DEF Outs, NoOut
<1> QED
  BY <1>1, <1>2 DEF Acts

(* Recording an outcome, or taking a recorded one, keeps the history and    *)
(* this process's position in it well typed.                                *)
LEMMA RecordType ==
  ASSUME log \in Seq(Entries), pos \in 0..Len(log),
         NEW n \in Node, NEW what \in Whats, NEW frame \in Nat, Record(n, what, frame)
  PROVE  log' \in Seq(Entries) /\ pos' \in 0..Len(log') /\ RecordedFrame(frame) \in Nat
<1> DEFINE e == [site |-> n, what |-> what, frame |-> frame]
<1>1. e \in Entries
  BY DEF Entries
<1>2. CASE Replaying
  <2>1. pos + 1 \in 1..Len(log) /\ log' = log /\ pos' = pos + 1
    BY <1>2 DEF Record, Replaying
  <2>2. log[pos + 1] \in Entries
    BY <2>1
  <2> QED
    BY <1>2, <2>1, <2>2 DEF RecordedFrame, Entries
<1>3. CASE ~Replaying
  <2>1. log' = Append(log, e) /\ pos' = pos + 1
    BY <1>3 DEF Record
  <2>2. log' \in Seq(Entries) /\ Len(log') = Len(log) + 1
    BY <1>1, <2>1
  <2> QED
    BY <1>3, <2>1, <2>2 DEF RecordedFrame
<1> QED
  BY <1>2, <1>3

(* The outputs a frame holds are points of the history. *)
LEMMA OutputsType ==
  ASSUME NEW fs \in SUBSET Frames, NEW id
  PROVE  OutputsOf(fs, id) \subseteq Nat
<1> SUFFICES ASSUME NEW f \in fs, f.out # NoOut PROVE f.out.val \in Nat
  BY DEF OutputsOf
<1>1. f.out \in Outs
  BY DEF Frames
<1> QED
  BY <1>1, OutScope

(* Only a policy scope completes another node: its machine. *)
LEMMA CompletedByType ==
  ASSUME NEW n \in Node
  PROVE  CompletedBy(n) \in Node
  BY NodeAssumption, TreeAssumption DEF CompletedBy

(* Saving a frame keeps the saved frames well typed. *)
LEMMA SaveFrameType ==
  ASSUME frames \in [Node -> SUBSET Frames], NEW n \in Node,
         NEW a, a.cur \in Nat, a.out \in Outs, SaveFrame(n, a)
  PROVE  frames' \in [Node -> SUBSET Frames]
  BY DEF SaveFrame, Frames

(* So does a body's return, which also keeps the invocations well typed. *)
LEMMA ReturnBodyType ==
  ASSUME frames \in [Node -> SUBSET Frames], act \in [Node -> Acts], NEW n \in Node,
         NEW a \in Acts, NEW sig \in Signals, NEW fatal \in BOOLEAN, ReturnBody(n, a, sig, fatal)
  PROVE  frames' \in [Node -> SUBSET Frames] /\ act' \in [Node -> Acts]
<1>1. a.cur \in Nat /\ a.out \in Outs
  BY DEF Acts
<1>2. frames' \in [Node -> SUBSET Frames]
  BY <1>1, SaveFrameType DEF ReturnBody
<1>3. [a EXCEPT !.pc = "returned", !.sig = sig, !.fatal = fatal, !.caught = FALSE, !.last = a.cur] \in Acts
  BY DEF Acts, Pcs
<1> QED
  BY <1>2, <1>3 DEF ReturnBody

(* A scope's return to its caller keeps the executor well typed. *)
LEMMA ReturnType ==
  ASSUME TypeOK, NEW n \in Node, NEW acts \in [Node -> Acts], NEW sig \in Signals,
         NEW to \in Node \cup {NoNode}, NEW fatal \in BOOLEAN, Return(n, acts, sig, to, fatal)
  PROVE  /\ at' \in Node \cup {NoNode}
         /\ frames' \in [Node -> SUBSET Frames]
         /\ act' \in [Node -> Acts]
         /\ result' \in {"none", "ok", "err"}
<1>1. at' \in Node \cup {NoNode} /\ frames' \in [Node -> SUBSET Frames]
  BY NodeAssumption DEF Return, TypeOK
<1>2. CASE Parent[n] = NoNode
  BY <1>1, <1>2, IdleType DEF Return
<1>3. CASE Parent[n] # NoNode
  <2> DEFINE p == Parent[n]
             up == [acts[p] EXCEPT !.pc = "resume", !.sig = sig, !.to = to, !.fatal = fatal]
  <2>1. acts[p] \in Acts
    BY <1>3, NodeAssumption
  <2>2. up \in Acts
    BY <2>1 DEF Acts, Pcs
  <2>3. act' = [acts EXCEPT ![n] = Idle, ![p] = up] /\ result' = result
    BY <1>3 DEF Return
  <2> HIDE DEF p, up
  <2> QED
    BY <1>1, <2>2, <2>3, IdleType DEF TypeOK
<1> QED
  BY <1>2, <1>3

-----------------------------------------------------------------------------
(* Type correctness: one lemma per action. *)

(* Calls of executeNodeScope nest: only the call on top runs, every open    *)
(* call below it waits for the child it called, and a body calls only its   *)
(* own children.                                                            *)
CallStack ==
    /\ \A n \in Node : act[n].pc # "idle" => n = at \/ act[n].pc = "wait"
    /\ \A n \in Node : act[n].pc # "idle" /\ Parent[n] # NoNode
                          => act[Parent[n]].pc = "wait" /\ act[Parent[n]].kid = n
    /\ \A n \in Node : act[n].kid # NoNode => Parent[act[n].kid] = n
    /\ \A n \in Node : act[n].pc = "resume" => act[n].kid # NoNode

(* A new body keeps the types. *)
LEMMA StartBodyType == ASSUME TypeOK, NEW n \in Node, StartBody(n) PROVE TypeOK'
<1> DEFINE a == [NewFrame(act[n]) EXCEPT !.pc = "call", !.attempt = act[n].attempt + 1,
                                         !.kid = First[n], !.sig = "none", !.to = NoNode]
<1>1. act[n] \in Acts /\ act[n].attempt \in Nat
  BY DEF TypeOK, Acts
<1>2. NewFrame(act[n]) \in Acts
  BY <1>1, NewFrameType
<1>3. First[n] \in Node \cup {NoNode}
  BY NodeAssumption
<1>4. a \in Acts
  <2>1. ASSUME NEW b \in Acts, NEW i \in Nat, NEW k \in Node \cup {NoNode}
        PROVE  [b EXCEPT !.pc = "call", !.attempt = i, !.kid = k, !.sig = "none", !.to = NoNode] \in Acts
    BY DEF Acts, Pcs, Signals
  <2>2. act[n].attempt + 1 \in Nat
    BY <1>1
  <2> QED
    BY <1>2, <1>3, <2>1, <2>2
<1>5. act' = [act EXCEPT ![n] = a]
  BY DEF StartBody
<1> HIDE DEF a
<1>6. act' \in [Node -> Acts]
  BY <1>4, <1>5 DEF TypeOK
<1>7. written' \in [Node -> BOOLEAN]
  BY DEF StartBody, TypeOK
<1>8. outputs' \in [Node -> Seq(Nat)]
  BY DEF StartBody, TypeOK
<1> QED
  BY <1>6, <1>7, <1>8 DEF StartBody, TypeOK

(* A task's result keeps the types. *)
LEMMA RunTaskType == ASSUME TypeOK, NEW n \in Node, RunTask(n) PROVE TypeOK'
<1>1. act[n] \in Acts /\ pos + 1 \in Nat
  BY DEF TypeOK
<1>2. CASE Record(n, "task_ok", 0)
           /\ ReturnBody(n, [act[n] EXCEPT !.out = [scope |-> n, val |-> pos + 1]], "ok", FALSE)
  <2> DEFINE o == [scope |-> n, val |-> pos + 1]
             a == [act[n] EXCEPT !.out = o]
  <2>1. o \in Outs
    BY <1>1 DEF Outs
  <2>2. a \in Acts
    BY <1>1, <2>1 DEF Acts
  <2>3. ReturnBody(n, a, "ok", FALSE)
    BY <1>2
  <2> HIDE DEF a
  <2>4. frames' \in [Node -> SUBSET Frames] /\ act' \in [Node -> Acts]
    BY <2>2, <2>3, ReturnBodyType DEF TypeOK, Signals
  <2>5. log' \in Seq(Entries) /\ pos' \in 0..Len(log')
    BY <1>2, RecordType DEF TypeOK, Whats
  <2> QED
    BY <2>4, <2>5 DEF RunTask, TypeOK
<1>3. CASE Record(n, "task_err", 0) /\ ReturnBody(n, act[n], "err", FALSE)
  <2>1. frames' \in [Node -> SUBSET Frames] /\ act' \in [Node -> Acts]
    BY <1>1, <1>3, ReturnBodyType DEF TypeOK, Signals
  <2>2. log' \in Seq(Entries) /\ pos' \in 0..Len(log')
    BY <1>3, RecordType DEF TypeOK, Whats
  <2> QED
    BY <2>1, <2>2 DEF RunTask, TypeOK
<1> QED
  BY <1>2, <1>3 DEF RunTask

(* Calling a child keeps the types. *)
LEMMA CallKidType == ASSUME TypeOK, NEW n \in Node, CallKid(n) PROVE TypeOK'
<1> DEFINE k == act[n].kid
           covered == act[n].covered \/ DeclaredCatch(n) # "none"
           called == [Idle EXCEPT !.pc = "entry", !.covered = covered]
           waiting == [act[n] EXCEPT !.pc = "wait"]
<1>1. act[n] \in Acts /\ k \in Node
  BY DEF TypeOK, Acts, CallKid
<1>2. covered \in BOOLEAN
  BY <1>1 DEF Acts
<1>3. called \in Acts
  <2> HIDE DEF covered
  <2> QED
    BY <1>2, IdleType DEF Acts, Pcs
<1>4. waiting \in Acts
  BY <1>1 DEF Acts, Pcs
<1>5. act' = [act EXCEPT ![n] = waiting, ![k] = called] /\ at' = k
  BY DEF CallKid
<1>6. UNCHANGED <<log, pos, frames, written, outputs, result, crashes, accepted>>
  BY DEF CallKid
<1> HIDE DEF k, called, waiting
<1> QED
  BY <1>1, <1>3, <1>4, <1>5, <1>6 DEF TypeOK

(* Completing a composite keeps the types. *)
LEMMA FinishBodyType == ASSUME TypeOK, NEW n \in Node, FinishBody(n) PROVE TypeOK'
<1> DEFINE o == [scope |-> n, val |-> pos]
           a == IF Kind[n] \in {"sequence", "machine"} THEN [act[n] EXCEPT !.out = o] ELSE act[n]
<1>1. act[n] \in Acts /\ pos \in Nat
  BY DEF TypeOK
<1>2. o \in Outs
  BY <1>1 DEF Outs
<1>3. a \in Acts
  BY <1>1, <1>2 DEF Acts
<1>4. ReturnBody(n, a, "ok", FALSE)
  BY DEF FinishBody
<1> HIDE DEF a
<1>5. frames' \in [Node -> SUBSET Frames] /\ act' \in [Node -> Acts]
  BY <1>3, <1>4, ReturnBodyType DEF TypeOK, Signals
<1> QED
  BY <1>5 DEF FinishBody, TypeOK

(* Taking a child's result keeps the types. *)
LEMMA ResumeType == ASSUME TypeOK, CallStack, NEW n \in Node, Resume(n) PROVE TypeOK'
<1> DEFINE a == act[n]
<1>1. a \in Acts /\ a.fatal \in BOOLEAN /\ a.kid \in Node
  BY DEF TypeOK, Acts, CallStack, Resume, At
<1>2. frames' \in [Node -> SUBSET Frames] /\ act' \in [Node -> Acts]
  <2>1. ASSUME NEW to \in Node \cup {NoNode}, act' = [act EXCEPT ![n] = [a EXCEPT !.pc = "call", !.kid = to]],
               UNCHANGED frames
        PROVE  frames' \in [Node -> SUBSET Frames] /\ act' \in [Node -> Acts]
    <3>1. [a EXCEPT !.pc = "call", !.kid = to] \in Acts
      BY <1>1 DEF Acts, Pcs
    <3> QED
      BY <2>1, <3>1 DEF TypeOK
  <2>2. ASSUME NEW sig \in Signals, NEW fatal \in BOOLEAN, ReturnBody(n, a, sig, fatal)
        PROVE  frames' \in [Node -> SUBSET Frames] /\ act' \in [Node -> Acts]
    BY <1>1, <2>2, ReturnBodyType DEF TypeOK
  <2>3. Succ[a.kid] \in Node \cup {NoNode}
    BY <1>1, NodeAssumption
  <2>4. CASE ReturnBody(n, a, "ok", FALSE) \/ ReturnBody(n, a, "err", a.fatal)
    BY <1>1, <2>2, <2>4 DEF Signals
  <2>5. CASE ReturnBody(n, a, IF Kind[n] = "machine" THEN "err" ELSE "route", FALSE)
    BY <2>2, <2>5 DEF Signals
  <2>6. CASE act' = [act EXCEPT ![n] = [a EXCEPT !.pc = "call", !.kid = Succ[a.kid]]] /\ UNCHANGED frames
    BY <2>1, <2>3, <2>6
  <2>7. CASE act' = [act EXCEPT ![n] = [a EXCEPT !.pc = "call", !.kid = a.to]] /\ UNCHANGED frames
             /\ IsStateOf(a.to, n)
    BY <2>1, <2>7 DEF IsStateOf
  <2> QED
    BY <2>4, <2>5, <2>6, <2>7 DEF Resume
<1> QED
  BY <1>2 DEF Resume, TypeOK

(* JobDB's decision keeps the types. *)
LEMMA DecideType == ASSUME TypeOK, NEW n \in Node, Decide(n) PROVE TypeOK'
<1> DEFINE a == act[n]
<1>1. a \in Acts /\ a.cur \in Nat
  BY DEF TypeOK, Acts
<1>2. ASSUME NEW what \in Whats, NEW frame \in Nat, Record(n, what, frame), NEW b \in Acts,
             act' = [act EXCEPT ![n] = b], accepted' \in [Node -> SUBSET Nat]
      PROVE  TypeOK'
  <2>1. log' \in Seq(Entries) /\ pos' \in 0..Len(log')
    BY <1>2, RecordType DEF TypeOK
  <2> QED
    BY <1>2, <2>1 DEF TypeOK, Decide
<1>3. CASE /\ Record(n, "accept", a.cur)
           /\ act' = [act EXCEPT ![n] = [a EXCEPT !.pc = "accepted", !.acc = RecordedFrame(a.cur)]]
           /\ accepted' = [accepted EXCEPT ![n] = @ \cup OutputsOf(frames[n], RecordedFrame(a.cur))]
  <2>1. RecordedFrame(a.cur) \in Nat
    BY <1>1, <1>3, RecordType DEF TypeOK, Whats
  <2>2. [a EXCEPT !.pc = "accepted", !.acc = RecordedFrame(a.cur)] \in Acts
    BY <1>1, <2>1 DEF Acts, Pcs
  <2>3. accepted' \in [Node -> SUBSET Nat]
    <3>1. OutputsOf(frames[n], RecordedFrame(a.cur)) \subseteq Nat
      BY OutputsType DEF TypeOK
    <3> QED
      BY <1>3, <3>1 DEF TypeOK
  <2> QED
    BY <1>1, <1>2, <1>3, <2>2, <2>3 DEF Whats
<1>4. CASE Record(n, "timeout", 0) /\ UNCHANGED accepted
           /\ act' = [act EXCEPT ![n] = [a EXCEPT !.sig = "err", !.fatal = TRUE]]
  <2>1. [a EXCEPT !.sig = "err", !.fatal = TRUE] \in Acts
    BY <1>1 DEF Acts, Signals
  <2> QED
    BY <1>2, <1>4, <2>1 DEF Whats, TypeOK
<1>5. CASE Record(n, "catch", 0) /\ UNCHANGED accepted
           /\ act' = [act EXCEPT ![n] = [a EXCEPT !.pc = "handling", !.caught = TRUE]]
  <2>1. [a EXCEPT !.pc = "handling", !.caught = TRUE] \in Acts
    BY <1>1 DEF Acts, Pcs
  <2> QED
    BY <1>2, <1>5, <2>1 DEF Whats, TypeOK
<1>6. CASE Record(n, "retry", 0) /\ UNCHANGED accepted
           /\ act' = [act EXCEPT ![n] = [a EXCEPT !.pc = "entry"]]
  <2>1. [a EXCEPT !.pc = "entry"] \in Acts
    BY <1>1 DEF Acts, Pcs
  <2> QED
    BY <1>2, <1>6, <2>1 DEF Whats, TypeOK
<1>7. CASE Record(n, "fail", 0) /\ UNCHANGED accepted
           /\ act' = [act EXCEPT ![n] = [a EXCEPT !.pc = "failed"]]
  <2>1. [a EXCEPT !.pc = "failed"] \in Acts
    BY <1>1 DEF Acts, Pcs
  <2> QED
    BY <1>2, <1>7, <2>1 DEF Whats, TypeOK
<1> QED
  BY <1>3, <1>4, <1>5, <1>6, <1>7 DEF Decide

(* A catch handler keeps the types. *)
LEMMA HandleType == ASSUME TypeOK, NEW n \in Node, Handle(n) PROVE TypeOK'
<1> DEFINE f == NewFrame(act[n])
           done(sig, out) == [f EXCEPT !.pc = "accepted", !.sig = sig, !.out = out, !.last = f.cur,
                                       !.acc = RecordedFrame(f.cur)]
           handled == done(IF Kind[n] = "policy" THEN "handled" ELSE "ok",
                           [scope |-> CompletedBy(n), val |-> pos])
           routed == [done("route", NoOut) EXCEPT !.to = RouteTo[CompletedBy(n)]]
<1>1. f \in Acts /\ f.cur \in Nat
  BY NewFrameType DEF TypeOK
<1>2. CompletedBy(n) \in Node
  BY CompletedByType
<1>3. ASSUME NEW what \in Whats, NEW frame \in Nat, Record(n, what, frame), act' \in [Node -> Acts],
             frames' \in [Node -> SUBSET Frames], accepted' \in [Node -> SUBSET Nat]
      PROVE  TypeOK'
  <2>1. log' \in Seq(Entries) /\ pos' \in 0..Len(log')
    BY <1>3, RecordType DEF TypeOK
  <2>2. UNCHANGED <<at, written, outputs, result, crashes>>
    BY DEF Handle
  <2> QED
    BY <1>3, <2>1, <2>2 DEF TypeOK
<1>4. ASSUME RecordedFrame(f.cur) \in Nat, NEW sig \in Signals, NEW out \in Outs
      PROVE  done(sig, out) \in Acts /\ done(sig, out).cur \in Nat /\ done(sig, out).out \in Outs
             /\ done(sig, out).acc \in Nat
  <2>1. ASSUME NEW g \in Acts, NEW i \in Nat, NEW j \in Nat
        PROVE  LET d == [g EXCEPT !.pc = "accepted", !.sig = sig, !.out = out, !.last = i, !.acc = j]
               IN  d \in Acts /\ d.cur \in Nat /\ d.out \in Outs /\ d.acc \in Nat
    BY DEF Acts, Pcs
  <2> QED
    BY <1>1, <1>4, <2>1
<1>5. ASSUME NEW d \in Acts, d.cur \in Nat, d.out \in Outs, d.acc \in Nat, SaveFrame(n, d),
             act' = [act EXCEPT ![n] = d],
             accepted' = [accepted EXCEPT ![n] = @ \cup OutputsOf(frames'[n], d.acc)]
      PROVE  /\ act' \in [Node -> Acts]
             /\ frames' \in [Node -> SUBSET Frames]
             /\ accepted' \in [Node -> SUBSET Nat]
  <2>1. frames' \in [Node -> SUBSET Frames]
    BY <1>5, SaveFrameType DEF TypeOK
  <2>2. OutputsOf(frames'[n], d.acc) \subseteq Nat
    BY <2>1, OutputsType
  <2> QED
    BY <1>5, <2>1, <2>2 DEF TypeOK
<1>6. CASE /\ Record(n, "handled", f.cur)
           /\ act' = [act EXCEPT ![n] = handled]
           /\ SaveFrame(n, handled)
           /\ accepted' = [accepted EXCEPT ![n] = @ \cup OutputsOf(frames'[n], handled.acc)]
  <2>1. RecordedFrame(f.cur) \in Nat
    BY <1>1, <1>6, RecordType DEF TypeOK, Whats
  <2>2. (IF Kind[n] = "policy" THEN "handled" ELSE "ok") \in Signals
    BY DEF Signals
  <2>3. [scope |-> CompletedBy(n), val |-> pos] \in Outs
    BY <1>2 DEF Outs, TypeOK
  <2>4. handled \in Acts /\ handled.cur \in Nat /\ handled.out \in Outs /\ handled.acc \in Nat
    <3> HIDE DEF done
    <3> QED
      BY <1>4, <2>1, <2>2, <2>3
  <2> HIDE DEF handled
  <2> QED
    BY <1>1, <1>3, <1>5, <1>6, <2>4 DEF Whats
<1>7. CASE /\ Record(n, "routed", f.cur)
           /\ act' = [act EXCEPT ![n] = routed]
           /\ SaveFrame(n, routed)
           /\ accepted' = [accepted EXCEPT ![n] = @ \cup OutputsOf(frames'[n], routed.acc)]
  <2>1. RecordedFrame(f.cur) \in Nat
    BY <1>1, <1>7, RecordType DEF TypeOK, Whats
  <2>2. done("route", NoOut) \in Acts
    <3> HIDE DEF done
    <3> QED
      BY <1>4, <2>1, IdleType DEF Signals
  <2>3. RouteTo[CompletedBy(n)] \in Node \cup {NoNode}
    BY <1>2, NodeAssumption
  <2>4. routed \in Acts /\ routed.cur \in Nat /\ routed.out \in Outs /\ routed.acc \in Nat
    <3> HIDE DEF done
    <3> QED
      BY <2>2, <2>3 DEF Acts
  <2> HIDE DEF routed
  <2> QED
    BY <1>1, <1>3, <1>5, <1>7, <2>4 DEF Whats
<1>8. CASE /\ Record(n, "rethrown", 0)
           /\ act' = [act EXCEPT ![n] = [f EXCEPT !.pc = "returned"]]
           /\ UNCHANGED <<frames, accepted>>
  <2>1. [f EXCEPT !.pc = "returned"] \in Acts
    <3> HIDE DEF f
    <3> QED
      BY <1>1 DEF Acts, Pcs
  <2> HIDE DEF f
  <2> QED
    BY <1>3, <1>8, <2>1 DEF Whats, TypeOK
<1>9. CASE /\ Record(n, "broken", 0)
           /\ act' = [act EXCEPT ![n] = [f EXCEPT !.pc = "failed"]]
           /\ UNCHANGED <<frames, accepted>>
  <2>1. [f EXCEPT !.pc = "failed"] \in Acts
    <3> HIDE DEF f
    <3> QED
      BY <1>1 DEF Acts, Pcs
  <2> HIDE DEF f
  <2> QED
    BY <1>3, <1>9, <2>1 DEF Whats, TypeOK
<1> QED
  BY <1>6, <1>7, <1>8, <1>9, Zenon DEF Handle

(* Publishing an accepted frame keeps the types. *)
LEMMA SettleType == ASSUME TypeOK, NEW n \in Node, Settle(n) PROVE TypeOK'
<1> DEFINE a == act[n]
<1>1. a \in Acts /\ a.sig \in Signals /\ a.to \in Node \cup {NoNode}
  BY DEF TypeOK, Acts
<1>2. UNCHANGED <<log, pos, crashes, accepted>>
  BY DEF Settle
<1>3. ASSUME NEW acts \in [Node -> Acts], NEW sig \in Signals, NEW to \in Node \cup {NoNode},
             Return(n, acts, sig, to, FALSE),
             written' \in [Node -> BOOLEAN], outputs' \in [Node -> Seq(Nat)]
      PROVE  TypeOK'
  <2>1. /\ at' \in Node \cup {NoNode}
        /\ frames' \in [Node -> SUBSET Frames]
        /\ act' \in [Node -> Acts]
        /\ result' \in {"none", "ok", "err"}
    BY <1>3, ReturnType
  <2> QED
    BY <1>2, <1>3, <2>1 DEF TypeOK
<1>4. act \in [Node -> Acts] /\ written \in [Node -> BOOLEAN] /\ outputs \in [Node -> Seq(Nat)]
  BY DEF TypeOK
<1>5. CASE Return(n, act, "err", NoNode, FALSE) /\ UNCHANGED <<written, outputs>>
  BY <1>3, <1>4, <1>5 DEF Signals
<1>6. ASSUME NEW f \in AcceptedFrames(n), f.out # NoOut
      PROVE  f.out \in Outs /\ f.out.scope \in Node /\ f.out.val \in Nat
             /\ f.out = [scope |-> f.out.scope, val |-> f.out.val]
  <2>1. f.out \in Outs
    BY <1>6 DEF AcceptedFrames, TypeOK, Frames
  <2> QED
    BY <1>6, <2>1, OutScope
<1>7. CASE Return(n, act, a.sig, a.to, FALSE) /\ UNCHANGED <<written, outputs>>
  BY <1>1, <1>3, <1>4, <1>7
<1>8. ASSUME NEW f \in AcceptedFrames(n), f.out # NoOut, DeferToState(n),
             Return(n, [act EXCEPT ![Parent[n]].out = [f.out EXCEPT !.scope = Parent[n]]], a.sig, a.to, FALSE),
             UNCHANGED <<written, outputs>>
      PROVE  TypeOK'
  <2> DEFINE p == Parent[n]
             o == [f.out EXCEPT !.scope = p]
  <2>1. p \in Node
    BY <1>8, NodeAssumption DEF DeferToState, EnclosedBy
  <2>2. o \in Outs
    BY <1>6, <1>8, <2>1 DEF Outs
  <2>3. [act[p] EXCEPT !.out = o] \in Acts
    <3>1. act[p] \in Acts
      BY <1>4, <2>1
    <3> HIDE DEF o
    <3> QED
      BY <2>2, <3>1 DEF Acts
  <2>4. [act EXCEPT ![p].out = o] \in [Node -> Acts]
    <3> HIDE DEF o
    <3> QED
      BY <1>4, <2>1, <2>3
  <2> HIDE DEF o
  <2> QED
    BY <1>1, <1>3, <1>4, <1>8, <2>4 DEF o
<1>9. ASSUME NEW f \in AcceptedFrames(n), f.out # NoOut,
             written' = [written EXCEPT ![f.out.scope] = TRUE],
             outputs' = [outputs EXCEPT ![Slot(f.out.scope)] = Append(@, f.out.val)],
             Return(n, act, a.sig, a.to, FALSE)
      PROVE  TypeOK'
  <2>1. Slot(f.out.scope) \in Node
    BY <1>6, <1>9, NodeAssumption DEF Slot, DeferToState, EnclosedBy
  <2>2. outputs' \in [Node -> Seq(Nat)]
    <3> DEFINE s == Slot(f.out.scope)
               v == f.out.val
    <3>1. v \in Nat
      BY <1>6, <1>9
    <3>2. outputs[s] \in Seq(Nat)
      BY <1>4, <2>1
    <3>3. outputs' = [outputs EXCEPT ![s] = Append(outputs[s], v)]
      BY <1>9
    <3> HIDE DEF s, v
    <3>4. Append(outputs[s], v) \in Seq(Nat)
      BY <3>1, <3>2
    <3> QED
      BY <1>4, <3>3, <3>4
  <2>3. written' \in [Node -> BOOLEAN]
    BY <1>4, <1>9
  <2> QED
    BY <1>1, <1>3, <1>4, <1>9, <2>2, <2>3
<1> QED
  BY <1>5, <1>7, <1>8, <1>9, Zenon DEF Settle

(* A failed scope keeps the types. *)
LEMMA FailScopeType == ASSUME TypeOK, NEW n \in Node, FailScope(n) PROVE TypeOK'
<1>1. act \in [Node -> Acts] /\ (act[n].fatal \/ n \in RetrySteps) \in BOOLEAN
  BY DEF TypeOK
<1>2. /\ at' \in Node \cup {NoNode}
      /\ frames' \in [Node -> SUBSET Frames]
      /\ act' \in [Node -> Acts]
      /\ result' \in {"none", "ok", "err"}
  BY <1>1, ReturnType DEF FailScope, Signals
<1> QED
  BY <1>2 DEF FailScope, TypeOK

(* A process starts with a well-typed state. *)
LEMMA StartActsType == StartActs \in [Node -> Acts]
<1>1. [Idle EXCEPT !.pc = "entry"] \in Acts
  BY IdleType DEF Acts, Pcs
<1> QED
  BY <1>1, IdleType DEF StartActs

(* The first process starts with the right types. *)
LEMMA InitType == Init => TypeOK
  BY StartActsType, NodeAssumption DEF Init, TypeOK

(* A process that takes over starts with the right types. *)
LEMMA CrashType == ASSUME TypeOK, Crash PROVE TypeOK'
  BY StartActsType, NodeAssumption DEF Crash, TypeOK

-----------------------------------------------------------------------------
(* Calls nest. *)

(* The call on top changes its own invocation and stays on top. *)
LEMMA LocalStack ==
  ASSUME act \in [Node -> Acts], CallStack, NEW n \in Node, n = at, act[n].pc \notin {"idle", "wait"},
         NEW b, act' = [act EXCEPT ![n] = b], at' = at, b.pc \notin {"idle", "wait", "resume"},
         b.kid # NoNode => Parent[b.kid] = n
  PROVE  CallStack'
<1>1. \A m \in Node : act'[m] = IF m = n THEN b ELSE act[m]
  OBVIOUS
<1>2. \A m \in Node : act'[m].pc # "idle" => m = at' \/ act'[m].pc = "wait"
  BY <1>1 DEF CallStack
<1>3. ASSUME NEW m \in Node, act'[m].pc # "idle", Parent[m] # NoNode
      PROVE  act'[Parent[m]].pc = "wait" /\ act'[Parent[m]].kid = m
  <2>1. act[m].pc # "idle"
    BY <1>1, <1>3
  <2>2. act[Parent[m]].pc = "wait" /\ act[Parent[m]].kid = m
    BY <1>3, <2>1 DEF CallStack
  <2> QED
    BY <1>1, <1>3, <2>2, NodeAssumption
<1>4. \A m \in Node : act'[m].kid # NoNode => Parent[act'[m].kid] = m
  BY <1>1 DEF CallStack
<1>5. \A m \in Node : act'[m].pc = "resume" => act'[m].kid # NoNode
  BY <1>1 DEF CallStack
<1> QED
  BY <1>2, <1>3, <1>4, <1>5 DEF CallStack

(* The call on top returns to the body that called it. *)
LEMMA ReturnStack ==
  ASSUME act \in [Node -> Acts], CallStack, NEW n \in Node, n = at, act[n].pc \notin {"idle", "wait"},
         NEW acts \in [Node -> Acts],
         \A m \in Node : acts[m].pc = act[m].pc /\ acts[m].kid = act[m].kid,
         NEW sig, NEW to, NEW fatal, Return(n, acts, sig, to, fatal)
  PROVE  CallStack'
<1> DEFINE p == Parent[n]
           up == [acts[p] EXCEPT !.pc = "resume", !.sig = sig, !.to = to, !.fatal = fatal]
<1>1. Idle.pc = "idle" /\ Idle.kid = NoNode
  BY DEF Idle
<1>2. act[n].pc # "idle"
  OBVIOUS
<1>3. \A m \in Node : m # n /\ m # p => act'[m].pc = act[m].pc /\ act'[m].kid = act[m].kid
  BY DEF Return
<1>4. CASE p = NoNode
  <2>1. act'[n] = Idle /\ at' = NoNode
    BY <1>4 DEF Return
  <2>2. \A m \in Node : m # n => act[m].pc \in {"idle", "wait"} /\ act'[m].pc = act[m].pc
                                  /\ act'[m].kid = act[m].kid
    BY <1>3, <1>4, NodeAssumption DEF CallStack
  <2>3. ASSUME NEW m \in Node, act'[m].pc # "idle", Parent[m] # NoNode
        PROVE  act'[Parent[m]].pc = "wait" /\ act'[Parent[m]].kid = m
    <3>1. m # n
      BY <1>1, <2>1, <2>3
    <3>2. act[Parent[m]].pc = "wait" /\ act[Parent[m]].kid = m /\ Parent[m] \in Node
      BY <2>2, <2>3, <3>1, NodeAssumption DEF CallStack
    <3> QED
      BY <2>2, <3>2
  <2> QED
    BY <1>1, <2>1, <2>2, <2>3 DEF CallStack
<1>5. CASE p # NoNode
  <2>1. p \in Node /\ p # n /\ n # NoNode
    BY <1>5, NodeAssumption, TreeAssumption
  <2>2. act' = [acts EXCEPT ![n] = Idle, ![p] = up] /\ at' = p
    BY <1>5 DEF Return
  <2>3. act[p].pc = "wait" /\ act[p].kid = n
    BY <1>2, <1>5 DEF CallStack
  <2>4. acts[p] \in Acts /\ up.pc = "resume" /\ up.kid = n
    BY <2>1, <2>3 DEF Acts
  <2>5. act'[n] = Idle /\ act'[p] = up
    <3> HIDE DEF up
    <3> QED
      BY <2>1, <2>2
  <2> HIDE DEF p, up
  <2>6. \A m \in Node : m # n => act[m].pc \in {"idle", "wait"}
    BY DEF CallStack
  <2>7. \A m \in Node : act'[m].pc # "idle" => m = at' \/ act'[m].pc = "wait"
    BY <1>1, <1>3, <2>2, <2>5, <2>6
  <2>8. ASSUME NEW m \in Node, act'[m].pc # "idle", Parent[m] # NoNode
        PROVE  act'[Parent[m]].pc = "wait" /\ act'[Parent[m]].kid = m
    <3>1. m # n
      BY <1>1, <2>5, <2>8
    <3>2. act[m].pc # "idle"
      BY <1>3, <2>3, <2>8, <3>1
    <3>3. Parent[m] \in Node /\ act[Parent[m]].pc = "wait" /\ act[Parent[m]].kid = m
      BY <2>8, <3>2, NodeAssumption DEF CallStack
    <3>4. Parent[m] # n /\ Parent[m] # p
      BY <2>3, <3>1, <3>3
    <3> QED
      BY <1>3, <3>3, <3>4
  <2>9. \A m \in Node : act'[m].kid # NoNode => Parent[act'[m].kid] = m
    BY <1>1, <1>3, <2>4, <2>5 DEF CallStack, p
  <2>10. \A m \in Node : act'[m].pc = "resume" => act'[m].kid # NoNode
    BY <1>1, <1>3, <2>1, <2>4, <2>5 DEF CallStack
  <2> QED
    BY <2>7, <2>8, <2>9, <2>10 DEF CallStack
<1> QED
  BY <1>4, <1>5

(* A body calls its next child. *)
LEMMA CallKidStack == ASSUME TypeOK, CallStack, NEW n \in Node, CallKid(n) PROVE CallStack'
<1> DEFINE k == act[n].kid
           called == [Idle EXCEPT !.pc = "entry",
                                  !.covered = act[n].covered \/ DeclaredCatch(n) # "none"]
<1>1. n = at /\ act[n].pc = "call" /\ k # NoNode /\ k \in Node
  BY DEF CallKid, At, TypeOK, Acts
<1>2. Parent[k] = n /\ k # n
  BY <1>1, TreeAssumption, NodeAssumption DEF CallStack
<1>3. act[n] \in Acts /\ called.pc = "entry" /\ called.kid = NoNode
  BY DEF TypeOK, Idle
<1>4. act' = [act EXCEPT ![n].pc = "wait", ![k] = called] /\ at' = k
  BY DEF CallKid
<1>5. act[k].pc = "idle"
  BY <1>1, <1>2, NodeAssumption DEF CallStack
<1> HIDE DEF called
<1>6. act'[n].pc = "wait" /\ act'[n].kid = k
  BY <1>1, <1>2, <1>3, <1>4 DEF TypeOK, Acts
<1>7. act'[k] = called
  BY <1>1, <1>2, <1>4 DEF TypeOK
<1>8. \A m \in Node : m # n /\ m # k => act'[m] = act[m]
  BY <1>4 DEF TypeOK
<1> HIDE DEF k
<1>9. ASSUME NEW m \in Node, act'[m].pc # "idle"
      PROVE  m = at' \/ act'[m].pc = "wait"
  <2>1. at' = k
    BY <1>4
  <2>2. CASE m # n /\ m # k
    BY <1>1, <1>8, <1>9, <2>2 DEF CallStack
  <2> QED
    BY <1>6, <2>1, <2>2
<1>10. ASSUME NEW m \in Node, act'[m].pc # "idle", Parent[m] # NoNode
       PROVE  act'[Parent[m]].pc = "wait" /\ act'[Parent[m]].kid = m
  <2>1. CASE m = k
    BY <1>2, <1>6, <2>1
  <2>2. CASE m # k
    <3>1. act[m].pc # "idle"
      BY <1>1, <1>8, <1>10, <2>2
    <3>2. Parent[m] \in Node /\ act[Parent[m]].pc = "wait" /\ act[Parent[m]].kid = m
      BY <1>10, <3>1, NodeAssumption DEF CallStack
    <3>3. Parent[m] # n /\ Parent[m] # k
      BY <1>1, <1>5, <3>2
    <3> QED
      BY <1>8, <3>2, <3>3
  <2> QED
    BY <2>1, <2>2
<1>11. \A m \in Node : act'[m].kid # NoNode => Parent[act'[m].kid] = m
  BY <1>2, <1>3, <1>6, <1>7, <1>8 DEF CallStack
<1>12. \A m \in Node : act'[m].pc = "resume" => act'[m].kid # NoNode
  BY <1>3, <1>6, <1>7, <1>8 DEF CallStack
<1> QED
  BY <1>9, <1>10, <1>11, <1>12 DEF CallStack

(* A body returns, its invocation otherwise as it was. *)
LEMMA ReturnBodyStack ==
  ASSUME TypeOK, CallStack, NEW n \in Node, n = at, act[n].pc \notin {"idle", "wait"}, at' = at,
         NEW a \in Acts, a.kid = act[n].kid, NEW sig, NEW fatal, ReturnBody(n, a, sig, fatal)
  PROVE  CallStack'
<1> DEFINE b == [a EXCEPT !.pc = "returned", !.sig = sig, !.fatal = fatal, !.caught = FALSE, !.last = a.cur]
<1>1. b.pc = "returned" /\ b.kid = act[n].kid
  BY DEF Acts
<1>2. act' = [act EXCEPT ![n] = b]
  BY DEF ReturnBody
<1>3. act[n].kid # NoNode => Parent[act[n].kid] = n
  BY DEF CallStack
<1> HIDE DEF b
<1> QED
  BY <1>1, <1>2, <1>3, LocalStack DEF TypeOK

(* Every step of the executor keeps calls nested. *)
LEMMA StepStack == ASSUME TypeOK, CallStack, NEW n \in Node, Step(n) PROVE CallStack'
<1> DEFINE a == act[n]
<1>1. act \in [Node -> Acts] /\ a \in Acts /\ (a.kid # NoNode => Parent[a.kid] = n)
  BY DEF TypeOK, CallStack
<1>2. CASE StartBody(n)
  <2> DEFINE b == [NewFrame(a) EXCEPT !.pc = "call", !.attempt = a.attempt + 1,
                                      !.kid = First[n], !.sig = "none", !.to = NoNode]
  <2>1. n = at /\ a.pc = "entry" /\ at' = at /\ act' = [act EXCEPT ![n] = b]
    BY <1>2 DEF StartBody, At
  <2>2. b.pc = "call" /\ b.kid = First[n]
    BY <1>1, NewFrameType DEF Acts
  <2>3. First[n] # NoNode => Parent[First[n]] = n
    BY TreeAssumption
  <2> HIDE DEF b
  <2> QED
    BY <1>1, <2>1, <2>2, <2>3, LocalStack
<1>3. CASE RunTask(n)
  <2>1. n = at /\ a.pc = "call" /\ at' = at
    BY <1>3 DEF RunTask, At
  <2>2. CASE ReturnBody(n, a, "err", FALSE)
    BY <1>1, <2>1, <2>2, ReturnBodyStack
  <2>3. CASE ReturnBody(n, [a EXCEPT !.out = [scope |-> n, val |-> pos + 1]], "ok", FALSE)
    <3>1. [scope |-> n, val |-> pos + 1] \in Outs
      BY DEF Outs, TypeOK
    <3>2. [a EXCEPT !.out = [scope |-> n, val |-> pos + 1]] \in Acts
          /\ [a EXCEPT !.out = [scope |-> n, val |-> pos + 1]].kid = a.kid
      BY <1>1, <3>1 DEF Acts
    <3> QED
      BY <2>1, <2>3, <3>2, ReturnBodyStack
  <2> QED
    BY <1>3, <2>2, <2>3 DEF RunTask
<1>4. CASE CallKid(n)
  BY <1>4, CallKidStack
<1>5. CASE FinishBody(n)
  <2>1. n = at /\ a.pc = "call" /\ at' = at
    BY <1>5 DEF FinishBody, At
  <2>2. [scope |-> n, val |-> pos] \in Outs
    BY DEF Outs, TypeOK
  <2>3. [a EXCEPT !.out = [scope |-> n, val |-> pos]] \in Acts
        /\ [a EXCEPT !.out = [scope |-> n, val |-> pos]].kid = a.kid
    BY <1>1, <2>2 DEF Acts
  <2>4. CASE Kind[n] \in {"sequence", "machine"}
    <3>1. ReturnBody(n, [a EXCEPT !.out = [scope |-> n, val |-> pos]], "ok", FALSE)
      BY <1>5, <2>4 DEF FinishBody
    <3> QED
      BY <2>1, <2>3, <3>1, ReturnBodyStack
  <2>5. CASE Kind[n] \notin {"sequence", "machine"}
    <3>1. ReturnBody(n, a, "ok", FALSE)
      BY <1>5, <2>5 DEF FinishBody
    <3> QED
      BY <1>1, <2>1, <3>1, ReturnBodyStack
  <2> QED
    BY <2>4, <2>5
<1>6. CASE Resume(n)
  <2>1. n = at /\ a.pc = "resume" /\ at' = at /\ a.kid \in Node
    BY <1>1, <1>6 DEF Resume, At, CallStack, Acts
  <2>2. ASSUME NEW k, k # NoNode => Parent[k] = n,
               act' = [act EXCEPT ![n] = [a EXCEPT !.pc = "call", !.kid = k]]
        PROVE  CallStack'
    <3>1. [a EXCEPT !.pc = "call", !.kid = k].pc = "call" /\ [a EXCEPT !.pc = "call", !.kid = k].kid = k
      BY <1>1 DEF Acts
    <3> QED
      BY <1>1, <2>1, <2>2, <3>1, LocalStack
  <2>3. Succ[a.kid] # NoNode => Parent[Succ[a.kid]] = n
    BY <1>1, <2>1, TreeAssumption, NodeAssumption
  <2>4. ASSUME NEW sig, NEW fatal, ReturnBody(n, a, sig, fatal)
        PROVE  CallStack'
    BY <1>1, <2>1, <2>4, ReturnBodyStack
  <2>5. CASE act' = [act EXCEPT ![n] = [a EXCEPT !.pc = "call", !.kid = Succ[a.kid]]]
    BY <2>2, <2>3, <2>5
  <2>6. CASE act' = [act EXCEPT ![n] = [a EXCEPT !.pc = "call", !.kid = a.to]] /\ IsStateOf(a.to, n)
    BY <2>2, <2>6 DEF IsStateOf
  <2> QED
    BY <1>6, <2>4, <2>5, <2>6, Zenon DEF Resume
<1>7. CASE Decide(n)
  <2>1. n = at /\ a.pc = "returned" /\ at' = at
    BY <1>7 DEF Decide, At
  <2>2. PICK b : /\ act' = [act EXCEPT ![n] = b]
                 /\ b.pc \in {"accepted", "returned", "handling", "entry", "failed"}
                 /\ b.kid = a.kid
    <3> DEFINE took == [a EXCEPT !.pc = "accepted", !.acc = RecordedFrame(a.cur)]
               late == [a EXCEPT !.sig = "err", !.fatal = TRUE]
               caught == [a EXCEPT !.pc = "handling", !.caught = TRUE]
               again == [a EXCEPT !.pc = "entry"]
               lost == [a EXCEPT !.pc = "failed"]
    <3>1. /\ took.pc = "accepted" /\ took.kid = a.kid
          /\ late.pc = "returned" /\ late.kid = a.kid
          /\ caught.pc = "handling" /\ caught.kid = a.kid
          /\ again.pc = "entry" /\ again.kid = a.kid
          /\ lost.pc = "failed" /\ lost.kid = a.kid
      BY <1>1, <2>1 DEF Acts
    <3>2. \E b \in {took, late, caught, again, lost} : act' = [act EXCEPT ![n] = b]
      <4>1. \/ act' = [act EXCEPT ![n] = took]
            \/ act' = [act EXCEPT ![n] = late]
            \/ act' = [act EXCEPT ![n] = caught]
            \/ act' = [act EXCEPT ![n] = again]
            \/ act' = [act EXCEPT ![n] = lost]
        BY <1>7, Zenon DEF Decide
      <4> HIDE DEF took, late, caught, again, lost
      <4> QED
        BY <4>1, Zenon
    <3> HIDE DEF took, late, caught, again, lost
    <3> QED
      BY <3>1, <3>2
  <2> QED
    BY <1>1, <2>1, <2>2, LocalStack
<1>8. CASE Handle(n)
  <2>1. n = at /\ a.pc = "handling" /\ at' = at
    BY <1>8 DEF Handle, At
  <2> DEFINE f == NewFrame(a)
  <2>2. f \in Acts /\ f.kid = a.kid
    BY <1>1, NewFrameType DEF NewFrame, Acts
  <2>3. PICK b : /\ act' = [act EXCEPT ![n] = b]
                 /\ b.pc \in {"accepted", "returned", "failed"}
                 /\ b.kid = a.kid
    <3> HIDE DEF f
    <3>1. ASSUME NEW pc PROVE [f EXCEPT !.pc = pc].pc = pc /\ [f EXCEPT !.pc = pc].kid = a.kid
      BY <2>2 DEF Acts
    <3> DEFINE done(sig, out) == [f EXCEPT !.pc = "accepted", !.sig = sig, !.out = out, !.last = f.cur,
                                           !.acc = RecordedFrame(f.cur)]
               handled == done(IF Kind[n] = "policy" THEN "handled" ELSE "ok",
                               [scope |-> CompletedBy(n), val |-> pos])
               routed == [done("route", NoOut) EXCEPT !.to = RouteTo[CompletedBy(n)]]
    <3>2. handled.pc = "accepted" /\ handled.kid = a.kid /\ routed.pc = "accepted" /\ routed.kid = a.kid
      BY <2>2 DEF Acts
    <3>3. CASE act' = [act EXCEPT ![n] = handled]
      <4> HIDE DEF handled
      <4> QED
        BY <3>2, <3>3
    <3>4. CASE act' = [act EXCEPT ![n] = routed]
      <4> HIDE DEF routed
      <4> QED
        BY <3>2, <3>4
    <3>5. CASE act' = [act EXCEPT ![n] = [f EXCEPT !.pc = "returned"]]
      BY <3>1, <3>5, Zenon
    <3>6. CASE act' = [act EXCEPT ![n] = [f EXCEPT !.pc = "failed"]]
      BY <3>1, <3>6, Zenon
    <3> QED
      BY <1>8, <3>3, <3>4, <3>5, <3>6, Zenon DEF Handle, f
  <2> QED
    BY <1>1, <2>1, <2>3, LocalStack
<1>9. CASE Settle(n)
  <2>1. n = at /\ a.pc = "accepted" /\ a.sig \in Signals /\ a.to \in Node \cup {NoNode} /\ "err" \in Signals
    BY <1>1, <1>9 DEF Settle, At, Acts, Signals
  <2>2. PICK acts \in [Node -> Acts], sig \in Signals, to \in Node \cup {NoNode} :
           /\ Return(n, acts, sig, to, FALSE)
           /\ \A m \in Node : acts[m].pc = act[m].pc /\ acts[m].kid = act[m].kid
    <3>1. CASE Return(n, act, "err", NoNode, FALSE) \/ Return(n, act, a.sig, a.to, FALSE)
      BY <1>1, <2>1, <3>1
    <3>2. ASSUME NEW f \in AcceptedFrames(n), f.out # NoOut, DeferToState(n),
                 Return(n, [act EXCEPT ![Parent[n]].out = [f.out EXCEPT !.scope = Parent[n]]],
                        a.sig, a.to, FALSE)
          PROVE  \E acts \in [Node -> Acts], sig \in Signals, to \in Node \cup {NoNode} :
                    /\ Return(n, acts, sig, to, FALSE)
                    /\ \A m \in Node : acts[m].pc = act[m].pc /\ acts[m].kid = act[m].kid
      <4> DEFINE p == Parent[n]
                 o == [f.out EXCEPT !.scope = p]
                 acts == [act EXCEPT ![p].out = o]
      <4>1. p \in Node /\ act[p] \in Acts
        BY <1>1, <3>2, NodeAssumption DEF DeferToState, EnclosedBy
      <4>2. o \in Outs
        <5>1. f.out \in Outs
          BY DEF AcceptedFrames, TypeOK, Frames
        <5> QED
          BY <3>2, <4>1, <5>1, OutScope DEF Outs
      <4> HIDE DEF o
      <4>3. [act[p] EXCEPT !.out = o] \in Acts /\ [act[p] EXCEPT !.out = o].pc = act[p].pc
            /\ [act[p] EXCEPT !.out = o].kid = act[p].kid
        BY <4>1, <4>2 DEF Acts
      <4>4. acts \in [Node -> Acts]
        BY <1>1, <4>1, <4>3
      <4>5. \A m \in Node : acts[m].pc = act[m].pc /\ acts[m].kid = act[m].kid
        BY <1>1, <4>1, <4>3
      <4>6. Return(n, acts, a.sig, a.to, FALSE)
        BY <3>2 DEF o
      <4> HIDE DEF acts
      <4> QED
        BY <2>1, <4>4, <4>5, <4>6
    <3> QED
      BY <1>9, <3>1, <3>2, Zenon DEF Settle
  <2> QED
    BY <1>1, <2>1, <2>2, ReturnStack
<1>10. CASE FailScope(n)
  <2>1. n = at /\ a.pc = "failed"
    BY <1>10 DEF FailScope, At
  <2>2. Return(n, act, "err", NoNode, act[n].fatal \/ n \in RetrySteps)
    BY <1>10 DEF FailScope
  <2> QED
    BY <1>1, <2>1, <2>2, ReturnStack
<1> QED
  BY <1>2, <1>3, <1>4, <1>5, <1>6, <1>7, <1>8, <1>9, <1>10 DEF Step

(* A new process has only the root's call open. *)
LEMMA StartStack ==
  ASSUME act = StartActs, at = Root
  PROVE  CallStack
  BY NodeAssumption, TreeAssumption DEF StartActs, CallStack, Idle

-----------------------------------------------------------------------------
(* What an executor always satisfies: the first inductive invariant. *)
Nested == TypeOK /\ CallStack

(* The first process's call stack is the root alone. *)
LEMMA NestedInit == Init => Nested
  BY InitType, StartStack DEF Init, Nested

(* Every step keeps the call stack well nested. *)
LEMMA NestedStep == Nested /\ [Next]_vars => Nested'
<1> SUFFICES ASSUME TypeOK, CallStack, [Next]_vars PROVE TypeOK' /\ CallStack'
  BY DEF Nested
<1>1. ASSUME NEW n \in Node, Step(n) PROVE TypeOK' /\ CallStack'
  <2>1. TypeOK'
    BY <1>1, StartBodyType, RunTaskType, CallKidType, FinishBodyType, ResumeType,
       DecideType, HandleType, SettleType, FailScopeType DEF Step
  <2> QED
    BY <1>1, <2>1, StepStack
<1>2. CASE Crash
  <2>1. act' = StartActs /\ at' = Root
    BY <1>2 DEF Crash
  <2>2. CallStack'
    BY <2>1, NodeAssumption, TreeAssumption DEF StartActs, CallStack, Idle
  <2> QED
    BY <1>2, <2>2, CrashType
<1>3. CASE UNCHANGED vars
  BY <1>3 DEF vars, TypeOK, CallStack
<1> QED
  BY <1>1, <1>2, <1>3 DEF Next, JobOver

(* The executor's state keeps the shape its code gives it, for every recipe *)
(* and every number of failures, retries, catches and crashes.              *)
THEOREM TypeCorrect == Spec => []TypeOK
<1>1. Nested => TypeOK
  BY DEF Nested
<1> QED
  BY <1>1, NestedInit, NestedStep, PTL DEF Spec

-----------------------------------------------------------------------------
(* Publication. *)

(* The contexts that scope k completes: its own and, when it runs the catch *)
(* of a machine that continues, the machine's.                              *)
Completes(k, s) == s = k \/ (Kind[k] = "policy" /\ Catch[Parent[k]] = "continue" /\ s = Parent[k])

(* The slots that scope k fills. *)
Fills(k, n) == k = n \/ (Kind[k] = "policy" /\ Catch[Parent[k]] = "continue" /\ n = Slot(Parent[k]))

(* Every output that is shown was accepted for a scope that fills its slot. *)
ShownWasAccepted ==
    \A n \in Node : \A i \in DOMAIN outputs[n] : \E k \in Node : Fills(k, n) /\ outputs[n][i] \in accepted[k]

(* Every prepared output completes a context of the scope that prepared it. *)
OwnOutputs ==
    \A n \in Node : /\ act[n].out # NoOut => Completes(n, act[n].out.scope)
                    /\ \A f \in frames[n] : f.out # NoOut => Completes(n, f.out.scope)

(* What the caller of an accepted scope is about to publish was accepted. *)
OutcomeAccepted ==
    \A n \in Node : act[n].pc = "accepted" => OutputsOf(frames[n], act[n].acc) \subseteq accepted[n]

(* ShownWasAccepted is not inductive by itself: the publishing step needs   *)
(* to know what the accepted frame holds and whose slot it fills.           *)
PublicationInv == Nested /\ ShownWasAccepted /\ OwnOutputs /\ OutcomeAccepted

(* The recipes without a machine-level catch clause that continues; the run *)
(* of MCRecipeMachineCatchDoc shows that PublishedWasAccepted needs it.     *)
NoMachineContinues == \A n \in Node : Kind[n] = "machine" => Catch[n] # "continue"

(* The call on top changes its invocation and may save its frame; what its  *)
(* context shows stays, or is emptied.                                      *)
LEMMA LocalPublication ==
  ASSUME TypeOK, ShownWasAccepted, OwnOutputs, OutcomeAccepted, NEW n \in Node,
         NEW b, act' = [act EXCEPT ![n] = b], b.out # NoOut => Completes(n, b.out.scope),
         NEW i, frames' = frames \/ frames' = [frames EXCEPT ![n] = @ \cup {[id |-> i, out |-> b.out]}],
         b.pc = "accepted" => OutputsOf(frames'[n], b.acc) \subseteq accepted'[n],
         \A m \in Node : accepted[m] \subseteq accepted'[m],
         \A m \in Node : outputs'[m] \in {outputs[m], <<>>}
  PROVE  ShownWasAccepted' /\ OwnOutputs' /\ OutcomeAccepted'
<1>1. \A m \in Node : act'[m] = IF m = n THEN b ELSE act[m]
  BY DEF TypeOK
<1>2. \A m \in Node : m # n => frames'[m] = frames[m]
  BY DEF TypeOK
<1>3. \A f \in frames'[n] : f \in frames[n] \/ f.out = b.out
  BY DEF TypeOK
<1>4. ShownWasAccepted'
  <2> SUFFICES ASSUME NEW m \in Node, NEW j \in DOMAIN outputs'[m] PROVE \E k \in Node : Fills(k, m) /\ outputs'[m][j] \in accepted'[k]
    BY DEF ShownWasAccepted
  <2>1. outputs'[m] = outputs[m]
    OBVIOUS
  <2> QED
    BY <2>1 DEF ShownWasAccepted
<1>5. OwnOutputs'
  BY <1>1, <1>2, <1>3 DEF OwnOutputs
<1>6. OutcomeAccepted'
  <2> SUFFICES ASSUME NEW m \in Node, act'[m].pc = "accepted"
               PROVE  OutputsOf(frames'[m], act'[m].acc) \subseteq accepted'[m]
    BY DEF OutcomeAccepted, OutputsOf
  <2> QED
    BY <1>1, <1>2 DEF OutcomeAccepted
<1> QED
  BY <1>4, <1>5, <1>6

(* A body returns with an output of its own, or none. *)
LEMMA ReturnBodyPublication ==
  ASSUME TypeOK, ShownWasAccepted, OwnOutputs, OutcomeAccepted, NEW n \in Node,
         NEW a \in Acts, a.out # NoOut => Completes(n, a.out.scope), NEW sig, NEW fatal,
         ReturnBody(n, a, sig, fatal), UNCHANGED <<outputs, accepted>>
  PROVE  ShownWasAccepted' /\ OwnOutputs' /\ OutcomeAccepted'
<1> DEFINE b == [a EXCEPT !.pc = "returned", !.sig = sig, !.fatal = fatal, !.caught = FALSE, !.last = a.cur]
<1>1. b.pc = "returned" /\ b.out = a.out
  BY DEF Acts
<1>2. act' = [act EXCEPT ![n] = b] /\ frames' = [frames EXCEPT ![n] = @ \cup {[id |-> a.cur, out |-> a.out]}]
  BY DEF ReturnBody, SaveFrame
<1> HIDE DEF b
<1>3. frames' = [frames EXCEPT ![n] = @ \cup {[id |-> a.cur, out |-> b.out]}]
  BY <1>1, <1>2
<1>4. /\ \A m \in Node : accepted[m] \subseteq accepted'[m]
      /\ \A m \in Node : outputs'[m] \in {outputs[m], <<>>}
  OBVIOUS
<1>5. (b.out # NoOut => Completes(n, b.out.scope)) /\ b.pc # "accepted"
  BY <1>1
<1>6. act' = [act EXCEPT ![n] = b]
  BY <1>2
<1> QED
  BY <1>3, <1>4, <1>5, <1>6, LocalPublication

(* executeNodeScope returns.  Its caller may have been handed an output of  *)
(* its own, and the slot of n may have grown by an accepted output.         *)
LEMMA ReturnPublication ==
  ASSUME TypeOK, ShownWasAccepted, OwnOutputs, OutcomeAccepted, NEW n \in Node,
         NEW acts \in [Node -> Acts], NEW sig, NEW to, NEW fatal, Return(n, acts, sig, to, fatal),
         \A m \in Node : m # Parent[n] => acts[m] = act[m],
         \A m \in Node : acts[m].out # NoOut => Completes(m, acts[m].out.scope),
         ShownWasAccepted', accepted' = accepted
  PROVE  OwnOutputs' /\ OutcomeAccepted'
<1> DEFINE p == Parent[n]
           up == [acts[p] EXCEPT !.pc = "resume", !.sig = sig, !.to = to, !.fatal = fatal]
<1>1. Idle.pc = "idle" /\ Idle.out = NoOut
  BY DEF Idle
<1>2. frames' = [frames EXCEPT ![n] = {}]
  BY DEF Return
<1>3. ASSUME NEW m \in Node, m # n, m # p PROVE act'[m] = act[m]
  <2>1. acts[m] = act[m]
    BY <1>3
  <2>2. CASE p = NoNode
    BY <1>3, <2>1, <2>2 DEF Return
  <2>3. CASE p # NoNode
    <3>1. act' = [acts EXCEPT ![n] = Idle, ![p] = up]
      BY <2>3 DEF Return
    <3> HIDE DEF p, up
    <3> QED
      BY <1>3, <2>1, <3>1
  <2> QED
    BY <2>2, <2>3
<1>4. act'[n].pc = "idle" /\ act'[n].out = NoOut
  <2>1. p # n
    BY NodeAssumption, TreeAssumption
  <2> QED
    BY <1>1, <2>1, NodeAssumption DEF Return
<1>5. p \in Node => act'[p].pc = "resume" /\ act'[p].out = acts[p].out
  <2> SUFFICES ASSUME p \in Node PROVE act'[p].pc = "resume" /\ act'[p].out = acts[p].out
    OBVIOUS
  <2>1. up.pc = "resume" /\ up.out = acts[p].out
    BY DEF Acts
  <2>2. act' = [acts EXCEPT ![n] = Idle, ![p] = up] /\ p # NoNode
    BY NodeAssumption DEF Return
  <2> HIDE DEF up, p
  <2> QED
    BY <2>1, <2>2
<1> HIDE DEF p, up
<1>6. OwnOutputs'
  <2> SUFFICES ASSUME NEW m \in Node
               PROVE  /\ act'[m].out # NoOut => Completes(m, act'[m].out.scope)
                      /\ \A f \in frames'[m] : f.out # NoOut => Completes(m, f.out.scope)
    BY DEF OwnOutputs
  <2>1. act'[m].out # NoOut => Completes(m, act'[m].out.scope)
    BY <1>3, <1>4, <1>5 DEF OwnOutputs
  <2> QED
    BY <1>2, <2>1 DEF OwnOutputs, TypeOK
<1>7. OutcomeAccepted'
  <2> SUFFICES ASSUME NEW m \in Node, act'[m].pc = "accepted"
               PROVE  OutputsOf(frames'[m], act'[m].acc) \subseteq accepted'[m]
    BY DEF OutcomeAccepted, OutputsOf
  <2>1. m # n /\ m # p
    BY <1>4, <1>5
  <2>2. act'[m] = act[m] /\ frames'[m] = frames[m]
    BY <1>2, <1>3, <2>1 DEF TypeOK
  <2> QED
    BY <2>2 DEF OutcomeAccepted
<1> QED
  BY <1>6, <1>7

(* Every step of the executor publishes only what was accepted. *)
LEMMA StepPublication ==
  ASSUME Nested, ShownWasAccepted, OwnOutputs, OutcomeAccepted, NEW n \in Node, Step(n)
  PROVE  ShownWasAccepted' /\ OwnOutputs' /\ OutcomeAccepted'
<1> DEFINE a == act[n]
           Pub == ShownWasAccepted' /\ OwnOutputs' /\ OutcomeAccepted'
<1>1. TypeOK /\ act \in [Node -> Acts] /\ a \in Acts /\ (a.out # NoOut => Completes(n, a.out.scope))
  BY DEF Nested, TypeOK, OwnOutputs
<1>2. ASSUME UNCHANGED <<outputs, accepted>>, NEW sig, NEW fatal, ReturnBody(n, a, sig, fatal)
      PROVE  Pub
  BY <1>1, <1>2, ReturnBodyPublication
<1>3. ASSUME UNCHANGED <<outputs, accepted>>, NEW v, NEW sig, NEW fatal, [scope |-> n, val |-> v] \in Outs,
             ReturnBody(n, [a EXCEPT !.out = [scope |-> n, val |-> v]], sig, fatal)
      PROVE  Pub
  <2> DEFINE o == [scope |-> n, val |-> v]
             b == [a EXCEPT !.out = o]
  <2>1. o.scope = n /\ o \in Outs
    BY <1>3
  <2>2. b \in Acts /\ b.out = o
    <3> HIDE DEF o
    <3> QED
      BY <1>1, <2>1 DEF Acts
  <2>3. ReturnBody(n, b, sig, fatal)
    BY <1>3
  <2>4. Completes(n, o.scope)
    BY <2>1 DEF Completes
  <2> HIDE DEF o, b
  <2> QED
    BY <1>1, <1>3, <2>1, <2>2, <2>3, <2>4, ReturnBodyPublication
<1>4. CASE StartBody(n)
  <2> DEFINE b == [NewFrame(a) EXCEPT !.pc = "call", !.attempt = a.attempt + 1,
                                      !.kid = First[n], !.sig = "none", !.to = NoNode]
  <2>1. b.pc = "call" /\ b.out = NoOut
    BY <1>1, NewFrameType DEF Acts
  <2>2. act' = [act EXCEPT ![n] = b] /\ frames' = frames /\ accepted' = accepted
    BY <1>4 DEF StartBody
  <2>3. \A m \in Node : outputs'[m] \in {outputs[m], <<>>}
    BY <1>4 DEF StartBody
  <2> HIDE DEF b
  <2> QED
    BY <1>1, <2>1, <2>2, <2>3, LocalPublication
<1>5. CASE RunTask(n)
  <2>1. [scope |-> n, val |-> pos + 1] \in Outs
    BY <1>1 DEF Outs, TypeOK
  <2> QED
    BY <1>2, <1>3, <1>5, <2>1 DEF RunTask
<1>6. CASE CallKid(n)
  <2> DEFINE k == a.kid
             called == [Idle EXCEPT !.pc = "entry", !.covered = a.covered \/ DeclaredCatch(n) # "none"]
  <2>1. act' = [act EXCEPT ![n].pc = "wait", ![k] = called]
        /\ UNCHANGED <<frames, outputs, accepted>>
    BY <1>6 DEF CallKid
  <2>2. called.pc = "entry" /\ called.out = NoOut
    BY DEF Idle
  <2> HIDE DEF called, k
  <2>3. \A m \in Node : act'[m] \in {act[m], called, [a EXCEPT !.pc = "wait"]}
    BY <1>1, <2>1
  <2>4. \A m \in Node : act'[m] = [a EXCEPT !.pc = "wait"] => act'[m].pc = "wait" /\ act'[m].out = a.out
    BY <1>1 DEF Acts
  <2>5. \A m \in Node : \/ act'[m] = act[m]
                        \/ act'[m].pc # "accepted" /\ act'[m].out = NoOut
                        \/ m = n /\ act'[m].pc = "wait" /\ act'[m].out = a.out
    <3> TAKE m \in Node
    <3>1. CASE act'[m] = called
      BY <2>2, <3>1
    <3>2. CASE act'[m] # act[m] /\ act'[m] # called
      <4>1. m = n
        BY <1>1, <2>1, <3>2
      <4> QED
        BY <2>3, <2>4, <3>2, <4>1
    <3> QED
      BY <3>1, <3>2
  <2>6. OwnOutputs'
    BY <1>1, <2>1, <2>5 DEF OwnOutputs
  <2>7. ShownWasAccepted'
    BY <2>1 DEF ShownWasAccepted
  <2>8. OutcomeAccepted'
    <3> SUFFICES ASSUME NEW m \in Node, act'[m].pc = "accepted"
                 PROVE  OutputsOf(frames'[m], act'[m].acc) \subseteq accepted'[m]
      BY DEF OutcomeAccepted, OutputsOf
    <3> QED
      BY <2>1, <2>5 DEF OutcomeAccepted
  <2> QED
    BY <2>6, <2>7, <2>8
<1>7. CASE FinishBody(n)
  <2>1. [scope |-> n, val |-> pos] \in Outs
    BY <1>1 DEF Outs, TypeOK
  <2> QED
    BY <1>2, <1>3, <1>7, <2>1 DEF FinishBody
<1>8. CASE Resume(n)
  <2>1. UNCHANGED <<outputs, accepted>>
    BY <1>8 DEF Resume
  <2>2. ASSUME NEW k, act' = [act EXCEPT ![n] = [a EXCEPT !.pc = "call", !.kid = k]], UNCHANGED frames
        PROVE  Pub
    <3> DEFINE b == [a EXCEPT !.pc = "call", !.kid = k]
    <3>1. b.pc = "call" /\ b.out = a.out
      BY <1>1 DEF Acts
    <3>2. act' = [act EXCEPT ![n] = b]
      BY <2>2
    <3> HIDE DEF b
    <3> QED
      BY <1>1, <2>1, <2>2, <3>1, <3>2, LocalPublication
  <2> QED
    BY <1>2, <1>8, <2>1, <2>2, Zenon DEF Resume
<1>9. CASE Decide(n)
  <2>1. UNCHANGED <<frames, outputs>>
    BY <1>9 DEF Decide
  <2>2. CASE /\ act' = [act EXCEPT ![n] = [a EXCEPT !.pc = "accepted", !.acc = RecordedFrame(a.cur)]]
             /\ accepted' = [accepted EXCEPT ![n] = @ \cup OutputsOf(frames[n], RecordedFrame(a.cur))]
    <3> DEFINE r == RecordedFrame(a.cur)
               b == [a EXCEPT !.pc = "accepted", !.acc = r]
    <3>1. b.acc = r /\ b.out = a.out
      BY <1>1 DEF Acts
    <3>2. act' = [act EXCEPT ![n] = b]
      BY <2>2
    <3>3. accepted' = [accepted EXCEPT ![n] = @ \cup OutputsOf(frames[n], r)]
      BY <2>2
    <3>4. \A m \in Node : accepted[m] \subseteq accepted'[m]
      BY <1>1, <3>3 DEF TypeOK
    <3>5. OutputsOf(frames'[n], b.acc) \subseteq accepted'[n]
      BY <1>1, <2>1, <3>1, <3>3 DEF TypeOK
    <3> HIDE DEF b, r
    <3> QED
      BY <1>1, <2>1, <3>1, <3>2, <3>4, <3>5, LocalPublication
  <2>3. ASSUME NEW b, act' = [act EXCEPT ![n] = b], b.pc # "accepted", b.out = a.out, UNCHANGED accepted
        PROVE  Pub
    BY <1>1, <2>1, <2>3, LocalPublication
  <2>4. CASE act' = [act EXCEPT ![n] = [a EXCEPT !.sig = "err", !.fatal = TRUE]] /\ UNCHANGED accepted
    <3>1. a.pc = "returned"
      BY <1>9 DEF Decide, At
    <3>2. [a EXCEPT !.sig = "err", !.fatal = TRUE].pc # "accepted"
          /\ [a EXCEPT !.sig = "err", !.fatal = TRUE].out = a.out
      BY <1>1, <3>1 DEF Acts
    <3> QED
      BY <2>3, <2>4, <3>2
  <2>5. CASE act' = [act EXCEPT ![n] = [a EXCEPT !.pc = "handling", !.caught = TRUE]] /\ UNCHANGED accepted
    <3>1. [a EXCEPT !.pc = "handling", !.caught = TRUE].pc # "accepted"
          /\ [a EXCEPT !.pc = "handling", !.caught = TRUE].out = a.out
      BY <1>1 DEF Acts
    <3> QED
      BY <2>3, <2>5, <3>1
  <2>6. ASSUME NEW pc, pc # "accepted", act' = [act EXCEPT ![n] = [a EXCEPT !.pc = pc]], UNCHANGED accepted
        PROVE  Pub
    <3>1. [a EXCEPT !.pc = pc].pc # "accepted" /\ [a EXCEPT !.pc = pc].out = a.out
      BY <1>1, <2>6 DEF Acts
    <3> QED
      BY <2>3, <2>6, <3>1
  <2>7. "entry" # "accepted" /\ "failed" # "accepted"
    OBVIOUS
  <2> QED
    BY <1>9, <2>2, <2>4, <2>5, <2>6, <2>7, Zenon DEF Decide
<1>10. CASE Handle(n)
  <2> DEFINE f == NewFrame(a)
             done(sig, out) == [f EXCEPT !.pc = "accepted", !.sig = sig, !.out = out, !.last = f.cur,
                                         !.acc = RecordedFrame(f.cur)]
             handled == done(IF Kind[n] = "policy" THEN "handled" ELSE "ok",
                             [scope |-> CompletedBy(n), val |-> pos])
             routed == [done("route", NoOut) EXCEPT !.to = RouteTo[CompletedBy(n)]]
  <2>1. UNCHANGED outputs
    BY <1>10 DEF Handle
  <2>2. f \in Acts /\ f.out = NoOut
    BY <1>1, NewFrameType
  <2>3. ASSUME NEW b, b.out # NoOut => Completes(n, b.out.scope), act' = [act EXCEPT ![n] = b], SaveFrame(n, b),
               accepted' = [accepted EXCEPT ![n] = @ \cup OutputsOf(frames'[n], b.acc)]
        PROVE  Pub
    <3>1. frames' = [frames EXCEPT ![n] = @ \cup {[id |-> b.cur, out |-> b.out]}]
      BY <2>3 DEF SaveFrame
    <3>2. \A m \in Node : accepted[m] \subseteq accepted'[m]
      BY <1>1, <2>3 DEF TypeOK
    <3>3. OutputsOf(frames'[n], b.acc) \subseteq accepted'[n]
      BY <1>1, <2>3 DEF TypeOK
    <3>4. \A m \in Node : outputs'[m] \in {outputs[m], <<>>}
      BY <2>1
    <3> QED
      BY <1>1, <2>3, <3>1, <3>2, <3>3, <3>4, LocalPublication
  <2>4. CASE /\ CatchRules(n) = "continue"
             /\ act' = [act EXCEPT ![n] = handled]
             /\ SaveFrame(n, handled)
             /\ accepted' = [accepted EXCEPT ![n] = @ \cup OutputsOf(frames'[n], handled.acc)]
    <3>1. Completes(n, CompletedBy(n))
      <4>1. Kind[n] = "policy" => Catch[Parent[n]] = "continue"
        BY <2>4 DEF CatchRules, DeclaredCatch
      <4> QED
        BY <4>1 DEF Completes, CompletedBy
    <3>2. handled.out = [scope |-> CompletedBy(n), val |-> pos]
      <4> HIDE DEF f
      <4> QED
        BY <2>2 DEF Acts
    <3>3. Completes(n, handled.out.scope)
      <4>1. handled.out.scope = CompletedBy(n)
        BY <3>2
      <4> HIDE DEF handled
      <4> QED
        BY <3>1, <4>1
    <3> HIDE DEF handled
    <3> QED
      BY <2>3, <2>4, <3>3
  <2>5. CASE /\ act' = [act EXCEPT ![n] = routed]
             /\ SaveFrame(n, routed)
             /\ accepted' = [accepted EXCEPT ![n] = @ \cup OutputsOf(frames'[n], routed.acc)]
    <3>1. routed.out = NoOut
      <4> HIDE DEF f
      <4> QED
        BY <2>2 DEF Acts
    <3> HIDE DEF routed
    <3> QED
      BY <2>3, <2>5, <3>1
  <2>6. ASSUME NEW pc, pc # "accepted", act' = [act EXCEPT ![n] = [f EXCEPT !.pc = pc]],
               UNCHANGED <<frames, accepted>>
        PROVE  Pub
    <3> DEFINE b == [f EXCEPT !.pc = pc]
    <3>1. b.pc # "accepted" /\ b.out = NoOut
      <4> HIDE DEF f
      <4> QED
        BY <2>2, <2>6 DEF Acts
    <3>2. act' = [act EXCEPT ![n] = b]
      BY <2>6
    <3> HIDE DEF b
    <3> QED
      BY <1>1, <2>1, <2>6, <3>1, <3>2, LocalPublication
  <2>7. "returned" # "accepted" /\ "failed" # "accepted"
    OBVIOUS
  <2> QED
    BY <1>10, <2>4, <2>5, <2>6, <2>7, Zenon DEF Handle
<1>11. CASE Settle(n)
  <2>1. accepted' = accepted /\ a.pc = "accepted"
    BY <1>11 DEF Settle, At
  <2>2. ASSUME UNCHANGED outputs PROVE ShownWasAccepted'
    BY <2>1, <2>2 DEF ShownWasAccepted
  <2>3. \A m \in Node : act[m].out # NoOut => Completes(m, act[m].out.scope)
    BY DEF OwnOutputs
  <2>4. ASSUME NEW sig, NEW to, Return(n, act, sig, to, FALSE), ShownWasAccepted'
        PROVE  Pub
    BY <1>1, <2>1, <2>3, <2>4, ReturnPublication
  <2>5. CASE Return(n, act, "err", NoNode, FALSE) /\ UNCHANGED <<written, outputs>>
    BY <2>2, <2>4, <2>5
  <2>6. CASE Return(n, act, a.sig, a.to, FALSE) /\ UNCHANGED <<written, outputs>>
    BY <2>2, <2>4, <2>6
  <2>7. ASSUME NEW f \in AcceptedFrames(n), f.out # NoOut, DeferToState(n),
               Return(n, [act EXCEPT ![Parent[n]].out = [f.out EXCEPT !.scope = Parent[n]]], a.sig, a.to, FALSE),
               UNCHANGED <<written, outputs>>
        PROVE  Pub
    <3> DEFINE p == Parent[n]
               o == [f.out EXCEPT !.scope = p]
               acts == [act EXCEPT ![p].out = o]
    <3>1. p \in Node /\ act[p] \in Acts
      BY <1>1, <2>7, NodeAssumption DEF DeferToState, EnclosedBy
    <3>2. o \in Outs /\ o.scope = p
      <4>1. f.out \in Outs
        BY <1>1 DEF AcceptedFrames, TypeOK, Frames
      <4> QED
        BY <2>7, <3>1, <4>1, OutScope DEF Outs
    <3>3. Return(n, acts, a.sig, a.to, FALSE)
      BY <2>7
    <3> HIDE DEF o
    <3>4. [act[p] EXCEPT !.out = o] \in Acts /\ [act[p] EXCEPT !.out = o].out = o
      BY <3>1, <3>2 DEF Acts
    <3>5. acts \in [Node -> Acts] /\ acts[p].out = o /\ (\A m \in Node : m # p => acts[m] = act[m])
      BY <1>1, <3>1, <3>4
    <3> HIDE DEF acts
    <3>6. \A m \in Node : acts[m].out # NoOut => Completes(m, acts[m].out.scope)
      <4>1. Completes(p, o.scope)
        BY <3>2 DEF Completes
      <4> QED
        BY <2>3, <3>5, <4>1
    <3> QED
      BY <1>1, <2>1, <2>2, <2>7, <3>3, <3>5, <3>6, ReturnPublication
  <2>8. ASSUME NEW f \in AcceptedFrames(n), f.out # NoOut, ~DeferToState(n),
               outputs' = [outputs EXCEPT ![Slot(f.out.scope)] = Append(@, f.out.val)],
               Return(n, act, a.sig, a.to, FALSE)
        PROVE  Pub
    <3> DEFINE v == f.out.val
    <3>1. f \in frames[n] /\ f.id = a.acc
      BY DEF AcceptedFrames
    <3>2. Completes(n, f.out.scope)
      BY <2>8, <3>1 DEF OwnOutputs
    <3> DEFINE q == Slot(f.out.scope)
    <3>3. q \in Node /\ Fills(n, q)
      <4>1. CASE f.out.scope = n
        BY <2>8, <4>1 DEF Slot, Fills
      <4>2. CASE Kind[n] = "policy" /\ Catch[Parent[n]] = "continue" /\ f.out.scope = Parent[n]
        <5>1. Parent[n] \in Node
          BY <4>2, TreeAssumption
        <5>2. Slot(Parent[n]) \in Node
          BY <5>1, NodeAssumption DEF Slot, DeferToState, EnclosedBy
        <5> QED
          BY <4>2, <5>2 DEF Fills
      <4> QED
        BY <3>2, <4>1, <4>2 DEF Completes
    <3>4. v \in OutputsOf(frames[n], a.acc)
      BY <2>8, <3>1 DEF OutputsOf
    <3>5. v \in accepted[n]
      BY <2>1, <3>4 DEF OutcomeAccepted
    <3>6. v \in Nat /\ outputs[q] \in Seq(Nat)
      BY <1>1, <3>3, <3>5 DEF TypeOK
    <3>7. outputs' = [outputs EXCEPT ![q] = Append(outputs[q], v)]
      BY <2>8
    <3> HIDE DEF v, q
    <3>8. \A i \in DOMAIN Append(outputs[q], v) :
             \/ i \in DOMAIN outputs[q] /\ Append(outputs[q], v)[i] = outputs[q][i]
             \/ Append(outputs[q], v)[i] = v
      BY <3>6
    <3>9. ShownWasAccepted'
      <4> SUFFICES ASSUME NEW m \in Node, NEW i \in DOMAIN outputs'[m]
                   PROVE  \E k \in Node : Fills(k, m) /\ outputs'[m][i] \in accepted'[k]
        BY DEF ShownWasAccepted
      <4>1. CASE m # q
        <5>1. outputs'[m] = outputs[m]
          BY <1>1, <3>7, <4>1 DEF TypeOK
        <5> QED
          BY <2>1, <5>1 DEF ShownWasAccepted
      <4>2. CASE m = q
        <5>1. outputs'[m] = Append(outputs[q], v)
          BY <1>1, <3>3, <3>7, <4>2 DEF TypeOK
        <5>2. CASE i \in DOMAIN outputs[q] /\ outputs'[m][i] = outputs[q][i]
          BY <2>1, <4>2, <5>2 DEF ShownWasAccepted
        <5>3. CASE outputs'[m][i] = v
          BY <2>1, <3>3, <3>5, <4>2, <5>3
        <5> QED
          BY <3>8, <5>1, <5>2, <5>3
      <4> QED
        BY <4>1, <4>2
    <3> QED
      BY <2>4, <2>8, <3>9
  <2> QED
    BY <1>11, <2>5, <2>6, <2>7, <2>8, Zenon DEF Settle
<1>12. CASE FailScope(n)
  <2>1. Return(n, act, "err", NoNode, act[n].fatal \/ n \in RetrySteps) /\ UNCHANGED <<outputs, accepted>>
    BY <1>12 DEF FailScope
  <2>2. ShownWasAccepted'
    BY <2>1 DEF ShownWasAccepted
  <2>3. \A m \in Node : act[m].out # NoOut => Completes(m, act[m].out.scope)
    BY DEF OwnOutputs
  <2> QED
    BY <1>1, <2>1, <2>2, <2>3, ReturnPublication
<1> QED
  BY <1>4, <1>5, <1>6, <1>7, <1>8, <1>9, <1>10, <1>11, <1>12 DEF Step

(* Initially nothing is published and nothing is prepared. *)
LEMMA PublicationInit == Init => PublicationInv
<1> SUFFICES ASSUME Init PROVE PublicationInv
  OBVIOUS
<1>1. \A n \in Node : act[n].out = NoOut /\ act[n].pc # "accepted" /\ frames[n] = {} /\ outputs[n] = <<>>
  BY DEF Init, StartActs, Idle
<1> QED
  BY <1>1, NestedInit DEF PublicationInv, ShownWasAccepted, OwnOutputs, OutcomeAccepted

(* Every step keeps published, prepared and accepted outputs in agreement. *)
LEMMA PublicationStep == PublicationInv /\ [Next]_vars => PublicationInv'
<1> SUFFICES ASSUME PublicationInv, [Next]_vars PROVE PublicationInv'
  OBVIOUS
<1>1. Nested'
  BY NestedStep DEF PublicationInv
<1>2. ASSUME NEW n \in Node, Step(n) PROVE PublicationInv'
  BY <1>1, <1>2, StepPublication DEF PublicationInv
<1>3. CASE Crash
  <2>1. \A n \in Node : act'[n].out = NoOut /\ act'[n].pc # "accepted" /\ frames'[n] = {} /\ outputs'[n] = <<>>
    BY <1>3 DEF Crash, StartActs, Idle
  <2> QED
    BY <1>1, <2>1 DEF PublicationInv, ShownWasAccepted, OwnOutputs, OutcomeAccepted
<1>4. CASE UNCHANGED vars
  BY <1>1, <1>4 DEF vars, PublicationInv, ShownWasAccepted, OwnOutputs, OutcomeAccepted, OutputsOf
<1> QED
  BY <1>2, <1>3, <1>4 DEF Next, JobOver

(* The caller publishes only what DoScope accepted: whatever fails, times   *)
(* out, is caught, retried or replayed, every output a context shows for a  *)
(* node was accepted by JobDB as the outcome of that node's own scope or,   *)
(* when a machine's catch continues, of the policy scope that handled it.   *)
THEOREM EveryOutputWasAccepted == Spec => []ShownWasAccepted
<1>1. PublicationInv => ShownWasAccepted
  BY DEF PublicationInv
<1> QED
  BY <1>1, PublicationInit, PublicationStep, PTL DEF Spec

(* In every recipe whose machines declare no `catch: continue' it was       *)
(* accepted as the outcome of the node's own scope.                         *)
THEOREM PublicationCorrect == NoMachineContinues => (Spec => []PublishedWasAccepted)
<1> SUFFICES ASSUME NoMachineContinues PROVE Spec => []PublishedWasAccepted
  OBVIOUS
<1>1. ASSUME NEW k \in Node, NEW n, Fills(k, n) PROVE k = n
  <2>1. Kind[k] = "policy" => Parent[k] \in Node /\ Kind[Parent[k]] = "machine"
    BY TreeAssumption
  <2> QED
    BY <1>1, <2>1 DEF Fills, NoMachineContinues
<1>2. PublicationInv => PublishedWasAccepted
  BY <1>1 DEF PublicationInv, ShownWasAccepted, PublishedWasAccepted
<1> QED
  BY <1>2, PublicationInit, PublicationStep, PTL DEF Spec

-----------------------------------------------------------------------------
(* Publication happens once. *)

(* Invocation n, or a frame that it has saved, holds the output v. *)
Holds(n, v) ==
    \/ act[n].out # NoOut /\ act[n].out.val = v
    \/ \E f \in frames[n] : f.out # NoOut /\ f.out.val = v

(* Some context shows the output v. *)
Shown(v) == \E n \in Node : \E i \in DOMAIN outputs[n] : outputs[n][i] = v

(* An output is older than the next decision; only a body that has just     *)
(* returned holds one that is as recent as the history.                     *)
HeldIsOlder ==
    \A n \in Node, v \in Nat : Holds(n, v) => v < pos \/ (v = pos /\ act[n].pc = "returned")

(* So is every output that is shown. *)
ShownIsOlder == \A v \in Nat : Shown(v) => v < pos

(* An output is held by one invocation or shown by a context, never both:   *)
(* publishing it, or handing it to the enclosing state, gives it away.      *)
HeldByOne == \A n, m \in Node, v \in Nat : Holds(n, v) /\ Holds(m, v) => n = m
HeldIsNotShown == \A n \in Node, v \in Nat : ~(Holds(n, v) /\ Shown(v))

(* PublishedOnce is not inductive by itself: a publishing step needs to     *)
(* know that what it appends is not there yet.                              *)
OnceParts == HeldIsOlder /\ ShownIsOlder /\ HeldByOne /\ HeldIsNotShown /\ PublishedOnce
OnceInv == Nested /\ OnceParts

(* The position in the history is a number. *)
LEMMA PosNat == ASSUME TypeOK PROVE pos \in Nat
  BY DEF TypeOK

(* While the call on top has not just returned its body, every output that  *)
(* is held is older than the next decision.                                 *)
LEMMA AllHeldIsOlder ==
  ASSUME Nested, HeldIsOlder, NEW n \in Node, n = at, act[n].pc # "returned"
  PROVE  \A m \in Node, v \in Nat : Holds(m, v) => v < pos
<1>1. \A m \in Node : act[m].pc # "returned"
  BY DEF Nested, CallStack
<1> QED
  BY <1>1 DEF HeldIsOlder

(* What a step of the call on top may do with outputs: its invocation holds *)
(* no new output but those of X, which are no older than the history was.   *)
Prepares(n, X) ==
    /\ pos <= pos'
    /\ \A m \in Node : outputs'[m] \in {outputs[m], <<>>}
    /\ \A m \in Node \ {n}, v \in Nat : Holds(m, v)' => Holds(m, v)
    /\ \A v \in Nat : Holds(n, v)' => Holds(n, v) \/ v \in X
    /\ \A v \in Nat : Holds(n, v)' /\ v \in X => v >= pos /\ ~Holds(n, v)
    /\ \A v \in Nat : Holds(n, v)' => v < pos' \/ (v = pos' /\ act'[n].pc = "returned")

(* Such a step keeps outputs apart. *)
LEMMA PreparesOnce ==
  ASSUME Nested, OnceParts, NEW n \in Node, n = at, NEW X, Prepares(n, X), pos' \in Nat
  PROVE  OnceParts'
<1>1. pos \in Nat /\ pos <= pos'
  BY PosNat DEF Nested, Prepares
<1>2. \A m \in Node : act[m].pc = "returned" => m = n
  BY DEF Nested, CallStack
<1>3. ASSUME NEW m \in Node, m # n, NEW v \in Nat, Holds(m, v)
      PROVE  v < pos
  BY <1>2, <1>3 DEF OnceParts, HeldIsOlder
<1>4. ASSUME NEW v \in Nat, Shown(v)' PROVE Shown(v)
  BY <1>4 DEF Shown, Prepares
<1>5. HeldIsOlder'
  <2> SUFFICES ASSUME NEW m \in Node, NEW v \in Nat, Holds(m, v)'
               PROVE  v < pos' \/ (v = pos' /\ act'[m].pc = "returned")
    BY DEF HeldIsOlder
  <2>1. CASE m = n
    BY <2>1 DEF Prepares
  <2>2. CASE m # n
    BY <1>1, <1>3, <2>2 DEF Prepares
  <2> QED
    BY <2>1, <2>2
<1>6. ShownIsOlder'
  BY <1>1, <1>4 DEF ShownIsOlder, OnceParts
<1>7. ASSUME NEW m \in Node, m # n, NEW v \in Nat, Holds(n, v)', Holds(m, v)'
      PROVE  FALSE
  <2>1. Holds(m, v) /\ v < pos
    BY <1>3, <1>7 DEF Prepares
  <2>2. Holds(n, v)
    BY <1>1, <1>7, <2>1 DEF Prepares
  <2> QED
    BY <1>7, <2>1, <2>2 DEF OnceParts, HeldByOne
<1>8. HeldByOne'
  <2> SUFFICES ASSUME NEW k \in Node, NEW m \in Node, NEW v \in Nat, Holds(k, v)', Holds(m, v)', k # m
               PROVE  FALSE
    BY DEF HeldByOne
  <2>1. CASE k = n
    BY <1>7, <2>1
  <2>2. CASE m = n
    BY <1>7, <2>2
  <2>3. CASE k # n /\ m # n
    BY <2>3 DEF Prepares, OnceParts, HeldByOne
  <2> QED
    BY <2>1, <2>2, <2>3
<1>9. HeldIsNotShown'
  <2> SUFFICES ASSUME NEW m \in Node, NEW v \in Nat, Holds(m, v)', Shown(v)' PROVE FALSE
    BY DEF HeldIsNotShown
  <2>1. Shown(v) /\ v < pos
    BY <1>4 DEF OnceParts, ShownIsOlder
  <2>2. Holds(m, v)
    <3>1. CASE m = n
      BY <1>1, <2>1, <3>1 DEF Prepares
    <3>2. CASE m # n
      BY <3>2 DEF Prepares
    <3> QED
      BY <3>1, <3>2
  <2> QED
    BY <2>1, <2>2 DEF OnceParts, HeldIsNotShown
<1>10. PublishedOnce'
  BY DEF Prepares, PublishedOnce, OnceParts
<1> QED
  BY <1>5, <1>6, <1>8, <1>9, <1>10 DEF OnceParts

(* The invocation of n becomes b, and its frame may be saved. *)
Becomes(n, b) ==
    /\ act' = [act EXCEPT ![n] = b]
    /\ \/ frames' = frames
       \/ \E i \in Nat : frames' = [frames EXCEPT ![n] = @ \cup {[id |-> i, out |-> b.out]}]

(* What it holds afterwards. *)
LEMMA LocalHolds ==
  ASSUME TypeOK, NEW n \in Node, NEW b, Becomes(n, b)
  PROVE  /\ \A m \in Node \ {n}, v \in Nat : Holds(m, v)' => Holds(m, v)
         /\ \A v \in Nat : Holds(n, v)' => \/ b.out # NoOut /\ b.out.val = v
                                           \/ \E f \in frames[n] : f.out # NoOut /\ f.out.val = v
<1>1. act'[n] = b /\ \A m \in Node : m # n => act'[m] = act[m]
  BY DEF Becomes, TypeOK
<1>2. \A m \in Node : m # n => frames'[m] = frames[m]
  BY DEF Becomes, TypeOK
<1>3. \A f \in frames'[n] : f \in frames[n] \/ f.out = b.out
  BY DEF Becomes, TypeOK
<1>4. ASSUME NEW m \in Node \ {n}, NEW v \in Nat, Holds(m, v)' PROVE Holds(m, v)
  BY <1>1, <1>2, <1>4 DEF Holds
<1>5. ASSUME NEW v \in Nat, Holds(n, v)'
      PROVE  \/ b.out # NoOut /\ b.out.val = v
             \/ \E f \in frames[n] : f.out # NoOut /\ f.out.val = v
  BY <1>1, <1>3, <1>5 DEF Holds
<1> QED
  BY <1>4, <1>5

(* A step that prepares nothing new: its invocation keeps its output or     *)
(* drops it.  A body that had just returned moves on only by a decision.    *)
LEMMA KeepsOnce ==
  ASSUME Nested, OnceParts, NEW n \in Node, n = at, NEW b, Becomes(n, b),
         b.out = act[n].out \/ b.out = NoOut,
         pos' \in Nat, pos' >= pos, act[n].pc = "returned" => pos' > pos,
         \A m \in Node : outputs'[m] \in {outputs[m], <<>>}
  PROVE  OnceParts'
<1>1. TypeOK /\ pos \in Nat
  BY PosNat DEF Nested
<1>2. /\ \A m \in Node \ {n}, v \in Nat : Holds(m, v)' => Holds(m, v)
      /\ \A v \in Nat : Holds(n, v)' => \/ b.out # NoOut /\ b.out.val = v
                                        \/ \E f \in frames[n] : f.out # NoOut /\ f.out.val = v
  BY <1>1, LocalHolds
<1>3. \A v \in Nat : Holds(n, v)' => Holds(n, v)
  BY <1>2 DEF Holds
<1>4. ASSUME NEW v \in Nat, Holds(n, v)' PROVE v < pos'
  <2>1. v < pos \/ (v = pos /\ act[n].pc = "returned")
    BY <1>3, <1>4 DEF OnceParts, HeldIsOlder
  <2> QED
    BY <1>1, <2>1
<1>5. Prepares(n, {})
  BY <1>1, <1>2, <1>3, <1>4 DEF Prepares
<1> QED
  BY <1>5, PreparesOnce

(* A step that prepares one output, as recent as the history or the next    *)
(* point of it.                                                             *)
LEMMA NewOnce ==
  ASSUME Nested, OnceParts, NEW n \in Node, n = at, act[n].pc # "returned", NEW b, Becomes(n, b),
         b.out.val \in Nat, b.out.val >= pos, b.out.val < pos' \/ (b.out.val = pos' /\ b.pc = "returned"),
         pos' \in Nat, pos' >= pos, \A m \in Node : outputs'[m] \in {outputs[m], <<>>}
  PROVE  OnceParts'
<1> DEFINE x == b.out.val
<1>1. TypeOK /\ pos \in Nat
  BY PosNat DEF Nested
<1>2. /\ \A m \in Node \ {n}, v \in Nat : Holds(m, v)' => Holds(m, v)
      /\ \A v \in Nat : Holds(n, v)' => \/ b.out # NoOut /\ b.out.val = v
                                        \/ \E f \in frames[n] : f.out # NoOut /\ f.out.val = v
  BY <1>1, LocalHolds
<1>3. \A m \in Node, v \in Nat : Holds(m, v) => v < pos
  BY AllHeldIsOlder DEF OnceParts
<1>4. \A v \in Nat : Holds(n, v)' => Holds(n, v) \/ v = x
  BY <1>2 DEF Holds
<1>5. act'[n].pc = b.pc
  BY <1>1 DEF Becomes, TypeOK
<1> HIDE DEF x
<1>6. x \in Nat /\ x >= pos /\ (x < pos' \/ (x = pos' /\ act'[n].pc = "returned"))
  BY <1>5 DEF x
<1>7. ASSUME NEW v \in Nat, Holds(n, v)'
      PROVE  v < pos' \/ (v = pos' /\ act'[n].pc = "returned")
  BY <1>1, <1>3, <1>4, <1>6, <1>7
<1>8. ASSUME NEW v \in Nat, v \in {x} PROVE v >= pos /\ ~Holds(n, v)
  BY <1>1, <1>3, <1>6, <1>8
<1>9. Prepares(n, {x})
  BY <1>1, <1>2, <1>4, <1>7, <1>8 DEF Prepares
<1> QED
  BY <1>9, PreparesOnce

(* The call on top gives its outputs away: to its caller or to a context,   *)
(* but not to both.                                                         *)
Gives(n) ==
    /\ pos' = pos
    /\ \A v \in Nat : ~Holds(n, v)'
    /\ \A m \in Node \ {n}, v \in Nat : Holds(m, v)' => Holds(m, v) \/ (Holds(n, v) /\ m = Parent[n])
    /\ \A v \in Nat : Shown(v)' => \/ Shown(v)
                                   \/ Holds(n, v) /\ \A m \in Node : ~Holds(m, v)'
    /\ PublishedOnce'

(* Such a step keeps outputs apart. *)
LEMMA GivesOnce ==
  ASSUME Nested, OnceParts, NEW n \in Node, n = at, act[n].pc # "returned", Gives(n)
  PROVE  OnceParts'
<1>1. \A m \in Node, v \in Nat : Holds(m, v) => v < pos
  BY AllHeldIsOlder DEF OnceParts
<1>2. HeldIsOlder'
  <2> SUFFICES ASSUME NEW m \in Node, NEW v \in Nat, Holds(m, v)' PROVE v < pos'
    BY DEF HeldIsOlder
  <2>1. m # n
    BY DEF Gives
  <2>2. Holds(m, v) \/ Holds(n, v)
    BY <2>1 DEF Gives
  <2> QED
    BY <1>1, <2>2 DEF Gives
<1>3. ShownIsOlder'
  <2> SUFFICES ASSUME NEW v \in Nat, Shown(v)' PROVE v < pos'
    BY DEF ShownIsOlder
  <2>1. Shown(v) \/ Holds(n, v)
    BY DEF Gives
  <2> QED
    BY <1>1, <2>1 DEF Gives, OnceParts, ShownIsOlder
<1>4. HeldByOne'
  <2> SUFFICES ASSUME NEW k \in Node, NEW m \in Node, NEW v \in Nat, Holds(k, v)', Holds(m, v)'
               PROVE  k = m
    BY DEF HeldByOne
  <2>1. k # n /\ m # n
    BY DEF Gives
  <2>2. /\ Holds(k, v) \/ (Holds(n, v) /\ k = Parent[n])
        /\ Holds(m, v) \/ (Holds(n, v) /\ m = Parent[n])
    BY <2>1 DEF Gives
  <2> QED
    BY <2>1, <2>2 DEF OnceParts, HeldByOne
<1>5. HeldIsNotShown'
  <2> SUFFICES ASSUME NEW m \in Node, NEW v \in Nat, Holds(m, v)', Shown(v)' PROVE FALSE
    BY DEF HeldIsNotShown
  <2>1. Shown(v)
    BY DEF Gives
  <2>2. m # n
    BY DEF Gives
  <2>3. Holds(m, v) \/ Holds(n, v)
    BY <2>2 DEF Gives
  <2> QED
    BY <2>1, <2>3 DEF OnceParts, HeldIsNotShown
<1> QED
  BY <1>2, <1>3, <1>4, <1>5 DEF Gives, OnceParts

(* executeNodeScope returns: the invocation of n is gone, its caller keeps  *)
(* what it held or was handed, and all others are as they were.             *)
LEMMA ReturnHolds ==
  ASSUME TypeOK, NEW n \in Node, NEW acts \in [Node -> Acts], NEW sig, NEW to, NEW fatal,
         Return(n, acts, sig, to, fatal), \A m \in Node : m # Parent[n] => acts[m] = act[m]
  PROVE  /\ \A v \in Nat : ~Holds(n, v)'
         /\ \A m \in Node \ {n}, v \in Nat :
               Holds(m, v)' => Holds(m, v) \/ (m = Parent[n] /\ acts[m].out # NoOut /\ acts[m].out.val = v)
<1> DEFINE p == Parent[n]
           up == [acts[p] EXCEPT !.pc = "resume", !.sig = sig, !.to = to, !.fatal = fatal]
<1>1. Idle.out = NoOut
  BY DEF Idle
<1>2. frames' = [frames EXCEPT ![n] = {}]
  BY DEF Return
<1>3. ASSUME NEW m \in Node, m # n, m # p PROVE act'[m] = act[m]
  <2>1. acts[m] = act[m]
    BY <1>3
  <2>2. CASE p = NoNode
    BY <1>3, <2>1, <2>2 DEF Return
  <2>3. CASE p # NoNode
    <3>1. act' = [acts EXCEPT ![n] = Idle, ![p] = up]
      BY <2>3 DEF Return
    <3> HIDE DEF p, up
    <3> QED
      BY <1>3, <2>1, <3>1
  <2> QED
    BY <2>2, <2>3
<1>4. act'[n].out = NoOut
  <2>1. p # n
    BY NodeAssumption, TreeAssumption
  <2> QED
    BY <1>1, <2>1, NodeAssumption DEF Return
<1>5. p \in Node => act'[p].out = acts[p].out
  <2> SUFFICES ASSUME p \in Node PROVE act'[p].out = acts[p].out
    OBVIOUS
  <2>1. up.out = acts[p].out
    BY DEF Acts
  <2>2. act' = [acts EXCEPT ![n] = Idle, ![p] = up] /\ p # n
    BY NodeAssumption, TreeAssumption DEF Return
  <2> HIDE DEF up, p
  <2> QED
    BY <2>1, <2>2
<1> HIDE DEF p, up
<1>6. frames'[n] = {} /\ \A m \in Node : m # n => frames'[m] = frames[m]
  BY <1>2 DEF TypeOK
<1>7. \A v \in Nat : ~Holds(n, v)'
  BY <1>4, <1>6 DEF Holds
<1>8. ASSUME NEW m \in Node \ {n}, NEW v \in Nat, Holds(m, v)'
      PROVE  Holds(m, v) \/ (m = p /\ acts[m].out # NoOut /\ acts[m].out.val = v)
  <2>1. CASE m = p
    BY <1>5, <1>6, <1>8, <2>1 DEF Holds
  <2>2. CASE m # p
    BY <1>3, <1>6, <1>8, <2>2 DEF Holds
  <2> QED
    BY <2>1, <2>2
<1> QED
  BY <1>7, <1>8 DEF p

(* A return that publishes nothing and hands nothing on. *)
LEMMA ReturnOnce ==
  ASSUME Nested, OnceParts, NEW n \in Node, n = at, act[n].pc # "returned",
         NEW sig, NEW to, NEW fatal, Return(n, act, sig, to, fatal), UNCHANGED <<pos, outputs>>
  PROVE  OnceParts'
<1>1. TypeOK /\ act \in [Node -> Acts]
  BY DEF Nested, TypeOK
<1>2. /\ \A v \in Nat : ~Holds(n, v)'
      /\ \A m \in Node \ {n}, v \in Nat :
            Holds(m, v)' => Holds(m, v) \/ (m = Parent[n] /\ act[m].out # NoOut /\ act[m].out.val = v)
  BY <1>1, ReturnHolds
<1>3. \A m \in Node \ {n}, v \in Nat : Holds(m, v)' => Holds(m, v)
  BY <1>2 DEF Holds
<1>4. \A v \in Nat : Shown(v)' => Shown(v)
  BY DEF Shown
<1>5. PublishedOnce'
  BY DEF OnceParts, PublishedOnce
<1>6. Gives(n)
  BY <1>2, <1>3, <1>4, <1>5 DEF Gives
<1> QED
  BY <1>6, GivesOnce

(* A body returns with the output it already held, or with none. *)
LEMMA ReturnBodyKeeps ==
  ASSUME Nested, OnceParts, NEW n \in Node, n = at, act[n].pc # "returned", NEW sig, NEW fatal,
         ReturnBody(n, act[n], sig, fatal), pos' \in Nat, pos' >= pos, UNCHANGED outputs
  PROVE  OnceParts'
<1> DEFINE a == act[n]
           b == [a EXCEPT !.pc = "returned", !.sig = sig, !.fatal = fatal, !.caught = FALSE, !.last = a.cur]
<1>1. a \in Acts /\ a.cur \in Nat
  BY DEF Nested, TypeOK, Acts
<1>2. b.out = a.out
  BY <1>1 DEF Acts
<1>3. act' = [act EXCEPT ![n] = b] /\ frames' = [frames EXCEPT ![n] = @ \cup {[id |-> a.cur, out |-> a.out]}]
  BY DEF ReturnBody, SaveFrame
<1> HIDE DEF b
<1>4. Becomes(n, b)
  BY <1>1, <1>2, <1>3 DEF Becomes
<1>5. \A m \in Node : outputs'[m] \in {outputs[m], <<>>}
  OBVIOUS
<1> QED
  BY <1>2, <1>4, <1>5, KeepsOnce

(* A body returns with a new output. *)
LEMMA ReturnBodyNew ==
  ASSUME Nested, OnceParts, NEW n \in Node, n = at, act[n].pc # "returned", NEW sig, NEW fatal,
         NEW v \in Nat, v >= pos, v <= pos',
         ReturnBody(n, [act[n] EXCEPT !.out = [scope |-> n, val |-> v]], sig, fatal),
         pos' \in Nat, pos' >= pos, UNCHANGED outputs
  PROVE  OnceParts'
<1> DEFINE o == [scope |-> n, val |-> v]
           a == [act[n] EXCEPT !.out = o]
           b == [a EXCEPT !.pc = "returned", !.sig = sig, !.fatal = fatal, !.caught = FALSE, !.last = a.cur]
<1>1. act[n] \in Acts /\ act[n].cur \in Nat
  BY DEF Nested, TypeOK, Acts
<1>2. o.val = v
  OBVIOUS
<1> HIDE DEF o
<1>3. b.out = o /\ b.pc = "returned" /\ a.cur = act[n].cur /\ a.out = o
  BY <1>1 DEF Acts
<1>4. act' = [act EXCEPT ![n] = b] /\ frames' = [frames EXCEPT ![n] = @ \cup {[id |-> a.cur, out |-> a.out]}]
  BY DEF ReturnBody, SaveFrame, o
<1> HIDE DEF b, a
<1>5. Becomes(n, b)
  BY <1>1, <1>3, <1>4 DEF Becomes
<1>6. \A m \in Node : outputs'[m] \in {outputs[m], <<>>}
  OBVIOUS
<1>7. b.out.val = v
  BY <1>2, <1>3
<1>8. pos \in Nat
  BY PosNat DEF Nested
<1> QED
  BY <1>3, <1>5, <1>6, <1>7, <1>8, NewOnce

(* Every step of the executor keeps outputs apart. *)
LEMMA StepOnce ==
  ASSUME Nested, OnceParts, NEW n \in Node, Step(n)
  PROVE  OnceParts'
<1> DEFINE a == act[n]
<1>1. TypeOK /\ act \in [Node -> Acts] /\ a \in Acts /\ pos \in Nat /\ a.cur \in Nat
  BY PosNat, SMTT(40) DEF Nested, TypeOK, Acts
<1>2. n = at
  BY DEF Step, StartBody, RunTask, CallKid, FinishBody, Resume, Decide, Handle, Settle, FailScope, At
<1>3. ASSUME NEW what, NEW frame, Record(n, what, frame)
      PROVE  pos' = pos + 1 /\ pos' \in Nat /\ pos' > pos
  BY <1>1, <1>3 DEF Record
<1>4. ASSUME NEW b, act' = [act EXCEPT ![n] = b], frames' = frames, b.out = a.out \/ b.out = NoOut,
             pos' \in Nat, pos' >= pos, a.pc = "returned" => pos' > pos,
             \A m \in Node : outputs'[m] \in {outputs[m], <<>>}
      PROVE  OnceParts'
  <2>1. Becomes(n, b)
    BY <1>4 DEF Becomes
  <2> QED
    BY <1>2, <1>4, <2>1, KeepsOnce
<1>5. ASSUME UNCHANGED outputs PROVE \A m \in Node : outputs'[m] \in {outputs[m], <<>>}
  BY <1>5
<1>6. CASE StartBody(n)
  <2> DEFINE b == [NewFrame(a) EXCEPT !.pc = "call", !.attempt = a.attempt + 1,
                                      !.kid = First[n], !.sig = "none", !.to = NoNode]
  <2>1. b.out = NoOut
    BY <1>1, NewFrameType DEF Acts
  <2>2. act' = [act EXCEPT ![n] = b] /\ frames' = frames /\ pos' = pos /\ a.pc # "returned"
    BY <1>6 DEF StartBody, At
  <2>3. \A m \in Node : outputs'[m] \in {outputs[m], <<>>}
    BY <1>6 DEF StartBody
  <2> HIDE DEF b
  <2>4. pos' \in Nat /\ pos' >= pos
    BY <1>1, <2>2
  <2> QED
    BY <1>4, <2>1, <2>2, <2>3, <2>4
<1>7. CASE RunTask(n)
  <2>1. a.pc # "returned" /\ UNCHANGED outputs
    BY <1>7 DEF RunTask, At
  <2>2. CASE Record(n, "task_ok", 0)
             /\ ReturnBody(n, [a EXCEPT !.out = [scope |-> n, val |-> pos + 1]], "ok", FALSE)
    <3>1. pos + 1 \in Nat /\ pos + 1 >= pos /\ pos + 1 <= pos' /\ pos' \in Nat /\ pos' >= pos
      BY <1>1, <1>3, <2>2
    <3> QED
      BY <1>2, <2>1, <2>2, <3>1, ReturnBodyNew
  <2>3. CASE Record(n, "task_err", 0) /\ ReturnBody(n, a, "err", FALSE)
    <3>1. pos' \in Nat /\ pos' >= pos
      BY <1>1, <1>3, <2>3
    <3> QED
      BY <1>2, <2>1, <2>3, <3>1, ReturnBodyKeeps
  <2> QED
    BY <1>7, <2>2, <2>3 DEF RunTask
<1>8. CASE CallKid(n)
  <2> DEFINE k == a.kid
             called == [Idle EXCEPT !.pc = "entry", !.covered = a.covered \/ DeclaredCatch(n) # "none"]
             waits == [a EXCEPT !.pc = "wait"]
  <2>1. act' = [act EXCEPT ![n].pc = "wait", ![k] = called] /\ UNCHANGED <<pos, frames, outputs>>
        /\ a.pc # "returned"
    BY <1>8 DEF CallKid, At
  <2>2. called.out = NoOut /\ waits.out = a.out
    BY <1>1 DEF Idle, Acts
  <2>3. act' = [act EXCEPT ![n] = waits, ![k] = called]
    BY <2>1
  <2> HIDE DEF called, waits, k
  <2>4. \A m \in Node : act'[m].out = NoOut \/ act'[m].out = act[m].out
    BY <1>1, <2>2, <2>3
  <2>5. \A m \in Node, v \in Nat : Holds(m, v)' => Holds(m, v)
    BY <2>1, <2>4 DEF Holds
  <2>6. \A m \in Node, v \in Nat : Holds(m, v) => v < pos
    BY <1>2, <2>1, AllHeldIsOlder DEF OnceParts
  <2>7. Prepares(n, {})
    BY <1>1, <2>1, <2>5, <2>6 DEF Prepares
  <2>8. pos' \in Nat
    BY <1>1, <2>1
  <2> QED
    BY <1>2, <2>7, <2>8, PreparesOnce
<1>9. CASE FinishBody(n)
  <2>1. a.pc # "returned" /\ UNCHANGED outputs /\ pos' = pos
    BY <1>9 DEF FinishBody, At
  <2>2. pos' \in Nat /\ pos' >= pos /\ pos >= pos /\ pos <= pos'
    BY <1>1, <2>1
  <2>3. CASE ReturnBody(n, [a EXCEPT !.out = [scope |-> n, val |-> pos]], "ok", FALSE)
    BY <1>1, <1>2, <2>1, <2>2, <2>3, ReturnBodyNew
  <2>4. CASE ReturnBody(n, a, "ok", FALSE)
    BY <1>2, <2>1, <2>2, <2>4, ReturnBodyKeeps
  <2> QED
    BY <1>9, <2>3, <2>4 DEF FinishBody
<1>10. CASE Resume(n)
  <2>1. a.pc # "returned" /\ UNCHANGED outputs /\ pos' = pos
    BY <1>10 DEF Resume, At
  <2>2. pos' \in Nat /\ pos' >= pos
    BY <1>1, <2>1
  <2>3. ASSUME NEW k, act' = [act EXCEPT ![n] = [a EXCEPT !.pc = "call", !.kid = k]], UNCHANGED frames
        PROVE  OnceParts'
    <3> DEFINE b == [a EXCEPT !.pc = "call", !.kid = k]
    <3>1. b.out = a.out
      BY <1>1 DEF Acts
    <3>2. act' = [act EXCEPT ![n] = b]
      BY <2>3
    <3> HIDE DEF b
    <3> QED
      BY <1>4, <1>5, <2>1, <2>2, <2>3, <3>1, <3>2
  <2>4. ASSUME NEW sig, NEW fatal, ReturnBody(n, a, sig, fatal) PROVE OnceParts'
    BY <1>2, <2>1, <2>2, <2>4, ReturnBodyKeeps
  <2> QED
    BY <1>10, <2>3, <2>4, Zenon DEF Resume
<1>11. CASE Decide(n)
  <2>1. UNCHANGED <<frames, outputs>> /\ pos' = pos + 1
    BY <1>11 DEF Decide, Record
  <2>2. pos' \in Nat /\ pos' >= pos /\ pos' > pos
    BY <1>1, <2>1
  <2>3. ASSUME NEW b, act' = [act EXCEPT ![n] = b], b.out = a.out PROVE OnceParts'
    BY <1>4, <1>5, <2>1, <2>2, <2>3
  <2>4. PICK b : act' = [act EXCEPT ![n] = b] /\ b.out = a.out
    <3>1. \A r : [a EXCEPT !.pc = "accepted", !.acc = r].out = a.out
      BY <1>1 DEF Acts
    <3>2. [a EXCEPT !.sig = "err", !.fatal = TRUE].out = a.out
      BY <1>1 DEF Acts
    <3>3. [a EXCEPT !.pc = "handling", !.caught = TRUE].out = a.out
      BY <1>1 DEF Acts
    <3>4. [a EXCEPT !.pc = "entry"].out = a.out /\ [a EXCEPT !.pc = "failed"].out = a.out
      BY <1>1 DEF Acts
    <3> QED
      BY <1>11, <3>1, <3>2, <3>3, <3>4, ZenonT(60) DEF Decide
  <2> QED
    BY <2>3, <2>4
<1>12. CASE Handle(n)
  <2> DEFINE f == NewFrame(a)
             done(sig, out) == [f EXCEPT !.pc = "accepted", !.sig = sig, !.out = out, !.last = f.cur,
                                         !.acc = RecordedFrame(f.cur)]
             handled == done(IF Kind[n] = "policy" THEN "handled" ELSE "ok",
                             [scope |-> CompletedBy(n), val |-> pos])
             routed == [done("route", NoOut) EXCEPT !.to = RouteTo[CompletedBy(n)]]
  <2>1. UNCHANGED outputs /\ a.pc # "returned" /\ pos' = pos + 1
    BY <1>12 DEF Handle, At, Record
  <2>2. pos' \in Nat /\ pos' >= pos
    BY <1>1, <2>1
  <2>3. f \in Acts /\ f.out = NoOut /\ f.cur \in Nat
    BY <1>1, NewFrameType
  <2>4. CASE act' = [act EXCEPT ![n] = handled] /\ SaveFrame(n, handled)
    <3>1. handled.out = [scope |-> CompletedBy(n), val |-> pos] /\ handled.cur = f.cur
      <4> HIDE DEF f
      <4> QED
        BY <2>3 DEF Acts
    <3> HIDE DEF handled, f
    <3>2. handled.out.val = pos /\ handled.cur \in Nat
      BY <2>3, <3>1
    <3>3. Becomes(n, handled)
      BY <2>4, <3>2 DEF Becomes, SaveFrame
    <3>4. handled.out.val < pos' /\ handled.out.val >= pos
      BY <1>1, <2>1, <3>2
    <3> QED
      BY <1>1, <1>2, <1>5, <2>1, <2>2, <3>2, <3>3, <3>4, NewOnce
  <2>5. CASE act' = [act EXCEPT ![n] = routed] /\ SaveFrame(n, routed)
    <3>1. routed.out = NoOut /\ routed.cur = f.cur
      <4> HIDE DEF f
      <4> QED
        BY <2>3 DEF Acts
    <3> HIDE DEF routed, f
    <3>2. Becomes(n, routed)
      BY <2>3, <2>5, <3>1 DEF Becomes, SaveFrame
    <3> QED
      BY <1>2, <1>5, <2>1, <2>2, <3>1, <3>2, KeepsOnce
  <2>6. ASSUME NEW pc, act' = [act EXCEPT ![n] = [f EXCEPT !.pc = pc]], UNCHANGED frames
        PROVE  OnceParts'
    <3> DEFINE b == [f EXCEPT !.pc = pc]
    <3>1. b.out = NoOut
      <4> HIDE DEF f
      <4> QED
        BY <2>3 DEF Acts
    <3>2. act' = [act EXCEPT ![n] = b]
      BY <2>6
    <3> HIDE DEF b
    <3> QED
      BY <1>4, <1>5, <2>1, <2>2, <2>6, <3>1, <3>2
  <2> QED
    BY <1>12, <2>4, <2>5, <2>6, Zenon DEF Handle
<1>13. CASE Settle(n)
  <2>1. a.pc # "returned" /\ pos' = pos
    BY <1>13 DEF Settle, At
  <2>2. ASSUME NEW sig, NEW to, Return(n, act, sig, to, FALSE), UNCHANGED <<written, outputs>>
        PROVE  OnceParts'
    BY <1>2, <2>1, <2>2, ReturnOnce
  <2>3. CASE Return(n, act, "err", NoNode, FALSE) /\ UNCHANGED <<written, outputs>>
    BY <2>2, <2>3
  <2>4. CASE Return(n, act, a.sig, a.to, FALSE) /\ UNCHANGED <<written, outputs>>
    BY <2>2, <2>4
  <2>5. ASSUME NEW f \in AcceptedFrames(n), f.out # NoOut
        PROVE  f.out \in Outs /\ f.out.val \in Nat /\ f.out.scope \in Node /\ Holds(n, f.out.val)
    <3>1. f \in frames[n] /\ f.out \in Outs
      BY <1>1 DEF AcceptedFrames, TypeOK, Frames
    <3> QED
      BY <2>5, <3>1, OutScope DEF Holds
  <2>6. ASSUME NEW f \in AcceptedFrames(n), f.out # NoOut, DeferToState(n),
               Return(n, [act EXCEPT ![Parent[n]].out = [f.out EXCEPT !.scope = Parent[n]]], a.sig, a.to, FALSE),
               UNCHANGED <<written, outputs>>
        PROVE  OnceParts'
    <3> DEFINE p == Parent[n]
               o == [f.out EXCEPT !.scope = p]
               acts == [act EXCEPT ![p].out = o]
    <3>1. p \in Node /\ act[p] \in Acts
      BY <1>1, <2>6, NodeAssumption DEF DeferToState, EnclosedBy
    <3>2. o \in Outs /\ o.val = f.out.val
      BY <2>5, <2>6, <3>1, OutScope DEF Outs
    <3>3. Return(n, acts, a.sig, a.to, FALSE)
      BY <2>6
    <3> HIDE DEF o
    <3>4. [act[p] EXCEPT !.out = o] \in Acts /\ [act[p] EXCEPT !.out = o].out = o
      BY <3>1, <3>2 DEF Acts
    <3>5. acts \in [Node -> Acts] /\ acts[p].out = o /\ (\A m \in Node : m # p => acts[m] = act[m])
      BY <1>1, <3>1, <3>4
    <3> HIDE DEF acts
    <3>6. /\ \A v \in Nat : ~Holds(n, v)'
          /\ \A m \in Node \ {n}, v \in Nat :
                Holds(m, v)' => Holds(m, v) \/ (m = p /\ acts[m].out # NoOut /\ acts[m].out.val = v)
      BY <1>1, <3>3, <3>5, ReturnHolds, ZenonT(60)
    <3>7. \A m \in Node \ {n}, v \in Nat : Holds(m, v)' => Holds(m, v) \/ (Holds(n, v) /\ m = p)
      BY <2>5, <2>6, <3>2, <3>5, <3>6
    <3>8. (\A v \in Nat : Shown(v)' => Shown(v)) /\ PublishedOnce'
      BY <2>6 DEF Shown, OnceParts, PublishedOnce
    <3>9. Gives(n)
      BY <2>1, <3>6, <3>7, <3>8 DEF Gives
    <3> QED
      BY <1>2, <2>1, <3>9, GivesOnce
  <2>7. ASSUME NEW f \in AcceptedFrames(n), f.out # NoOut,
               outputs' = [outputs EXCEPT ![Slot(f.out.scope)] = Append(@, f.out.val)],
               Return(n, act, a.sig, a.to, FALSE)
        PROVE  OnceParts'
    <3> DEFINE w == f.out.val
               s == Slot(f.out.scope)
    <3>1. w \in Nat /\ Holds(n, w) /\ ~Shown(w)
      BY <2>5, <2>7 DEF OnceParts, HeldIsNotShown
    <3>2. outputs \in [Node -> Seq(Nat)]
      BY <1>1 DEF TypeOK
    <3>3. outputs' = [outputs EXCEPT ![s] = Append(outputs[s], w)]
      BY <2>7
    <3> HIDE DEF w, s
    <3>4. /\ \A v \in Nat : ~Holds(n, v)'
          /\ \A m \in Node \ {n}, v \in Nat :
                Holds(m, v)' => Holds(m, v) \/ (m = Parent[n] /\ act[m].out # NoOut /\ act[m].out.val = v)
      BY <1>1, <2>7, ReturnHolds
    <3>5. \A m \in Node \ {n}, v \in Nat : Holds(m, v)' => Holds(m, v)
      BY <3>4 DEF Holds
    <3>6. \A m \in Node : ~Holds(m, w)'
      BY <3>1, <3>4, <3>5 DEF OnceParts, HeldByOne
    <3>7. \A m \in Node : \A i \in DOMAIN outputs'[m] :
             \/ i \in DOMAIN outputs[m] /\ outputs'[m][i] = outputs[m][i]
             \/ outputs'[m][i] = w /\ i = Len(outputs[m]) + 1
      <4> SUFFICES ASSUME NEW m \in Node, NEW i \in DOMAIN outputs'[m]
                   PROVE  \/ i \in DOMAIN outputs[m] /\ outputs'[m][i] = outputs[m][i]
                          \/ outputs'[m][i] = w /\ i = Len(outputs[m]) + 1
        OBVIOUS
      <4>1. CASE m = s
        <5>1. outputs'[m] = Append(outputs[m], w) /\ outputs[m] \in Seq(Nat)
          BY <3>2, <3>3, <4>1
        <5> QED
          BY <3>1, <5>1
      <4>2. CASE m # s
        BY <3>2, <3>3, <4>2
      <4> QED
        BY <4>1, <4>2
    <3>8. \A v \in Nat : Shown(v)' => Shown(v) \/ v = w
      BY <3>7 DEF Shown
    <3>9. PublishedOnce'
      <4> SUFFICES ASSUME NEW m \in Node, NEW i \in DOMAIN outputs'[m], NEW j \in DOMAIN outputs'[m],
                          outputs'[m][i] = outputs'[m][j]
                   PROVE  i = j
        BY DEF PublishedOnce
      <4>1. \A q \in DOMAIN outputs[m] : outputs[m][q] # w
        BY <3>1 DEF Shown
      <4> QED
        BY <3>7, <4>1 DEF OnceParts, PublishedOnce
    <3>10. Gives(n)
      BY <2>1, <3>1, <3>4, <3>5, <3>6, <3>8, <3>9 DEF Gives
    <3> QED
      BY <1>2, <2>1, <3>10, GivesOnce
  <2> QED
    BY <1>13, <2>3, <2>4, <2>6, <2>7, Zenon DEF Settle
<1>14. CASE FailScope(n)
  <2>1. Return(n, act, "err", NoNode, act[n].fatal \/ n \in RetrySteps) /\ UNCHANGED <<pos, outputs>>
        /\ a.pc # "returned"
    BY <1>14 DEF FailScope, At
  <2> QED
    BY <1>2, <2>1, ReturnOnce
<1> QED
  BY <1>6, <1>7, <1>8, <1>9, <1>10, <1>11, <1>12, <1>13, <1>14 DEF Step

(* A process starts with nothing prepared and nothing shown. *)
LEMMA StartOnce ==
  ASSUME act = StartActs, frames = [n \in Node |-> {}], outputs = [n \in Node |-> <<>>]
  PROVE  OnceParts
<1>1. \A n \in Node : act[n].out = NoOut /\ frames[n] = {} /\ outputs[n] = <<>>
  BY DEF StartActs, Idle
<1>2. \A n \in Node, v \in Nat : ~Holds(n, v)
  BY <1>1 DEF Holds
<1>3. \A v \in Nat : ~Shown(v)
  BY <1>1 DEF Shown
<1> QED
  BY <1>1, <1>2, <1>3 DEF OnceParts, HeldIsOlder, ShownIsOlder, HeldByOne, HeldIsNotShown, PublishedOnce

(* Every step, a crash included, keeps outputs apart. *)
LEMMA OnceStep == OnceInv /\ [Next]_vars => OnceInv'
<1> SUFFICES ASSUME OnceInv, [Next]_vars PROVE OnceInv'
  OBVIOUS
<1>1. Nested /\ OnceParts /\ Nested'
  BY NestedStep DEF OnceInv
<1>2. ASSUME NEW n \in Node, Step(n) PROVE OnceParts'
  BY <1>1, <1>2, StepOnce
<1>3. CASE Crash
  <2>1. \A n \in Node : act'[n].out = NoOut /\ frames'[n] = {} /\ outputs'[n] = <<>>
    BY <1>3 DEF Crash, StartActs, Idle
  <2>2. \A n \in Node, v \in Nat : ~Holds(n, v)'
    BY <2>1 DEF Holds
  <2>3. \A v \in Nat : ~Shown(v)'
    BY <2>1 DEF Shown
  <2>4. PublishedOnce'
    BY <2>1 DEF PublishedOnce
  <2>5. HeldIsOlder' /\ HeldByOne'
    BY <2>2 DEF HeldIsOlder, HeldByOne
  <2>6. ShownIsOlder' /\ HeldIsNotShown'
    BY <2>3 DEF ShownIsOlder, HeldIsNotShown
  <2> QED
    BY <1>1, <2>4, <2>5, <2>6 DEF OnceParts, OnceInv
<1>4. CASE UNCHANGED vars
  <2>1. \A n \in Node, v \in Nat : Holds(n, v)' => Holds(n, v)
    BY <1>4 DEF vars, Holds
  <2>2. \A v \in Nat : Shown(v)' => Shown(v)
    BY <1>4 DEF vars, Shown
  <2>3. HeldIsOlder' /\ HeldByOne'
    BY <1>1, <1>4, <2>1 DEF vars, OnceParts, HeldIsOlder, HeldByOne
  <2>4. ShownIsOlder' /\ HeldIsNotShown'
    BY <1>1, <1>4, <2>1, <2>2 DEF vars, OnceParts, ShownIsOlder, HeldIsNotShown
  <2>5. PublishedOnce'
    BY <1>1, <1>4 DEF vars, OnceParts, PublishedOnce
  <2> QED
    BY <1>1, <2>3, <2>4, <2>5 DEF OnceParts, OnceInv
<1> QED
  BY <1>1, <1>2, <1>3, <1>4 DEF Next, JobOver, OnceInv

(* One invocation publishes at most once, for every recipe and however      *)
(* often it fails, retries, catches, crashes and replays: neither the       *)
(* latest output nor an earlier run of a slot shows an output twice.        *)
THEOREM PublishesOnce == Spec => []PublishedOnce
<1>1. Init => OnceInv
  BY NestedInit, StartOnce DEF OnceInv, Init
<1>2. OnceInv => PublishedOnce
  BY DEF OnceInv, OnceParts
<1> QED
  BY <1>1, <1>2, OnceStep, PTL DEF Spec

-----------------------------------------------------------------------------
(* The executor as a function. *)

Exec(node, p, acts, fs, wr) == [at |-> node, pos |-> p, act |-> acts, frames |-> fs, written |-> wr]

(* What a process has of an execution, and what it starts with. *)
Now == Exec(at, pos, act, frames, written)
Start == Exec(Root, 0, StartActs, [n \in Node |-> {}], [n \in Node |-> FALSE])

(* The call on top goes on as a. *)
GoesOn(e, n, p, a) == Exec(n, p, [e.act EXCEPT ![n] = a], e.frames, e.written)
SavesAs(e, n, p, a) ==
    Exec(n, p, [e.act EXCEPT ![n] = a], [e.frames EXCEPT ![n] = @ \cup {[id |-> a.cur, out |-> a.out]}], e.written)
BodyOver(e, n, p, a, sig, fatal) ==
    Exec(n, p, [e.act EXCEPT ![n] = [a EXCEPT !.pc = "returned", !.sig = sig, !.fatal = fatal,
                                              !.caught = FALSE, !.last = a.cur]],
         [e.frames EXCEPT ![n] = @ \cup {[id |-> a.cur, out |-> a.out]}], e.written)

(* The call on top returns to its caller. *)
CallOver(e, n, acts, wr, sig, to, fatal) ==
    Exec(Parent[n], e.pos,
         IF Parent[n] = NoNode THEN [acts EXCEPT ![n] = Idle]
         ELSE [acts EXCEPT ![n] = Idle,
                           ![Parent[n]] = [acts[Parent[n]] EXCEPT !.pc = "resume", !.sig = sig,
                                                               !.to = to, !.fatal = fatal]],
         [e.frames EXCEPT ![n] = {}], wr)

AfterEntry(e, n) ==
    LET a == e.act[n]
    IN  Exec(n, e.pos, [e.act EXCEPT ![n] = [NewFrame(a) EXCEPT !.pc = "call", !.attempt = a.attempt + 1,
                                                                !.kid = First[n], !.sig = "none", !.to = NoNode]],
             e.frames, IF Kind[n] = "policy" THEN e.written ELSE [e.written EXCEPT ![n] = FALSE])

AfterTask(e, n, r) ==
    IF r.what = "task_ok"
    THEN BodyOver(e, n, e.pos + 1, [e.act[n] EXCEPT !.out = [scope |-> n, val |-> e.pos + 1]], "ok", FALSE)
    ELSE BodyOver(e, n, e.pos + 1, e.act[n], "err", FALSE)

AfterCall(e, n) ==
    LET a == e.act[n]
    IN  IF a.kid = NoNode
        THEN BodyOver(e, n, e.pos, IF Kind[n] \in {"sequence", "machine"}
                                   THEN [a EXCEPT !.out = [scope |-> n, val |-> e.pos]]
                                   ELSE a,
                      "ok", FALSE)
        ELSE Exec(a.kid, e.pos,
                  [e.act EXCEPT ![n].pc = "wait",
                                ![a.kid] = [Idle EXCEPT !.pc = "entry",
                                              !.covered = a.covered \/ DeclaredCatch(n) # "none"]],
                  e.frames, e.written)

AfterResume(e, n) ==
    LET a == e.act[n]
    IN  IF a.sig = "ok" THEN GoesOn(e, n, e.pos, [a EXCEPT !.pc = "call", !.kid = Succ[a.kid]])
        ELSE IF a.sig = "route" /\ IsStateOf(a.to, n) THEN GoesOn(e, n, e.pos, [a EXCEPT !.pc = "call", !.kid = a.to])
        ELSE IF a.sig = "route" THEN BodyOver(e, n, e.pos, a, IF Kind[n] = "machine" THEN "err" ELSE "route", FALSE)
        ELSE IF a.sig = "handled" THEN BodyOver(e, n, e.pos, a, "ok", FALSE)
        ELSE BodyOver(e, n, e.pos, a, "err", a.fatal)

AfterDecision(e, n, r) ==
    LET a == e.act[n]
    IN  GoesOn(e, n, e.pos + 1,
               IF r.what = "accept" THEN [a EXCEPT !.pc = "accepted", !.acc = r.frame]
               ELSE IF r.what = "timeout" THEN [a EXCEPT !.sig = "err", !.fatal = TRUE]
               ELSE IF r.what = "catch" THEN [a EXCEPT !.pc = "handling", !.caught = TRUE]
               ELSE IF r.what = "retry" THEN [a EXCEPT !.pc = "entry"]
               ELSE [a EXCEPT !.pc = "failed"])

AfterHandler(e, n, r) ==
    LET f == NewFrame(e.act[n])
        done(sig, out) == [f EXCEPT !.pc = "accepted", !.sig = sig, !.out = out, !.last = f.cur, !.acc = r.frame]
        handled == done(IF Kind[n] = "policy" THEN "handled" ELSE "ok", [scope |-> CompletedBy(n), val |-> e.pos])
        routed == [done("route", NoOut) EXCEPT !.to = RouteTo[CompletedBy(n)]]
    IN  IF r.what = "handled" THEN SavesAs(e, n, e.pos + 1, handled)
        ELSE IF r.what = "routed" THEN SavesAs(e, n, e.pos + 1, routed)
        ELSE IF r.what = "rethrown" THEN GoesOn(e, n, e.pos + 1, [f EXCEPT !.pc = "returned"])
        ELSE GoesOn(e, n, e.pos + 1, [f EXCEPT !.pc = "failed"])

AfterAccept(e, n) ==
    LET a == e.act[n]
        found == {f \in e.frames[n] : f.id = a.acc}
        o == (CHOOSE f \in found : TRUE).out
        fails == CallOver(e, n, e.act, e.written, "err", NoNode, FALSE)
    IN  IF found = {} THEN fails
        ELSE IF o = NoOut THEN CallOver(e, n, e.act, e.written, a.sig, a.to, FALSE)
        ELSE IF DeferToState(n)
        THEN IF e.act[Parent[n]].out # NoOut THEN fails
             ELSE CallOver(e, n, [e.act EXCEPT ![Parent[n]].out = [o EXCEPT !.scope = Parent[n]]], e.written,
                           a.sig, a.to, FALSE)
        ELSE IF e.written[o.scope] THEN fails
        ELSE CallOver(e, n, e.act, [e.written EXCEPT ![o.scope] = TRUE], a.sig, a.to, FALSE)

AfterFailure(e, n) ==
    CallOver(e, n, e.act, e.written, "err", NoNode, e.act[n].fatal \/ n \in RetrySteps)

(* The next state, given what JobDB records or has recorded, r. *)
NextExec(e, r) ==
    LET n == e.at
        pc == e.act[n].pc
    IN  IF pc = "entry" THEN AfterEntry(e, n)
        ELSE IF pc = "call" /\ Kind[n] = "op" THEN AfterTask(e, n, r)
        ELSE IF pc = "call" THEN AfterCall(e, n)
        ELSE IF pc = "resume" THEN AfterResume(e, n)
        ELSE IF pc = "returned" THEN AfterDecision(e, n, r)
        ELSE IF pc = "handling" THEN AfterHandler(e, n, r)
        ELSE IF pc = "accepted" THEN AfterAccept(e, n)
        ELSE AfterFailure(e, n)

(* The states in which the executor asks JobDB, and for what. *)
Asks(e) == \/ e.act[e.at].pc \in {"returned", "handling"}
           \/ e.act[e.at].pc = "call" /\ Kind[e.at] = "op"

Nothing == [site |-> NoNode, what |-> "none", frame |-> 0]
Told(e, h) == IF Asks(e) THEN h[e.pos + 1] ELSE Nothing

(* What JobDB may record for an invocation a of n, and for which frame. *)
ChoicesOf(a, n) ==
    CASE a.pc = "call" /\ Kind[n] = "op" -> {"task_ok", "task_err"}
      [] a.pc = "returned" /\ a.sig \in {"ok", "route"} ->
            {"accept"} \cup (IF MayTimeOut(a, n) THEN {"timeout"} ELSE {})
      [] a.pc = "returned" /\ a.sig = "err" ->
            (IF MayTimeOut(a, n) THEN {"timeout"} ELSE {})
                \cup (IF MayCatch(a, n) THEN {"catch"} ELSE {})
                \cup {IF MayRetry(a, n) THEN "retry" ELSE "fail"}
      [] a.pc = "handling" -> {"handled", "routed", "rethrown", "broken"}
      [] OTHER -> {}

LegalFrame(a, r) ==
    /\ r.what = "accept" => r.frame = a.cur
    /\ r.what \in {"handled", "routed"} => r.frame = NewFrameId(a)

Legal(e, r) ==
    /\ r.site = e.at
    /\ r.what \in ChoicesOf(e.act[e.at], e.at)
    /\ LegalFrame(e.act[e.at], r)

(* tr is the execution that the history h determines. *)
IsRun(tr, m, h) ==
    /\ tr[0] = Start
    /\ tr[m].pos = Len(h)
    /\ \A i \in 0..(m - 1) :
          /\ tr[i + 1] = NextExec(tr[i], Told(tr[i], h))
          /\ Asks(tr[i]) => tr[i].pos + 1 \in DOMAIN h /\ Legal(tr[i], h[tr[i].pos + 1])

(* The process is somewhere on it. *)
ReplayInv ==
    \E m \in Nat : \E tr : IsRun(tr, m, log) /\ \E k \in 0..m : Now = tr[k]

(* What it asks for next is what was recorded next. *)
ReplayLegal == at \in Node /\ Asks(Now) /\ Replaying => Legal(Now, log[pos + 1])

(* A frame's number is its own, the frame being filled is not saved yet, a  *)
(* body's frame is saved when the body has returned, only a failure is      *)
(* handled, and an accepted frame is the one that was filled last.          *)
FrameOf(a) == [id |-> a.cur, out |-> a.out]
Saved(a, fs) == FrameOf(a) \in fs

FrameIds(a, fs) ==
    /\ \A f, g \in fs : f.id = g.id => f = g
    /\ \A f \in fs : f.id <= a.next
    /\ a.pc \in {"call", "wait", "resume"} => a.cur = a.next /\ \A f \in fs : f.id # a.cur
    /\ a.pc = "idle" => fs = {}
    /\ a.pc = "returned" => a.sig \in {"ok", "route", "err"} /\ (a.sig # "err" => Saved(a, fs))
    /\ a.pc = "handling" => a.sig = "err"
    /\ a.pc = "accepted" => a.acc = a.cur /\ Saved(a, fs)

FrameInv == \A n \in Node : FrameIds(act[n], frames[n])

-----------------------------------------------------------------------------
(* One step. *)

(* The parts of the process's state. *)
LEMMA NowIs ==
  /\ Now.at = at /\ Now.pos = pos /\ Now.act = act /\ Now.frames = frames /\ Now.written = written
  /\ Now' = Exec(at', pos', act', frames', written')
  BY DEF Now, Exec

(* An op calls no child. *)
LEMMA OpCallsNothing ==
  ASSUME TypeOK, CallStack, NEW n \in Node, Kind[n] = "op"
  PROVE  act[n].kid = NoNode
<1> SUFFICES ASSUME act[n].kid # NoNode PROVE FALSE
  OBVIOUS
<1> DEFINE k == act[n].kid
<1>1. k \in Node /\ Parent[k] = n
  BY DEF TypeOK, Acts, CallStack
<1>2. k # Root
  BY <1>1, NodeAssumption, TreeAssumption
<1>3. Kind[k] \in Kinds
  BY <1>1, NodeAssumption
<1> HIDE DEF k
<1> QED
  BY <1>1, <1>2, <1>3, TreeAssumption DEF Kinds

(* What a step that asks JobDB finds in the history. *)
LEMMA RecordTells ==
  ASSUME log \in Seq(Entries), pos \in 0..Len(log), NEW n \in Node, NEW what \in Whats, NEW frame \in Nat,
         Record(n, what, frame)
  PROVE  /\ pos' = pos + 1
         /\ log'[pos + 1].what = what
         /\ log'[pos + 1].frame = RecordedFrame(frame)
         /\ Replaying => log' = log
         /\ ~Replaying => log' = Append(log, [site |-> n, what |-> what, frame |-> frame])
<1>1. CASE Replaying
  BY <1>1 DEF Record, RecordedFrame
<1>2. CASE ~Replaying
  <2> DEFINE e == [site |-> n, what |-> what, frame |-> frame]
  <2>1. log' = Append(log, e) /\ pos = Len(log) /\ pos' = pos + 1
    BY <1>2 DEF Record, Replaying
  <2>2. e \in Entries /\ e.what = what /\ e.frame = frame
    BY DEF Entries
  <2> HIDE DEF e
  <2>3. log'[pos + 1] = e
    BY <2>1, <2>2
  <2> QED
    BY <1>2, <2>1, <2>2, <2>3 DEF RecordedFrame, e
<1> QED
  BY <1>1, <1>2

(* A step of the executor is the step that NextExec computes; one that asks *)
(* JobDB takes what is recorded, or records what is legal.                  *)
Follows ==
    /\ Now' = NextExec(Now, Told(Now, log'))
    /\ IF Asks(Now)
       THEN /\ pos' = pos + 1
            /\ Replaying => log' = log
            /\ ~Replaying => \E r \in Entries : log' = Append(log, r) /\ Legal(Now, r)
       ELSE UNCHANGED <<log, pos>>

(* A step that does not ask. *)
LEMMA QuietFollows ==
  ASSUME ~Asks(Now), UNCHANGED <<log, pos>>, Now' = NextExec(Now, Nothing)
  PROVE  Follows
  BY DEF Follows, Told

(* A step that asks. *)
LEMMA AskFollows ==
  ASSUME TypeOK, NEW n \in Node, n = at, NEW what \in Whats, NEW frame \in Nat, Record(n, what, frame), Asks(Now),
         what \in ChoicesOf(act[n], n),
         what = "accept" => frame = act[n].cur, what \in {"handled", "routed"} => frame = NewFrameId(act[n]),
         \A r : r.what = what /\ r.frame = RecordedFrame(frame) => Now' = NextExec(Now, r)
  PROVE  Follows
<1> DEFINE e == [site |-> n, what |-> what, frame |-> frame]
<1>1. /\ pos' = pos + 1
      /\ log'[pos + 1].what = what
      /\ log'[pos + 1].frame = RecordedFrame(frame)
      /\ Replaying => log' = log
      /\ ~Replaying => log' = Append(log, e)
  BY RecordTells DEF TypeOK
<1>2. Told(Now, log') = log'[pos + 1]
  BY NowIs DEF Told
<1>3. Now' = NextExec(Now, Told(Now, log'))
  BY <1>1, <1>2
<1>4. e \in Entries /\ e.site = n /\ e.what = what /\ e.frame = frame
  BY DEF Entries
<1> HIDE DEF e
<1>5. Legal(Now, e)
  BY <1>4, NowIs DEF Legal, LegalFrame
<1> QED
  BY <1>1, <1>3, <1>4, <1>5 DEF Follows

(* A new body. *)
LEMMA StartBodyFollows == ASSUME NEW n \in Node, StartBody(n) PROVE Follows
<1>1. act[n].pc = "entry" /\ n = at /\ UNCHANGED <<log, pos>>
  BY DEF StartBody, At
<1>2. ~Asks(Now)
  BY <1>1, NowIs DEF Asks
<1>3. NextExec(Now, Nothing) = AfterEntry(Now, n)
  BY <1>1, NowIs DEF NextExec
<1>4. Now' = AfterEntry(Now, n)
  BY NowIs DEF AfterEntry, StartBody, At
<1> QED
  BY <1>1, <1>2, <1>3, <1>4, QuietFollows

(* A task. *)
LEMMA RunTaskFollows == ASSUME TypeOK, NEW n \in Node, RunTask(n) PROVE Follows
<1>1. act[n].pc = "call" /\ n = at /\ Kind[n] = "op" /\ at' = at /\ written' = written
  BY DEF RunTask, At
<1>2. Asks(Now)
  BY <1>1, NowIs DEF Asks
<1>3. \A r : NextExec(Now, r) = AfterTask(Now, n, r)
  BY <1>1, NowIs DEF NextExec
<1>4. {"task_ok", "task_err"} = ChoicesOf(act[n], n)
  BY <1>1 DEF ChoicesOf
<1>5. CASE Record(n, "task_ok", 0)
           /\ ReturnBody(n, [act[n] EXCEPT !.out = [scope |-> n, val |-> pos + 1]], "ok", FALSE)
  <2>1. pos' = pos + 1
    BY <1>5 DEF Record
  <2>2. \A r : r.what = "task_ok" => Now' = AfterTask(Now, n, r)
    BY <1>1, <1>5, <2>1, NowIs DEF AfterTask, BodyOver, ReturnBody, SaveFrame
  <2>3. \A r : r.what = "task_ok" /\ r.frame = RecordedFrame(0) => Now' = NextExec(Now, r)
    BY <1>3, <2>2
  <2> QED
    BY <1>1, <1>2, <1>4, <1>5, <2>3, AskFollows DEF Whats
<1>6. CASE Record(n, "task_err", 0) /\ ReturnBody(n, act[n], "err", FALSE)
  <2>1. pos' = pos + 1
    BY <1>6 DEF Record
  <2>2. \A r : r.what = "task_err" => Now' = AfterTask(Now, n, r)
    BY <1>1, <1>6, <2>1, NowIs DEF AfterTask, BodyOver, ReturnBody, SaveFrame
  <2>3. \A r : r.what = "task_err" /\ r.frame = RecordedFrame(0) => Now' = NextExec(Now, r)
    BY <1>3, <2>2
  <2> QED
    BY <1>1, <1>2, <1>4, <1>6, <2>3, AskFollows DEF Whats
<1> QED
  BY <1>5, <1>6 DEF RunTask

(* A call of a child. *)
LEMMA CallKidFollows == ASSUME TypeOK, CallStack, NEW n \in Node, CallKid(n) PROVE Follows
<1>1. act[n].pc = "call" /\ n = at /\ act[n].kid # NoNode /\ UNCHANGED <<log, pos>>
  BY DEF CallKid, At
<1>2. Kind[n] # "op"
  BY <1>1, OpCallsNothing
<1>3. ~Asks(Now)
  BY <1>1, <1>2, NowIs DEF Asks
<1>4. NextExec(Now, Nothing) = AfterCall(Now, n)
  BY <1>1, <1>2, NowIs DEF NextExec
<1>5. Now' = AfterCall(Now, n)
  BY <1>1, NowIs DEF AfterCall, CallKid
<1> QED
  BY <1>1, <1>3, <1>4, <1>5, QuietFollows

(* The end of a composite's body. *)
LEMMA FinishBodyFollows == ASSUME NEW n \in Node, FinishBody(n) PROVE Follows
<1>1. act[n].pc = "call" /\ n = at /\ Kind[n] # "op" /\ act[n].kid = NoNode /\ UNCHANGED <<log, pos, at, written>>
  BY DEF FinishBody, At
<1>2. ~Asks(Now)
  BY <1>1, NowIs DEF Asks
<1>3. NextExec(Now, Nothing) = AfterCall(Now, n)
  BY <1>1, NowIs DEF NextExec
<1>4. Now' = AfterCall(Now, n)
  BY <1>1, NowIs DEF AfterCall, BodyOver, FinishBody, ReturnBody, SaveFrame
<1> QED
  BY <1>1, <1>2, <1>3, <1>4, QuietFollows

(* A body goes on after its child. *)
LEMMA ResumeFollows == ASSUME NEW n \in Node, Resume(n) PROVE Follows
<1> DEFINE a == act[n]
<1>1. a.pc = "resume" /\ n = at /\ UNCHANGED <<log, pos, at, written>>
  BY DEF Resume, At
<1>2. ~Asks(Now)
  BY <1>1, NowIs DEF Asks
<1>3. NextExec(Now, Nothing) = AfterResume(Now, n)
  BY <1>1, NowIs DEF NextExec
<1>4. ASSUME NEW b, act' = [act EXCEPT ![n] = b], UNCHANGED frames PROVE Now' = GoesOn(Now, n, pos, b)
  BY <1>1, <1>4, NowIs DEF GoesOn
<1>5. ASSUME NEW sig, NEW fatal, ReturnBody(n, a, sig, fatal) PROVE Now' = BodyOver(Now, n, pos, a, sig, fatal)
  BY <1>1, <1>5, NowIs DEF BodyOver, ReturnBody, SaveFrame
<1>6. Now' = AfterResume(Now, n)
  <2>1. CASE a.sig = "ok"
    <3>1. act' = [act EXCEPT ![n] = [a EXCEPT !.pc = "call", !.kid = Succ[a.kid]]] /\ UNCHANGED frames
      BY <2>1 DEF Resume
    <3> QED
      BY <1>4, <2>1, <3>1, NowIs DEF AfterResume
  <2>2. CASE a.sig = "route" /\ IsStateOf(a.to, n)
    <3>1. act' = [act EXCEPT ![n] = [a EXCEPT !.pc = "call", !.kid = a.to]] /\ UNCHANGED frames
      BY <2>2 DEF Resume
    <3> QED
      BY <1>4, <2>2, <3>1, NowIs DEF AfterResume
  <2>3. CASE a.sig = "route" /\ ~IsStateOf(a.to, n)
    <3>1. ReturnBody(n, a, IF Kind[n] = "machine" THEN "err" ELSE "route", FALSE)
      BY <2>3 DEF Resume
    <3> QED
      BY <1>5, <2>3, <3>1, NowIs DEF AfterResume
  <2>4. CASE a.sig = "handled"
    <3>1. ReturnBody(n, a, "ok", FALSE)
      BY <2>4 DEF Resume
    <3> QED
      BY <1>5, <2>4, <3>1, NowIs DEF AfterResume
  <2>5. CASE a.sig = "err"
    <3>1. ReturnBody(n, a, "err", a.fatal)
      BY <2>5 DEF Resume
    <3> QED
      BY <1>5, <2>5, <3>1, NowIs DEF AfterResume
  <2> QED
    BY <2>1, <2>2, <2>3, <2>4, <2>5 DEF Resume
<1> QED
  BY <1>1, <1>2, <1>3, <1>6, QuietFollows

(* A decision. *)
LEMMA DecideFollows == ASSUME TypeOK, FrameInv, NEW n \in Node, Decide(n) PROVE Follows
<1> DEFINE a == act[n]
<1>1. a.pc = "returned" /\ n = at /\ UNCHANGED <<at, frames, written>> /\ pos' = pos + 1
  BY DEF Decide, At, Record
<1>2. Asks(Now) /\ a.cur \in Nat /\ 0 \in Nat
  BY <1>1, NowIs DEF Asks, TypeOK, Acts
<1>3. \A r : NextExec(Now, r) = AfterDecision(Now, n, r)
  BY <1>1, NowIs DEF NextExec
<1>4. ASSUME NEW b, act' = [act EXCEPT ![n] = b] PROVE Now' = GoesOn(Now, n, pos + 1, b)
  BY <1>1, <1>4, NowIs DEF GoesOn
<1>5. /\ a.sig \in {"ok", "route"} => "accept" \in ChoicesOf(a, n)
      /\ MayTimeOut(a, n) /\ a.sig \in {"ok", "route", "err"} => "timeout" \in ChoicesOf(a, n)
      /\ a.sig = "err" /\ MayCatch(a, n) => "catch" \in ChoicesOf(a, n)
      /\ a.sig = "err" /\ MayRetry(a, n) => "retry" \in ChoicesOf(a, n)
      /\ a.sig = "err" /\ ~MayRetry(a, n) => "fail" \in ChoicesOf(a, n)
  BY <1>1 DEF ChoicesOf
<1>6. {"accept", "timeout", "catch", "retry", "fail"} \subseteq Whats
  BY DEF Whats
<1>7. CASE /\ a.sig \in {"ok", "route"}
           /\ Record(n, "accept", a.cur)
           /\ act' = [act EXCEPT ![n] = [a EXCEPT !.pc = "accepted", !.acc = RecordedFrame(a.cur)]]
  <2>1. \A r : r.what = "accept" /\ r.frame = RecordedFrame(a.cur) => Now' = AfterDecision(Now, n, r)
    BY <1>4, <1>7, NowIs DEF AfterDecision
  <2>2. \A r : r.what = "accept" /\ r.frame = RecordedFrame(a.cur) => Now' = NextExec(Now, r)
    BY <1>3, <2>1
  <2> QED
    BY <1>1, <1>2, <1>5, <1>6, <1>7, <2>2, AskFollows
<1>8. ASSUME NEW what \in {"timeout", "catch", "retry", "fail"}, NEW b, Record(n, what, 0),
             act' = [act EXCEPT ![n] = b], what \in ChoicesOf(a, n),
             \A r : r.what = what => AfterDecision(Now, n, r) = GoesOn(Now, n, pos + 1, b)
      PROVE  Follows
  <2>1. \A r : r.what = what /\ r.frame = RecordedFrame(0) => Now' = NextExec(Now, r)
    BY <1>3, <1>4, <1>8
  <2>2. what \in Whats /\ what # "accept" /\ what \notin {"handled", "routed"}
    BY <1>6
  <2> QED
    BY <1>1, <1>2, <1>8, <2>1, <2>2, AskFollows
<1>9. CASE /\ MayTimeOut(a, n)
           /\ Record(n, "timeout", 0)
           /\ act' = [act EXCEPT ![n] = [a EXCEPT !.sig = "err", !.fatal = TRUE]]
  <2>1. \A r : r.what = "timeout" => AfterDecision(Now, n, r) = GoesOn(Now, n, pos + 1, [a EXCEPT !.sig = "err", !.fatal = TRUE])
    BY NowIs DEF AfterDecision
  <2>2. a.sig \in {"ok", "route", "err"}
    BY <1>1 DEF FrameInv, FrameIds
  <2> QED
    BY <1>5, <1>8, <1>9, <2>1, <2>2
<1>10. CASE /\ a.sig = "err"
            /\ MayCatch(a, n)
            /\ Record(n, "catch", 0)
            /\ act' = [act EXCEPT ![n] = [a EXCEPT !.pc = "handling", !.caught = TRUE]]
  <2>1. \A r : r.what = "catch" => AfterDecision(Now, n, r) = GoesOn(Now, n, pos + 1, [a EXCEPT !.pc = "handling", !.caught = TRUE])
    BY NowIs DEF AfterDecision
  <2> QED
    BY <1>5, <1>8, <1>10, <2>1
<1>11. CASE /\ a.sig = "err"
            /\ MayRetry(a, n)
            /\ Record(n, "retry", 0)
            /\ act' = [act EXCEPT ![n] = [a EXCEPT !.pc = "entry"]]
  <2>1. \A r : r.what = "retry" => AfterDecision(Now, n, r) = GoesOn(Now, n, pos + 1, [a EXCEPT !.pc = "entry"])
    BY NowIs DEF AfterDecision
  <2> QED
    BY <1>5, <1>8, <1>11, <2>1
<1>12. CASE /\ a.sig = "err"
            /\ ~MayRetry(a, n)
            /\ Record(n, "fail", 0)
            /\ act' = [act EXCEPT ![n] = [a EXCEPT !.pc = "failed"]]
  <2>1. \A r : r.what = "fail" => AfterDecision(Now, n, r) = GoesOn(Now, n, pos + 1, [a EXCEPT !.pc = "failed"])
    BY NowIs DEF AfterDecision
  <2> QED
    BY <1>5, <1>8, <1>12, <2>1
<1> QED
  BY <1>7, <1>9, <1>10, <1>11, <1>12, Zenon DEF Decide

(* A catch handler. *)
LEMMA HandleFollows == ASSUME TypeOK, NEW n \in Node, Handle(n) PROVE Follows
<1> DEFINE a == act[n]
           f == NewFrame(a)
           done(sig, out) == [f EXCEPT !.pc = "accepted", !.sig = sig, !.out = out, !.last = f.cur,
                                       !.acc = RecordedFrame(f.cur)]
           handled == done(IF Kind[n] = "policy" THEN "handled" ELSE "ok",
                           [scope |-> CompletedBy(n), val |-> pos])
           routed == [done("route", NoOut) EXCEPT !.to = RouteTo[CompletedBy(n)]]
<1>1. a.pc = "handling" /\ n = at /\ UNCHANGED <<at, written>> /\ pos' = pos + 1
  BY DEF Handle, At, Record
<1>2. Asks(Now) /\ 0 \in Nat /\ a \in Acts
  BY <1>1, NowIs DEF Asks, TypeOK
<1>3. f.cur \in Nat /\ f.cur = NewFrameId(a)
  BY <1>2, NewFrameType DEF NewFrame, Acts
<1>4. \A r : NextExec(Now, r) = AfterHandler(Now, n, r)
  BY <1>1, NowIs DEF NextExec
<1>5. {"handled", "routed", "rethrown", "broken"} = ChoicesOf(a, n)
  BY <1>1 DEF ChoicesOf
<1>6. {"handled", "routed", "rethrown", "broken"} \subseteq Whats
  BY DEF Whats
<1>7. CASE Record(n, "handled", f.cur) /\ act' = [act EXCEPT ![n] = handled] /\ SaveFrame(n, handled)
  <2>1. Now' = SavesAs(Now, n, pos + 1, handled)
    BY <1>1, <1>7, NowIs DEF SavesAs, SaveFrame
  <2>2. \A r : r.what = "handled" /\ r.frame = RecordedFrame(f.cur) => Now' = AfterHandler(Now, n, r)
    BY <2>1, NowIs DEF AfterHandler
  <2>3. \A r : r.what = "handled" /\ r.frame = RecordedFrame(f.cur) => Now' = NextExec(Now, r)
    BY <1>4, <2>2
  <2> HIDE DEF f
  <2> QED
    BY <1>1, <1>2, <1>3, <1>5, <1>6, <1>7, <2>3, AskFollows
<1>8. CASE Record(n, "routed", f.cur) /\ act' = [act EXCEPT ![n] = routed] /\ SaveFrame(n, routed)
  <2>1. Now' = SavesAs(Now, n, pos + 1, routed)
    BY <1>1, <1>8, NowIs DEF SavesAs, SaveFrame
  <2>2. \A r : r.what = "routed" /\ r.frame = RecordedFrame(f.cur) => Now' = AfterHandler(Now, n, r)
    BY <2>1, NowIs DEF AfterHandler
  <2>3. \A r : r.what = "routed" /\ r.frame = RecordedFrame(f.cur) => Now' = NextExec(Now, r)
    BY <1>4, <2>2
  <2> HIDE DEF f
  <2> QED
    BY <1>1, <1>2, <1>3, <1>5, <1>6, <1>8, <2>3, AskFollows
<1>9. ASSUME NEW what \in {"rethrown", "broken"}, NEW b, Record(n, what, 0), act' = [act EXCEPT ![n] = b], UNCHANGED frames,
             \A r : r.what = what => AfterHandler(Now, n, r) = GoesOn(Now, n, pos + 1, b)
      PROVE  Follows
  <2>1. Now' = GoesOn(Now, n, pos + 1, b)
    BY <1>1, <1>9, NowIs DEF GoesOn
  <2>2. \A r : r.what = what /\ r.frame = RecordedFrame(0) => Now' = NextExec(Now, r)
    BY <1>4, <1>9, <2>1
  <2>3. what \in Whats /\ what # "accept" /\ what \notin {"handled", "routed"}
    BY <1>6
  <2> QED
    BY <1>1, <1>2, <1>5, <1>9, <2>2, <2>3, AskFollows
<1>10. CASE Record(n, "rethrown", 0) /\ act' = [act EXCEPT ![n] = [f EXCEPT !.pc = "returned"]] /\ UNCHANGED frames
  <2>1. \A r : r.what = "rethrown" => AfterHandler(Now, n, r) = GoesOn(Now, n, pos + 1, [f EXCEPT !.pc = "returned"])
    BY NowIs DEF AfterHandler
  <2> QED
    BY <1>9, <1>10, <2>1
<1>11. CASE Record(n, "broken", 0) /\ act' = [act EXCEPT ![n] = [f EXCEPT !.pc = "failed"]] /\ UNCHANGED frames
  <2>1. \A r : r.what = "broken" => AfterHandler(Now, n, r) = GoesOn(Now, n, pos + 1, [f EXCEPT !.pc = "failed"])
    BY NowIs DEF AfterHandler
  <2> QED
    BY <1>9, <1>11, <2>1
<1> QED
  BY <1>7, <1>8, <1>10, <1>11, Zenon DEF Handle

(* A return. *)
LEMMA ReturnFollows ==
  ASSUME NEW n \in Node, NEW acts, NEW sig, NEW to, NEW fatal, Return(n, acts, sig, to, fatal), UNCHANGED pos
  PROVE  Now' = CallOver(Now, n, acts, written', sig, to, fatal)
<1>1. CASE Parent[n] = NoNode
  BY <1>1, NowIs DEF CallOver, Return
<1>2. CASE Parent[n] # NoNode
  BY <1>2, NowIs DEF CallOver, Return
<1> QED
  BY <1>1, <1>2

(* What happens after an accepted scope: its frame is the only one with the *)
(* recorded number.                                                         *)
LEMMA SettleFollows == ASSUME TypeOK, FrameInv, NEW n \in Node, Settle(n) PROVE Follows
<1> DEFINE a == act[n]
           found == {f \in frames[n] : f.id = a.acc}
           o == (CHOOSE f \in found : TRUE).out
<1>1. a.pc = "accepted" /\ n = at /\ UNCHANGED <<log, pos>>
  BY DEF Settle, At
<1>2. ~Asks(Now)
  BY <1>1, NowIs DEF Asks
<1>3. NextExec(Now, Nothing) = AfterAccept(Now, n)
  BY <1>1, NowIs DEF NextExec
<1>4. found = AcceptedFrames(n)
  BY DEF AcceptedFrames
<1>5. ASSUME NEW f \in AcceptedFrames(n) PROVE found # {} /\ o = f.out
  <2>1. \A g \in found : g = f
    BY <1>4, <1>5 DEF FrameInv, FrameIds, AcceptedFrames
  <2>2. (CHOOSE g \in found : TRUE) \in found
    BY <1>4, <1>5
  <2> QED
    BY <1>4, <1>5, <2>1, <2>2
<1> DEFINE fails == CallOver(Now, n, act, written, "err", NoNode, FALSE)
<1>6. AfterAccept(Now, n) =
        IF found = {} THEN fails
        ELSE IF o = NoOut THEN CallOver(Now, n, act, written, a.sig, a.to, FALSE)
        ELSE IF DeferToState(n)
        THEN IF act[Parent[n]].out # NoOut THEN fails
             ELSE CallOver(Now, n, [act EXCEPT ![Parent[n]].out = [o EXCEPT !.scope = Parent[n]]], written,
                           a.sig, a.to, FALSE)
        ELSE IF written[o.scope] THEN fails
        ELSE CallOver(Now, n, act, [written EXCEPT ![o.scope] = TRUE], a.sig, a.to, FALSE)
  BY NowIs DEF AfterAccept
<1> HIDE DEF found, o
<1>7. ASSUME Return(n, act, "err", NoNode, FALSE), UNCHANGED <<written, outputs>> PROVE Now' = fails
  BY <1>1, <1>7, ReturnFollows
<1>8. ASSUME NEW acts, Return(n, acts, a.sig, a.to, FALSE)
      PROVE  Now' = CallOver(Now, n, acts, written', a.sig, a.to, FALSE)
  BY <1>1, <1>8, ReturnFollows
<1> HIDE DEF fails
<1>9. Now' = AfterAccept(Now, n)
  <2>1. CASE AcceptedFrames(n) = {}
    BY <1>4, <1>6, <1>7, <2>1 DEF Settle, fails
  <2>2. ASSUME NEW f \in AcceptedFrames(n),
               \/ /\ f.out = NoOut
                  /\ Return(n, act, a.sig, a.to, FALSE)
                  /\ UNCHANGED <<written, outputs>>
               \/ /\ f.out # NoOut
                  /\ DeferToState(n)
                  /\ IF act[Parent[n]].out # NoOut
                     THEN Return(n, act, "err", NoNode, FALSE) /\ UNCHANGED <<written, outputs>>
                     ELSE /\ Return(n, [act EXCEPT ![Parent[n]].out = [f.out EXCEPT !.scope = Parent[n]]],
                                    a.sig, a.to, FALSE)
                          /\ UNCHANGED <<written, outputs>>
               \/ /\ f.out # NoOut
                  /\ ~DeferToState(n)
                  /\ IF written[f.out.scope]
                     THEN Return(n, act, "err", NoNode, FALSE) /\ UNCHANGED <<written, outputs>>
                     ELSE /\ written' = [written EXCEPT ![f.out.scope] = TRUE]
                          /\ Return(n, act, a.sig, a.to, FALSE)
        PROVE  Now' = AfterAccept(Now, n)
    <3>1. found # {} /\ o = f.out
      BY <1>5, <2>2
    <3>2. CASE f.out = NoOut
      BY <1>6, <1>8, <2>2, <3>1, <3>2
    <3>3. CASE f.out # NoOut /\ DeferToState(n)
      <4>1. CASE act[Parent[n]].out # NoOut
        <5>1. Return(n, act, "err", NoNode, FALSE) /\ UNCHANGED <<written, outputs>>
          BY <2>2, <3>3, <4>1
        <5>2. Now' = fails
          BY <1>7, <5>1
        <5> QED
          BY <1>6, <3>1, <3>3, <4>1, <5>2
      <4>2. CASE act[Parent[n]].out = NoOut
        <5> DEFINE acts == [act EXCEPT ![Parent[n]].out = [f.out EXCEPT !.scope = Parent[n]]]
        <5>1. Return(n, acts, a.sig, a.to, FALSE) /\ written' = written
          BY <2>2, <3>3, <4>2
        <5>2. Now' = CallOver(Now, n, acts, written, a.sig, a.to, FALSE)
          <6> HIDE DEF acts
          <6> QED
            BY <1>8, <5>1
        <5> QED
          BY <1>6, <3>1, <3>3, <4>2, <5>2
      <4> QED
        BY <4>1, <4>2
    <3>4. CASE f.out # NoOut /\ ~DeferToState(n)
      <4>1. CASE written[f.out.scope]
        <5>1. Return(n, act, "err", NoNode, FALSE) /\ UNCHANGED <<written, outputs>>
          BY <2>2, <3>4, <4>1
        <5>2. Now' = fails
          BY <1>7, <5>1
        <5> QED
          BY <1>6, <3>1, <3>4, <4>1, <5>2
      <4>2. CASE ~written[f.out.scope]
        <5>1. Return(n, act, a.sig, a.to, FALSE) /\ written' = [written EXCEPT ![f.out.scope] = TRUE]
          BY <2>2, <3>4, <4>2
        <5>2. Now' = CallOver(Now, n, act, written', a.sig, a.to, FALSE)
          BY <1>8, <5>1
        <5> QED
          BY <1>6, <3>1, <3>4, <4>2, <5>1, <5>2
      <4> QED
        BY <4>1, <4>2
    <3> QED
      BY <3>2, <3>3, <3>4
  <2> QED
    BY <2>1, <2>2 DEF Settle
<1> QED
  BY <1>1, <1>2, <1>3, <1>9, QuietFollows

(* What happens after a failed one. *)
LEMMA FailScopeFollows == ASSUME NEW n \in Node, FailScope(n) PROVE Follows
<1>1. act[n].pc = "failed" /\ n = at /\ UNCHANGED <<log, pos, written>>
      /\ Return(n, act, "err", NoNode, act[n].fatal \/ n \in RetrySteps)
  BY DEF FailScope, At
<1>2. ~Asks(Now)
  BY <1>1, NowIs DEF Asks
<1>3. NextExec(Now, Nothing) = AfterFailure(Now, n)
  BY <1>1, NowIs DEF NextExec
<1>4. Now' = CallOver(Now, n, act, written', "err", NoNode, act[n].fatal \/ n \in RetrySteps)
  BY <1>1, ReturnFollows
<1>5. Now' = AfterFailure(Now, n)
  BY <1>1, <1>4, NowIs DEF AfterFailure
<1> QED
  BY <1>1, <1>2, <1>3, <1>5, QuietFollows

(* Every step of the executor. *)
LEMMA StepFollows == ASSUME Nested, FrameInv, NEW n \in Node, Step(n) PROVE Follows
<1>1. TypeOK /\ CallStack
  BY DEF Nested
<1> QED
  BY <1>1, StartBodyFollows, RunTaskFollows, CallKidFollows, FinishBodyFollows, ResumeFollows, DecideFollows,
     HandleFollows, SettleFollows, FailScopeFollows DEF Step

-----------------------------------------------------------------------------
(* Frames. *)

(* Saving a frame under a number of its own. *)
LEMMA SaveFrameIds ==
  ASSUME NEW a \in Acts, NEW fs \in SUBSET Frames, \A f, g \in fs : f.id = g.id => f = g,
         \A f \in fs : f.id <= a.next /\ f.id # a.cur, a.cur <= a.next
  PROVE  /\ \A f, g \in fs \cup {FrameOf(a)} : f.id = g.id => f = g
         /\ \A f \in fs \cup {FrameOf(a)} : f.id <= a.next
         /\ Saved(a, fs \cup {FrameOf(a)})
<1>1. FrameOf(a).id = a.cur
  BY DEF FrameOf
<1> QED
  BY <1>1 DEF Saved

(* The call on top goes on as b. *)
LEMMA LocalFrames ==
  ASSUME TypeOK, FrameInv, NEW n \in Node, NEW b, act' = [act EXCEPT ![n] = b],
         \A m \in Node : m # n => frames'[m] = frames[m], FrameIds(b, frames'[n])
  PROVE  FrameInv'
<1>1. \A m \in Node : act'[m] = IF m = n THEN b ELSE act[m]
  BY DEF TypeOK
<1> SUFFICES ASSUME NEW m \in Node PROVE FrameIds(act'[m], frames'[m])
  BY DEF FrameInv
<1>2. CASE m = n
  BY <1>1, <1>2
<1>3. CASE m # n
  BY <1>1, <1>3 DEF FrameInv
<1> QED
  BY <1>2, <1>3

(* A body returns. *)
LEMMA ReturnBodyFrames ==
  ASSUME TypeOK, FrameInv, NEW n \in Node, act[n].pc \in {"call", "resume"}, NEW a \in Acts,
         a.cur = act[n].cur, a.next = act[n].next, NEW sig \in {"ok", "route", "err"}, NEW fatal \in BOOLEAN,
         ReturnBody(n, a, sig, fatal)
  PROVE  FrameInv'
<1> DEFINE b == [a EXCEPT !.pc = "returned", !.sig = sig, !.fatal = fatal, !.caught = FALSE, !.last = a.cur]
           fs == frames[n]
<1>1. b \in Acts /\ b.pc = "returned" /\ b.sig = sig /\ b.cur = a.cur /\ b.next = a.next /\ b.out = a.out
  BY ZenonT(60) DEF Acts, Pcs, Signals
<1>2. act' = [act EXCEPT ![n] = b] /\ frames' = [frames EXCEPT ![n] = @ \cup {[id |-> a.cur, out |-> a.out]}]
  BY DEF ReturnBody, SaveFrame
<1> HIDE DEF b
<1>3. fs \in SUBSET Frames /\ (\A f, g \in fs : f.id = g.id => f = g) /\ (\A f \in fs : f.id <= b.next /\ f.id # b.cur)
      /\ b.cur = b.next
  BY <1>1 DEF TypeOK, FrameInv, FrameIds
<1>4. b.cur <= b.next
  BY <1>1, <1>3 DEF Acts
<1>5. frames'[n] = fs \cup {FrameOf(b)}
  BY <1>1, <1>2 DEF TypeOK, FrameOf
<1>6. \A m \in Node : m # n => frames'[m] = frames[m]
  BY <1>2 DEF TypeOK
<1> HIDE DEF fs
<1>7. /\ \A f, g \in frames'[n] : f.id = g.id => f = g
      /\ \A f \in frames'[n] : f.id <= b.next
      /\ Saved(b, frames'[n])
  <2>1. /\ \A f, g \in fs \cup {FrameOf(b)} : f.id = g.id => f = g
        /\ \A f \in fs \cup {FrameOf(b)} : f.id <= b.next
        /\ Saved(b, fs \cup {FrameOf(b)})
    BY <1>1, <1>3, <1>4, SaveFrameIds
  <2> QED
    BY <1>5, <2>1
<1>8. FrameIds(b, frames'[n])
  BY <1>1, <1>7 DEF FrameIds
<1> QED
  BY <1>2, <1>6, <1>8, LocalFrames

(* A call returns; its caller waits for it. *)
LEMMA ReturnFrames ==
  ASSUME Nested, FrameInv, NEW n \in Node, act[n].pc # "idle", NEW acts \in [Node -> Acts], NEW sig, NEW to, NEW fatal,
         Return(n, acts, sig, to, fatal), \A m \in Node : m # Parent[n] => acts[m] = act[m],
         Parent[n] \in Node => acts[Parent[n]].cur = act[Parent[n]].cur /\ acts[Parent[n]].next = act[Parent[n]].next
  PROVE  FrameInv'
<1> DEFINE p == Parent[n]
           up == [acts[p] EXCEPT !.pc = "resume", !.sig = sig, !.to = to, !.fatal = fatal]
<1>1. TypeOK /\ CallStack /\ p # n
  BY NodeAssumption, TreeAssumption DEF Nested
<1>2. frames'[n] = {} /\ \A m \in Node : m # n => frames'[m] = frames[m]
  BY <1>1 DEF Return, TypeOK
<1>3. FrameIds(Idle, {})
  BY DEF FrameIds, Idle
<1>4. CASE p = NoNode
  <2>1. act' = [acts EXCEPT ![n] = Idle]
    BY <1>4 DEF Return
  <2>2. \A m \in Node : act'[m] = IF m = n THEN Idle ELSE act[m]
    BY <1>4, <2>1, NodeAssumption
  <2> SUFFICES ASSUME NEW m \in Node PROVE FrameIds(act'[m], frames'[m])
    BY DEF FrameInv
  <2>3. CASE m = n
    BY <1>2, <1>3, <2>2, <2>3
  <2>4. CASE m # n
    BY <1>2, <2>2, <2>4 DEF FrameInv
  <2> QED
    BY <2>3, <2>4
<1>5. CASE p # NoNode
  <2>1. p \in Node
    BY <1>5, NodeAssumption
  <2>2. act' = [acts EXCEPT ![n] = Idle, ![p] = up]
    BY <1>5 DEF Return
  <2>3. act[p].pc = "wait"
    BY <1>1, <1>5 DEF CallStack
  <2>4. up.pc = "resume" /\ up.cur = act[p].cur /\ up.next = act[p].next
    BY <2>1 DEF Acts
  <2> HIDE DEF up
  <2>5. FrameIds(up, frames[p])
    BY <2>1, <2>3, <2>4 DEF FrameInv, FrameIds
  <2> HIDE DEF p
  <2>6. \A m \in Node : act'[m] = IF m = n THEN Idle ELSE IF m = p THEN up ELSE act[m]
    BY <1>1, <2>2 DEF p
  <2> SUFFICES ASSUME NEW m \in Node PROVE FrameIds(act'[m], frames'[m])
    BY DEF FrameInv
  <2>7. CASE m = n
    BY <1>2, <1>3, <2>6, <2>7
  <2>8. CASE m = p /\ m # n
    BY <1>1, <1>2, <2>5, <2>6, <2>8
  <2>9. CASE m # n /\ m # p
    BY <1>2, <2>6, <2>9 DEF FrameInv
  <2> QED
    BY <2>7, <2>8, <2>9
<1> QED
  BY <1>4, <1>5

(* An accepted outcome names the frame that was filled, on a replay too. *)
LEMMA RecordedIsFilled ==
  ASSUME TypeOK, ReplayLegal, NEW n \in Node, n = at, Asks(Now), NEW what, NEW frame, Record(n, what, frame),
         what = "accept" => frame = act[n].cur, what \in {"handled", "routed"} => frame = NewFrameId(act[n]),
         what \in {"accept", "handled", "routed"}
  PROVE  RecordedFrame(frame) = frame
<1>1. CASE Replaying
  <2>1. Legal(Now, log[pos + 1]) /\ log[pos + 1].what = what
    BY <1>1 DEF ReplayLegal, Record
  <2>2. LegalFrame(act[n], log[pos + 1])
    BY <2>1, NowIs DEF Legal
  <2> QED
    BY <1>1, <2>1, <2>2 DEF LegalFrame, RecordedFrame
<1>2. CASE ~Replaying
  BY <1>2 DEF RecordedFrame
<1> QED
  BY <1>1, <1>2

(* Every step keeps the frames' numbers. *)
LEMMA StepFrames == ASSUME Nested, FrameInv, ReplayLegal, NEW n \in Node, Step(n) PROVE FrameInv'
<1> DEFINE a == act[n]
           fs == frames[n]
<1>1. TypeOK /\ CallStack /\ act \in [Node -> Acts] /\ a \in Acts /\ a.next \in Nat /\ a.cur \in Nat /\ fs \in SUBSET Frames
  BY DEF Nested, TypeOK, Acts
<1>2. FrameIds(a, fs)
  BY DEF FrameInv
<1>3. ASSUME UNCHANGED frames, NEW b, act' = [act EXCEPT ![n] = b], FrameIds(b, fs) PROVE FrameInv'
  BY <1>1, <1>3, LocalFrames
<1>4. CASE StartBody(n)
  <2> DEFINE b == [NewFrame(a) EXCEPT !.pc = "call", !.attempt = a.attempt + 1,
                                      !.kid = First[n], !.sig = "none", !.to = NoNode]
  <2>1. NewFrame(a) \in Acts /\ NewFrame(a).next = a.next + 1 /\ NewFrame(a).cur = a.next + 1
    BY <1>1, NewFrameType DEF NewFrame, NewFrameId, Acts
  <2>2. b.pc = "call" /\ b.next = a.next + 1 /\ b.cur = a.next + 1
    BY <2>1 DEF Acts
  <2>3. act' = [act EXCEPT ![n] = b] /\ UNCHANGED frames
    BY <1>4 DEF StartBody
  <2> HIDE DEF b
  <2>4. \A f \in fs : f.id \in Nat
    BY <1>1 DEF Frames
  <2>5. FrameIds(b, fs)
    BY <1>1, <1>2, <2>2, <2>4 DEF FrameIds
  <2> QED
    BY <1>3, <2>3, <2>5
<1>5. CASE RunTask(n)
  <2>1. a.pc = "call"
    BY <1>5 DEF RunTask, At
  <2>2. CASE ReturnBody(n, [a EXCEPT !.out = [scope |-> n, val |-> pos + 1]], "ok", FALSE)
    <3> DEFINE o == [scope |-> n, val |-> pos + 1]
               b == [a EXCEPT !.out = o]
    <3>1. o \in Outs
      BY <1>1 DEF Outs, TypeOK
    <3> HIDE DEF o
    <3>2. b \in Acts /\ b.cur = a.cur /\ b.next = a.next
      BY <1>1, <3>1 DEF Acts
    <3>3. ReturnBody(n, b, "ok", FALSE)
      BY <2>2 DEF o
    <3> HIDE DEF b
    <3> QED
      BY <1>1, <2>1, <3>2, <3>3, ReturnBodyFrames
  <2>3. CASE ReturnBody(n, a, "err", FALSE)
    BY <1>1, <2>1, <2>3, ReturnBodyFrames
  <2> QED
    BY <1>5, <2>2, <2>3 DEF RunTask
<1>6. CASE CallKid(n)
  <2> DEFINE k == a.kid
             called == [Idle EXCEPT !.pc = "entry", !.covered = a.covered \/ DeclaredCatch(n) # "none"]
             waits == [a EXCEPT !.pc = "wait"]
  <2>1. act' = [act EXCEPT ![n] = waits, ![k] = called] /\ UNCHANGED frames /\ a.pc = "call" /\ n = at /\ k # NoNode
    BY <1>6 DEF CallKid, At
  <2>2. k \in Node /\ Parent[k] = n /\ k # n
    BY <1>1, <2>1, TreeAssumption DEF Acts, CallStack
  <2>3. act[k].pc = "idle"
    BY <1>1, <2>1, <2>2, NodeAssumption DEF CallStack
  <2>4. frames[k] = {}
    BY <2>2, <2>3 DEF FrameInv, FrameIds
  <2>5. called.pc = "entry" /\ waits.pc = "wait" /\ waits.cur = a.cur /\ waits.next = a.next
    BY <1>1 DEF Idle, Acts
  <2> HIDE DEF called, waits, k
  <2>6. \A m \in Node : act'[m] = IF m = k THEN called ELSE IF m = n THEN waits ELSE act[m]
    BY <1>1, <2>1, <2>2
  <2> SUFFICES ASSUME NEW m \in Node PROVE FrameIds(act'[m], frames[m])
    BY <2>1 DEF FrameInv
  <2>7. CASE m = k
    <3>1. FrameIds(called, {})
      BY <2>5 DEF FrameIds
    <3> QED
      BY <2>4, <2>6, <2>7, <3>1
  <2>8. CASE m = n
    <3>1. FrameIds(waits, fs)
      BY <1>2, <2>1, <2>5 DEF FrameIds
    <3> QED
      BY <2>2, <2>6, <2>8, <3>1
  <2>9. CASE m # k /\ m # n
    BY <2>6, <2>9 DEF FrameInv
  <2> QED
    BY <2>7, <2>8, <2>9
<1>7. CASE FinishBody(n)
  <2>1. a.pc = "call"
    BY <1>7 DEF FinishBody, At
  <2>2. CASE ReturnBody(n, [a EXCEPT !.out = [scope |-> n, val |-> pos]], "ok", FALSE)
    <3> DEFINE o == [scope |-> n, val |-> pos]
               b == [a EXCEPT !.out = o]
    <3>1. o \in Outs
      BY <1>1 DEF Outs, TypeOK
    <3> HIDE DEF o
    <3>2. b \in Acts /\ b.cur = a.cur /\ b.next = a.next
      BY <1>1, <3>1 DEF Acts
    <3>3. ReturnBody(n, b, "ok", FALSE)
      BY <2>2 DEF o
    <3> HIDE DEF b
    <3> QED
      BY <1>1, <2>1, <3>2, <3>3, ReturnBodyFrames
  <2>3. CASE ReturnBody(n, a, "ok", FALSE)
    BY <1>1, <2>1, <2>3, ReturnBodyFrames
  <2> QED
    BY <1>7, <2>2, <2>3 DEF FinishBody
<1>8. CASE Resume(n)
  <2>1. a.pc = "resume" /\ a.fatal \in BOOLEAN
    BY <1>1, <1>8 DEF Resume, At, Acts
  <2>2. ASSUME NEW k, act' = [act EXCEPT ![n] = [a EXCEPT !.pc = "call", !.kid = k]], UNCHANGED frames
        PROVE  FrameInv'
    <3> DEFINE b == [a EXCEPT !.pc = "call", !.kid = k]
    <3>1. b.pc = "call" /\ b.cur = a.cur /\ b.next = a.next
      BY <1>1 DEF Acts
    <3>2. act' = [act EXCEPT ![n] = b]
      BY <2>2
    <3> HIDE DEF b
    <3>3. FrameIds(b, fs)
      BY <1>2, <2>1, <3>1 DEF FrameIds
    <3> QED
      BY <1>3, <2>2, <3>2, <3>3
  <2>3. ASSUME NEW sig \in {"ok", "route", "err"}, NEW fatal \in BOOLEAN, ReturnBody(n, a, sig, fatal)
        PROVE  FrameInv'
    BY <1>1, <2>1, <2>3, ReturnBodyFrames
  <2>4. CASE ReturnBody(n, a, IF Kind[n] = "machine" THEN "err" ELSE "route", FALSE)
    <3>1. (IF Kind[n] = "machine" THEN "err" ELSE "route") \in {"ok", "route", "err"} /\ FALSE \in BOOLEAN
      OBVIOUS
    <3> QED
      BY <2>3, <2>4, <3>1
  <2>5. CASE ReturnBody(n, a, "ok", FALSE)
    BY <2>3, <2>5
  <2>6. CASE ReturnBody(n, a, "err", a.fatal)
    BY <2>1, <2>3, <2>6
  <2> QED
    BY <1>8, <2>2, <2>4, <2>5, <2>6, Zenon DEF Resume
<1>9. CASE Decide(n)
  <2>1. UNCHANGED frames /\ a.pc = "returned" /\ n = at
    BY <1>9 DEF Decide, At
  <2>2. Asks(Now)
    BY <2>1, NowIs DEF Asks
  <2>3. ASSUME NEW b, act' = [act EXCEPT ![n] = b], b.next = a.next, b.pc \in {"entry", "failed", "handling", "returned"},
               b.sig = "err"
        PROVE  FrameInv'
    <3>1. FrameIds(b, fs)
      BY <1>2, <2>3 DEF FrameIds
    <3> QED
      BY <1>3, <2>1, <2>3, <3>1
  <2>4. CASE /\ a.sig \in {"ok", "route"}
             /\ Record(n, "accept", a.cur)
             /\ act' = [act EXCEPT ![n] = [a EXCEPT !.pc = "accepted", !.acc = RecordedFrame(a.cur)]]
    <3> DEFINE b == [a EXCEPT !.pc = "accepted", !.acc = RecordedFrame(a.cur)]
    <3>1. RecordedFrame(a.cur) = a.cur
      BY <1>1, <2>1, <2>2, <2>4, RecordedIsFilled
    <3>2. b.acc = a.cur /\ b.cur = a.cur /\ b.out = a.out /\ b.pc = "accepted" /\ b.next = a.next
      BY <1>1, <3>1 DEF Acts
    <3>3. act' = [act EXCEPT ![n] = b]
      BY <2>4
    <3> HIDE DEF b
    <3>4. Saved(b, fs)
      BY <1>2, <2>1, <2>4, <3>2 DEF FrameIds, Saved, FrameOf
    <3>5. FrameIds(b, fs)
      BY <1>2, <3>2, <3>4 DEF FrameIds
    <3> QED
      BY <1>3, <2>1, <3>3, <3>5
  <2>5. CASE act' = [act EXCEPT ![n] = [a EXCEPT !.sig = "err", !.fatal = TRUE]]
    <3> DEFINE b == [a EXCEPT !.sig = "err", !.fatal = TRUE]
    <3>1. b.sig = "err" /\ b.pc = "returned" /\ b.next = a.next
      BY <1>1, <2>1 DEF Acts
    <3> HIDE DEF b
    <3> QED
      BY <2>3, <2>5, <3>1 DEF b
  <2>6. ASSUME NEW b, act' = [act EXCEPT ![n] = b], a.sig = "err",
               \/ b = [a EXCEPT !.pc = "handling", !.caught = TRUE]
               \/ b = [a EXCEPT !.pc = "entry"]
               \/ b = [a EXCEPT !.pc = "failed"]
        PROVE  FrameInv'
    <3>1. b.next = a.next /\ b.sig = "err" /\ b.pc \in {"entry", "failed", "handling", "returned"}
      BY <1>1, <2>6 DEF Acts
    <3> QED
      BY <2>3, <2>6, <3>1
  <2> QED
    BY <1>9, <2>4, <2>5, <2>6, Zenon DEF Decide
<1>10. CASE Handle(n)
  <2> DEFINE f == NewFrame(a)
             done(sig, out) == [f EXCEPT !.pc = "accepted", !.sig = sig, !.out = out, !.last = f.cur,
                                         !.acc = RecordedFrame(f.cur)]
             handled == done(IF Kind[n] = "policy" THEN "handled" ELSE "ok",
                             [scope |-> CompletedBy(n), val |-> pos])
             routed == [done("route", NoOut) EXCEPT !.to = RouteTo[CompletedBy(n)]]
  <2>1. a.pc = "handling" /\ n = at
    BY <1>10 DEF Handle, At
  <2>2. Asks(Now)
    BY <2>1, NowIs DEF Asks
  <2>3. f \in Acts /\ f.next = a.next + 1 /\ f.cur = a.next + 1 /\ f.sig = a.sig /\ f.cur = NewFrameId(a)
    BY <1>1, NewFrameType DEF NewFrame, NewFrameId, Acts
  <2>4. \A g \in fs : g.id \in Nat /\ g.id <= a.next
    BY <1>1, <1>2 DEF Frames, FrameIds
  <2>5. ASSUME NEW b, b.cur = f.cur, b.next = f.next, b.acc = f.cur, b.pc = "accepted",
               act' = [act EXCEPT ![n] = b], SaveFrame(n, b)
        PROVE  FrameInv'
    <3>1. frames'[n] = fs \cup {FrameOf(b)} /\ \A m \in Node : m # n => frames'[m] = frames[m]
      BY <1>1, <2>5 DEF SaveFrame, TypeOK, FrameOf
    <3>2. FrameOf(b).id = a.next + 1
      BY <2>3, <2>5 DEF FrameOf
    <3>3. \A g, h \in frames'[n] : g.id = h.id => g = h
      BY <1>1, <1>2, <2>4, <3>1, <3>2 DEF FrameIds
    <3>4. \A g \in frames'[n] : g.id <= b.next
      BY <1>1, <2>3, <2>4, <2>5, <3>1, <3>2
    <3>5. Saved(b, frames'[n])
      BY <3>1 DEF Saved
    <3>6. FrameIds(b, frames'[n])
      BY <2>5, <3>3, <3>4, <3>5 DEF FrameIds
    <3> QED
      BY <1>1, <2>5, <3>1, <3>6, LocalFrames
  <2>6. CASE Record(n, "handled", f.cur) /\ act' = [act EXCEPT ![n] = handled] /\ SaveFrame(n, handled)
    <3>1. RecordedFrame(f.cur) = f.cur
      <4> HIDE DEF f
      <4> QED
        BY <1>1, <2>1, <2>2, <2>3, <2>6, RecordedIsFilled
    <3>2. handled.cur = f.cur /\ handled.next = f.next /\ handled.pc = "accepted" /\ handled.acc = f.cur
      <4> HIDE DEF f
      <4> QED
        BY <2>3, <3>1 DEF Acts
    <3> HIDE DEF handled, f
    <3> QED
      BY <2>5, <2>6, <3>2
  <2>7. CASE Record(n, "routed", f.cur) /\ act' = [act EXCEPT ![n] = routed] /\ SaveFrame(n, routed)
    <3>1. RecordedFrame(f.cur) = f.cur
      <4> HIDE DEF f
      <4> QED
        BY <1>1, <2>1, <2>2, <2>3, <2>7, RecordedIsFilled
    <3>2. routed.cur = f.cur /\ routed.next = f.next /\ routed.pc = "accepted" /\ routed.acc = f.cur
      <4> HIDE DEF f
      <4> QED
        BY <2>3, <3>1 DEF Acts
    <3> HIDE DEF routed, f
    <3> QED
      BY <2>5, <2>7, <3>2
  <2>8. ASSUME NEW pc \in {"returned", "failed"}, act' = [act EXCEPT ![n] = [f EXCEPT !.pc = pc]], UNCHANGED frames
        PROVE  FrameInv'
    <3> DEFINE b == [f EXCEPT !.pc = pc]
    <3>1. a.sig = "err"
      BY <1>2, <2>1 DEF FrameIds
    <3>2. b.pc = pc /\ b.next = a.next + 1 /\ b.sig = "err"
      <4> HIDE DEF f
      <4> QED
        BY <2>3, <3>1 DEF Acts
    <3>3. act' = [act EXCEPT ![n] = b]
      BY <2>8
    <3> HIDE DEF b
    <3>4. \A g \in fs : g.id <= b.next
      BY <1>1, <2>4, <3>2
    <3>5. FrameIds(b, fs)
      BY <1>2, <2>8, <3>2, <3>4 DEF FrameIds
    <3> QED
      BY <1>3, <2>8, <3>3, <3>5
  <2> QED
    BY <1>10, <2>6, <2>7, <2>8, Zenon DEF Handle
<1>11. ASSUME NEW sig, NEW to, NEW fatal, a.pc # "idle", Return(n, act, sig, to, fatal) PROVE FrameInv'
  BY <1>1, <1>11, ReturnFrames
<1>12. CASE Settle(n)
  <2>1. a.pc # "idle"
    BY <1>12 DEF Settle, At
  <2>2. ASSUME NEW f \in AcceptedFrames(n), f.out # NoOut, DeferToState(n),
               Return(n, [act EXCEPT ![Parent[n]].out = [f.out EXCEPT !.scope = Parent[n]]], a.sig, a.to, FALSE)
        PROVE  FrameInv'
    <3> DEFINE p == Parent[n]
               o == [f.out EXCEPT !.scope = p]
               acts == [act EXCEPT ![p].out = o]
    <3>1. p \in Node /\ act[p] \in Acts
      BY <1>1, <2>2, NodeAssumption DEF DeferToState, EnclosedBy
    <3>2. o \in Outs
      <4>1. f.out \in Outs
        BY <1>1 DEF AcceptedFrames, Frames
      <4> QED
        BY <2>2, <3>1, <4>1, OutScope DEF Outs
    <3>3. Return(n, acts, a.sig, a.to, FALSE)
      BY <2>2
    <3> HIDE DEF o
    <3>4. /\ [act[p] EXCEPT !.out = o] \in Acts
          /\ [act[p] EXCEPT !.out = o].cur = act[p].cur
          /\ [act[p] EXCEPT !.out = o].next = act[p].next
      BY <3>1, <3>2 DEF Acts
    <3>5. /\ acts \in [Node -> Acts] /\ acts[p].cur = act[p].cur /\ acts[p].next = act[p].next
          /\ \A m \in Node : m # p => acts[m] = act[m]
      BY <1>1, <3>1, <3>4
    <3> HIDE DEF acts
    <3> QED
      BY <2>1, <3>3, <3>5, ReturnFrames
  <2> QED
    BY <1>11, <1>12, <2>1, <2>2, Zenon DEF Settle
<1>13. CASE FailScope(n)
  BY <1>11, <1>13 DEF FailScope, At
<1> QED
  BY <1>4, <1>5, <1>6, <1>7, <1>8, <1>9, <1>10, <1>12, <1>13 DEF Step

-----------------------------------------------------------------------------
(* The execution that the history determines. *)

(* Where the process is on it, it asks for what was recorded. *)
LEMMA RunIsLegal == ASSUME TypeOK, ReplayInv PROVE ReplayLegal
<1> SUFFICES ASSUME at \in Node, Asks(Now), Replaying PROVE Legal(Now, log[pos + 1])
  BY DEF ReplayLegal
<1>1. PICK m \in Nat : \E tr : IsRun(tr, m, log) /\ \E k \in 0..m : Now = tr[k]
  BY DEF ReplayInv
<1>2. PICK tr : IsRun(tr, m, log) /\ \E k \in 0..m : Now = tr[k]
  BY <1>1
<1>3. PICK k \in 0..m : Now = tr[k]
  BY <1>2
<1>4. k # m
  BY <1>2, <1>3, NowIs DEF IsRun, Replaying, TypeOK
<1>5. k \in 0..(m - 1)
  BY <1>4
<1> QED
  BY <1>2, <1>3, <1>5, NowIs DEF IsRun

(* A step that replays follows it; a step at its end prolongs it. *)
LEMMA FollowsRun == ASSUME TypeOK, ReplayInv, Follows PROVE ReplayInv'
<1>1. PICK m \in Nat : \E tr : IsRun(tr, m, log) /\ \E k \in 0..m : Now = tr[k]
  BY DEF ReplayInv
<1>2. PICK tr : IsRun(tr, m, log) /\ \E k \in 0..m : Now = tr[k]
  BY <1>1
<1>3. PICK k \in 0..m : Now = tr[k]
  BY <1>2
<1>4. CASE k < m
  <2>1. k \in 0..(m - 1) /\ k + 1 \in 0..m
    BY <1>4
  <2>2. Asks(Now) => pos + 1 \in DOMAIN log
    BY <1>2, <1>3, <2>1, NowIs DEF IsRun
  <2>3. Asks(Now) => Replaying
    BY <2>2 DEF Replaying, TypeOK
  <2>4. log' = log
    BY <2>3 DEF Follows
  <2>5. Now' = tr[k + 1]
    BY <1>2, <1>3, <2>1, <2>4 DEF Follows, IsRun
  <2> QED
    BY <1>2, <2>1, <2>4, <2>5 DEF ReplayInv
<1>5. CASE k = m
  <2>1. pos = Len(log) /\ ~Replaying /\ Now = tr[m]
    BY <1>2, <1>3, <1>5, NowIs DEF IsRun, Replaying, TypeOK
  <2> DEFINE tp == [i \in 0..(m + 1) |-> IF i <= m THEN tr[i] ELSE Now']
  <2>2. (\A i \in 0..m : tp[i] = tr[i]) /\ tp[m + 1] = Now' /\ m + 1 \in Nat /\ m + 1 \in 0..(m + 1)
    OBVIOUS
  <2> HIDE DEF tp
  <2>3. tp[0] = Start
    BY <1>2, <2>2 DEF IsRun
  <2>4. Now'.pos = pos'
    BY NowIs DEF Exec
  <2>5. CASE ~Asks(Now)
    <3>1. log' = log /\ pos' = pos /\ Now' = NextExec(Now, Told(Now, log))
      BY <2>5 DEF Follows
    <3>2. tp[m + 1].pos = Len(log')
      BY <2>1, <2>2, <2>4, <3>1
    <3>3. ASSUME NEW i \in 0..m
          PROVE  /\ tp[i + 1] = NextExec(tp[i], Told(tp[i], log'))
                 /\ Asks(tp[i]) => tp[i].pos + 1 \in DOMAIN log' /\ Legal(tp[i], log'[tp[i].pos + 1])
      <4>1. CASE i = m
        BY <2>1, <2>2, <2>5, <3>1, <4>1
      <4>2. CASE i # m
        <5>1. i \in 0..(m - 1) /\ i + 1 \in 0..m /\ i \in 0..m
          BY <3>3, <4>2
        <5>2. tp[i] = tr[i] /\ tp[i + 1] = tr[i + 1]
          BY <2>2, <5>1
        <5> QED
          BY <1>2, <3>1, <5>1, <5>2 DEF IsRun
      <4> QED
        BY <4>1, <4>2
    <3>4. (m + 1) - 1 = m
      OBVIOUS
    <3>5. IsRun(tp, m + 1, log')
      BY <2>3, <3>2, <3>3, <3>4 DEF IsRun
    <3> QED
      BY <2>2, <3>5 DEF ReplayInv
  <2>6. CASE Asks(Now)
    <3>1. PICK r \in Entries : log' = Append(log, r) /\ Legal(Now, r)
      BY <2>1, <2>6 DEF Follows
    <3>2. pos' = pos + 1 /\ Now' = NextExec(Now, Told(Now, log'))
      BY <2>6 DEF Follows
    <3>3. /\ Len(log') = Len(log) + 1 /\ log'[Len(log) + 1] = r
          /\ DOMAIN log \subseteq DOMAIN log' /\ Len(log) + 1 \in DOMAIN log'
          /\ \A i \in DOMAIN log : log'[i] = log[i]
      BY <3>1 DEF TypeOK
    <3>4. tp[m + 1].pos = Len(log')
      BY <2>1, <2>2, <2>4, <3>2, <3>3
    <3>5. ASSUME NEW i \in 0..m
          PROVE  /\ tp[i + 1] = NextExec(tp[i], Told(tp[i], log'))
                 /\ Asks(tp[i]) => tp[i].pos + 1 \in DOMAIN log' /\ Legal(tp[i], log'[tp[i].pos + 1])
      <4>1. CASE i = m
        <5>1. tp[i] = Now /\ tp[i + 1] = Now' /\ Now.pos = Len(log)
          BY <2>1, <2>2, <4>1, NowIs
        <5> QED
          BY <3>1, <3>2, <3>3, <5>1
      <4>2. CASE i # m
        <5>1. i \in 0..(m - 1) /\ i + 1 \in 0..m /\ i \in 0..m
          BY <3>5, <4>2
        <5>2. tp[i] = tr[i] /\ tp[i + 1] = tr[i + 1]
          BY <2>2, <5>1
        <5>3. /\ tr[i + 1] = NextExec(tr[i], Told(tr[i], log))
              /\ Asks(tr[i]) => tr[i].pos + 1 \in DOMAIN log /\ Legal(tr[i], log[tr[i].pos + 1])
          BY <1>2, <5>1 DEF IsRun
        <5>4. Told(tr[i], log) = Told(tr[i], log')
          BY <3>3, <5>3 DEF Told
        <5> QED
          BY <3>3, <5>2, <5>3, <5>4
      <4> QED
        BY <4>1, <4>2
    <3>6. (m + 1) - 1 = m
      OBVIOUS
    <3>7. IsRun(tp, m + 1, log')
      BY <2>3, <3>4, <3>5, <3>6 DEF IsRun
    <3> QED
      BY <2>2, <3>7 DEF ReplayInv
  <2> QED
    BY <2>5, <2>6
<1> QED
  BY <1>4, <1>5

(* A crash returns to its start. *)
LEMMA CrashRun == ASSUME ReplayInv, Crash PROVE ReplayInv'
<1>1. PICK m \in Nat : \E tr : IsRun(tr, m, log) /\ \E k \in 0..m : Now = tr[k]
  BY DEF ReplayInv
<1>2. PICK tr : IsRun(tr, m, log)
  BY <1>1
<1>3. Now' = Start /\ log' = log
  BY NowIs DEF Crash, Start
<1>4. Now' = tr[0] /\ 0 \in 0..m
  BY <1>2, <1>3 DEF IsRun
<1> QED
  BY <1>2, <1>3, <1>4 DEF ReplayInv

(* Together they are inductive. *)
ExecutionInv == Nested /\ FrameInv /\ ReplayInv

(* A process starts without frames. *)
LEMMA StartFrames == ASSUME NEW n \in Node PROVE FrameIds(StartActs[n], {})
<1>1. StartActs[n].pc \in {"entry", "idle"}
  BY DEF StartActs, Idle
<1> QED
  BY <1>1 DEF FrameIds

(* The first process starts an empty history. *)
LEMMA ExecutionInit == Init => ExecutionInv
<1> SUFFICES ASSUME Init PROVE ExecutionInv
  OBVIOUS
<1>1. FrameInv
  BY StartFrames DEF FrameInv, Init
<1>2. ReplayInv
  <2> DEFINE tr == [i \in {0} |-> Start]
  <2>1. Now = Start
    BY DEF Init, Now, Start
  <2>2. tr[0] = Start /\ Start.pos = 0
    BY DEF Start, Exec
  <2> HIDE DEF tr
  <2>3. IsRun(tr, 0, log)
    BY <2>2 DEF IsRun, Init
  <2> QED
    BY <2>1, <2>2, <2>3 DEF ReplayInv
<1> QED
  BY <1>1, <1>2, NestedInit DEF ExecutionInv

(* Every step keeps the process on the execution its history determines. *)
LEMMA ExecutionStep == ExecutionInv /\ [Next]_vars => ExecutionInv'
<1> SUFFICES ASSUME ExecutionInv, [Next]_vars PROVE ExecutionInv'
  OBVIOUS
<1>1. Nested /\ FrameInv /\ ReplayInv /\ TypeOK /\ Nested'
  BY NestedStep DEF ExecutionInv, Nested
<1>2. ASSUME NEW n \in Node, Step(n) PROVE FrameInv' /\ ReplayInv'
  <2>1. FrameInv'
    BY <1>1, <1>2, RunIsLegal, StepFrames
  <2>2. Follows
    BY <1>1, <1>2, StepFollows
  <2> QED
    BY <1>1, <2>1, <2>2, FollowsRun
<1>3. CASE Crash
  <2>1. FrameInv'
    BY <1>3, StartFrames DEF FrameInv, Crash
  <2>2. ReplayInv'
    BY <1>1, <1>3, CrashRun
  <2> QED
    BY <1>1, <2>1, <2>2 DEF ExecutionInv
<1>4. CASE UNCHANGED vars
  <2>1. FrameInv'
    BY <1>1, <1>4 DEF vars, FrameInv
  <2>2. log' = log /\ Now' = Now
    BY <1>4 DEF vars, Now
  <2>3. ReplayInv'
    BY <1>1, <2>2 DEF ReplayInv
  <2> QED
    BY <1>1, <2>1, <2>3 DEF ExecutionInv
<1> QED
  BY <1>1, <1>2, <1>3, <1>4 DEF Next, JobOver, ExecutionInv

(* The process is always at a point of the one execution that JobDB's       *)
(* history determines, its frames numbered as in that execution.            *)
THEOREM ExecutionInvariant == Spec => []ExecutionInv
  BY ExecutionInit, ExecutionStep, PTL DEF Spec

(* Replay asks for the recorded steps in the recorded order, for every      *)
(* recipe and wherever the processes before this one crashed: JobDB never   *)
(* sees a nondeterministic execution.                                       *)
THEOREM EveryReplayFollowsHistory == Spec => []ReplayFollowsHistory
<1>1. ExecutionInv => ReplayFollowsHistory
  <2> SUFFICES ASSUME ExecutionInv, at # NoNode, Replaying, Choices(at) # {}
               PROVE  log[pos + 1].site = at /\ log[pos + 1].what \in Choices(at)
    BY DEF ReplayFollowsHistory
  <2>1. TypeOK /\ at \in Node /\ ReplayLegal
    BY RunIsLegal DEF ExecutionInv, Nested, TypeOK
  <2>2. Choices(at) = ChoicesOf(act[at], at)
    BY DEF Choices, ChoicesOf
  <2>3. Asks(Now)
    BY <2>2, NowIs DEF Asks, ChoicesOf
  <2> QED
    BY <2>1, <2>2, <2>3, NowIs DEF ReplayLegal, Legal
<1> QED
  BY <1>1, ExecutionInvariant, PTL

(* "outcome has no reconstructed frame" is never returned: a process has    *)
(* rebuilt the frame of every outcome it reads from the history.            *)
THEOREM EveryAcceptedFrameIsReconstructed == Spec => []AcceptedFrameReconstructed
<1>1. ExecutionInv => AcceptedFrameReconstructed
  <2> SUFFICES ASSUME ExecutionInv, at # NoNode, act[at].pc = "accepted"
               PROVE  AcceptedFrames(at) # {}
    BY DEF AcceptedFrameReconstructed
  <2>1. at \in Node
    BY DEF ExecutionInv, Nested, TypeOK
  <2>2. act[at].acc = act[at].cur /\ FrameOf(act[at]) \in frames[at]
    BY <2>1 DEF ExecutionInv, FrameInv, FrameIds, Saved
  <2>3. FrameOf(act[at]).id = act[at].cur
    BY DEF FrameOf
  <2> QED
    BY <2>2, <2>3 DEF AcceptedFrames
<1> QED
  BY <1>1, ExecutionInvariant, PTL

-----------------------------------------------------------------------------
(* Outputs of the children that succeeded. *)

(* The slot that the success of n fills. *)
Target(n) == IF Kind[n] = "policy" THEN First[n] ELSE Slot(n)

Done(n, a, outs) == a.out # NoOut \/ outs[Target(n)] # <<>>

(* What invocation a of n has prepared or, through the scopes below it, has *)
(* already published: a state's output is its child's, a policy scope's     *)
(* success is that of its first state, and a machine whose catch handled a  *)
(* failure was completed by a policy scope.                                 *)
PreparedOk(n, a) ==
    /\ Kind[n] = "policy" /\ a.out # NoOut => a.pc = "accepted" /\ a.sig = "handled" /\ a.out.scope = Parent[n]
    /\ Kind[n] # "policy" /\ a.out # NoOut => a.out.scope = n
    /\ a.pc = "accepted" /\ a.sig = "handled" => Kind[n] = "policy" /\ a.out # NoOut

SuccessOk(n, a, outs) ==
    /\ a.pc \in {"returned", "accepted"} /\ a.sig = "ok" => Done(n, a, outs)
    /\ (/\ Kind[n] \in {"state", "policy"} /\ a.pc \in {"call", "wait", "resume"}
        /\ a.kid # First[n] \/ (a.pc = "resume" /\ a.sig = "ok")) => Done(n, a, outs)
    /\ Kind[n] \in {"sequence", "machine"} /\ a.pc = "resume" /\ a.sig = "ok" => outs[Target(a.kid)] # <<>>
    /\ a.pc = "resume" /\ a.sig = "handled" => Kind[n] = "machine" /\ outs[Slot(n)] # <<>>

SuccessInv == \A n \in Node : PreparedOk(n, act[n]) /\ SuccessOk(n, act[n], outputs)

(* A slot is a node's. *)
LEMMA SlotType == ASSUME NEW n \in Node PROVE Slot(n) \in Node
  BY NodeAssumption DEF Slot, DeferToState, EnclosedBy

(* Where the success of a child shows, by the kind of its parent. *)
LEMMA TargetOfKid ==
  ASSUME NEW n \in Node, NEW p \in Node, Parent[n] = p
  PROVE  /\ Kind[p] = "state" => DeferToState(n) /\ Target(n) = p
         /\ Kind[p] = "policy" => Target(n) = n
         /\ Kind[p] # "state" => ~DeferToState(n) /\ Slot(n) = n
         /\ Kind[n] = "policy" => Kind[p] = "machine"
<1>1. n # Root /\ p # NoNode /\ Kind[n] \in Kinds /\ Kind[p] \in Kinds
  BY NodeAssumption, TreeAssumption
<1>2. /\ Kind[n] = "policy" => Kind[p] = "machine"
      /\ Kind[n] = "state" => Kind[p] \in {"machine", "policy"}
      /\ Kind[n] \in {"op", "sequence", "machine"} => Kind[p] \in {"sequence", "state"}
  BY <1>1, TreeAssumption
<1>3. DeferToState(n) <=> Kind[p] = "state"
  BY <1>1, <1>2 DEF DeferToState, EnclosedBy
<1> QED
  BY <1>1, <1>2, <1>3 DEF Target, Slot, Kinds

(* A state's slot is its own, and a policy scope's that of its first state. *)
LEMMA TargetOfScope ==
  ASSUME NEW n \in Node
  PROVE  /\ Target(n) \in Node
         /\ Kind[n] = "state" => Target(n) = n
         /\ Kind[n] = "policy" => Target(n) = First[n] /\ Parent[First[n]] = n /\ Parent[n] \in Node
         /\ Kind[n] # "policy" => Target(n) = Slot(n)
<1>1. Kind[n] = "policy" => First[n] \in Node /\ Parent[First[n]] = n /\ n # Root
  BY NodeAssumption, TreeAssumption
<1> QED
  BY <1>1, SlotType, TreeAssumption DEF Target, Slot, DeferToState

(* A call that waits keeps what it has while its slot does. *)
LEMMA WaitingKeeps ==
  ASSUME NEW m \in Node, NEW a, a.pc \in {"idle", "wait"}, NEW outs, NEW outs2, SuccessOk(m, a, outs),
         a.pc = "wait" /\ Kind[m] \in {"state", "policy"} /\ outs[Target(m)] # <<>> => outs2[Target(m)] # <<>>
  PROVE  SuccessOk(m, a, outs2)
  BY DEF SuccessOk, Done

(* The call on top goes on as b and publishes nothing. *)
LEMMA LocalSuccess ==
  ASSUME TypeOK, SuccessInv, NEW n \in Node, NEW b, act' = [act EXCEPT ![n] = b], UNCHANGED outputs,
         PreparedOk(n, b), SuccessOk(n, b, outputs)
  PROVE  SuccessInv'
<1>1. \A m \in Node : act'[m] = IF m = n THEN b ELSE act[m]
  BY DEF TypeOK
<1> SUFFICES ASSUME NEW m \in Node PROVE PreparedOk(m, act'[m]) /\ SuccessOk(m, act'[m], outputs)
  BY DEF SuccessInv
<1>2. CASE m = n
  BY <1>1, <1>2
<1>3. CASE m # n
  BY <1>1, <1>3 DEF SuccessInv
<1> QED
  BY <1>2, <1>3

(* A body returns. *)
LEMMA ReturnBodySuccess ==
  ASSUME TypeOK, SuccessInv, NEW n \in Node, NEW a \in Acts, NEW sig \in {"ok", "route", "err"}, NEW fatal \in BOOLEAN,
         ReturnBody(n, a, sig, fatal), UNCHANGED outputs,
         Kind[n] = "policy" => a.out = NoOut, Kind[n] # "policy" /\ a.out # NoOut => a.out.scope = n,
         sig = "ok" => Done(n, a, outputs)
  PROVE  SuccessInv'
<1> DEFINE b == [a EXCEPT !.pc = "returned", !.sig = sig, !.fatal = fatal, !.caught = FALSE, !.last = a.cur]
<1>1. b.pc = "returned" /\ b.sig = sig /\ b.out = a.out
  BY DEF Acts
<1>2. act' = [act EXCEPT ![n] = b]
  BY DEF ReturnBody
<1> HIDE DEF b
<1>3. PreparedOk(n, b)
  BY <1>1 DEF PreparedOk
<1>4. SuccessOk(n, b, outputs)
  BY <1>1 DEF SuccessOk, Done
<1> QED
  BY <1>2, <1>3, <1>4, LocalSuccess

(* What the return of n with sig needs of its caller p, which goes on from  *)
(* the invocation a.                                                        *)
Rewards(n, p, a, sig, outs) ==
    /\ PreparedOk(p, a)
    /\ sig = "ok" /\ Kind[p] \in {"state", "policy"} => Done(p, a, outs)
    /\ sig = "ok" /\ Kind[p] \in {"sequence", "machine"} => outs[Target(n)] # <<>>
    /\ sig = "handled" => Kind[p] = "machine" /\ outs[Slot(p)] # <<>>

(* A call returns. *)
LEMMA ReturnSuccess ==
  ASSUME Nested, SuccessInv, NEW n \in Node, n = at, act[n].pc # "idle", NEW acts \in [Node -> Acts],
         NEW sig, NEW to, NEW fatal,
         Return(n, acts, sig, to, fatal), \A m \in Node : m # Parent[n] => acts[m] = act[m],
         \A m \in Node : outputs[m] # <<>> => outputs'[m] # <<>>,
         Parent[n] \in Node =>
            /\ acts[Parent[n]].kid = act[Parent[n]].kid
            /\ acts[Parent[n]].pc = "wait"
            /\ act[Parent[n]].out # NoOut => acts[Parent[n]].out # NoOut
            /\ Rewards(n, Parent[n], acts[Parent[n]], sig, outputs')
  PROVE  SuccessInv'
<1> DEFINE p == Parent[n]
           up == [acts[p] EXCEPT !.pc = "resume", !.sig = sig, !.to = to, !.fatal = fatal]
<1>1. TypeOK /\ CallStack /\ p # n
  BY NodeAssumption, TreeAssumption DEF Nested
<1>2. PreparedOk(n, Idle) /\ SuccessOk(n, Idle, outputs')
  BY DEF PreparedOk, SuccessOk, Idle
<1>3. ASSUME NEW m \in Node, m # n PROVE PreparedOk(m, act[m]) /\ SuccessOk(m, act[m], outputs')
  <2>1. act[m].pc \in {"idle", "wait"}
    BY <1>1, <1>3 DEF CallStack
  <2>2. SuccessOk(m, act[m], outputs) /\ PreparedOk(m, act[m])
    BY DEF SuccessInv
  <2>3. outputs[Target(m)] # <<>> => outputs'[Target(m)] # <<>>
    BY TargetOfScope
  <2> QED
    BY <2>1, <2>2, <2>3, WaitingKeeps
<1>4. CASE p = NoNode
  <2>1. act' = [acts EXCEPT ![n] = Idle]
    BY <1>4 DEF Return
  <2>2. \A m \in Node : act'[m] = IF m = n THEN Idle ELSE act[m]
    BY <1>4, <2>1, NodeAssumption
  <2> SUFFICES ASSUME NEW m \in Node PROVE PreparedOk(m, act'[m]) /\ SuccessOk(m, act'[m], outputs')
    BY DEF SuccessInv
  <2> QED
    BY <1>2, <1>3, <2>2
<1>5. CASE p # NoNode
  <2>1. p \in Node
    BY <1>5, NodeAssumption
  <2>2. act' = [acts EXCEPT ![n] = Idle, ![p] = up]
    BY <1>5 DEF Return
  <2>3. act[p].pc = "wait" /\ act[p].kid = n
    BY <1>1, <1>5 DEF CallStack
  <2>4. up.pc = "resume" /\ up.sig = sig /\ up.kid = n /\ up.out = acts[p].out
    BY <2>1, <2>3 DEF Acts
  <2> HIDE DEF up
  <2>5. Rewards(n, p, acts[p], sig, outputs')
    BY <2>1
  <2>6. PreparedOk(p, up)
    BY <2>1, <2>4, <2>5 DEF Rewards, PreparedOk
  <2>7. Done(p, act[p], outputs) => Done(p, up, outputs')
    BY <2>1, <2>4, TargetOfScope DEF Done
  <2>8. Kind[p] \in {"state", "policy"} /\ n # First[p] => Done(p, act[p], outputs)
    BY <2>1, <2>3 DEF SuccessInv, SuccessOk
  <2>9. Done(p, acts[p], outputs') => Done(p, up, outputs')
    BY <2>4 DEF Done
  <2>10. SuccessOk(p, up, outputs')
    BY <2>4, <2>5, <2>7, <2>8, <2>9 DEF Rewards, SuccessOk
  <2> HIDE DEF p
  <2>11. \A m \in Node : act'[m] = IF m = n THEN Idle ELSE IF m = p THEN up ELSE act[m]
    BY <1>1, <2>2 DEF p
  <2> SUFFICES ASSUME NEW m \in Node PROVE PreparedOk(m, act'[m]) /\ SuccessOk(m, act'[m], outputs')
    BY DEF SuccessInv
  <2>12. CASE m = n
    BY <1>2, <2>11, <2>12
  <2>13. CASE m = p /\ m # n
    BY <2>6, <2>10, <2>11, <2>13
  <2>14. CASE m # n /\ m # p
    BY <1>3, <2>11, <2>14
  <2> QED
    BY <2>12, <2>13, <2>14
<1> QED
  BY <1>4, <1>5

(* A new attempt empties no slot that an open call counts on: the slots of  *)
(* its own maps belong to its children, which are not open.                 *)
LEMMA OpenSlotsStay ==
  ASSUME CallStack, NEW n \in Node, act[n].pc = "entry", NEW m \in Node, m # n, act[m].pc = "wait",
         Kind[m] \in {"state", "policy"}
  PROVE  Target(m) \notin OwnSlots(n)
<1> SUFFICES ASSUME Target(m) \in OwnSlots(n) PROVE FALSE
  OBVIOUS
<1> DEFINE k == Target(m)
<1>1. Parent[k] = n \/ (Parent[Parent[k]] = n /\ Parent[k] # NoNode)
  BY DEF OwnSlots
<1>2. \A j \in Node : act[j].pc = "wait" => Parent[j] # n /\ (Parent[j] # NoNode => act[Parent[j]].pc = "wait")
  BY NodeAssumption DEF CallStack
<1>3. CASE Kind[m] = "state"
  <2>1. k = m
    BY <1>3, TargetOfScope
  <2>2. Parent[m] \in Node \cup {NoNode}
    BY NodeAssumption
  <2> QED
    BY <1>1, <1>2, <2>1, <2>2
<1>4. CASE Kind[m] = "policy"
  <2>1. Parent[k] = m
    BY <1>4, TargetOfScope
  <2> QED
    BY <1>1, <1>2, <2>1
<1> QED
  BY <1>3, <1>4

(* The accepted frame holds the output that was prepared. *)
LEMMA AcceptedIsPrepared ==
  ASSUME FrameInv, NEW n \in Node, act[n].pc = "accepted", NEW f \in AcceptedFrames(n)
  PROVE  f.out = act[n].out
<1>1. FrameIds(act[n], frames[n]) /\ f \in frames[n] /\ f.id = act[n].acc
  BY DEF FrameInv, AcceptedFrames
<1>2. act[n].acc = act[n].cur /\ FrameOf(act[n]) \in frames[n]
  BY <1>1 DEF FrameIds, Saved
<1>3. FrameOf(act[n]).id = act[n].cur /\ FrameOf(act[n]).out = act[n].out
  BY DEF FrameOf
<1>4. f = FrameOf(act[n])
  BY <1>1, <1>2, <1>3 DEF FrameIds
<1> QED
  BY <1>3, <1>4

(* The caller of an accepted scope gets what the scope prepared, or finds   *)
(* it published by a scope below.                                           *)
LEMMA SettleSuccess == ASSUME Nested, FrameInv, SuccessInv, NEW n \in Node, Settle(n) PROVE SuccessInv'
<1> DEFINE a == act[n]
           p == Parent[n]
<1>1. TypeOK /\ CallStack /\ act \in [Node -> Acts] /\ outputs \in [Node -> Seq(Nat)] /\ a \in Acts
  BY DEF Nested, TypeOK
<1>2. n = at /\ a.pc = "accepted"
  BY DEF Settle, At
<1>3. PreparedOk(n, a) /\ SuccessOk(n, a, outputs)
  BY DEF SuccessInv
<1>4. ASSUME p \in Node
      PROVE  /\ act[p].pc = "wait" /\ act[p].kid = n /\ PreparedOk(p, act[p])
             /\ Kind[p] = "policy" /\ n # First[p] => Done(p, act[p], outputs)
  <2>1. act[p].pc = "wait" /\ act[p].kid = n
    BY <1>1, <1>2, <1>4, NodeAssumption DEF CallStack
  <2>2. PreparedOk(p, act[p]) /\ SuccessOk(p, act[p], outputs)
    BY <1>4 DEF SuccessInv
  <2> QED
    BY <2>1, <2>2 DEF SuccessOk
<1>5. ASSUME NEW sig, NEW to, NEW fatal, Return(n, act, sig, to, fatal),
             \A m \in Node : outputs[m] # <<>> => outputs'[m] # <<>>,
             p \in Node => Rewards(n, p, act[p], sig, outputs')
      PROVE  SuccessInv'
  BY <1>1, <1>2, <1>4, <1>5, ReturnSuccess
<1>6. CASE Return(n, act, "err", NoNode, FALSE) /\ UNCHANGED outputs
  <2>1. p \in Node => Rewards(n, p, act[p], "err", outputs')
    BY <1>4 DEF Rewards
  <2> QED
    BY <1>5, <1>6, <2>1
<1>7. ASSUME NEW f \in AcceptedFrames(n), f.out = NoOut, Return(n, act, a.sig, a.to, FALSE), UNCHANGED outputs
      PROVE  SuccessInv'
  <2>1. a.out = NoOut
    BY <1>2, <1>7, AcceptedIsPrepared
  <2>2. a.sig # "handled" /\ (a.sig = "ok" => outputs[Target(n)] # <<>>)
    BY <1>2, <1>3, <2>1 DEF PreparedOk, SuccessOk, Done
  <2>3. ASSUME p \in Node PROVE Rewards(n, p, act[p], a.sig, outputs)
    <3>1. PreparedOk(p, act[p])
      BY <1>4, <2>3
    <3>2. ASSUME a.sig = "ok", Kind[p] = "state" PROVE Done(p, act[p], outputs)
      BY <2>2, <2>3, <3>2, TargetOfKid, TargetOfScope DEF Done
    <3>3. ASSUME a.sig = "ok", Kind[p] = "policy" PROVE Done(p, act[p], outputs)
      <4>1. n = First[p] => outputs[Target(p)] # <<>>
        BY <2>2, <2>3, <3>3, TargetOfKid, TargetOfScope
      <4> QED
        BY <1>4, <2>3, <3>3, <4>1 DEF Done
    <3> QED
      BY <2>2, <3>1, <3>2, <3>3 DEF Rewards
  <2> QED
    BY <1>5, <1>7, <2>3
<1>8. ASSUME NEW f \in AcceptedFrames(n), f.out # NoOut, DeferToState(n), UNCHANGED outputs,
             Return(n, [act EXCEPT ![p].out = [f.out EXCEPT !.scope = p]], a.sig, a.to, FALSE)
      PROVE  SuccessInv'
  <2> DEFINE o == [f.out EXCEPT !.scope = p]
             acts == [act EXCEPT ![p].out = o]
             b == [act[p] EXCEPT !.out = o]
  <2>1. p \in Node /\ act[p] \in Acts /\ Kind[p] = "state"
    BY <1>1, <1>8, NodeAssumption DEF DeferToState, EnclosedBy
  <2>2. o \in Outs /\ o # NoOut /\ o.scope = p
    <3>1. f.out \in Outs
      BY <1>1 DEF AcceptedFrames, Frames, TypeOK
    <3>2. f.out.scope \in Node /\ f.out.val \in Nat /\ f.out = [scope |-> f.out.scope, val |-> f.out.val]
      BY <1>8, <3>1, OutScope
    <3>3. o = [scope |-> p, val |-> f.out.val]
      BY <3>2
    <3> QED
      BY <2>1, <3>2, <3>3, NodeAssumption DEF Outs, NoOut
  <2>3. Return(n, acts, a.sig, a.to, FALSE)
    BY <1>8
  <2> HIDE DEF o
  <2>4. b \in Acts /\ b.out = o /\ b.kid = act[p].kid /\ b.pc = act[p].pc /\ b.sig = act[p].sig
    BY <2>1, <2>2 DEF Acts
  <2>5. acts = [act EXCEPT ![p] = b]
    BY <1>1, <2>1
  <2> HIDE DEF b, acts
  <2>6. acts \in [Node -> Acts] /\ acts[p] = b /\ \A m \in Node : m # p => acts[m] = act[m]
    BY <1>1, <2>1, <2>4, <2>5
  <2>7. PreparedOk(p, b) /\ Done(p, b, outputs)
    BY <1>4, <2>1, <2>2, <2>4 DEF PreparedOk, Done
  <2>8. a.sig # "handled"
    BY <1>2, <1>3, <2>1, TargetOfKid DEF PreparedOk
  <2>9. Rewards(n, p, b, a.sig, outputs)
    BY <2>1, <2>7, <2>8 DEF Rewards
  <2> QED
    BY <1>1, <1>2, <1>4, <1>8, <2>1, <2>2, <2>3, <2>4, <2>6, <2>9, ReturnSuccess, ZenonT(60)
<1>9. ASSUME NEW f \in AcceptedFrames(n), f.out # NoOut, ~DeferToState(n),
             outputs' = [outputs EXCEPT ![Slot(f.out.scope)] = Append(@, f.out.val)],
             Return(n, act, a.sig, a.to, FALSE)
      PROVE  SuccessInv'
  <2> DEFINE s == f.out.scope
  <2>1. f.out = a.out /\ s \in Node /\ f.out.val \in Nat
    <3>1. f.out \in Outs
      BY <1>1 DEF AcceptedFrames, Frames, TypeOK
    <3> QED
      BY <1>2, <1>9, <3>1, AcceptedIsPrepared, OutScope
  <2>2. Slot(s) \in Node /\ outputs[Slot(s)] \in Seq(Nat)
    BY <1>1, <2>1, SlotType
  <2>3. outputs'[Slot(s)] = Append(outputs[Slot(s)], f.out.val) /\ \A m \in Node : m # Slot(s) => outputs'[m] = outputs[m]
    BY <1>1, <1>9, <2>2
  <2>4. outputs'[Slot(s)] # <<>>
    BY <2>1, <2>2, <2>3
  <2>5. \A m \in Node : outputs[m] # <<>> => outputs'[m] # <<>>
    BY <2>3, <2>4
  <2>6. ASSUME p \in Node PROVE Rewards(n, p, act[p], a.sig, outputs')
    <3>1. PreparedOk(p, act[p]) /\ Kind[p] # "state"
      BY <1>4, <1>9, <2>6, TargetOfKid
    <3>2. CASE Kind[n] = "policy"
      <4>1. a.sig = "handled" /\ s = p /\ Kind[p] = "machine"
        BY <1>3, <1>9, <2>1, <2>6, <3>2, TargetOfKid DEF PreparedOk
      <4> QED
        BY <2>4, <3>1, <4>1 DEF Rewards
    <3>3. CASE Kind[n] # "policy"
      <4>1. s = n /\ a.sig # "handled"
        BY <1>2, <1>3, <1>9, <2>1, <3>3 DEF PreparedOk
      <4>2. Slot(n) = n /\ Target(n) = n
        BY <2>6, <3>1, <3>3, TargetOfKid, TargetOfScope
      <4>3. outputs'[n] # <<>>
        BY <2>4, <4>1, <4>2
      <4>4. ASSUME Kind[p] = "policy" PROVE Done(p, act[p], outputs')
        <5>1. CASE n = First[p]
          BY <2>6, <4>3, <4>4, <5>1, TargetOfScope DEF Done
        <5>2. CASE n # First[p]
          BY <1>4, <2>5, <2>6, <4>4, <5>2, TargetOfScope DEF Done
        <5> QED
          BY <5>1, <5>2
      <4> QED
        BY <3>1, <4>1, <4>2, <4>3, <4>4 DEF Rewards
    <3> QED
      BY <3>2, <3>3
  <2> QED
    BY <1>5, <1>9, <2>5, <2>6
<1> QED
  BY <1>6, <1>7, <1>8, <1>9, Zenon DEF Settle

(* Every step keeps the outputs of the children that succeeded. *)
LEMMA StepSuccess == ASSUME Nested, FrameInv, SuccessInv, NEW n \in Node, Step(n) PROVE SuccessInv'
<1> DEFINE a == act[n]
<1>1. TypeOK /\ CallStack /\ act \in [Node -> Acts] /\ a \in Acts /\ outputs \in [Node -> Seq(Nat)]
  BY DEF Nested, TypeOK
<1>2. PreparedOk(n, a) /\ SuccessOk(n, a, outputs)
  BY DEF SuccessInv
<1>3. ASSUME UNCHANGED outputs, NEW b, act' = [act EXCEPT ![n] = b], PreparedOk(n, b), SuccessOk(n, b, outputs)
      PROVE  SuccessInv'
  BY <1>1, <1>3, LocalSuccess
<1>4. CASE StartBody(n)
  <2> DEFINE b == [NewFrame(a) EXCEPT !.pc = "call", !.attempt = a.attempt + 1,
                                      !.kid = First[n], !.sig = "none", !.to = NoNode]
  <2>1. NewFrame(a) \in Acts /\ NewFrame(a).out = NoOut
    BY <1>1, NewFrameType
  <2>2. b.pc = "call" /\ b.kid = First[n] /\ b.sig = "none" /\ b.out = NoOut
    BY <2>1 DEF Acts
  <2>3. act' = [act EXCEPT ![n] = b] /\ n = at /\ a.pc = "entry"
    BY <1>4 DEF StartBody, At
  <2> HIDE DEF b
  <2>4. \A m \in Node : act'[m] = IF m = n THEN b ELSE act[m]
    BY <1>1, <2>3
  <2>5. PreparedOk(n, b) /\ SuccessOk(n, b, outputs')
    BY <2>2 DEF PreparedOk, SuccessOk
  <2> SUFFICES ASSUME NEW m \in Node PROVE PreparedOk(m, act'[m]) /\ SuccessOk(m, act'[m], outputs')
    BY DEF SuccessInv
  <2>6. CASE m = n
    BY <2>4, <2>5, <2>6
  <2>7. CASE m # n
    <3>1. act[m].pc \in {"idle", "wait"} /\ PreparedOk(m, act[m]) /\ SuccessOk(m, act[m], outputs)
      BY <1>1, <2>3, <2>7 DEF CallStack, SuccessInv
    <3>2. act[m].pc = "wait" /\ Kind[m] \in {"state", "policy"} => Target(m) \notin OwnSlots(n)
      BY <1>1, <2>3, <2>7, OpenSlotsStay
    <3>3. act[m].pc = "wait" /\ Kind[m] \in {"state", "policy"} => outputs'[Target(m)] = outputs[Target(m)]
      BY <1>4, <3>2, TargetOfScope DEF StartBody
    <3>4. act[m].pc = "wait" /\ Kind[m] \in {"state", "policy"} /\ outputs[Target(m)] # <<>>
          => outputs'[Target(m)] # <<>>
      BY <3>3
    <3>5. SuccessOk(m, act[m], outputs')
      BY <3>1, <3>4 DEF SuccessOk, Done
    <3> QED
      BY <2>4, <2>7, <3>1, <3>5
  <2> QED
    BY <2>6, <2>7
<1>5. CASE RunTask(n)
  <2>1. a.pc = "call" /\ Kind[n] = "op" /\ UNCHANGED outputs
    BY <1>5 DEF RunTask, At
  <2>2. CASE ReturnBody(n, [a EXCEPT !.out = [scope |-> n, val |-> pos + 1]], "ok", FALSE)
    <3> DEFINE o == [scope |-> n, val |-> pos + 1]
               b == [a EXCEPT !.out = o]
    <3>1. o \in Outs /\ o # NoOut /\ o.scope = n
      BY <1>1, NodeAssumption DEF Outs, TypeOK, NoOut
    <3> HIDE DEF o
    <3>2. b \in Acts /\ b.out = o
      BY <1>1, <3>1 DEF Acts
    <3>3. ReturnBody(n, b, "ok", FALSE)
      BY <2>2 DEF o
    <3> HIDE DEF b
    <3>4. Done(n, b, outputs)
      BY <3>1, <3>2 DEF Done
    <3> QED
      BY <1>1, <2>1, <3>1, <3>2, <3>3, <3>4, ReturnBodySuccess
  <2>3. CASE ReturnBody(n, a, "err", FALSE)
    BY <1>1, <1>2, <2>1, <2>3, ReturnBodySuccess DEF PreparedOk
  <2> QED
    BY <1>5, <2>2, <2>3 DEF RunTask
<1>6. CASE CallKid(n)
  <2> DEFINE k == a.kid
             called == [Idle EXCEPT !.pc = "entry", !.covered = a.covered \/ DeclaredCatch(n) # "none"]
             waits == [a EXCEPT !.pc = "wait"]
  <2>1. act' = [act EXCEPT ![n] = waits, ![k] = called] /\ UNCHANGED outputs /\ a.pc = "call" /\ k # NoNode
    BY <1>6 DEF CallKid, At
  <2>2. k \in Node /\ Parent[k] = n /\ k # n
    <3>1. k \in Node /\ Parent[k] = n
      BY <1>1, <2>1 DEF Acts, CallStack
    <3> QED
      BY <3>1, NodeAssumption, TreeAssumption
  <2>3. called.pc = "entry" /\ called.out = NoOut /\ waits.pc = "wait" /\ waits.out = a.out /\ waits.kid = a.kid
    BY <1>1 DEF Idle, Acts
  <2>4. PreparedOk(n, waits) /\ SuccessOk(n, waits, outputs)
    <3> HIDE DEF waits, called
    <3> QED
      BY <1>2, <2>1, <2>3 DEF PreparedOk, SuccessOk, Done
  <2>5. PreparedOk(k, called) /\ SuccessOk(k, called, outputs)
    <3> HIDE DEF waits, called
    <3> QED
      BY <2>3 DEF PreparedOk, SuccessOk
  <2> HIDE DEF called, waits, k
  <2>6. \A m \in Node : act'[m] = IF m = k THEN called ELSE IF m = n THEN waits ELSE act[m]
    BY <1>1, <2>1, <2>2
  <2> SUFFICES ASSUME NEW m \in Node PROVE PreparedOk(m, act'[m]) /\ SuccessOk(m, act'[m], outputs)
    BY <2>1 DEF SuccessInv
  <2>7. CASE m = k
    BY <2>5, <2>6, <2>7
  <2>8. CASE m = n
    BY <2>2, <2>4, <2>6, <2>8
  <2>9. CASE m # k /\ m # n
    BY <2>6, <2>9 DEF SuccessInv
  <2> QED
    BY <2>7, <2>8, <2>9
<1>7. CASE FinishBody(n)
  <2>1. a.pc = "call" /\ a.kid = NoNode /\ Kind[n] # "op" /\ UNCHANGED outputs
    BY <1>7 DEF FinishBody, At
  <2>2. CASE Kind[n] \in {"sequence", "machine"}
    <3> DEFINE o == [scope |-> n, val |-> pos]
               b == [a EXCEPT !.out = o]
    <3>1. o \in Outs /\ o # NoOut /\ o.scope = n
      BY <1>1, NodeAssumption DEF Outs, TypeOK, NoOut
    <3>2. ReturnBody(n, b, "ok", FALSE)
      BY <1>7, <2>2 DEF FinishBody
    <3> HIDE DEF o
    <3>3. b \in Acts /\ b.out = o
      BY <1>1, <3>1 DEF Acts
    <3> HIDE DEF b
    <3>4. Done(n, b, outputs)
      BY <3>1, <3>3 DEF Done
    <3> QED
      BY <1>1, <2>1, <2>2, <3>1, <3>2, <3>3, <3>4, ReturnBodySuccess
  <2>3. CASE Kind[n] \notin {"sequence", "machine"}
    <3>1. ReturnBody(n, a, "ok", FALSE)
      BY <1>7, <2>3 DEF FinishBody
    <3>2. Kind[n] \in {"state", "policy"} /\ a.kid # First[n]
      BY <2>1, <2>3, NodeAssumption, TreeAssumption DEF Kinds
    <3>3. Done(n, a, outputs)
      BY <1>2, <2>1, <3>2 DEF SuccessOk
    <3> QED
      BY <1>1, <1>2, <2>1, <3>1, <3>3, ReturnBodySuccess DEF PreparedOk
  <2> QED
    BY <2>2, <2>3
<1>8. CASE Resume(n)
  <2>1. a.pc = "resume" /\ a.fatal \in BOOLEAN /\ UNCHANGED outputs
    BY <1>1, <1>8 DEF Resume, At, Acts
  <2>2. ASSUME NEW k, act' = [act EXCEPT ![n] = [a EXCEPT !.pc = "call", !.kid = k]],
               Kind[n] = "machine" \/ a.sig = "ok"
        PROVE  SuccessInv'
    <3> DEFINE b == [a EXCEPT !.pc = "call", !.kid = k]
    <3>1. b.pc = "call" /\ b.out = a.out
      BY <1>1 DEF Acts
    <3>2. act' = [act EXCEPT ![n] = b]
      BY <2>2
    <3> HIDE DEF b
    <3>3. PreparedOk(n, b) /\ SuccessOk(n, b, outputs)
      BY <1>2, <2>1, <2>2, <3>1 DEF PreparedOk, SuccessOk, Done
    <3> QED
      BY <1>3, <2>1, <3>2, <3>3
  <2>3. ASSUME NEW sig \in {"ok", "route", "err"}, NEW fatal \in BOOLEAN, ReturnBody(n, a, sig, fatal),
               sig = "ok" => a.sig = "handled"
        PROVE  SuccessInv'
    <3>1. sig = "ok" => Done(n, a, outputs)
      BY <1>2, <2>1, <2>3 DEF SuccessOk, Done, Target
    <3> QED
      BY <1>1, <1>2, <2>1, <2>3, <3>1, ReturnBodySuccess DEF PreparedOk
  <2>4. CASE ReturnBody(n, a, IF Kind[n] = "machine" THEN "err" ELSE "route", FALSE)
    <3>1. (IF Kind[n] = "machine" THEN "err" ELSE "route") \in {"route", "err"} /\ FALSE \in BOOLEAN
      OBVIOUS
    <3> QED
      BY <2>3, <2>4, <3>1
  <2>5. CASE a.sig = "handled" /\ ReturnBody(n, a, "ok", FALSE)
    BY <2>3, <2>5
  <2>6. CASE ReturnBody(n, a, "err", a.fatal)
    BY <2>1, <2>3, <2>6
  <2> QED
    BY <1>8, <2>2, <2>4, <2>5, <2>6, Zenon DEF Resume, IsStateOf
<1>9. CASE Decide(n)
  <2>1. a.pc = "returned" /\ UNCHANGED outputs
    BY <1>9 DEF Decide, At
  <2>2. ASSUME NEW b, act' = [act EXCEPT ![n] = b], b.out = a.out,
               \/ b.sig = "err" /\ b.pc \in {"entry", "failed", "handling", "returned"}
               \/ b.pc = "accepted" /\ b.sig = a.sig /\ a.sig \in {"ok", "route"}
        PROVE  SuccessInv'
    <3>1. PreparedOk(n, b)
      BY <1>2, <2>1, <2>2 DEF PreparedOk
    <3>2. SuccessOk(n, b, outputs)
      BY <1>2, <2>1, <2>2 DEF SuccessOk, Done
    <3> QED
      BY <1>3, <2>1, <2>2, <3>1, <3>2
  <2>3. CASE /\ a.sig \in {"ok", "route"}
             /\ act' = [act EXCEPT ![n] = [a EXCEPT !.pc = "accepted", !.acc = RecordedFrame(a.cur)]]
    <3> DEFINE b == [a EXCEPT !.pc = "accepted", !.acc = RecordedFrame(a.cur)]
    <3>1. b.out = a.out /\ b.pc = "accepted" /\ b.sig = a.sig
      BY <1>1 DEF Acts
    <3> HIDE DEF b
    <3> QED
      BY <2>2, <2>3, <3>1 DEF b
  <2>4. CASE act' = [act EXCEPT ![n] = [a EXCEPT !.sig = "err", !.fatal = TRUE]]
    <3> DEFINE b == [a EXCEPT !.sig = "err", !.fatal = TRUE]
    <3>1. b.sig = "err" /\ b.pc = "returned" /\ b.out = a.out
      BY <1>1, <2>1 DEF Acts
    <3> HIDE DEF b
    <3> QED
      BY <2>2, <2>4, <3>1 DEF b
  <2>5. ASSUME NEW b, act' = [act EXCEPT ![n] = b], a.sig = "err",
               \/ b = [a EXCEPT !.pc = "handling", !.caught = TRUE]
               \/ b = [a EXCEPT !.pc = "entry"]
               \/ b = [a EXCEPT !.pc = "failed"]
        PROVE  SuccessInv'
    <3>1. b.out = a.out /\ b.sig = "err" /\ b.pc \in {"entry", "failed", "handling", "returned"}
      BY <1>1, <2>5 DEF Acts
    <3> QED
      BY <2>2, <2>5, <3>1
  <2> QED
    BY <1>9, <2>3, <2>4, <2>5, Zenon DEF Decide
<1>10. CASE Handle(n)
  <2> DEFINE f == NewFrame(a)
             done(sig, out) == [f EXCEPT !.pc = "accepted", !.sig = sig, !.out = out, !.last = f.cur,
                                         !.acc = RecordedFrame(f.cur)]
             handled == done(IF Kind[n] = "policy" THEN "handled" ELSE "ok",
                             [scope |-> CompletedBy(n), val |-> pos])
             routed == [done("route", NoOut) EXCEPT !.to = RouteTo[CompletedBy(n)]]
  <2>1. a.pc = "handling" /\ UNCHANGED outputs /\ a.sig = "err"
    BY <1>10 DEF Handle, At, FrameInv, FrameIds
  <2>2. f \in Acts /\ f.out = NoOut /\ f.sig = "err"
    BY <1>1, <2>1, NewFrameType DEF NewFrame, Acts
  <2>3. CASE act' = [act EXCEPT ![n] = handled]
    <3> DEFINE o == [scope |-> CompletedBy(n), val |-> pos]
    <3>1. CompletedBy(n) \in Node /\ CompletedBy(n) = IF Kind[n] = "policy" THEN Parent[n] ELSE n
      BY TargetOfScope DEF CompletedBy
    <3>2. o # NoOut /\ o.scope = CompletedBy(n)
      BY <3>1, NodeAssumption DEF NoOut
    <3>3. handled.pc = "accepted" /\ handled.out = o /\ handled.sig = IF Kind[n] = "policy" THEN "handled" ELSE "ok"
      <4> HIDE DEF f, o
      <4> QED
        BY <2>2 DEF Acts, o
    <3> HIDE DEF handled, o
    <3>4. PreparedOk(n, handled)
      BY <3>1, <3>2, <3>3 DEF PreparedOk
    <3>5. SuccessOk(n, handled, outputs)
      BY <3>2, <3>3 DEF SuccessOk, Done
    <3> QED
      BY <1>3, <2>1, <2>3, <3>4, <3>5
  <2>4. CASE act' = [act EXCEPT ![n] = routed]
    <3>1. routed.pc = "accepted" /\ routed.out = NoOut /\ routed.sig = "route"
      <4> HIDE DEF f
      <4> QED
        BY <2>2 DEF Acts
    <3> HIDE DEF routed
    <3>2. PreparedOk(n, routed) /\ SuccessOk(n, routed, outputs)
      BY <3>1 DEF PreparedOk, SuccessOk
    <3> QED
      BY <1>3, <2>1, <2>4, <3>2
  <2>5. ASSUME NEW pc \in {"returned", "failed"}, act' = [act EXCEPT ![n] = [f EXCEPT !.pc = pc]]
        PROVE  SuccessInv'
    <3> DEFINE b == [f EXCEPT !.pc = pc]
    <3>1. b.pc = pc /\ b.out = NoOut /\ b.sig = "err"
      <4> HIDE DEF f
      <4> QED
        BY <2>2 DEF Acts
    <3>2. act' = [act EXCEPT ![n] = b]
      BY <2>5
    <3> HIDE DEF b
    <3>3. PreparedOk(n, b) /\ SuccessOk(n, b, outputs)
      BY <2>5, <3>1 DEF PreparedOk, SuccessOk
    <3> QED
      BY <1>3, <2>1, <3>2, <3>3
  <2> QED
    BY <1>10, <2>3, <2>4, <2>5, Zenon DEF Handle
<1>11. CASE FailScope(n)
  <2>1. /\ a.pc = "failed" /\ n = at /\ UNCHANGED outputs
        /\ Return(n, act, "err", NoNode, a.fatal \/ n \in RetrySteps)
    BY <1>11 DEF FailScope, At
  <2>2. ASSUME Parent[n] \in Node
        PROVE  act[Parent[n]].pc = "wait" /\ Rewards(n, Parent[n], act[Parent[n]], "err", outputs')
    <3>1. act[Parent[n]].pc = "wait"
      BY <1>1, <2>1, <2>2, NodeAssumption DEF CallStack
    <3> QED
      BY <2>2, <3>1 DEF Rewards, SuccessInv
  <2> QED
    BY <1>1, <2>1, <2>2, ReturnSuccess
<1>12. CASE Settle(n)
  BY <1>12, SettleSuccess
<1> QED
  BY <1>4, <1>5, <1>6, <1>7, <1>8, <1>9, <1>10, <1>11, <1>12 DEF Step

(* Frames, history and outputs together are inductive. *)
SuccessfulExecution == ExecutionInv /\ SuccessInv

(* A process starts with no output prepared and none to show. *)
LEMMA StartSuccess == ASSUME NEW n \in Node, NEW outs PROVE PreparedOk(n, StartActs[n]) /\ SuccessOk(n, StartActs[n], outs)
<1>1. StartActs[n].pc \in {"entry", "idle"} /\ StartActs[n].out = NoOut
  BY DEF StartActs, Idle
<1> QED
  BY <1>1 DEF PreparedOk, SuccessOk

(* Every step keeps them. *)
LEMMA SuccessStep == SuccessfulExecution /\ [Next]_vars => SuccessfulExecution'
<1> SUFFICES ASSUME ExecutionInv, SuccessInv, [Next]_vars PROVE SuccessInv'
  BY ExecutionStep DEF SuccessfulExecution
<1>1. Nested /\ FrameInv
  BY DEF ExecutionInv
<1>2. ASSUME NEW n \in Node, Step(n) PROVE SuccessInv'
  BY <1>1, <1>2, StepSuccess
<1>3. CASE Crash
  BY <1>3, StartSuccess DEF SuccessInv, Crash
<1>4. CASE UNCHANGED vars
  BY <1>4 DEF vars, SuccessInv
<1> QED
  BY <1>2, <1>3, <1>4 DEF Next, JobOver

(* A sequence or a machine never moves past a child that succeeded without  *)
(* an output of it from this attempt, whether the child prepared one, a     *)
(* state took it over from the node it runs, or a catch clause supplied it. *)
THEOREM EverySucceededChildHasOutput == Spec => []SucceededChildHasOutput
<1>1. Init => SuccessfulExecution
  BY ExecutionInit, StartSuccess DEF Init, SuccessInv, SuccessfulExecution
<1>2. SuccessfulExecution => SucceededChildHasOutput
  <2> SUFFICES ASSUME SuccessfulExecution, NEW n \in Node, Kind[n] \in {"sequence", "machine"},
                      act[n].pc = "resume", act[n].sig = "ok", act[n].kid # NoNode
               PROVE  LET k == act[n].kid
                      IN  outputs[IF Kind[k] = "policy" THEN First[k] ELSE k] # <<>>
    BY DEF SucceededChildHasOutput
  <2> DEFINE k == act[n].kid
  <2>1. k \in Node /\ Parent[k] = n
    BY DEF SuccessfulExecution, ExecutionInv, Nested, TypeOK, CallStack, Acts
  <2>2. outputs[Target(k)] # <<>>
    BY DEF SuccessfulExecution, SuccessInv, SuccessOk
  <2>3. Target(k) = IF Kind[k] = "policy" THEN First[k] ELSE k
    BY <2>1, TargetOfKid DEF Target
  <2> QED
    BY <2>2, <2>3
<1> QED
  BY <1>1, <1>2, SuccessStep, PTL DEF Spec

-----------------------------------------------------------------------------
(* Retries and endings. *)

(* An invocation is within the retry policy that is left on its node. *)
AttemptOk(n, a) ==
    a.attempt <= RetryLimit(n, a.covered) /\ (a.pc = "entry" => a.attempt < RetryLimit(n, a.covered))
AttemptsOk == \A n \in Node : AttemptOk(n, act[n])

(* A policy allows at least the first attempt. *)
LEMMA LimitType ==
  ASSUME NEW n \in Node, NEW covered
  PROVE  RetryLimit(n, covered) \in Nat /\ RetryLimit(n, covered) >= 1
<1>1. Kind[n] = "policy" => First[n] \in Node
  BY NodeAssumption, TreeAssumption
<1>2. DeclaredAttempts(n) \in Nat \ {0}
  BY <1>1, NodeAssumption DEF DeclaredAttempts
<1> QED
  BY <1>2 DEF RetryLimit

(* An invocation that goes on with the same attempt stays within its policy. *)
LEMMA SameAttempt ==
  ASSUME AttemptsOk, act \in [Node -> Acts], NEW n \in Node, NEW b, act' = [act EXCEPT ![n] = b],
         b.attempt = act[n].attempt, b.covered = act[n].covered, b.pc # "entry"
  PROVE  AttemptsOk'
<1>1. \A m \in Node : act'[m] = IF m = n THEN b ELSE act[m]
  OBVIOUS
<1>2. AttemptOk(n, b)
  BY DEF AttemptsOk, AttemptOk
<1> QED
  BY <1>1, <1>2 DEF AttemptsOk

(* A body returns in the attempt that ran it. *)
LEMMA ReturnBodyAttempt ==
  ASSUME AttemptsOk, act \in [Node -> Acts], NEW n \in Node, NEW a \in Acts, a.attempt = act[n].attempt,
         a.covered = act[n].covered, NEW sig, NEW fatal, ReturnBody(n, a, sig, fatal)
  PROVE  AttemptsOk'
<1> DEFINE b == [a EXCEPT !.pc = "returned", !.sig = sig, !.fatal = fatal, !.caught = FALSE, !.last = a.cur]
<1>1. b.pc = "returned" /\ b.attempt = act[n].attempt /\ b.covered = act[n].covered /\ act' = [act EXCEPT ![n] = b]
  BY DEF ReturnBody, Acts
<1> HIDE DEF b
<1> QED
  BY <1>1, SameAttempt

(* The caller goes on in its own attempt. *)
LEMMA ReturnAttempt ==
  ASSUME AttemptsOk, NEW n \in Node, NEW acts \in [Node -> Acts],
         \A m \in Node : acts[m].attempt = act[m].attempt /\ acts[m].covered = act[m].covered /\ acts[m].pc = act[m].pc,
         NEW sig, NEW to, NEW fatal, Return(n, acts, sig, to, fatal)
  PROVE  AttemptsOk'
<1> DEFINE p == Parent[n]
           up == [acts[p] EXCEPT !.pc = "resume", !.sig = sig, !.to = to, !.fatal = fatal]
<1>1. \A m \in Node : AttemptOk(m, Idle) /\ AttemptOk(m, acts[m])
  <2>1. \A m \in Node : AttemptOk(m, Idle)
    <3>1. Idle.attempt = 0 /\ Idle.pc = "idle"
      BY DEF Idle
    <3>2. \A m \in Node : 0 <= RetryLimit(m, Idle.covered)
      BY LimitType
    <3> QED
      BY <3>1, <3>2 DEF AttemptOk
  <2> QED
    BY <2>1 DEF AttemptsOk, AttemptOk
<1>2. CASE p = NoNode
  <2>1. act' = [acts EXCEPT ![n] = Idle]
    BY <1>2 DEF Return
  <2>2. \A m \in Node : act'[m] = IF m = n THEN Idle ELSE acts[m]
    BY <2>1
  <2> QED
    BY <1>1, <2>2 DEF AttemptsOk
<1>3. CASE p # NoNode
  <2>1. p \in Node /\ p # n
    BY <1>3, NodeAssumption, TreeAssumption
  <2>2. act' = [acts EXCEPT ![n] = Idle, ![p] = up]
    BY <1>3 DEF Return
  <2>3. up.pc = "resume" /\ up.attempt = acts[p].attempt /\ up.covered = acts[p].covered
    BY <2>1 DEF Acts
  <2>4. AttemptOk(p, up)
    BY <1>1, <2>1, <2>3 DEF AttemptOk
  <2> HIDE DEF up, p
  <2>5. \A m \in Node : act'[m] = IF m = n THEN Idle ELSE IF m = p THEN up ELSE acts[m]
    BY <2>1, <2>2
  <2> QED
    BY <1>1, <2>4, <2>5 DEF AttemptsOk
<1> QED
  BY <1>2, <1>3

(* Every step of the executor stays within the policies. *)
LEMMA StepAttempts == ASSUME Nested, AttemptsOk, NEW n \in Node, Step(n) PROVE AttemptsOk'
<1>1. PICK a : a = act[n]
  OBVIOUS
<1>2. TypeOK /\ act \in [Node -> Acts] /\ a \in Acts /\ act[n] \in Acts /\ AttemptOk(n, a) /\ pos \in Nat
  BY <1>1, PosNat DEF Nested, TypeOK, AttemptsOk
<1>3. [scope |-> n, val |-> pos] \in Outs /\ [scope |-> n, val |-> pos + 1] \in Outs
  BY <1>2 DEF Outs
<1>4. ASSUME NEW o \in Outs
      PROVE  [a EXCEPT !.out = o] \in Acts /\ [a EXCEPT !.out = o].attempt = a.attempt /\ [a EXCEPT !.out = o].covered = a.covered
  BY <1>2 DEF Acts
<1>5. ASSUME NEW c \in Acts, c.attempt = a.attempt, c.covered = a.covered, NEW sig, NEW fatal, ReturnBody(n, c, sig, fatal)
      PROVE  AttemptsOk'
  BY <1>1, <1>2, <1>5, ReturnBodyAttempt
<1>6. ASSUME NEW b, act' = [act EXCEPT ![n] = b], b.attempt = a.attempt, b.covered = a.covered, b.pc # "entry"
      PROVE  AttemptsOk'
  BY <1>1, <1>2, <1>6, SameAttempt
<1>7. CASE StartBody(n)
  <2> DEFINE b == [NewFrame(a) EXCEPT !.pc = "call", !.attempt = a.attempt + 1, !.kid = First[n], !.sig = "none", !.to = NoNode]
  <2>1. a.pc = "entry" /\ act' = [act EXCEPT ![n] = b]
    BY <1>1, <1>7 DEF StartBody, At
  <2>2. NewFrame(a) \in Acts /\ NewFrame(a).covered = a.covered
    BY <1>2, NewFrameType DEF NewFrame, Acts
  <2>3. b.pc = "call" /\ b.attempt = a.attempt + 1 /\ b.covered = a.covered
    BY <2>2 DEF Acts
  <2>4. AttemptOk(n, b)
    <3>1. a.attempt \in Nat /\ RetryLimit(n, a.covered) \in Nat /\ a.attempt < RetryLimit(n, a.covered)
      BY <1>2, <2>1, LimitType DEF AttemptOk, Acts
    <3> HIDE DEF b
    <3> QED
      BY <2>3, <3>1 DEF AttemptOk
  <2> HIDE DEF b
  <2>5. \A m \in Node : act'[m] = IF m = n THEN b ELSE act[m]
    BY <1>2, <2>1
  <2> QED
    BY <2>4, <2>5 DEF AttemptsOk
<1>8. CASE RunTask(n)
  <2>1. \/ ReturnBody(n, [a EXCEPT !.out = [scope |-> n, val |-> pos + 1]], "ok", FALSE)
        \/ ReturnBody(n, a, "err", FALSE)
    BY <1>1, <1>8 DEF RunTask
  <2> QED
    BY <1>2, <1>3, <1>4, <1>5, <2>1
<1>9. CASE CallKid(n)
  <2> DEFINE k == act[n].kid
             called == [Idle EXCEPT !.pc = "entry", !.covered = act[n].covered \/ DeclaredCatch(n) # "none"]
             waiting == [a EXCEPT !.pc = "wait"]
  <2>1. k \in Node /\ k # n /\ act' = [act EXCEPT ![n] = waiting, ![k] = called]
    BY <1>1, <1>2, <1>9, TreeAssumption, NodeAssumption DEF CallKid, Nested, CallStack, Acts
  <2>2. called.attempt = 0 /\ waiting.attempt = a.attempt /\ waiting.covered = a.covered /\ waiting.pc = "wait"
    BY <1>2 DEF Idle, Acts
  <2> HIDE DEF called, waiting
  <2>3. AttemptOk(k, called) /\ AttemptOk(n, waiting)
    <3>1. RetryLimit(k, called.covered) \in Nat /\ RetryLimit(k, called.covered) >= 1
      BY <2>1, LimitType
    <3> QED
      BY <1>2, <2>2, <3>1 DEF AttemptOk
  <2> HIDE DEF k
  <2>4. \A m \in Node : act'[m] = IF m = k THEN called ELSE IF m = n THEN waiting ELSE act[m]
    BY <1>2, <2>1
  <2> QED
    BY <2>3, <2>4 DEF AttemptsOk
<1>10. CASE FinishBody(n)
  <2>1. \/ ReturnBody(n, [a EXCEPT !.out = [scope |-> n, val |-> pos]], "ok", FALSE)
        \/ ReturnBody(n, a, "ok", FALSE)
    BY <1>1, <1>10 DEF FinishBody
  <2> QED
    BY <1>2, <1>3, <1>4, <1>5, <2>1
<1>11. CASE Resume(n)
  <2>1. ASSUME NEW k, act' = [act EXCEPT ![n] = [a EXCEPT !.pc = "call", !.kid = k]] PROVE AttemptsOk'
    <3>1. PICK b : b = [a EXCEPT !.pc = "call", !.kid = k]
      OBVIOUS
    <3>2. b.attempt = a.attempt /\ b.covered = a.covered /\ b.pc = "call"
      BY <1>2, <3>1 DEF Acts
    <3> QED
      BY <1>6, <2>1, <3>1, <3>2
  <2>2. \/ \E k : act' = [act EXCEPT ![n] = [a EXCEPT !.pc = "call", !.kid = k]]
        \/ \E sig, fatal : ReturnBody(n, a, sig, fatal)
    BY <1>1, <1>11, Zenon DEF Resume
  <2> QED
    BY <1>2, <1>5, <2>1, <2>2
<1>12. CASE Decide(n)
  <2> DEFINE again == [a EXCEPT !.pc = "entry"]
             acc == RecordedFrame(a.cur)
             ends == {[a EXCEPT !.pc = "accepted", !.acc = acc], [a EXCEPT !.sig = "err", !.fatal = TRUE],
                      [a EXCEPT !.pc = "handling", !.caught = TRUE], [a EXCEPT !.pc = "failed"]}
  <2>1. a.pc = "returned" /\ \/ \E b \in ends : act' = [act EXCEPT ![n] = b]
                             \/ MayRetry(a, n) /\ act' = [act EXCEPT ![n] = again]
    BY <1>1, <1>12, Zenon DEF Decide, At
  <2>2. \A b \in ends : b.attempt = a.attempt /\ b.covered = a.covered /\ b.pc # "entry"
    <3> HIDE DEF acc
    <3> QED
      BY <1>2, <2>1, ZenonT(60) DEF Acts
  <2>3. CASE MayRetry(a, n) /\ act' = [act EXCEPT ![n] = again]
    <3>1. again.attempt = a.attempt /\ again.covered = a.covered
      BY <1>2 DEF Acts
    <3> HIDE DEF again
    <3>2. AttemptOk(n, again)
      BY <1>2, <2>3, <3>1 DEF AttemptOk, MayRetry
    <3>3. \A m \in Node : act'[m] = IF m = n THEN again ELSE act[m]
      BY <1>2, <2>3
    <3> QED
      BY <3>2, <3>3 DEF AttemptsOk
  <2> HIDE DEF ends
  <2> QED
    BY <1>6, <2>1, <2>2, <2>3
<1>13. CASE Handle(n)
  <2> DEFINE f == NewFrame(a)
             done(sig, out) == [f EXCEPT !.pc = "accepted", !.sig = sig, !.out = out, !.last = f.cur, !.acc = RecordedFrame(f.cur)]
             handled == done(IF Kind[n] = "policy" THEN "handled" ELSE "ok", [scope |-> CompletedBy(n), val |-> pos])
             routed == [done("route", NoOut) EXCEPT !.to = RouteTo[CompletedBy(n)]]
             ends == {handled, routed, [f EXCEPT !.pc = "returned"], [f EXCEPT !.pc = "failed"]}
  <2>1. \E b \in ends : act' = [act EXCEPT ![n] = b]
    BY <1>1, <1>13, Zenon DEF Handle
  <2>2. f \in Acts /\ f.attempt = a.attempt /\ f.covered = a.covered
    BY <1>2, NewFrameType DEF NewFrame, Acts
  <2>3. \A b \in ends : b.attempt = a.attempt /\ b.covered = a.covered /\ b.pc # "entry"
    <3> HIDE DEF f
    <3> QED
      BY <2>2, ZenonT(60) DEF Acts
  <2> HIDE DEF ends
  <2> QED
    BY <1>6, <2>1, <2>3
<1>14. CASE Settle(n)
  <2>1. ASSUME NEW f \in AcceptedFrames(n), f.out # NoOut, DeferToState(n),
               Return(n, [act EXCEPT ![Parent[n]].out = [f.out EXCEPT !.scope = Parent[n]]], a.sig, a.to, FALSE)
        PROVE  AttemptsOk'
    <3> DEFINE p == Parent[n]
               o == [f.out EXCEPT !.scope = p]
               acts == [act EXCEPT ![p].out = o]
    <3>1. p \in Node /\ act[p] \in Acts
      BY <1>2, <2>1, NodeAssumption DEF DeferToState, EnclosedBy
    <3>2. o \in Outs
      <4>1. f.out \in Outs
        BY <1>2 DEF AcceptedFrames, TypeOK, Frames
      <4> QED
        BY <2>1, <3>1, <4>1, OutScope DEF Outs
    <3> HIDE DEF o
    <3>3. [act[p] EXCEPT !.out = o] \in Acts /\ [act[p] EXCEPT !.out = o].pc = act[p].pc
          /\ [act[p] EXCEPT !.out = o].attempt = act[p].attempt /\ [act[p] EXCEPT !.out = o].covered = act[p].covered
      BY <3>1, <3>2 DEF Acts
    <3>4. /\ acts \in [Node -> Acts]
          /\ \A m \in Node : acts[m].attempt = act[m].attempt /\ acts[m].covered = act[m].covered /\ acts[m].pc = act[m].pc
      BY <1>2, <3>1, <3>3
    <3>5. Return(n, acts, a.sig, a.to, FALSE)
      BY <2>1 DEF o
    <3> HIDE DEF acts
    <3> QED
      BY <3>4, <3>5, ReturnAttempt
  <2>2. CASE Return(n, act, "err", NoNode, FALSE) \/ Return(n, act, a.sig, a.to, FALSE)
    BY <1>2, <2>2, ReturnAttempt
  <2> QED
    BY <1>1, <1>14, <2>1, <2>2, Zenon DEF Settle
<1>15. CASE FailScope(n)
  <2>1. Return(n, act, "err", NoNode, act[n].fatal \/ n \in RetrySteps)
    BY <1>15 DEF FailScope
  <2> QED
    BY <1>2, <2>1, ReturnAttempt
<1> QED
  BY <1>7, <1>8, <1>9, <1>10, <1>11, <1>12, <1>13, <1>14, <1>15 DEF Step

(* A new process has made no attempt. *)
LEMMA StartAttempts == ASSUME NEW n \in Node PROVE AttemptOk(n, StartActs[n])
<1>1. StartActs[n].attempt = 0
  BY DEF StartActs, Idle
<1>2. RetryLimit(n, StartActs[n].covered) \in Nat /\ RetryLimit(n, StartActs[n].covered) >= 1
  BY LimitType
<1> QED
  BY <1>1, <1>2 DEF AttemptOk

(* No scope runs its body more often than its retry policy allows: not     *)
(* after a crash, which replays the attempts of the process before it, not *)
(* below a catch, which must see a failure before it is retried, and not   *)
(* in an op that retries its own tasks.                                    *)
THEOREM EveryScopeKeepsItsRetryPolicy == Spec => [](\A n \in Node : act[n].attempt <= RetryLimit(n, act[n].covered))
<1>1. Init => Nested /\ AttemptsOk
  BY NestedInit, StartAttempts DEF Init, AttemptsOk
<1>2. Nested /\ AttemptsOk /\ [Next]_vars => (Nested /\ AttemptsOk)'
  <2> SUFFICES ASSUME Nested, AttemptsOk, [Next]_vars PROVE Nested' /\ AttemptsOk'
    OBVIOUS
  <2>1. Nested'
    BY NestedStep
  <2>2. CASE \E n \in Node : Step(n)
    BY <2>1, <2>2, StepAttempts
  <2>3. CASE Crash
    <3>1. act' = StartActs
      BY <2>3 DEF Crash
    <3> QED
      BY <2>1, <3>1, StartAttempts DEF AttemptsOk
  <2>4. CASE UNCHANGED vars
    BY <2>1, <2>4 DEF vars, AttemptsOk
  <2> QED
    BY <2>2, <2>3, <2>4 DEF Next, JobOver
<1>3. Nested /\ AttemptsOk => \A n \in Node : act[n].attempt <= RetryLimit(n, act[n].covered)
  BY DEF AttemptsOk, AttemptOk
<1> QED
  BY <1>1, <1>2, <1>3, PTL DEF Spec

(* A job has a result only when its last call has returned. *)
EndedOk == result # "none" => at = NoNode

(* Only the return of the root gives the job a result. *)
LEMMA StepEnds == ASSUME NEW n \in Node, Step(n) PROVE n = at /\ (result' = result \/ at' = NoNode)
<1>1. CASE Settle(n) \/ FailScope(n)
  <2>1. n = at /\ \E acts, sig, to, fatal : Return(n, acts, sig, to, fatal)
    BY <1>1, Zenon DEF Settle, FailScope, At
  <2> QED
    BY <2>1 DEF Return
<1>2. CASE StartBody(n) \/ RunTask(n) \/ CallKid(n) \/ FinishBody(n) \/ Resume(n) \/ Decide(n) \/ Handle(n)
  BY <1>2 DEF StartBody, RunTask, CallKid, FinishBody, Resume, Decide, Handle, At
<1> QED
  BY <1>1, <1>2 DEF Step

(* A job that has a result is over: no process runs any part of it again,   *)
(* and neither its result, nor its history, nor what it published changes.  *)
THEOREM EveryJobEndsOnce == Spec => [][result # "none" => UNCHANGED vars]_vars
<1>1. Init => EndedOk
  BY DEF Init, EndedOk
<1>2. ASSUME EndedOk, [Next]_vars PROVE EndedOk' /\ (result # "none" => UNCHANGED vars)
  <2>1. ASSUME NEW n \in Node, Step(n) PROVE at # NoNode /\ result = "none" /\ EndedOk'
    BY <1>2, <2>1, StepEnds, NodeAssumption DEF EndedOk
  <2>2. CASE Crash
    BY <1>2, <2>2 DEF Crash, EndedOk
  <2>3. CASE UNCHANGED vars
    BY <1>2, <2>3 DEF vars, EndedOk
  <2> QED
    BY <1>2, <2>1, <2>2, <2>3 DEF Next, JobOver
<1> QED
  BY <1>1, <1>2, PTL DEF Spec
=============================================================================
