------------------------ MODULE TaskExecution_proofs ------------------------
(***************************************************************************)
(* The safety of a worker host's task attempts, for any number of tasks,   *)
(* processes, commits, packages and troubles: what a body runs was         *)
(* resolved for it, its tools stay whole, and its objects resolve.         *)
(*                                                                         *)
(* The three results have an invariant each.  A source directory only ever *)
(* holds its own commit, and a resolution keeps the commit it is for.  An  *)
(* entry of the tool cache is changed only by the holder of its lock, and  *)
(* only while no task relies on it; the loop that binds names to entries   *)
(* ends with what the sets of exporting packages say.  The store holds the *)
(* sealed content of every finished publication, once.                     *)
(***************************************************************************)
EXTENDS TaskExecution, SequenceTheorems, FiniteSetTheorems, WellFoundedInduction, TLAPS

-----------------------------------------------------------------------------
(* The invariants. *)

ResType == [pc : {"off", "ls", "look", "join", "wait", "fetch", "publish", "announce", "remove", "ok", "err"},
            commit : Commit \cup {None}, byRef : BOOLEAN, got : Commit \cup {None}, ok : BOOLEAN]
RunType == [pc : {"idle", "resolve", "setup", "refetch", "tools", "body", "over"},
            commit : Commit \cup {None}, manifest : Commit \cup {None}, secrets : {Defaults(k) : k \in Commit} \cup {{}}]

(* The source cache, as one task sees it. *)
SourceOk(t) ==
    /\ res[t].pc \notin {"off", "ls", "err"} => res[t].commit \in Commit
    /\ res[t].pc = "publish" => res[t].got = res[t].commit
    /\ run[t].pc = "resolve" => Invocation(t).pin = None \/ (res[t].pc # "ls" /\ res[t].commit = Invocation(t).pin)
    /\ run[t].pc = "refetch" => res[t].pc # "ls" /\ res[t].commit = run[t].commit
    /\ run[t].pc \in {"setup", "refetch", "tools", "body"} =>
          /\ run[t].commit \in Commit /\ run[t].manifest = run[t].commit
          /\ Invocation(t).pin \in {run[t].commit, None}
          /\ run[t].secrets = Defaults(run[t].commit) /\ run[t].secrets \subseteq Invocation(t).allowed

SourceInv ==
    /\ remote \in Commit
    /\ source \in [Commit -> Commit \cup {None}] /\ \A k \in Commit : source[k] \in {k, None}
    /\ res \in [Task -> ResType] /\ run \in [Task -> RunType]
    /\ \A t \in Task : SourceOk(t)

EntryType == [files : {"none", "partial", "whole", "damaged"}, manifest : BOOLEAN]
BoundType == [Executable -> {Unbound} \cup {Bindings(s, x) : s \in Seq(Seq(Entry)), x \in Executable}]
ToolType == [pc : {"off", "lock", "check", "remove", "install", "installing", "manifest", "ready", "err"},
             scopes : Seq(Seq(Entry)), todo : Seq(Entry), got : SUBSET Entry, spoiled : SUBSET Entry,
             bound : BoundType]

(* The steps in which a task holds the lock of the entry it is at, and those in which it replaces it. *)
Holds(u) == u.pc \in {"check", "remove", "install", "installing", "manifest"}
Replaces(u) == u.pc \in {"remove", "install", "installing", "manifest"}

(* What a task knows of the entry it holds. *)
HolderOk(t) ==
    /\ Holds(tool[t]) => tool[t].todo # <<>> /\ lock[Now(t)] = t
    /\ tool[t].pc = "install" => entry[Now(t)].files = "none"
    /\ tool[t].pc \in {"install", "installing", "manifest"} => ~entry[Now(t)].manifest
    /\ tool[t].pc = "manifest" =>
          entry[Now(t)].files = "whole" \/ (entry[Now(t)].files = "damaged" /\ Now(t) \in tool[t].spoiled)

(* Nobody relies on an entry that is being replaced. *)
Relies(t, e) == e \in tool[t].got /\ e \notin tool[t].spoiled

ToolInv ==
    /\ entry \in [Entry -> EntryType] /\ lock \in [Entry -> Task \cup {Nobody}] /\ tool \in [Task -> ToolType]
    /\ \A e \in Entry : entry[e].manifest => entry[e].files # "partial"
    /\ \A t \in Task : HolderOk(t)
    /\ \A t, u \in Task : Replaces(tool[u]) => ~Relies(t, Now(u))
    /\ \A t \in Task, e \in Entry : Relies(t, e) => entry[e].files = "whole" /\ entry[e].manifest

(* The packages the manifest asks for are those still to be taken and those taken; names are bound *)
(* by the scopes of that manifest.                                                                 *)
NeedsOk(t) ==
    /\ run[t].pc \in {"tools", "body"} => Range(Depends(run[t].manifest)) \subseteq Range(tool[t].todo) \cup tool[t].got
    /\ run[t].pc \in {"tools", "body"} => tool[t].scopes = Scopes(t)
    /\ tool[t].pc = "ready" => tool[t].todo = <<>> /\ tool[t].bound = [x \in Executable |-> Bindings(tool[t].scopes, x)]
    /\ run[t].pc = "body" => tool[t].pc = "ready"

NeedsInv == \A t \in Task : NeedsOk(t)

(* What was published is in the store, once; so it is with what was recorded. *)
StoreType(t) == [slot : [Slots(t) -> {"new", "sealed", "done", "failed"}], artifacts : Seq(STRING)]
PublishedIn(t, store) == {Invocation(t).objects[i] : i \in {j \in Slots(t) : store.slot[j] = "done"}}
StoreIs(t, store) ==
    /\ store \in StoreType(t)
    /\ Range(store.artifacts) = PublishedIn(t, store) /\ IsInjective(store.artifacts)
OutcomeIs(t, o) ==
    /\ o.refs = Range(o.artifacts) /\ IsInjective(o.artifacts)
    /\ o.result = "ok" => o.refs = Range(Invocation(t).objects)

StoreInv ==
    /\ pubs = [t \in Task |-> pubs[t]] /\ outcome = [t \in Task |-> outcome[t]]
    /\ \A t \in Task : StoreIs(t, pubs[t]) /\ OutcomeIs(t, outcome[t])

TaskInv == SourceInv /\ ToolInv /\ NeedsInv

-----------------------------------------------------------------------------
(* What the executables are bound to. *)

(* A nonempty set of numbers has a least one. *)
LEMMA LeastOf ==
  ASSUME NEW T \in SUBSET Nat, T # {}
  PROVE  \E x \in T : \A y \in T : x <= y
<1> DEFINE Less == {s \in Nat \X Nat : s[1] < s[2]}
<1>1. OpToRel(<, Nat) = Less
  BY DEF OpToRel
<1>2. IsWellFoundedOn(Less, Nat)
  BY <1>1, NatLessThanWellFounded
<1>3. PICK x \in T : \A y \in T : ~ (<<y, x>> \in Less)
  BY <1>2, WFMin
<1>4. ASSUME NEW y \in T PROVE x <= y
  <2>1. <<y, x>> \in Nat \X Nat /\ <<y, x>>[1] = y /\ <<y, x>>[2] = x
    OBVIOUS
  <2>2. ~(y < x)
    BY <1>3, <2>1
  <2> QED
    BY <2>2
<1> QED
  BY <1>4

(* The binding of a name that the packages of S export. *)
Only(S) == IF S = {} THEN Unbound ELSE IF \E e \in S : S = {e} THEN CHOOSE e \in S : TRUE ELSE Ambiguous

LEMMA OnlyIs ==
  ASSUME NEW S \in SUBSET Entry
  PROVE  /\ \A e \in Entry : Only(S) = e <=> S = {e}
         /\ Only(S) = Unbound <=> S = {}
<1>1. Unbound \notin Entry /\ Ambiguous \notin Entry /\ Unbound # Ambiguous
  BY ToolAssumption DEF Unbound, Ambiguous
<1>2. CASE S = {}
  BY <1>1, <1>2 DEF Only
<1>3. ASSUME NEW d \in S, S = {d} PROVE Only(S) = d /\ d \in Entry
  BY <1>3 DEF Only
<1>4. CASE S # {} /\ ~\E d \in S : S = {d}
  <2>1. Only(S) = Ambiguous
    BY <1>4 DEF Only
  <2> QED
    BY <1>1, <1>4, <2>1
<1>5. ASSUME NEW d \in S, S = {d}
      PROVE  /\ \A e \in Entry : Only(S) = e <=> S = {e}
             /\ Only(S) = Unbound <=> S = {}
  BY <1>1, <1>3, <1>5
<1> QED
  BY <1>2, <1>4, <1>5

LEMMA OnlyMore ==
  ASSUME NEW S \in SUBSET Entry, NEW d \in Entry
  PROVE  Only(S \cup {d}) = IF Only(S) = d THEN Only(S) ELSE IF Only(S) = Unbound THEN d ELSE Ambiguous
<1>1. /\ \A e \in Entry : Only(S) = e <=> S = {e}
      /\ Only(S) = Unbound <=> S = {}
  BY OnlyIs
<1>2. \A e \in Entry : Only(S \cup {d}) = e <=> S \cup {d} = {e}
  <2>1. S \cup {d} \in SUBSET Entry
    OBVIOUS
  <2> QED
    BY <2>1, OnlyIs
<1>3. CASE S \subseteq {d}
  <2>1. S \cup {d} = {d} /\ (S = {} \/ S = {d})
    BY <1>3
  <2> QED
    BY <1>1, <1>2, <2>1
<1>4. CASE ~(S \subseteq {d})
  <2>1. S # {} /\ S # {d} /\ S \cup {d} # {} /\ ~\E e \in S \cup {d} : S \cup {d} = {e}
    BY <1>4
  <2>2. Only(S \cup {d}) = Ambiguous
    BY <2>1 DEF Only
  <2> QED
    BY <1>1, <2>1, <2>2
<1> QED
  BY <1>3, <1>4

(* Those of the first i packages that export a name. *)
ExportingOf(packages, x, i) == {packages[j] : j \in {k \in 1..i : x \in Exports(packages[k])}}

LEMMA ExportingNext ==
  ASSUME NEW packages \in Seq(Entry), NEW x, NEW i \in 1..Len(packages)
  PROVE  /\ packages[i] \in Entry /\ i - 1 \in 0..Len(packages) /\ ExportingOf(packages, x, i - 1) \in SUBSET Entry
         /\ ExportingOf(packages, x, i) =
              IF x \in Exports(packages[i]) THEN ExportingOf(packages, x, i - 1) \cup {packages[i]}
              ELSE ExportingOf(packages, x, i - 1)
<1>1. packages[i] \in Entry /\ i - 1 \in 0..Len(packages) /\ 1..i = 1..(i - 1) \cup {i}
  OBVIOUS
<1>2. \A j \in 1..(i - 1) : packages[j] \in Entry
  OBVIOUS
<1> QED
  BY <1>1, <1>2 DEF ExportingOf

(* One scope binds a name to the only package of it that exports the name, if there is one. *)
LEMMA LocalIs ==
  ASSUME NEW packages \in Seq(Entry), NEW x
  PROVE  /\ Exporting(packages, x) \in SUBSET Entry
         /\ Local(packages, x) = Only(Exporting(packages, x))
<1> PICK n : n = Len(packages)
  OBVIOUS
<1> DEFINE Value(f, i) == IF i = 0 THEN Unbound
                          ELSE IF x \notin Exports(packages[i]) \/ f[i - 1] = packages[i] THEN f[i - 1]
                          ELSE IF f[i - 1] = Unbound THEN packages[i] ELSE Ambiguous
           Is(f) == f = [i \in 0..n |-> Value(f, i)]
<1> PICK g : g = [i \in 0..n |-> Only(ExportingOf(packages, x, i))]
  OBVIOUS
<1>1. n \in Nat /\ ExportingOf(packages, x, n) = Exporting(packages, x) /\ Exporting(packages, x) \in SUBSET Entry
  BY DEF ExportingOf, Exporting
<1>2. ASSUME NEW f, f = [i \in 0..n |-> f[i]], NEW i \in 1..n, f[i - 1] = g[i - 1] PROVE Value(f, i) = g[i]
  <2>1. /\ packages[i] \in Entry /\ i - 1 \in 0..n /\ ExportingOf(packages, x, i - 1) \in SUBSET Entry
        /\ ExportingOf(packages, x, i) =
              IF x \in Exports(packages[i]) THEN ExportingOf(packages, x, i - 1) \cup {packages[i]}
              ELSE ExportingOf(packages, x, i - 1)
    BY ExportingNext
  <2>2. f[i - 1] = Only(ExportingOf(packages, x, i - 1)) /\ g[i] = Only(ExportingOf(packages, x, i)) /\ i # 0
    BY <1>1, <1>2, <2>1, SMTT(40)
  <2>3. CASE x \in Exports(packages[i])
    BY <2>1, <2>2, <2>3, OnlyMore
  <2>4. CASE x \notin Exports(packages[i])
    BY <2>1, <2>2, <2>4
  <2> QED
    BY <2>3, <2>4
<1>3. g[0] = Unbound
  <2>1. ExportingOf(packages, x, 0) = {} /\ 0 \in 0..n
    BY <1>1 DEF ExportingOf
  <2> QED
    BY <2>1 DEF Only
<1>4. Is(g)
  <2>1. \A i \in 0..n : Value(g, i) = g[i]
    <3>1. \A i \in 0..n : i = 0 \/ i \in 1..n
      BY <1>1
    <3>2. Value(g, 0) = g[0]
      BY <1>3
    <3>3. g = [i \in 0..n |-> g[i]]
      OBVIOUS
    <3> HIDE DEF Value
    <3> QED
      BY <1>2, <3>1, <3>2, <3>3
  <2> HIDE DEF Value
  <2> QED
    BY <2>1
<1>5. ASSUME NEW f, Is(f) PROVE f[n] = g[n]
  <2> DEFINE Wrong == {i \in 0..n : f[i] # g[i]}
  <2>1. f = [i \in 0..n |-> f[i]] /\ \A i \in 0..n : f[i] = Value(f, i)
    <3> PICK h : h = [i \in 0..n |-> Value(f, i)]
      OBVIOUS
    <3> HIDE DEF Value
    <3>1. f = h /\ h = [i \in 0..n |-> h[i]] /\ \A i \in 0..n : h[i] = Value(f, i)
      BY <1>5
    <3> QED
      BY <3>1
  <2>2. f[0] = g[0]
    BY <1>1, <1>3, <2>1
  <2>3. Wrong = {}
    <3> SUFFICES ASSUME Wrong # {} PROVE FALSE
      OBVIOUS
    <3>1. PICK i \in Wrong : \A j \in Wrong : i <= j
      <4>1. Wrong \in SUBSET Nat
        BY <1>1
      <4> QED
        BY <4>1, LeastOf
    <3>2. i \in 1..n /\ i - 1 \in 0..n /\ ~(i <= i - 1) /\ i \in 0..n
      BY <1>1, <2>2, <3>1
    <3>3. f[i - 1] = g[i - 1]
      BY <3>1, <3>2
    <3> HIDE DEF Value
    <3>4. f[i] = Value(f, i)
      BY <2>1, <3>2
    <3>5. Value(f, i) = g[i]
      BY <1>2, <2>1, <3>2, <3>3, SMTT(40)
    <3> QED
      BY <3>1, <3>4, <3>5
  <2>4. n \in 0..n
    BY <1>1
  <2> QED
    BY <2>3, <2>4
<1>6. Is(CHOOSE f : Is(f))
  BY <1>4, ZenonT(60)
<1>7. Local(packages, x) = (CHOOSE f : Is(f))[n]
  BY DEF Local
<1>8. g[n] = Only(ExportingOf(packages, x, n))
  BY <1>1
<1> HIDE DEF Is
<1>9. Local(packages, x) = g[n]
  BY <1>5, <1>6, <1>7
<1> QED
  BY <1>1, <1>8, <1>9

(* Two scopes: the closer one decides, unless none of its packages exports the name. *)
LEMMA BindingsIs ==
  ASSUME NEW a \in Seq(Entry), NEW b \in Seq(Entry), NEW x
  PROVE  Bindings(<<a, b>>, x) = IF Local(b, x) # Unbound THEN Local(b, x) ELSE Local(a, x)
<1> PICK s, la, lb : s = <<a, b>> /\ la = Local(a, x) /\ lb = Local(b, x)
  OBVIOUS
<1>0. Len(s) = 2 /\ Local(s[1], x) = la /\ Local(s[2], x) = lb
  OBVIOUS
<1> DEFINE Value(f, i) == IF i = 0 THEN Unbound
                          ELSE IF Local(s[i], x) = Unbound THEN f[i - 1] ELSE Local(s[i], x)
           Is(f) == f = [i \in 0..Len(s) |-> Value(f, i)]
           last == IF lb # Unbound THEN lb ELSE la
<1> PICK g : g = [i \in 0..2 |-> IF i = 0 THEN Unbound ELSE IF i = 1 THEN la ELSE last]
  OBVIOUS
<1>1. g[0] = Unbound /\ g[1] = la /\ g[2] = last /\ \A i \in 0..2 : i = 0 \/ i = 1 \/ i = 2
  OBVIOUS
<1>2. ASSUME NEW f, f[0] = Unbound PROVE Value(f, 1) = la /\ Value(f, 0) = Unbound
  BY <1>0, <1>2
<1>3. ASSUME NEW f, f[1] = la PROVE Value(f, 2) = last
  BY <1>0, <1>3
<1>4. Is(g)
  <2>1. \A i \in 0..2 : Value(g, i) = g[i]
    BY <1>1, <1>2, <1>3
  <2> HIDE DEF Value
  <2> QED
    BY <1>0, <2>1
<1>5. ASSUME NEW f, Is(f) PROVE f[2] = last
  <2>0. 0 \in 0..2 /\ 1 \in 0..2 /\ 2 \in 0..2 /\ Value(f, 0) = Unbound
    OBVIOUS
  <2> HIDE DEF Value
  <2>1. f = [i \in 0..2 |-> Value(f, i)]
    BY <1>0, <1>5
  <2>2. f[0] = Value(f, 0) /\ f[1] = Value(f, 1) /\ f[2] = Value(f, 2)
    BY <2>0, <2>1
  <2> QED
    BY <1>2, <1>3, <2>0, <2>2
<1>6. Is(CHOOSE f : Is(f))
  BY <1>4
<1>7. Bindings(s, x) = (CHOOSE f : Is(f))[2]
  BY <1>0 DEF Bindings
<1> HIDE DEF Is
<1> QED
  BY <1>5, <1>6, <1>7

(* So the name is bound to a package just when the closest scope that exports it has only that one. *)
LEMMA BindingsClosest ==
  ASSUME NEW a \in Seq(Entry), NEW b \in Seq(Entry), NEW x, NEW e \in Entry
  PROVE  Bindings(<<a, b>>, x) = e <=> ClosestPackage(<<a, b>>, x) = {e}
<1> PICK s, ea, eb : s = <<a, b>> /\ ea = Exporting(a, x) /\ eb = Exporting(b, x)
  OBVIOUS
<1> DEFINE levels == {i \in DOMAIN s : Exporting(s[i], x) # {}}
<1>1. ea \in SUBSET Entry /\ eb \in SUBSET Entry /\ Local(a, x) = Only(ea) /\ Local(b, x) = Only(eb)
  BY LocalIs
<1>2. Bindings(s, x) = e <=> IF eb # {} THEN eb = {e} ELSE ea = {e}
  BY <1>1, BindingsIs, OnlyIs
<1>3. DOMAIN s = {1, 2} /\ Exporting(s[1], x) = ea /\ Exporting(s[2], x) = eb
  OBVIOUS
<1>4. ClosestPackage(s, x) = IF levels = {} THEN {} ELSE Exporting(s[Max(levels)], x)
  BY DEF ClosestPackage
<1>5. CASE eb # {}
  <2>1. 2 \in levels /\ levels \in SUBSET {1, 2}
    BY <1>3, <1>5
  <2> HIDE DEF levels
  <2>2. \A m \in levels : (\A n \in levels : m >= n) <=> m = 2
    BY <2>1
  <2>3. Max(levels) = 2
    BY <2>1, <2>2 DEF Max
  <2> QED
    BY <1>2, <1>3, <1>4, <1>5, <2>1, <2>3
<1>6. CASE eb = {} /\ ea # {}
  <2>1. levels = {1}
    BY <1>3, <1>6
  <2> HIDE DEF levels
  <2>2. Max(levels) = 1
    BY <2>1 DEF Max
  <2> QED
    BY <1>2, <1>3, <1>4, <1>6, <2>1, <2>2
<1>7. CASE eb = {} /\ ea = {}
  BY <1>2, <1>3, <1>4, <1>7
<1> QED
  BY <1>5, <1>6, <1>7

-----------------------------------------------------------------------------
(* The source. *)

(* The types of a task's resolution and attempt. *)
LEMMA SourceFields ==
  ASSUME SourceInv, NEW t \in Task
  PROVE  /\ res[t] \in ResType /\ run[t] \in RunType /\ SourceOk(t)
         /\ res[t].commit \in Commit \cup {None} /\ run[t].commit \in Commit \cup {None}
  BY DEF SourceInv, ResType, RunType

(* A commit is not the absence of one. *)
LEMMA CommitIsSome == None \notin Commit
  BY CacheAssumption DEF None

(* A step after which directories still hold their own commits, and every task that took part is as it should be. *)
LEMMA SourceStep ==
  ASSUME SourceInv, remote' \in Commit,
         source' \in [Commit -> Commit \cup {None}], \A k \in Commit : source'[k] \in {k, None},
         res' \in [Task -> ResType], run' \in [Task -> RunType],
         \A t \in Task : (res'[t] = res[t] /\ run'[t] = run[t]) \/ SourceOk(t)'
  PROVE  SourceInv'
<1>1. \A t \in Task : SourceOk(t)'
  <2> TAKE t \in Task
  <2>1. CASE res'[t] = res[t] /\ run'[t] = run[t]
    <3>1. SourceOk(t)
      BY DEF SourceInv
    <3> QED
      BY <2>1, <3>1 DEF SourceOk
  <2> QED
    BY <2>1
<1> QED
  BY <1>1 DEF SourceInv

(* A step of task t, whose resolution is r and whose attempt is a after it. *)
LEMMA SourceLocal ==
  ASSUME SourceInv, NEW t \in Task, NEW r \in ResType, NEW a \in RunType,
         res' = [res EXCEPT ![t] = r], run' = [run EXCEPT ![t] = a], UNCHANGED <<remote, source>>,
         r.pc \notin {"off", "ls", "err"} => r.commit \in Commit,
         r.pc = "publish" => r.got = r.commit,
         a.pc = "resolve" => Invocation(t).pin = None \/ (r.pc # "ls" /\ r.commit = Invocation(t).pin),
         a.pc = "refetch" => r.pc # "ls" /\ r.commit = a.commit,
         a.pc \in {"setup", "refetch", "tools", "body"} =>
            /\ a.commit \in Commit /\ a.manifest = a.commit
            /\ Invocation(t).pin \in {a.commit, None}
            /\ a.secrets = Defaults(a.commit) /\ a.secrets \subseteq Invocation(t).allowed
  PROVE  SourceInv'
<1>1. /\ res' \in [Task -> ResType] /\ run' \in [Task -> RunType] /\ res'[t] = r /\ run'[t] = a
      /\ \A u \in Task \ {t} : res'[u] = res[u] /\ run'[u] = run[u]
  BY DEF SourceInv
<1>2. SourceOk(t)'
  BY <1>1 DEF SourceOk
<1>3. remote' \in Commit /\ source' \in [Commit -> Commit \cup {None}] /\ \A k \in Commit : source'[k] \in {k, None}
  BY DEF SourceInv
<1> QED
  BY <1>1, <1>2, <1>3, SourceStep

(* The same where only the attempt, or only the resolution, changes. *)
LEMMA Unmoved ==
  ASSUME SourceInv, NEW t \in Task
  PROVE  (UNCHANGED run => run' = [run EXCEPT ![t] = run[t]]) /\ (UNCHANGED res => res' = [res EXCEPT ![t] = res[t]])
  BY DEF SourceInv

(* A resolution starts from a commit, which it keeps, or from the ref. *)
LEMMA StartResolveIs ==
  ASSUME SourceInv, NEW t \in Task, NEW pin \in Commit \cup {None}, StartResolve(t, pin)
  PROVE  \E r \in ResType :
            /\ res' = [res EXCEPT ![t] = r] /\ UNCHANGED <<remote, source>>
            /\ pin # None => r.pc = "look" /\ r.commit = pin
            /\ pin = None => r.pc = "ls"
<1> PICK r : r = IF pin # None THEN [NoResolve EXCEPT !.pc = "look", !.commit = pin] ELSE [NoResolve EXCEPT !.pc = "ls"]
  OBVIOUS
<1>1. r \in ResType /\ (pin # None => r.pc = "look" /\ r.commit = pin) /\ (pin = None => r.pc = "ls")
  BY DEF NoResolve, ResType
<1>2. res' = [res EXCEPT ![t] = r] /\ UNCHANGED <<remote, source>>
  BY DEF StartResolve
<1> QED
  BY <1>1, <1>2

(* A process claims the task and resolves what its input invokes. *)
LEMMA StartTaskSource == ASSUME SourceInv, NEW t \in Task, StartTask(t) PROVE SourceInv'
<1> PICK pin, a : pin = Invocation(t).pin /\ a = [run[t] EXCEPT !.pc = "resolve"]
  OBVIOUS
<1>1. pin \in Commit \cup {None} /\ run[t] \in RunType /\ run \in [Task -> RunType]
  BY TaskAssumption DEF SourceInv
<1>2. PICK r \in ResType :
            /\ res' = [res EXCEPT ![t] = r] /\ UNCHANGED <<remote, source>>
            /\ pin # None => r.pc = "look" /\ r.commit = pin
            /\ pin = None => r.pc = "ls"
  BY <1>1, StartResolveIs DEF StartTask
<1>3. a \in RunType /\ a.pc = "resolve"
  BY <1>1 DEF RunType
<1>4. run' = [run EXCEPT ![t] = a]
  BY <1>1 DEF StartTask, Goto
<1>5. r.pc \in {"look", "ls"} /\ (r.pc = "look" => r.commit \in Commit)
  BY <1>1, <1>2
<1>6. pin = None \/ (r.pc # "ls" /\ r.commit = pin)
  BY <1>2
<1> QED
  BY <1>2, <1>3, <1>4, <1>5, <1>6, SourceLocal

(* The manifest is the one of the commit that was resolved. *)
LEMMA LoadManifestSource == ASSUME SourceInv, NEW t \in Task, LoadManifest(t) PROVE SourceInv'
<1> PICK k, m : k = res[t].commit /\ m = source[k]
  OBVIOUS
<1> PICK a : a = [pc |-> "setup", commit |-> k, manifest |-> m, secrets |-> Defaults(m)]
  OBVIOUS
<1>1. res[t].pc = "ok" /\ run[t].pc = "resolve" /\ m # None /\ Defaults(m) \subseteq Invocation(t).allowed
  BY DEF LoadManifest, At, Resolving, DirExists, AuthorizeDefaultSecrets
<1>2. SourceOk(t)
  BY SourceFields
<1>3. k \in Commit
  BY <1>1, <1>2 DEF SourceOk
<1>4. m = k /\ Invocation(t).pin \in {k, None}
  BY <1>1, <1>2, <1>3 DEF SourceOk, SourceInv
<1>5. a \in RunType /\ a.pc = "setup" /\ a.commit = k /\ a.manifest = k /\ a.secrets = Defaults(k)
  BY <1>3, <1>4 DEF RunType
<1>6. NoResolve \in ResType /\ NoResolve.pc = "off"
  BY DEF NoResolve, ResType
<1>7. run' = [run EXCEPT ![t] = a] /\ res' = [res EXCEPT ![t] = NoResolve] /\ UNCHANGED <<remote, source>>
  BY DEF LoadManifest
<1> QED
  BY <1>1, <1>3, <1>4, <1>5, <1>6, <1>7, SourceLocal

(* A lost source is fetched again, by its commit. *)
LEMMA SetUpSourceSource == ASSUME SourceInv, NEW t \in Task, SetUpSource(t) PROVE SourceInv'
<1> PICK k, a : k = run[t].commit /\ a = [run[t] EXCEPT !.pc = "refetch"]
  OBVIOUS
<1>1. run[t] \in RunType /\ run \in [Task -> RunType] /\ run[t].pc = "setup" /\ SourceOk(t)
  BY SourceFields DEF SourceInv, SetUpSource, At
<1>2. /\ k \in Commit /\ run[t].manifest = k /\ Invocation(t).pin \in {k, None}
      /\ run[t].secrets = Defaults(k) /\ run[t].secrets \subseteq Invocation(t).allowed
  BY <1>1 DEF SourceOk
<1>3. StartResolve(t, k)
  BY DEF SetUpSource, ResolvedSelector
<1>4. PICK r \in ResType :
            /\ res' = [res EXCEPT ![t] = r] /\ UNCHANGED <<remote, source>>
            /\ k # None => r.pc = "look" /\ r.commit = k
  BY <1>2, <1>3, StartResolveIs
<1>5. r.pc = "look" /\ r.commit = k
  BY <1>2, <1>4, CommitIsSome
<1>6. a \in RunType /\ a.pc = "refetch" /\ a.commit = k /\ a.manifest = k /\ a.secrets = run[t].secrets
  BY <1>1, <1>2 DEF RunType
<1>7. run' = [run EXCEPT ![t] = a]
  BY <1>1 DEF SetUpSource, Goto
<1> QED
  BY <1>2, <1>4, <1>5, <1>6, <1>7, SourceLocal

(* The directory resolved last is the same commit's. *)
LEMMA SetUpToolsSource == ASSUME SourceInv, NEW t \in Task, SetUpTools(t) PROVE SourceInv'
<1> PICK k, a : k = run[t].commit /\ a = [run[t] EXCEPT !.pc = "tools"]
  OBVIOUS
<1>1. run[t] \in RunType /\ run \in [Task -> RunType] /\ run[t].pc \in {"setup", "refetch"} /\ SourceOk(t)
  BY SourceFields DEF SourceInv, SetUpTools, At
<1>2. /\ k \in Commit /\ run[t].manifest = k /\ Invocation(t).pin \in {k, None}
      /\ run[t].secrets = Defaults(k) /\ run[t].secrets \subseteq Invocation(t).allowed
  BY <1>1 DEF SourceOk
<1>3. a \in RunType /\ a.pc = "tools" /\ a.commit = k /\ a.manifest = k /\ a.secrets = run[t].secrets
  BY <1>1, <1>2 DEF RunType
<1>4. run' = [run EXCEPT ![t] = a]
  <2>1. CASE run' = [run EXCEPT ![t].pc = "tools"]
    BY <1>1, <2>1
  <2>2. CASE At(t, "refetch") /\ run' = [run EXCEPT ![t].pc = "tools", ![t].commit = res[t].commit]
    <3>1. res[t].commit = k
      BY <1>1, <2>2 DEF SourceOk, At
    <3>2. [run[t] EXCEPT !.pc = "tools", !.commit = k] = a
      BY <1>1 DEF RunType
    <3> QED
      BY <1>1, <2>2, <3>1, <3>2
  <2> QED
    BY <2>1, <2>2 DEF SetUpTools
<1>5. NoResolve \in ResType /\ NoResolve.pc = "off"
  BY DEF NoResolve, ResType
<1>6. res' = [res EXCEPT ![t] = NoResolve] /\ UNCHANGED <<remote, source>>
  BY DEF SetUpTools
<1> QED
  BY <1>2, <1>3, <1>4, <1>5, <1>6, SourceLocal

(* The body starts. *)
LEMMA StartBodySource == ASSUME SourceInv, NEW t \in Task, StartBody(t) PROVE SourceInv'
<1> PICK k, a, r : k = run[t].commit /\ a = [run[t] EXCEPT !.pc = "body"] /\ r = res[t]
  OBVIOUS
<1>1. /\ run[t] \in RunType /\ run \in [Task -> RunType] /\ run[t].pc = "tools" /\ SourceOk(t) /\ r \in ResType
      /\ UNCHANGED <<remote, source, res>> /\ run' = [run EXCEPT ![t].pc = "body"]
  BY SourceFields DEF SourceInv, StartBody, At, Goto, cacheVars
<1>2. /\ k \in Commit /\ run[t].manifest = k /\ Invocation(t).pin \in {k, None}
      /\ run[t].secrets = Defaults(k) /\ run[t].secrets \subseteq Invocation(t).allowed
      /\ r.pc \notin {"off", "ls", "err"} => r.commit \in Commit
      /\ r.pc = "publish" => r.got = r.commit
  BY <1>1 DEF SourceOk
<1>3. a \in RunType /\ a.pc = "body" /\ a.commit = k /\ a.manifest = k /\ a.secrets = run[t].secrets
  BY <1>1, <1>2 DEF RunType
<1>4. run' = [run EXCEPT ![t] = a] /\ res' = [res EXCEPT ![t] = r]
  BY <1>1, Unmoved
<1>5. UNCHANGED <<remote, source>>
  BY <1>1
<1>6. a.commit \in Commit /\ a.manifest = a.commit /\ Invocation(t).pin \in {a.commit, None}
  BY <1>2, <1>3
<1>7. a.secrets = Defaults(a.commit) /\ a.secrets \subseteq Invocation(t).allowed
  BY <1>2, <1>3
<1>8. a.pc # "resolve" /\ a.pc # "refetch" /\ r \in ResType /\ a \in RunType
  BY <1>1, <1>3
<1> QED
  BY <1>2, <1>4, <1>5, <1>6, <1>7, <1>8, SourceLocal

(* An attempt ends: nothing of it is left. *)
LEMMA FinishSource == ASSUME SourceInv, NEW t \in Task, NEW ok, Finish(t, ok) PROVE SourceInv'
<1> PICK a : a = IF ok \/ attempt[t] + 1 = Invocation(t).attempts THEN [NoRun EXCEPT !.pc = "over"] ELSE NoRun
  OBVIOUS
<1>1. a \in RunType /\ a.pc \in {"idle", "over"}
  BY DEF NoRun, RunType
<1>2. NoResolve \in ResType /\ NoResolve.pc = "off"
  BY DEF NoResolve, ResType
<1>3. run' = [run EXCEPT ![t] = a] /\ res' = [res EXCEPT ![t] = NoResolve] /\ UNCHANGED <<remote, source>>
  BY DEF Finish
<1> QED
  BY <1>1, <1>2, <1>3, SourceLocal

(* A step of a resolution that keeps its commit, and is not the publication's. *)
LEMMA ResolveMoves ==
  ASSUME SourceInv, NEW t \in Task, NEW r \in ResType, res' = [res EXCEPT ![t] = r], UNCHANGED <<remote, source, run>>,
         r.commit = res[t].commit, r.pc \notin {"ls", "off"}, r.pc # "publish" \/ r.got = r.commit,
         r.pc = "err" \/ res[t].pc \notin {"off", "ls", "err"}
  PROVE  SourceInv'
<1> PICK a : a = run[t]
  OBVIOUS
<1>1. SourceOk(t) /\ a \in RunType /\ run' = [run EXCEPT ![t] = a]
  BY SourceFields, Unmoved
<1>2. /\ r.pc \notin {"off", "ls", "err"} => r.commit \in Commit
      /\ r.pc = "publish" => r.got = r.commit
      /\ a.pc = "resolve" => Invocation(t).pin = None \/ (r.pc # "ls" /\ r.commit = Invocation(t).pin)
      /\ a.pc = "refetch" => r.pc # "ls" /\ r.commit = a.commit
      /\ a.pc \in {"setup", "refetch", "tools", "body"} =>
            /\ a.commit \in Commit /\ a.manifest = a.commit
            /\ Invocation(t).pin \in {a.commit, None}
            /\ a.secrets = Defaults(a.commit) /\ a.secrets \subseteq Invocation(t).allowed
  BY <1>1 DEF SourceOk
<1> QED
  BY <1>1, <1>2, SourceLocal

(* What the ref is now, when no commit is pinned. *)
LEMMA LsRemoteSource == ASSUME SourceInv, NEW t \in Task, LsRemote(t), UNCHANGED run PROVE SourceInv'
<1> PICK a, r : a = run[t] /\ r = [res[t] EXCEPT !.pc = "look", !.commit = remote, !.byRef = TRUE]
  OBVIOUS
<1>1. /\ SourceOk(t) /\ a \in RunType /\ run' = [run EXCEPT ![t] = a] /\ res[t] \in ResType /\ remote \in Commit
      /\ res[t].pc = "ls" /\ UNCHANGED <<remote, source>>
  BY SourceFields, Unmoved DEF SourceInv, LsRemote, Resolving
<1>2. r \in ResType /\ r.pc = "look" /\ r.commit = remote
  BY <1>1 DEF ResType
<1>3. res' = [res EXCEPT ![t] = r]
  BY DEF LsRemote
<1>4. /\ a.pc = "resolve" => Invocation(t).pin = None
      /\ a.pc # "refetch"
      /\ a.pc \in {"setup", "refetch", "tools", "body"} =>
            /\ a.commit \in Commit /\ a.manifest = a.commit
            /\ Invocation(t).pin \in {a.commit, None}
            /\ a.secrets = Defaults(a.commit) /\ a.secrets \subseteq Invocation(t).allowed
  BY <1>1 DEF SourceOk
<1> QED
  BY <1>1, <1>2, <1>3, <1>4, SourceLocal, ZenonT(60)

(* A resolution is looked up, joined, fetched, or fails. *)
LEMMA ResolveSource ==
  ASSUME SourceInv, NEW t \in Task, UNCHANGED run,
         LsRemoteFails(t) \/ LookUp(t) \/ Join(t) \/ Fetch(t) \/ FetchFails(t) \/ RemoveCall(t)
  PROVE  SourceInv'
<1> PICK q : q = res[t]
  OBVIOUS
<1>1. q \in ResType /\ res \in [Task -> ResType] /\ SourceOk(t) /\ UNCHANGED <<remote, source>>
  BY SourceFields DEF SourceInv, LsRemoteFails, LookUp, Join, Fetch, FetchFails, RemoveCall
<1>2. \A ok : Resolved(ok) \in {"ok", "err"}
  BY DEF Resolved
<1>3. ASSUME NEW s \in {"err", "ok", "join", "wait", "fetch"}, res' = [res EXCEPT ![t].pc = s],
             s = "err" \/ q.pc \notin {"off", "ls", "err"}
      PROVE  SourceInv'
  <2> PICK r : r = [q EXCEPT !.pc = s]
    OBVIOUS
  <2>1. r \in ResType /\ r.pc = s /\ r.commit = q.commit
    BY <1>1, <1>3 DEF ResType
  <2>2. res' = [res EXCEPT ![t] = r]
    BY <1>1, <1>3
  <2> QED
    BY <1>1, <1>3, <2>1, <2>2, ResolveMoves, ZenonT(60)
<1>4. CASE LsRemoteFails(t)
  BY <1>3, <1>4 DEF LsRemoteFails
<1>5. CASE LookUp(t)
  BY <1>3, <1>5 DEF LookUp, Resolving
<1>6. CASE Join(t)
  <2>1. q.pc = "join" /\ \E s \in {"ok", "err", "wait", "fetch"} : res' = [res EXCEPT ![t].pc = s]
    BY <1>2, <1>6 DEF Join, Resolving
  <2> QED
    BY <1>3, <2>1
<1>7. CASE RemoveCall(t)
  <2>1. q.pc = "remove" /\ \E s \in {"ok", "err"} : res' = [res EXCEPT ![t].pc = s]
    BY <1>2, <1>7 DEF RemoveCall, Resolving
  <2> QED
    BY <1>3, <2>1
<1>8. CASE FetchFails(t)
  <2> PICK r : r = [q EXCEPT !.pc = "announce", !.ok = FALSE]
    OBVIOUS
  <2>1. r \in ResType /\ r.pc = "announce" /\ r.commit = q.commit
    BY <1>1 DEF ResType
  <2>2. res' = [res EXCEPT ![t] = r] /\ q.pc = "fetch"
    BY <1>1, <1>8 DEF FetchFails, Resolving
  <2> QED
    BY <1>1, <2>1, <2>2, ResolveMoves
<1>9. CASE Fetch(t)
  <2> PICK got : got = IF q.byRef THEN remote ELSE q.commit
    OBVIOUS
  <2> PICK r : r = IF DirExists(q.commit) THEN [q EXCEPT !.pc = "announce", !.ok = TRUE]
                   ELSE IF got = q.commit THEN [q EXCEPT !.pc = "publish", !.got = got]
                   ELSE [q EXCEPT !.pc = "announce", !.ok = FALSE]
    OBVIOUS
  <2>1. got \in Commit \cup {None}
    BY <1>1 DEF SourceInv, ResType
  <2>2. r \in ResType /\ r.commit = q.commit /\ (r.pc = "announce" \/ (r.pc = "publish" /\ r.got = q.commit))
    BY <1>1, <2>1 DEF ResType
  <2>3. res' = [res EXCEPT ![t] = r] /\ q.pc = "fetch"
    BY <1>9 DEF Fetch, Resolving, FetchedTheCommit
  <2> QED
    BY <1>1, <2>2, <2>3, ResolveMoves
<1> QED
  BY <1>4, <1>5, <1>6, <1>7, <1>8, <1>9

(* A directory is published with the files of its commit. *)
LEMMA PublishSourceSource == ASSUME SourceInv, NEW t \in Task, PublishSource(t), UNCHANGED run PROVE SourceInv'
<1> PICK q, r : q = res[t] /\ r = [q EXCEPT !.pc = "announce", !.ok = TRUE]
  OBVIOUS
<1>1. /\ q \in ResType /\ res \in [Task -> ResType] /\ SourceOk(t) /\ q.pc = "publish" /\ remote' = remote /\ remote \in Commit
      /\ run' \in [Task -> RunType] /\ source \in [Commit -> Commit \cup {None}] /\ \A k \in Commit : source[k] \in {k, None}
  BY SourceFields DEF SourceInv, PublishSource, Resolving
<1>2. q.commit \in Commit /\ q.got = q.commit
  BY <1>1 DEF SourceOk
<1>3. r \in ResType /\ r.pc = "announce" /\ r.commit = q.commit
  BY <1>1 DEF ResType
<1>4. res' = [res EXCEPT ![t] = r]
  BY <1>1 DEF PublishSource
<1>5. res' \in [Task -> ResType] /\ res'[t] = r /\ \A u \in Task \ {t} : res'[u] = res[u]
  BY <1>1, <1>3, <1>4
<1>6. source' \in [Commit -> Commit \cup {None}] /\ \A k \in Commit : source'[k] \in {k, None}
  BY <1>1, <1>2 DEF PublishSource
<1>7. SourceOk(t)'
  BY <1>1, <1>2, <1>3, <1>5 DEF SourceOk
<1> QED
  BY <1>1, <1>5, <1>6, <1>7, SourceStep

(* The in-flight call's result reaches those who wait for the same commit. *)
LEMMA AnnounceSource == ASSUME SourceInv, NEW t \in Task, Announce(t), UNCHANGED run PROVE SourceInv'
<1>1. /\ res[t].pc = "announce" /\ UNCHANGED <<remote, source>> /\ res \in [Task -> ResType]
      /\ run' \in [Task -> RunType] /\ run' = run
  BY DEF SourceInv, Announce, Resolving
<1>2. ASSUME NEW u \in Task
      PROVE  res'[u] \in ResType /\ (res'[u] = res[u] \/ SourceOk(u)')
  <2> PICK q : q = res[u]
    OBVIOUS
  <2>1. q \in ResType /\ SourceOk(u)
    BY SourceFields
  <2>2. ASSUME NEW s \in {"remove", "ok", "err"}, res'[u] = [q EXCEPT !.pc = s], q.pc \in {"announce", "wait"}
        PROVE  res'[u] \in ResType /\ SourceOk(u)'
    <3>1. res'[u] \in ResType /\ res'[u].pc = s /\ res'[u].commit = q.commit
      BY <2>1, <2>2 DEF ResType
    <3> QED
      BY <1>1, <2>1, <2>2, <3>1 DEF SourceOk
  <2>3. CASE u = t
    <3>1. res'[u] = [q EXCEPT !.pc = "remove"]
      BY <2>3 DEF Announce
    <3> QED
      BY <1>1, <2>2, <2>3, <3>1
  <2>4. CASE u # t /\ Resolving(u, "wait") /\ Call(u) = Call(t)
    <3>1. res'[u] = [q EXCEPT !.pc = Resolved(res[t].ok)] /\ Resolved(res[t].ok) \in {"ok", "err"} /\ q.pc = "wait"
      BY <2>4 DEF Announce, Resolved, Resolving
    <3> QED
      BY <2>2, <3>1
  <2>5. CASE u # t /\ ~(Resolving(u, "wait") /\ Call(u) = Call(t))
    <3>1. res'[u] = q
      BY <2>5 DEF Announce
    <3> QED
      BY <2>1, <3>1
  <2> QED
    BY <2>3, <2>4, <2>5
<1>3. res' \in [Task -> ResType]
  <2>1. res' = [u \in Task |-> res'[u]]
    BY DEF Announce
  <2> QED
    BY <1>2, <2>1
<1>4. remote' \in Commit /\ source' \in [Commit -> Commit \cup {None}] /\ \A k \in Commit : source'[k] \in {k, None}
  BY <1>1 DEF SourceInv
<1> QED
  BY <1>1, <1>2, <1>3, <1>4, SourceStep

(* Every step of the source cache. *)
LEMMA CacheSource ==
  ASSUME SourceInv, NEW t \in Task, CacheStep(t) \/ LsRemoteFails(t) \/ FetchFails(t), UNCHANGED run
  PROVE  SourceInv'
  BY LsRemoteSource, ResolveSource, PublishSourceSource, AnnounceSource DEF CacheStep

(* The ref moves, a directory is cleaned, or a process dies. *)
LEMMA TroubleSource ==
  ASSUME SourceInv,
         \/ (MoveRef \/ \E k \in Commit : EvictSource(k)) /\ UNCHANGED run
         \/ \E p \in Process : Crash(p)
  PROVE  SourceInv'
<1>1. CASE (MoveRef \/ \E k \in Commit : EvictSource(k)) /\ UNCHANGED run
  <2>1. remote' \in Commit /\ UNCHANGED <<res, run>>
    BY <1>1 DEF MoveRef, EvictSource, SourceInv
  <2>2. source' \in [Commit -> Commit \cup {None}] /\ \A k \in Commit : source'[k] \in {k, None}
    BY <1>1 DEF MoveRef, EvictSource, SourceInv
  <2>3. res' \in [Task -> ResType] /\ run' \in [Task -> RunType]
    BY <2>1 DEF SourceInv
  <2> QED
    BY <2>1, <2>2, <2>3, SourceStep
<1>2. ASSUME NEW p \in Process, Crash(p) PROVE SourceInv'
  <2>1. NoResolve \in ResType /\ NoResolve.pc = "off" /\ NoRun \in RunType /\ NoRun.pc = "idle"
    BY DEF NoResolve, ResType, NoRun, RunType
  <2>2. /\ res' = [t \in Task |-> IF t \in TasksOf(p) THEN NoResolve ELSE res[t]]
        /\ run' = [t \in Task |-> IF t \in TasksOf(p) THEN NoRun ELSE run[t]]
        /\ UNCHANGED <<remote, source>>
    BY <1>2 DEF Crash, CacheCrash
  <2>3. res' \in [Task -> ResType] /\ run' \in [Task -> RunType]
    BY <2>1, <2>2 DEF SourceInv
  <2>4. \A t \in Task : (res'[t] = res[t] /\ run'[t] = run[t]) \/ (res'[t] = NoResolve /\ run'[t] = NoRun)
    BY <2>2
  <2>5. \A t \in Task : (res'[t] = res[t] /\ run'[t] = run[t]) \/ SourceOk(t)'
    BY <2>1, <2>4 DEF SourceOk
  <2>6. remote' \in Commit /\ source' \in [Commit -> Commit \cup {None}] /\ \A k \in Commit : source'[k] \in {k, None}
    BY <2>2 DEF SourceInv
  <2> QED
    BY <2>3, <2>5, <2>6, SourceStep
<1> QED
  BY <1>1, <1>2

-----------------------------------------------------------------------------
(* The tools. *)

(* Two scopes, one after the other: what the recursive definition of FlattenSeq gives. *)
LEMMA FlattenTwo ==
  ASSUME NEW seqs, Len(seqs) = 2
  PROVE  FlattenSeq(seqs) = seqs[1] \o seqs[2]
<1> DEFINE Is(f) == f = [i \in 1..Len(seqs) |-> IF i = 1 THEN seqs[i] ELSE f[i - 1] \o seqs[i]]
<1> PICK g : g = [i \in 1..Len(seqs) |-> IF i = 1 THEN seqs[1] ELSE seqs[1] \o seqs[2]]
  OBVIOUS
<1>1. g[1] = seqs[1] /\ g[2] = seqs[1] \o seqs[2]
  OBVIOUS
<1>2. \A i \in 1..Len(seqs) : (IF i = 1 THEN seqs[i] ELSE g[i - 1] \o seqs[i]) = IF i = 1 THEN seqs[1] ELSE seqs[1] \o seqs[2]
  BY <1>1
<1>3. Is(g)
  BY <1>2
<1>4. Is(CHOOSE f : Is(f))
  BY <1>3
<1>5. ASSUME NEW f, Is(f) PROVE f[Len(seqs)] = seqs[1] \o seqs[2]
  <2> DEFINE Value(i) == IF i = 1 THEN seqs[i] ELSE f[i - 1] \o seqs[i]
  <2>1. f = [i \in 1..Len(seqs) |-> Value(i)]
    BY <1>5
  <2>2. 1 \in 1..Len(seqs) /\ 2 \in 1..Len(seqs) /\ 2 - 1 = 1
    OBVIOUS
  <2>3. Value(1) = seqs[1] /\ Value(2) = f[1] \o seqs[2]
    BY <2>2
  <2> HIDE DEF Value, Is
  <2>4. f[1] = Value(1) /\ f[2] = Value(2)
    BY <2>1, <2>2
  <2> QED
    BY <2>3, <2>4
<1>6. FlattenSeq(seqs) = (CHOOSE f : Is(f))[Len(seqs)]
  BY DEF FlattenSeq
<1> HIDE DEF Is
<1> QED
  BY <1>4, <1>5, <1>6

(* The packages to prepare are the workspace's and those of the manifest. *)
LEMMA ScopesFlatten ==
  ASSUME NEW t \in Task, run[t].manifest \in Commit
  PROVE  /\ Scopes(t) \in Seq(Seq(Entry)) /\ FlattenSeq(Scopes(t)) \in Seq(Entry)
         /\ Range(Depends(run[t].manifest)) \subseteq Range(FlattenSeq(Scopes(t)))
<1> PICK a, b, c : a = Invocation(t).workspace /\ b = Depends(run[t].manifest) /\ c = <<a, b>>
  OBVIOUS
<1>1. a \in Seq(Entry) /\ b \in Seq(Entry)
  BY TaskAssumption
<1>2. c \in Seq(Seq(Entry)) /\ Len(c) = 2 /\ c[1] = a /\ c[2] = b
  BY <1>1
<1>3. Scopes(t) = c
  BY DEF Scopes
<1>4. FlattenSeq(c) = a \o b
  BY <1>2, FlattenTwo
<1>5. a \o b \in Seq(Entry)
  BY <1>1, ConcatProperties
<1>6. Range(a \o b) = Range(a) \cup Range(b)
  BY <1>1, RangeConcatenation
<1> QED
  BY <1>2, <1>3, <1>4, <1>5, <1>6

(* The entry that a task is at. *)
LEMMA AtEntry ==
  ASSUME ToolInv, NEW t \in Task
  PROVE  /\ tool[t] \in ToolType /\ tool[t].todo \in Seq(Entry)
         /\ tool[t].todo # <<>> => Now(t) \in Entry /\ Tail(tool[t].todo) \in Seq(Entry)
         /\ tool[t].got \in SUBSET Entry /\ HolderOk(t)
<1>1. tool[t] \in ToolType /\ HolderOk(t)
  BY DEF ToolInv
<1>2. tool[t].todo \in Seq(Entry) /\ tool[t].got \in SUBSET Entry
  BY <1>1 DEF ToolType
<1> QED
  BY <1>1, <1>2 DEF Now

(* The holder of a lock is alone at its entry. *)
LEMMA HolderIsAlone ==
  ASSUME ToolInv, NEW t \in Task, NEW v \in Task, NEW e \in Entry, lock[e] \in {t, Nobody}, v # t, Holds(tool[v])
  PROVE  Now(v) # e /\ Now(v) \in Entry
<1>1. tool[v].todo # <<>> /\ lock[Now(v)] = v /\ Now(v) \in Entry
  BY AtEntry DEF HolderOk
<1> QED
  BY <1>1, ToolAssumption DEF Nobody

(* What a task may do at entry e, which it holds or whose free lock it takes: u is the task's *)
(* preparation after it, n the entry, and l the holder of its lock.                           *)
MayDo(t, e, u, n, l) ==
    /\ lock[e] \in {t, Nobody} /\ (n.manifest => n.files # "partial")
    /\ Holds(u) => u.todo # <<>> /\ Head(u.todo) = e /\ l = t
    /\ u.pc = "install" => n.files = "none"
    /\ u.pc \in {"install", "installing", "manifest"} => ~n.manifest
    /\ u.pc = "manifest" => n.files = "whole" \/ (n.files = "damaged" /\ e \in u.spoiled)
    /\ Replaces(u) => e \notin u.got \/ e \in u.spoiled
    /\ Replaces(u) \/ n # entry[e] => \A v \in Task \ {t} : ~Relies(v, e)
    /\ \A d \in Entry : d \in u.got /\ d \notin u.spoiled =>
          (d # e /\ Relies(t, d)) \/ (d = e /\ n.files = "whole" /\ n.manifest)

(* Such a step keeps the invariant. *)
LEMMA ToolLocal ==
  ASSUME ToolInv, NEW t \in Task, NEW e \in Entry, NEW u \in ToolType, NEW n \in EntryType, NEW l \in Task \cup {Nobody},
         tool' = [tool EXCEPT ![t] = u], entry' = [entry EXCEPT ![e] = n], lock' = [lock EXCEPT ![e] = l],
         MayDo(t, e, u, n, l)
  PROVE  ToolInv'
<1> USE DEF MayDo
<1>1. entry \in [Entry -> EntryType] /\ lock \in [Entry -> Task \cup {Nobody}] /\ tool \in [Task -> ToolType]
  BY DEF ToolInv
<1>2. /\ entry' \in [Entry -> EntryType] /\ lock' \in [Entry -> Task \cup {Nobody}] /\ tool' \in [Task -> ToolType]
      /\ tool'[t] = u /\ \A v \in Task \ {t} : tool'[v] = tool[v]
      /\ entry'[e] = n /\ lock'[e] = l /\ \A d \in Entry \ {e} : entry'[d] = entry[d] /\ lock'[d] = lock[d]
  BY <1>1
<1>3. ASSUME NEW v \in Task, v # t PROVE HolderOk(v)'
  <2>1. HolderOk(v) /\ tool'[v] = tool[v]
    BY <1>2, <1>3, AtEntry
  <2>2. CASE Holds(tool[v])
    <3>1. Now(v) # e /\ Now(v) \in Entry
      BY <1>3, <2>2, HolderIsAlone
    <3>2. entry'[Now(v)] = entry[Now(v)] /\ lock'[Now(v)] = lock[Now(v)] /\ Now(v)' = Now(v)
      BY <1>2, <2>1, <3>1 DEF Now
    <3> QED
      BY <2>1, <3>2 DEF HolderOk, Holds
  <2>3. CASE ~Holds(tool[v])
    BY <2>1, <2>3 DEF HolderOk, Holds
  <2> QED
    BY <2>2, <2>3
<1>4. HolderOk(t)'
  <2>1. CASE Holds(u)
    <3>1. Now(t)' = e
      BY <1>2, <2>1 DEF Now
    <3> QED
      BY <1>2, <2>1, <3>1 DEF HolderOk
  <2>2. CASE ~Holds(u)
    BY <1>2, <2>2 DEF HolderOk, Holds
  <2> QED
    BY <2>1, <2>2
<1>5. \A d \in Entry : Relies(t, d)' => (d # e /\ Relies(t, d)) \/ (d = e /\ n.files = "whole" /\ n.manifest)
  BY <1>2 DEF Relies
<1>6. \A v \in Task \ {t}, d \in Entry : Relies(v, d)' <=> Relies(v, d)
  BY <1>2 DEF Relies
<1>7. ASSUME NEW v \in Task, NEW w \in Task, Replaces(tool[w])' PROVE ~Relies(v, Now(w))'
  <2>1. CASE w = t
    <3>1. Now(w)' = e /\ Replaces(u)
      BY <1>2, <1>7, <2>1 DEF Now, Replaces, Holds
    <3>2. e \notin u.got \/ e \in u.spoiled
      BY <3>1
    <3>3. CASE v = t
      BY <1>2, <3>1, <3>2, <3>3 DEF Relies
    <3>4. CASE v # t
      BY <1>2, <3>1, <3>4 DEF Relies
    <3> QED
      BY <3>3, <3>4
  <2>2. CASE w # t
    <3>1. Replaces(tool[w]) /\ Now(w)' = Now(w)
      BY <1>2, <1>7, <2>2 DEF Now
    <3>2. Now(w) # e /\ Now(w) \in Entry
      BY <2>2, <3>1, HolderIsAlone DEF Replaces, Holds
    <3>3. ~Relies(v, Now(w))
      BY <3>1 DEF ToolInv
    <3> QED
      BY <1>2, <3>1, <3>2, <3>3 DEF Relies
  <2> QED
    BY <2>1, <2>2
<1>8. ASSUME NEW v \in Task, NEW d \in Entry, Relies(v, d)' PROVE entry'[d].files = "whole" /\ entry'[d].manifest
  <2>1. CASE v = t /\ d = e
    BY <1>2, <1>5, <1>8, <2>1
  <2>2. CASE v = t /\ d # e
    BY <1>2, <1>5, <1>8, <2>2 DEF ToolInv
  <2>3. CASE v # t
    <3>1. Relies(v, d)
      BY <1>6, <1>8, <2>3
    <3>2. entry[d].files = "whole" /\ entry[d].manifest
      BY <3>1 DEF ToolInv
    <3>3. entry'[d] = entry[d]
      BY <1>2, <2>3, <3>1
    <3> QED
      BY <3>2, <3>3
  <2> QED
    BY <2>1, <2>2, <2>3
<1>9. \A d \in Entry : entry'[d].manifest => entry'[d].files # "partial"
  BY <1>2 DEF ToolInv
<1> QED
  BY <1>2, <1>3, <1>4, <1>7, <1>8, <1>9 DEF ToolInv

(* A step of a task that leaves the cache alone and holds nothing after it. *)
LEMMA ToolOnly ==
  ASSUME ToolInv, NEW t \in Task, NEW u \in ToolType, tool' = [tool EXCEPT ![t] = u], UNCHANGED <<entry, lock>>,
         ~Holds(u), \A d \in Entry : d \in u.got /\ d \notin u.spoiled => Relies(t, d)
  PROVE  ToolInv'
<1>1. /\ tool' \in [Task -> ToolType] /\ tool'[t] = u /\ \A v \in Task \ {t} : tool'[v] = tool[v]
      /\ tool \in [Task -> ToolType]
  BY DEF ToolInv
<1>2. \A v \in Task : HolderOk(v)'
  <2> TAKE v \in Task
  <2>1. CASE v = t
    BY <1>1, <2>1 DEF HolderOk, Holds
  <2>2. CASE v # t
    <3>1. HolderOk(v) /\ tool'[v] = tool[v]
      BY <1>1, <2>2 DEF ToolInv
    <3> QED
      BY <3>1 DEF HolderOk, Now
  <2> QED
    BY <2>1, <2>2
<1>3. \A v \in Task, d \in Entry : Relies(v, d)' => Relies(v, d)
  BY <1>1 DEF Relies
<1>4. ASSUME NEW v \in Task, NEW w \in Task, Replaces(tool[w])' PROVE ~Relies(v, Now(w))'
  <2>1. w # t /\ tool'[w] = tool[w] /\ Now(w)' = Now(w) /\ Holds(tool[w]) /\ Replaces(tool[w])
    BY <1>1, <1>4 DEF Replaces, Holds, Now
  <2>2. Now(w) \in Entry
    BY <2>1, AtEntry DEF HolderOk
  <2>3. ~Relies(v, Now(w))
    BY <2>1 DEF ToolInv
  <2> QED
    BY <1>3, <2>1, <2>2, <2>3
<1> QED
  BY <1>1, <1>2, <1>3, <1>4 DEF ToolInv

(* A step of a task at an entry that changes neither what it took nor what was spoiled. *)
LEMMA ToolMoves ==
  ASSUME ToolInv, NEW t \in Task, NEW e \in Entry, NEW n \in EntryType, NEW l \in Task \cup {Nobody},
         NEW s \in {"check", "remove", "install", "installing", "manifest", "err"},
         tool[t].todo # <<>>, Now(t) = e,
         tool' = [tool EXCEPT ![t].pc = s], entry' = [entry EXCEPT ![e] = n], lock' = [lock EXCEPT ![e] = l],
         lock[e] \in {t, Nobody}, n.manifest => n.files # "partial",
         s # "err" => l = t,
         s = "install" => n.files = "none",
         s \in {"install", "installing", "manifest"} => ~n.manifest,
         s = "manifest" => n.files = "whole",
         s \notin {"check", "err"} \/ n # entry[e] => \A v \in Task : ~Relies(v, e)
  PROVE  ToolInv'
<1> PICK q, u : q = tool[t] /\ u = [q EXCEPT !.pc = s]
  OBVIOUS
<1>1. q \in ToolType /\ tool \in [Task -> ToolType] /\ q.todo # <<>> /\ Head(q.todo) = e
  BY DEF ToolInv, Now
<1>2. u.pc = s /\ u.todo = q.todo /\ u.got = q.got /\ u.spoiled = q.spoiled
  BY <1>1 DEF ToolType
<1>12. u \in ToolType
  BY <1>1 DEF ToolType
<1>3. tool' = [tool EXCEPT ![t] = u]
  BY <1>1
<1>4. \A d \in Entry : d \in u.got /\ d \notin u.spoiled => Relies(t, d)
  BY <1>2 DEF Relies
<1>5. Relies(t, e) => n.files = "whole" /\ n.manifest
  BY DEF ToolInv
<1>6. \A d \in Entry : d \in u.got /\ d \notin u.spoiled =>
            (d # e /\ Relies(t, d)) \/ (d = e /\ n.files = "whole" /\ n.manifest)
  BY <1>4, <1>5
<1>7. Holds(u) => u.todo # <<>> /\ Head(u.todo) = e /\ l = t
  BY <1>1, <1>2 DEF Holds
<1>8. Replaces(u) => s \notin {"check", "err"}
  BY <1>2 DEF Replaces
<1>9. Replaces(u) => e \notin u.got \/ e \in u.spoiled
  BY <1>4, <1>8
<1>10. Replaces(u) \/ n # entry[e] => \A v \in Task \ {t} : ~Relies(v, e)
  BY <1>8
<1>11. /\ u.pc = "install" => n.files = "none"
       /\ u.pc \in {"install", "installing", "manifest"} => ~n.manifest
       /\ u.pc = "manifest" => n.files = "whole"
  BY <1>2
<1>13. MayDo(t, e, u, n, l)
  BY <1>6, <1>7, <1>9, <1>10, <1>11 DEF MayDo
<1> QED
  BY <1>3, <1>12, <1>13, ToolLocal

(* What a task that is at an entry may use. *)
LEMMA AtWork ==
  ASSUME ToolInv, NEW t \in Task, NEW s, Preparing(t, s)
  PROVE  /\ tool[t].pc = s /\ tool[t].todo # <<>> /\ Now(t) \in Entry /\ entry[Now(t)] \in EntryType
         /\ entry \in [Entry -> EntryType] /\ lock \in [Entry -> Task \cup {Nobody}] /\ tool \in [Task -> ToolType]
         /\ HolderOk(t) /\ (entry[Now(t)].manifest => entry[Now(t)].files # "partial")
         /\ s \in {"remove", "install", "installing", "manifest"} => \A v \in Task : ~Relies(v, Now(t))
         /\ Holds(tool[t]) => lock[Now(t)] = t
<1>1. tool[t].pc = s /\ tool[t].todo # <<>>
  BY DEF Preparing
<1>2. Now(t) \in Entry /\ HolderOk(t)
  BY <1>1, AtEntry
<1> QED
  BY <1>1, <1>2 DEF ToolInv, HolderOk, Replaces

(* A package that was found, or was just installed, is taken and its lock released. *)
LEMMA TakeEntryTool ==
  ASSUME ToolInv, NEW t \in Task, NEW e \in Entry, NEW n \in EntryType, tool[t].todo # <<>>, Now(t) = e,
         TakeEntry(t), entry' = [entry EXCEPT ![e] = n], lock[e] = t,
         n.manifest, n.files = "whole" \/ (n.files = "damaged" /\ e \in tool[t].spoiled),
         n # entry[e] => \A v \in Task : ~Relies(v, e)
  PROVE  ToolInv'
<1> PICK q, l : q = tool[t] /\ l = Nobody
  OBVIOUS
<1> PICK u : u = [q EXCEPT !.pc = "lock", !.todo = Tail(@), !.got = @ \cup {e}]
  OBVIOUS
<1>1. q \in ToolType /\ tool \in [Task -> ToolType] /\ Tail(q.todo) \in Seq(Entry) /\ l \in Task \cup {Nobody}
  BY AtEntry DEF ToolInv
<1>2. u.pc = "lock" /\ u.got = q.got \cup {e} /\ u.spoiled = q.spoiled
  BY <1>1 DEF ToolType
<1>8. u \in ToolType
  BY <1>1 DEF ToolType
<1>3. tool' = [tool EXCEPT ![t] = u] /\ lock' = [lock EXCEPT ![e] = l]
  BY <1>1 DEF TakeEntry, Unlock
<1>4. \A d \in Entry : d \in u.got /\ d \notin u.spoiled =>
            (d # e /\ Relies(t, d)) \/ (d = e /\ n.files = "whole" /\ n.manifest)
  BY <1>2 DEF Relies
<1>5. ~Holds(u) /\ ~Replaces(u) /\ u.pc \notin {"install", "installing", "manifest"}
  BY <1>2 DEF Holds, Replaces
<1>6. n.manifest => n.files # "partial"
  OBVIOUS
<1>7. lock[e] \in {t, Nobody} /\ (Replaces(u) \/ n # entry[e] => \A v \in Task \ {t} : ~Relies(v, e))
  BY <1>5
<1>9. MayDo(t, e, u, n, l)
  BY <1>4, <1>5, <1>6, <1>7 DEF MayDo
<1> QED
  BY <1>1, <1>3, <1>8, <1>9, ToolLocal

(* A free lock is taken. *)
LEMMA LockEntryTool == ASSUME ToolInv, NEW t \in Task, LockEntry(t) PROVE ToolInv'
<1> PICK e, n : e = Now(t) /\ n = entry[e]
  OBVIOUS
<1>1. Preparing(t, "lock") /\ lock[e] = Nobody /\ lock' = [lock EXCEPT ![e] = t] /\ tool' = [tool EXCEPT ![t].pc = "check"]
  BY DEF LockEntry
<1>2. /\ e \in Entry /\ n \in EntryType /\ tool[t].todo # <<>> /\ (n.manifest => n.files # "partial")
      /\ entry \in [Entry -> EntryType]
  BY <1>1, AtWork
<1>3. entry' = [entry EXCEPT ![e] = n]
  BY <1>2 DEF LockEntry
<1> QED
  BY <1>1, <1>2, <1>3, ToolMoves

(* A complete entry is taken; nobody relies on another one. *)
LEMMA CheckManifestTool == ASSUME ToolInv, NEW t \in Task, CheckManifest(t) PROVE ToolInv'
<1> PICK e, n : e = Now(t) /\ n = entry[e]
  OBVIOUS
<1>1. Preparing(t, "check") /\ UNCHANGED entry
  BY DEF CheckManifest
<1>2. /\ e \in Entry /\ n \in EntryType /\ tool[t].todo # <<>> /\ (n.manifest => n.files # "partial")
      /\ entry \in [Entry -> EntryType] /\ lock \in [Entry -> Task \cup {Nobody}] /\ tool[t].pc = "check" /\ lock[e] = t
  BY <1>1, AtWork DEF Holds
<1>3. entry' = [entry EXCEPT ![e] = n]
  BY <1>1, <1>2
<1>4. CASE n.manifest /\ ToolReady(e)
  <2>1. TakeEntry(t) /\ n.files = "whole"
    BY <1>2, <1>4 DEF CheckManifest, ToolReady
  <2> QED
    BY <1>2, <1>3, <1>4, <2>1, TakeEntryTool
<1>5. CASE ~(n.manifest /\ ToolReady(e))
  <2>1. tool' = [tool EXCEPT ![t].pc = "remove"] /\ UNCHANGED lock
    BY <1>5 DEF CheckManifest
  <2>2. lock' = [lock EXCEPT ![e] = t]
    BY <1>2, <2>1
  <2>3. \A v \in Task : ~Relies(v, e)
    BY <1>2, <1>5 DEF ToolInv, ToolReady
  <2> QED
    BY <1>2, <1>3, <2>1, <2>2, <2>3, ToolMoves
<1> QED
  BY <1>4, <1>5

(* What is there is removed, piece by piece, and then nothing is there. *)
LEMMA RemoveEntryTool == ASSUME ToolInv, NEW t \in Task, RemoveEntry(t) PROVE ToolInv'
<1> PICK e, now : e = Now(t) /\ now = entry[e]
  OBVIOUS
<1>1. Preparing(t, "remove") /\ UNCHANGED lock
  BY DEF RemoveEntry
<1>2. /\ e \in Entry /\ now \in EntryType /\ tool[t].todo # <<>> /\ (now.manifest => now.files # "partial")
      /\ entry \in [Entry -> EntryType] /\ lock \in [Entry -> Task \cup {Nobody}] /\ tool \in [Task -> ToolType]
      /\ tool[t].pc = "remove" /\ lock[e] = t /\ \A v \in Task : ~Relies(v, e)
  BY <1>1, AtWork DEF Holds
<1>3. lock' = [lock EXCEPT ![e] = t] /\ tool = [tool EXCEPT ![t].pc = "remove"]
  <2>1. tool[t] = [tool[t] EXCEPT !.pc = "remove"]
    BY <1>2 DEF ToolType
  <2> QED
    BY <1>1, <1>2, <2>1
<1>4. CASE now = [files |-> "none", manifest |-> FALSE]
  <2>1. tool' = [tool EXCEPT ![t].pc = "install"] /\ UNCHANGED entry /\ now.files = "none" /\ ~now.manifest
    BY <1>4 DEF RemoveEntry
  <2>2. entry' = [entry EXCEPT ![e] = now]
    BY <1>2, <2>1
  <2> QED
    BY <1>2, <1>3, <2>1, <2>2, ToolMoves
<1>5. CASE now # [files |-> "none", manifest |-> FALSE]
  <2>1. tool' = tool /\ \/ entry' = [entry EXCEPT ![e].manifest = FALSE]
                        \/ entry' = [entry EXCEPT ![e].files = "none"]
    BY <1>5 DEF RemoveEntry
  <2>2. \E n \in EntryType : entry' = [entry EXCEPT ![e] = n] /\ (n.manifest => n.files # "partial")
    <3>1. CASE entry' = [entry EXCEPT ![e].manifest = FALSE]
      <4> PICK n : n = [now EXCEPT !.manifest = FALSE]
        OBVIOUS
      <4>1. n \in EntryType /\ ~n.manifest
        BY <1>2 DEF EntryType
      <4>2. entry' = [entry EXCEPT ![e] = n]
        BY <1>2, <3>1
      <4> QED
        BY <4>1, <4>2
    <3>2. CASE entry' = [entry EXCEPT ![e].files = "none"]
      <4> PICK n : n = [now EXCEPT !.files = "none"]
        OBVIOUS
      <4>1. n \in EntryType /\ n.files = "none"
        BY <1>2 DEF EntryType
      <4>2. entry' = [entry EXCEPT ![e] = n]
        BY <1>2, <3>2
      <4> QED
        BY <4>1, <4>2
    <3> QED
      BY <2>1, <3>1, <3>2
  <2>3. PICK n \in EntryType : entry' = [entry EXCEPT ![e] = n] /\ (n.manifest => n.files # "partial")
    BY <2>2
  <2>4. tool' = [tool EXCEPT ![t].pc = "remove"]
    BY <1>3, <2>1
  <2> QED
    BY <1>2, <1>3, <2>3, <2>4, ToolMoves
<1> QED
  BY <1>4, <1>5

(* An installation starts, ends or fails; only a complete one goes on to its manifest. *)
LEMMA InstallTool ==
  ASSUME ToolInv, NEW t \in Task, StartInstall(t) \/ InstallEnds(t) \/ InstallFails(t)
  PROVE  ToolInv'
<1> PICK e, now : e = Now(t) /\ now = entry[e]
  OBVIOUS
<1>1. PICK s \in {"install", "installing"} : Preparing(t, s)
  BY DEF StartInstall, InstallEnds, InstallFails
<1>2. /\ e \in Entry /\ now \in EntryType /\ tool[t].todo # <<>> /\ (now.manifest => now.files # "partial")
      /\ entry \in [Entry -> EntryType] /\ lock \in [Entry -> Task \cup {Nobody}]
      /\ tool[t].pc = s /\ lock[e] = t /\ HolderOk(t) /\ \A v \in Task : ~Relies(v, e)
  BY <1>1, AtWork DEF Holds
<1>3. ~now.manifest
  BY <1>2 DEF HolderOk
<1>4. UNCHANGED lock => lock' = [lock EXCEPT ![e] = t]
  BY <1>2
<1>5. CASE StartInstall(t)
  <2> PICK n : n = [now EXCEPT !.files = "partial"]
    OBVIOUS
  <2>1. n \in EntryType /\ ~n.manifest
    BY <1>2, <1>3 DEF EntryType
  <2>2. entry' = [entry EXCEPT ![e] = n] /\ tool' = [tool EXCEPT ![t].pc = "installing"] /\ lock' = [lock EXCEPT ![e] = t]
    BY <1>2, <1>4, <1>5 DEF StartInstall
  <2> QED
    BY <1>2, <2>1, <2>2, ToolMoves
<1>6. CASE InstallEnds(t)
  <2> PICK n : n = [now EXCEPT !.files = "whole"]
    OBVIOUS
  <2>1. n \in EntryType /\ ~n.manifest /\ n.files = "whole"
    BY <1>2, <1>3 DEF EntryType
  <2>2. entry' = [entry EXCEPT ![e] = n] /\ tool' = [tool EXCEPT ![t].pc = "manifest"] /\ lock' = [lock EXCEPT ![e] = t]
    BY <1>2, <1>4, <1>6 DEF InstallEnds
  <2> QED
    BY <1>2, <2>1, <2>2, ToolMoves
<1>7. CASE InstallFails(t)
  <2> PICK l : l = Nobody
    OBVIOUS
  <2>1. tool' = [tool EXCEPT ![t].pc = "err"] /\ lock' = [lock EXCEPT ![e] = l] /\ UNCHANGED entry
    BY <1>7 DEF InstallFails, Unlock
  <2>2. entry' = [entry EXCEPT ![e] = now] /\ l \in Task \cup {Nobody}
    BY <1>2, <2>1
  <2> QED
    BY <1>2, <2>1, <2>2, ToolMoves
<1> QED
  BY <1>5, <1>6, <1>7

(* The manifest comes last; damage in between is known to have spoiled the entry. *)
LEMMA WriteManifestTool == ASSUME ToolInv, NEW t \in Task, WriteManifest(t) PROVE ToolInv'
<1> PICK e, now : e = Now(t) /\ now = entry[e]
  OBVIOUS
<1> PICK n : n = [now EXCEPT !.manifest = TRUE]
  OBVIOUS
<1>1. Preparing(t, "manifest") /\ TakeEntry(t)
  BY DEF WriteManifest
<1>2. /\ e \in Entry /\ now \in EntryType /\ tool[t].todo # <<>> /\ entry \in [Entry -> EntryType]
      /\ tool[t].pc = "manifest" /\ lock[e] = t /\ HolderOk(t) /\ \A v \in Task : ~Relies(v, e)
  BY <1>1, AtWork DEF Holds
<1>3. now.files = "whole" \/ (now.files = "damaged" /\ e \in tool[t].spoiled)
  BY <1>2 DEF HolderOk
<1>4. n \in EntryType /\ n.manifest /\ n.files = now.files
  BY <1>2 DEF EntryType
<1>5. entry' = [entry EXCEPT ![e] = n]
  BY <1>2 DEF WriteManifest
<1> QED
  BY <1>1, <1>2, <1>3, <1>4, <1>5, TakeEntryTool

(* A preparation that is not made has its type. *)
LEMMA NoPrepareType == NoPrepare \in ToolType /\ NoPrepare.got = {} /\ ~Holds(NoPrepare) /\ NoPrepare.bound \in BoundType
<1>1. [x \in Executable |-> Unbound] \in BoundType
  BY DEF BoundType
<1> QED
  BY <1>1 DEF NoPrepare, ToolType, Holds

(* The wait for a lock is cancelled, or the executables are bound. *)
LEMMA BindTool == ASSUME ToolInv, NEW t \in Task, LockCancelled(t) \/ Bind(t) PROVE ToolInv'
<1> PICK q : q = tool[t]
  OBVIOUS
<1>1. q \in ToolType /\ tool \in [Task -> ToolType] /\ UNCHANGED <<entry, lock>>
  BY DEF ToolInv, LockCancelled, Bind
<1>2. ASSUME NEW u \in ToolType, tool' = [tool EXCEPT ![t] = u], u.pc \in {"err", "ready"},
             u.got = q.got, u.spoiled = q.spoiled
      PROVE  ToolInv'
  <2>1. ~Holds(u)
    BY <1>2 DEF Holds
  <2>2. \A d \in Entry : d \in u.got /\ d \notin u.spoiled => Relies(t, d)
    BY <1>2 DEF Relies
  <2> QED
    BY <1>1, <1>2, <2>1, <2>2, ToolOnly
<1>3. CASE LockCancelled(t)
  <2> PICK u : u = [q EXCEPT !.pc = "err"]
    OBVIOUS
  <2>1. u.pc = "err" /\ u.got = q.got /\ u.spoiled = q.spoiled
    BY <1>1 DEF ToolType
  <2>2. u \in ToolType
    BY <1>1 DEF ToolType
  <2>3. tool' = [tool EXCEPT ![t] = u]
    BY <1>1, <1>3 DEF LockCancelled
  <2> QED
    BY <1>2, <2>1, <2>2, <2>3
<1>4. CASE Bind(t)
  <2> PICK b : b = [x \in Executable |-> Bindings(q.scopes, x)]
    OBVIOUS
  <2> PICK u : u = [q EXCEPT !.pc = "ready", !.bound = b]
    OBVIOUS
  <2>1. q.scopes \in Seq(Seq(Entry))
    BY <1>1 DEF ToolType
  <2>2. b \in BoundType
    BY <2>1 DEF BoundType
  <2>3. u.pc = "ready" /\ u.got = q.got /\ u.spoiled = q.spoiled
    BY <1>1 DEF ToolType
  <2>4. u \in ToolType
    BY <1>1, <2>2 DEF ToolType
  <2>5. tool' = [tool EXCEPT ![t] = u]
    BY <1>1, <1>4 DEF Bind
  <2> QED
    BY <1>2, <2>3, <2>4, <2>5
<1> QED
  BY <1>3, <1>4

(* A preparation starts with all packages to take. *)
LEMMA StartPrepareIs ==
  ASSUME NEW t \in Task, run[t].manifest \in Commit, StartPrepare(t, Scopes(t))
  PROVE  \E u \in ToolType :
            /\ tool' = [tool EXCEPT ![t] = u] /\ UNCHANGED <<entry, lock>>
            /\ u.pc = "lock" /\ u.got = {} /\ Range(Depends(run[t].manifest)) \subseteq Range(u.todo) /\ u.scopes = Scopes(t)
<1> PICK c, todo : c = Scopes(t) /\ todo = FlattenSeq(c)
  OBVIOUS
<1> PICK u : u = [NoPrepare EXCEPT !.pc = "lock", !.scopes = c, !.todo = todo]
  OBVIOUS
<1>1. c \in Seq(Seq(Entry)) /\ todo \in Seq(Entry) /\ Range(Depends(run[t].manifest)) \subseteq Range(todo)
  BY ScopesFlatten
<1>2. NoPrepare \in ToolType /\ NoPrepare.got = {}
  BY NoPrepareType
<1>3. u.pc = "lock" /\ u.got = {} /\ u.todo = todo /\ u.scopes = c
  BY <1>2 DEF ToolType
<1>4. u \in ToolType
  BY <1>1, <1>2 DEF ToolType
<1>5. tool' = [tool EXCEPT ![t] = u] /\ UNCHANGED <<entry, lock>>
  BY DEF StartPrepare
<1> QED
  BY <1>1, <1>3, <1>4, <1>5

(* It has taken nothing then, and an attempt that ends leaves nothing. *)
LEMMA AttemptTool ==
  ASSUME ToolInv, NEW t \in Task,
         \/ tool' = [tool EXCEPT ![t] = NoPrepare] /\ UNCHANGED <<entry, lock>>
         \/ run[t].manifest \in Commit /\ StartPrepare(t, Scopes(t))
  PROVE  ToolInv'
<1>1. PICK u \in ToolType : tool' = [tool EXCEPT ![t] = u] /\ UNCHANGED <<entry, lock>> /\ ~Holds(u) /\ u.got = {}
  <2>1. CASE tool' = [tool EXCEPT ![t] = NoPrepare] /\ UNCHANGED <<entry, lock>>
    BY <2>1, NoPrepareType
  <2>2. CASE run[t].manifest \in Commit /\ StartPrepare(t, Scopes(t))
    BY <2>2, StartPrepareIs DEF Holds
  <2> QED
    BY <2>1, <2>2
<1> QED
  BY <1>1, ToolOnly

(* Damage from outside is known to every task that relies on the entry. *)
LEMMA DamageTool == ASSUME ToolInv, NEW e \in Entry, Damage(e) PROVE ToolInv'
<1> PICK now : now = entry[e]
  OBVIOUS
<1> PICK n : n = [now EXCEPT !.files = "damaged"]
  OBVIOUS
<1>1. /\ entry \in [Entry -> EntryType] /\ lock \in [Entry -> Task \cup {Nobody}] /\ tool \in [Task -> ToolType]
      /\ UNCHANGED lock /\ now.files = "whole" /\ now \in EntryType
  BY DEF ToolInv, Damage
<1>2. n \in EntryType /\ n.files = "damaged" /\ n.manifest = now.manifest
  BY <1>1 DEF EntryType
<1>3. entry' = [entry EXCEPT ![e] = n]
  BY <1>1 DEF Damage
<1>4. entry' \in [Entry -> EntryType] /\ entry'[e] = n /\ \A d \in Entry \ {e} : entry'[d] = entry[d]
  BY <1>1, <1>2, <1>3
<1>5. ASSUME NEW t \in Task
      PROVE  /\ tool'[t] \in ToolType /\ tool'[t].pc = tool[t].pc /\ tool'[t].todo = tool[t].todo /\ tool'[t].got = tool[t].got
             /\ tool'[t].spoiled \in {tool[t].spoiled, tool[t].spoiled \cup {e}}
             /\ (e \in tool[t].got \/ (Preparing(t, "manifest") /\ Now(t) = e)) => e \in tool'[t].spoiled
  <2> PICK q : q = tool[t]
    OBVIOUS
  <2>1. q \in ToolType
    BY <1>1
  <2>2. CASE e \in tool[t].got \/ (Preparing(t, "manifest") /\ Now(t) = e)
    <3> PICK u : u = [q EXCEPT !.spoiled = @ \cup {e}]
      OBVIOUS
    <3>1. tool'[t] = u
      BY <2>2 DEF Damage
    <3>2. u.pc = q.pc /\ u.todo = q.todo /\ u.got = q.got /\ u.spoiled = q.spoiled \cup {e}
      BY <2>1 DEF ToolType
    <3>3. u \in ToolType
      BY <2>1 DEF ToolType
    <3> QED
      BY <3>1, <3>2, <3>3
  <2>3. CASE ~(e \in tool[t].got \/ (Preparing(t, "manifest") /\ Now(t) = e))
    <3>1. tool'[t] = q
      BY <2>3 DEF Damage
    <3> QED
      BY <2>1, <2>3, <3>1
  <2> QED
    BY <2>2, <2>3
<1>6. tool' \in [Task -> ToolType]
  <2>1. tool' = [t \in Task |-> tool'[t]]
    BY DEF Damage
  <2> QED
    BY <1>5, <2>1
<1>7. \A t \in Task, d \in Entry : Relies(t, d)' => Relies(t, d) /\ d # e
  BY <1>5 DEF Relies
<1>8. \A d \in Entry : entry'[d].manifest => entry'[d].files # "partial"
  BY <1>2, <1>4, ZenonT(60) DEF ToolInv
<1>9. ASSUME NEW t \in Task PROVE HolderOk(t)'
  <2>1. HolderOk(t) /\ Now(t)' = Now(t) /\ tool'[t].pc = tool[t].pc /\ tool'[t].todo = tool[t].todo
    BY <1>5 DEF ToolInv, Now
  <2>2. CASE Holds(tool[t])
    <3>1. tool[t].todo # <<>> /\ lock[Now(t)] = t /\ Now(t) \in Entry
      BY <2>1, <2>2, AtEntry DEF HolderOk
    <3>2. /\ tool[t].pc = "install" => entry'[Now(t)].files = "none"
          /\ tool[t].pc \in {"install", "installing", "manifest"} => ~entry'[Now(t)].manifest
      BY <1>1, <1>2, <1>4, <2>1, <3>1 DEF HolderOk
    <3>3. tool[t].pc = "manifest" =>
            entry'[Now(t)].files = "whole" \/ (entry'[Now(t)].files = "damaged" /\ Now(t) \in tool'[t].spoiled)
      <4>1. CASE Now(t) = e
        BY <1>2, <1>4, <1>5, <3>1, <4>1, ZenonT(60) DEF Preparing
      <4>2. CASE Now(t) # e
        BY <1>4, <1>5, <2>1, <3>1, <4>2 DEF HolderOk
      <4> QED
        BY <4>1, <4>2
    <3> QED
      BY <1>1, <2>1, <3>1, <3>2, <3>3 DEF HolderOk
  <2>3. CASE ~Holds(tool[t])
    BY <2>1, <2>3 DEF HolderOk, Holds
  <2> QED
    BY <2>2, <2>3
<1>10. ASSUME NEW t \in Task, NEW w \in Task, Replaces(tool[w])' PROVE ~Relies(t, Now(w))'
  <2>1. Replaces(tool[w]) /\ Now(w)' = Now(w)
    BY <1>5, <1>10 DEF Replaces, Now
  <2>2. Now(w) \in Entry
    BY <2>1, AtEntry DEF HolderOk, Replaces, Holds
  <2>3. ~Relies(t, Now(w))
    BY <2>1 DEF ToolInv
  <2> QED
    BY <1>7, <2>1, <2>2, <2>3
<1>11. \A t \in Task, d \in Entry : Relies(t, d)' => entry'[d].files = "whole" /\ entry'[d].manifest
  BY <1>4, <1>7 DEF ToolInv
<1> QED
  BY <1>1, <1>4, <1>6, <1>8, <1>9, <1>10, <1>11 DEF ToolInv

(* A process dies: its tasks hold and rely on nothing, and its files stay. *)
LEMMA CrashTool == ASSUME ToolInv, NEW p \in Process, ToolCrash(p) PROVE ToolInv'
<1> PICK S : S = TasksOf(p)
  OBVIOUS
<1>1. /\ entry \in [Entry -> EntryType] /\ lock \in [Entry -> Task \cup {Nobody}] /\ tool \in [Task -> ToolType]
      /\ UNCHANGED entry
      /\ lock' = [e \in Entry |-> IF lock[e] \in S THEN Nobody ELSE lock[e]]
      /\ tool' = [t \in Task |-> IF t \in S THEN NoPrepare ELSE tool[t]]
  BY DEF ToolInv, ToolCrash
<1>2. NoPrepare \in ToolType /\ NoPrepare.got = {} /\ ~Holds(NoPrepare)
  BY NoPrepareType
<1>3. lock' \in [Entry -> Task \cup {Nobody}] /\ tool' \in [Task -> ToolType]
  BY <1>1, <1>2
<1>4. \A t \in Task : tool'[t] = NoPrepare \/ (t \notin S /\ tool'[t] = tool[t])
  BY <1>1
<1>5. ASSUME NEW t \in Task PROVE HolderOk(t)'
  <2>1. CASE tool'[t] = NoPrepare
    BY <1>2, <2>1 DEF HolderOk, Holds
  <2>2. CASE t \notin S /\ tool'[t] = tool[t]
    <3>1. HolderOk(t) /\ Now(t)' = Now(t)
      BY <2>2 DEF ToolInv, Now
    <3>2. Holds(tool[t]) => lock'[Now(t)] = t
      BY <1>1, <2>2, <3>1, AtEntry DEF HolderOk
    <3> QED
      BY <1>1, <2>2, <3>1, <3>2 DEF HolderOk
  <2> QED
    BY <1>4, <2>1, <2>2
<1>6. \A t \in Task, d \in Entry : Relies(t, d)' => Relies(t, d)
  BY <1>2, <1>4 DEF Relies
<1>7. ASSUME NEW t \in Task, NEW w \in Task, Replaces(tool[w])' PROVE ~Relies(t, Now(w))'
  <2>1. tool'[w] = tool[w]
    BY <1>2, <1>4, <1>7 DEF Replaces, Holds
  <2>2. Replaces(tool[w]) /\ Now(w)' = Now(w)
    BY <1>7, <2>1 DEF Now
  <2>3. Now(w) \in Entry
    BY <2>2, AtEntry DEF HolderOk, Replaces, Holds
  <2>4. ~Relies(t, Now(w))
    BY <2>2 DEF ToolInv
  <2> QED
    BY <1>6, <2>2, <2>3, <2>4
<1> QED
  BY <1>1, <1>3, <1>5, <1>6, <1>7 DEF ToolInv

(* Every step of the tool cache. *)
LEMMA ToolStepTool ==
  ASSUME ToolInv, NEW t \in Task, ToolStep(t) \/ LockCancelled(t) \/ InstallFails(t)
  PROVE  ToolInv'
  BY LockEntryTool, CheckManifestTool, RemoveEntryTool, InstallTool, WriteManifestTool, BindTool DEF ToolStep

-----------------------------------------------------------------------------
(* The packages a body needs. *)

(* A step that changes one task, if any. *)
LEMMA NeedsStep ==
  ASSUME NeedsInv, NEW t \in Task,
         \A v \in Task \ {t} : /\ run'[v] = run[v]
                               /\ tool'[v].pc = tool[v].pc /\ tool'[v].todo = tool[v].todo /\ tool'[v].got = tool[v].got
                               /\ tool'[v].scopes = tool[v].scopes /\ tool'[v].bound = tool[v].bound,
         NeedsOk(t)'
  PROVE  NeedsInv'
<1>1. \A v \in Task \ {t} : NeedsOk(v)'
  BY DEF NeedsInv, NeedsOk, Scopes
<1> QED
  BY <1>1 DEF NeedsInv

(* An attempt that is not at its tools needs none. *)
LEMMA NeedsRun ==
  ASSUME SourceInv, NeedsInv, NEW t \in Task, NEW a, run' = [run EXCEPT ![t] = a], a.pc \notin {"tools", "body"}, UNCHANGED tool
  PROVE  NeedsInv'
<1>1. run'[t] = a /\ \A v \in Task \ {t} : run'[v] = run[v]
  BY DEF SourceInv
<1>2. NeedsOk(t)'
  BY <1>1 DEF NeedsInv, NeedsOk
<1> QED
  BY <1>1, <1>2, NeedsStep

(* A task whose preparation is not over takes the packages one by one. *)
LEMMA NeedsTool ==
  ASSUME ToolInv, NeedsInv, NEW t \in Task, ToolStep(t) \/ LockCancelled(t) \/ InstallFails(t), UNCHANGED run
  PROVE  NeedsInv'
<1> PICK q : q = tool[t]
  OBVIOUS
<1>1. q \in ToolType /\ tool \in [Task -> ToolType] /\ q.todo \in Seq(Entry) /\ NeedsOk(t)
  BY AtEntry DEF ToolInv, NeedsInv
<1>2. q.pc \in {"lock", "check", "remove", "install", "installing", "manifest"}
  BY DEF ToolStep, LockEntry, CheckManifest, RemoveEntry, StartInstall, InstallEnds, WriteManifest, Bind, LockCancelled,
         InstallFails, Preparing
<1>3. run[t].pc # "body"
  BY <1>1, <1>2 DEF NeedsOk
<1>4. ASSUME NEW u, tool' = [tool EXCEPT ![t] = u], Range(q.todo) \cup q.got \subseteq Range(u.todo) \cup u.got,
             u.scopes = q.scopes,
             u.pc = "ready" => u.todo = <<>> /\ u.bound = [x \in Executable |-> Bindings(q.scopes, x)]
      PROVE  NeedsInv'
  <2>1. tool'[t] = u /\ \A v \in Task \ {t} : tool'[v] = tool[v]
    BY <1>1, <1>4
  <2>2. NeedsOk(t)'
    BY <1>1, <1>3, <1>4, <2>1 DEF NeedsOk, Scopes
  <2> QED
    BY <2>1, <2>2, NeedsStep
<1>5. ASSUME NEW s, s # "ready", tool' = [tool EXCEPT ![t].pc = s] PROVE NeedsInv'
  <2> PICK u : u = [q EXCEPT !.pc = s]
    OBVIOUS
  <2>1. u.pc = s /\ u.todo = q.todo /\ u.got = q.got /\ u.scopes = q.scopes
    BY <1>1 DEF ToolType
  <2>2. tool' = [tool EXCEPT ![t] = u]
    BY <1>1, <1>5
  <2> QED
    BY <1>4, <1>5, <2>1, <2>2
<1>6. ASSUME TakeEntry(t), q.todo # <<>> PROVE NeedsInv'
  <2> PICK e : e = Head(q.todo)
    OBVIOUS
  <2> PICK u : u = [q EXCEPT !.pc = "lock", !.todo = Tail(@), !.got = @ \cup {e}]
    OBVIOUS
  <2>1. u.pc = "lock" /\ u.todo = Tail(q.todo) /\ u.got = q.got \cup {e} /\ u.scopes = q.scopes
    BY <1>1 DEF ToolType
  <2>2. tool' = [tool EXCEPT ![t] = u]
    BY <1>1, <1>6 DEF TakeEntry, Now
  <2>3. \A i \in DOMAIN q.todo : q.todo[i] = e \/ (i - 1 \in DOMAIN Tail(q.todo) /\ q.todo[i] = Tail(q.todo)[i - 1])
    <3>1. /\ Len(q.todo) \in Nat /\ DOMAIN q.todo = 1..Len(q.todo) /\ e = q.todo[1]
          /\ DOMAIN Tail(q.todo) = 1..(Len(q.todo) - 1) /\ \A j \in 1..(Len(q.todo) - 1) : Tail(q.todo)[j] = q.todo[j + 1]
      BY <1>1, <1>6
    <3> TAKE i \in DOMAIN q.todo
    <3>2. CASE i = 1
      BY <3>1, <3>2
    <3>3. CASE i # 1
      <4>1. i - 1 \in 1..(Len(q.todo) - 1) /\ (i - 1) + 1 = i
        BY <3>1, <3>3
      <4> QED
        BY <3>1, <4>1
    <3> QED
      BY <3>2, <3>3
  <2>4. Range(q.todo) \subseteq Range(Tail(q.todo)) \cup {e}
    BY <2>3 DEF Range
  <2>5. Range(q.todo) \cup q.got \subseteq Range(u.todo) \cup u.got
    BY <2>1, <2>4
  <2> QED
    BY <1>4, <2>1, <2>2, <2>5
<1>7. CASE LockEntry(t) \/ StartInstall(t) \/ InstallEnds(t) \/ LockCancelled(t) \/ InstallFails(t)
  BY <1>5, <1>7 DEF LockEntry, StartInstall, InstallEnds, LockCancelled, InstallFails
<1>8. CASE CheckManifest(t)
  <2>1. q.todo # <<>> /\ (TakeEntry(t) \/ tool' = [tool EXCEPT ![t].pc = "remove"])
    BY <1>8 DEF CheckManifest, Preparing
  <2> QED
    BY <1>5, <1>6, <2>1
<1>9. CASE RemoveEntry(t)
  <2>1. CASE tool' = [tool EXCEPT ![t].pc = "install"]
    BY <1>5, <2>1
  <2>2. CASE tool' = tool
    <3>1. tool' = [tool EXCEPT ![t] = q]
      BY <1>1, <2>2
    <3> QED
      BY <1>2, <1>4, <3>1
  <2> QED
    BY <1>9, <2>1, <2>2 DEF RemoveEntry
<1>10. CASE WriteManifest(t)
  BY <1>6, <1>10 DEF WriteManifest, Preparing
<1>11. CASE Bind(t)
  <2> PICK b : b = [x \in Executable |-> Bindings(q.scopes, x)]
    OBVIOUS
  <2> PICK u : u = [q EXCEPT !.pc = "ready", !.bound = b]
    OBVIOUS
  <2>1. u.pc = "ready" /\ u.todo = q.todo /\ u.got = q.got /\ q.todo = <<>> /\ u.scopes = q.scopes /\ u.bound = b
    BY <1>1, <1>11 DEF ToolType, Bind
  <2>2. tool' = [tool EXCEPT ![t] = u]
    BY <1>1, <1>11 DEF Bind
  <2> QED
    BY <1>4, <2>1, <2>2
<1> QED
  BY <1>7, <1>8, <1>9, <1>10, <1>11 DEF ToolStep

(* Damage and a crash leave the other attempts what they took. *)
LEMMA NeedsTrouble ==
  ASSUME SourceInv, ToolInv, NeedsInv, (\E e \in Entry : Damage(e) /\ UNCHANGED run) \/ (\E p \in Process : Crash(p))
  PROVE  NeedsInv'
<1>1. ASSUME NEW e \in Entry, Damage(e), UNCHANGED run PROVE NeedsInv'
  <2>1. ASSUME NEW t \in Task PROVE NeedsOk(t)'
    <3>1. tool[t] \in ToolType /\ NeedsOk(t)
      BY DEF ToolInv, NeedsInv
    <3>2. tool'[t] \in {tool[t], [tool[t] EXCEPT !.spoiled = @ \cup {e}]}
      BY <1>1 DEF Damage
    <3>3. /\ tool'[t].pc = tool[t].pc /\ tool'[t].todo = tool[t].todo /\ tool'[t].got = tool[t].got
          /\ tool'[t].scopes = tool[t].scopes /\ tool'[t].bound = tool[t].bound
      BY <3>1, <3>2 DEF ToolType
    <3> QED
      BY <1>1, <3>1, <3>3 DEF NeedsOk, Scopes
  <2> QED
    BY <2>1 DEF NeedsInv
<1>2. ASSUME NEW p \in Process, Crash(p) PROVE NeedsInv'
  <2>1. ASSUME NEW t \in Task PROVE NeedsOk(t)'
    <3>1. (run'[t] = NoRun /\ tool'[t] = NoPrepare) \/ (run'[t] = run[t] /\ tool'[t] = tool[t])
      BY <1>2 DEF Crash, ToolCrash
    <3>2. NoRun.pc = "idle" /\ NoPrepare.pc = "off" /\ NeedsOk(t)
      BY DEF NoRun, NoPrepare, NeedsInv
    <3> QED
      BY <3>1, <3>2 DEF NeedsOk, Scopes
  <2> QED
    BY <2>1 DEF NeedsInv
<1> QED
  BY <1>1, <1>2

-----------------------------------------------------------------------------
(* A task's attempt. *)

(* What does not touch the source, the tools or the attempt. *)
LEMMA Untouched ==
  /\ SourceInv /\ UNCHANGED <<remote, source, res, run>> => SourceInv'
  /\ ToolInv /\ UNCHANGED toolVars => ToolInv'
  /\ NeedsInv /\ UNCHANGED <<run, tool>> => NeedsInv'
<1>1. SourceInv /\ UNCHANGED <<remote, source, res, run>> => SourceInv'
  BY DEF SourceInv, SourceOk
<1>2. ToolInv /\ UNCHANGED toolVars => ToolInv'
  BY DEF ToolInv, HolderOk, Relies, Now, toolVars
<1>3. NeedsInv /\ UNCHANGED <<run, tool>> => NeedsInv'
  BY DEF NeedsInv, NeedsOk, Scopes
<1> QED
  BY <1>1, <1>2, <1>3

(* The end of an attempt. *)
LEMMA FinishKeeps == ASSUME TaskInv, NEW t \in Task, NEW ok, Finish(t, ok) PROVE TaskInv'
<1>1. SourceInv /\ ToolInv /\ NeedsInv
  BY DEF TaskInv
<1>2. tool' = [tool EXCEPT ![t] = NoPrepare] /\ UNCHANGED <<entry, lock>>
  BY DEF Finish
<1>3. SourceInv' /\ ToolInv'
  BY <1>1, <1>2, FinishSource, AttemptTool
<1>4. NeedsInv'
  <2>1. /\ run'[t] \in {NoRun, [NoRun EXCEPT !.pc = "over"]} /\ tool'[t] = NoPrepare
        /\ \A v \in Task \ {t} : run'[v] = run[v] /\ tool'[v] = tool[v]
    BY <1>1, <1>2 DEF Finish, SourceInv, ToolInv
  <2>2. run'[t].pc \in {"idle", "over"} /\ tool'[t].pc = "off"
    BY <2>1 DEF NoRun, NoPrepare
  <2>3. NeedsOk(t)'
    BY <2>2 DEF NeedsOk
  <2> QED
    BY <1>1, <2>1, <2>3, NeedsStep
<1> QED
  BY <1>3, <1>4 DEF TaskInv

(* The attempt moves on while it has nothing to do with tools. *)
LEMMA AttemptKeeps ==
  ASSUME TaskInv, NEW t \in Task, StartTask(t) \/ LoadManifest(t) \/ SetUpSource(t)
  PROVE  TaskInv'
<1>1. SourceInv /\ ToolInv /\ NeedsInv /\ UNCHANGED toolVars
  BY DEF TaskInv, StartTask, LoadManifest, SetUpSource
<1>2. SourceInv' /\ ToolInv'
  BY <1>1, Untouched, StartTaskSource, LoadManifestSource, SetUpSourceSource
<1>3. run[t] \in RunType /\ run \in [Task -> RunType]
  BY <1>1 DEF SourceInv
<1>4. \E a : run' = [run EXCEPT ![t] = a] /\ a.pc \notin {"tools", "body"}
  <2>1. CASE StartTask(t) \/ SetUpSource(t)
    <3>1. PICK s \in {"resolve", "refetch"} : run' = [run EXCEPT ![t].pc = s]
      BY <2>1 DEF StartTask, SetUpSource, Goto
    <3> PICK a : a = [run[t] EXCEPT !.pc = s]
      OBVIOUS
    <3>2. run' = [run EXCEPT ![t] = a] /\ a.pc = s
      BY <1>3, <3>1 DEF RunType
    <3> QED
      BY <3>2
  <2>2. CASE LoadManifest(t)
    <3> PICK m : m = source[res[t].commit]
      OBVIOUS
    <3> PICK a : a = [pc |-> "setup", commit |-> res[t].commit, manifest |-> m, secrets |-> Defaults(m)]
      OBVIOUS
    <3>1. run' = [run EXCEPT ![t] = a] /\ a.pc = "setup"
      BY <2>2 DEF LoadManifest
    <3> QED
      BY <3>1
  <2> QED
    BY <2>1, <2>2
<1>5. NeedsInv'
  BY <1>1, <1>4, NeedsRun DEF toolVars
<1> QED
  BY <1>2, <1>5 DEF TaskInv

(* The preparation starts with what the manifest of the resolved commit asks for. *)
LEMMA SetUpToolsKeeps == ASSUME TaskInv, NEW t \in Task, SetUpTools(t) PROVE TaskInv'
<1>1. SourceInv /\ ToolInv /\ NeedsInv /\ StartPrepare(t, Scopes(t))
  BY DEF TaskInv, SetUpTools
<1>2. SourceOk(t) /\ run[t] \in RunType /\ run \in [Task -> RunType] /\ run[t].pc \in {"setup", "refetch"}
  BY <1>1 DEF SourceInv, SetUpTools, At
<1>3. run[t].manifest \in Commit
  BY <1>2 DEF SourceOk
<1>4. SourceInv' /\ ToolInv'
  BY <1>1, <1>3, SetUpToolsSource, AttemptTool
<1>5. PICK u \in ToolType :
            /\ tool' = [tool EXCEPT ![t] = u] /\ UNCHANGED <<entry, lock>>
            /\ u.pc = "lock" /\ u.got = {} /\ Range(Depends(run[t].manifest)) \subseteq Range(u.todo) /\ u.scopes = Scopes(t)
  BY <1>1, <1>3, StartPrepareIs
<1>6. tool'[t] = u /\ \A v \in Task \ {t} : tool'[v] = tool[v]
  BY <1>1, <1>5 DEF ToolInv
<1>7. run'[t].pc = "tools" /\ run'[t].manifest = run[t].manifest /\ \A v \in Task \ {t} : run'[v] = run[v]
  BY <1>2 DEF SetUpTools, RunType
<1>8. NeedsOk(t)'
  BY <1>5, <1>6, <1>7 DEF NeedsOk, Scopes
<1>9. NeedsInv'
  BY <1>1, <1>6, <1>7, <1>8, NeedsStep
<1> QED
  BY <1>4, <1>9 DEF TaskInv

(* The body starts when its environment is ready. *)
LEMMA StartBodyKeeps == ASSUME TaskInv, NEW t \in Task, StartBody(t) PROVE TaskInv'
<1>1. SourceInv /\ ToolInv /\ NeedsInv /\ UNCHANGED toolVars /\ run[t].pc = "tools" /\ tool[t].pc = "ready"
  BY DEF TaskInv, StartBody, At
<1>2. SourceInv' /\ ToolInv'
  BY <1>1, Untouched, StartBodySource
<1>3. run'[t].pc = "body" /\ run'[t].manifest = run[t].manifest /\ \A v \in Task \ {t} : run'[v] = run[v]
  <2>1. run \in [Task -> RunType] /\ run[t] \in RunType
    BY <1>1 DEF SourceInv
  <2> QED
    BY <2>1 DEF StartBody, Goto, RunType
<1>4. NeedsOk(t)'
  BY <1>1, <1>3 DEF NeedsInv, NeedsOk, Scopes, toolVars
<1>5. NeedsInv'
  BY <1>1, <1>3, <1>4, NeedsStep DEF toolVars
<1> QED
  BY <1>2, <1>5 DEF TaskInv

(* Steps of the caches, and what the body does with its own store. *)
LEMMA CachesKeep ==
  ASSUME TaskInv, NEW t \in Task, UNCHANGED run,
         \/ (CacheStep(t) \/ LsRemoteFails(t) \/ FetchFails(t)) /\ UNCHANGED toolVars
         \/ (ToolStep(t) \/ LockCancelled(t) \/ InstallFails(t)) /\ UNCHANGED cacheVars
         \/ UNCHANGED <<cacheVars, toolVars>>
  PROVE  TaskInv'
<1>1. SourceInv /\ ToolInv /\ NeedsInv
  BY DEF TaskInv
<1>2. CASE (CacheStep(t) \/ LsRemoteFails(t) \/ FetchFails(t)) /\ UNCHANGED toolVars
  BY <1>1, <1>2, Untouched, CacheSource DEF TaskInv, toolVars
<1>3. CASE (ToolStep(t) \/ LockCancelled(t) \/ InstallFails(t)) /\ UNCHANGED cacheVars
  BY <1>1, <1>3, Untouched, ToolStepTool, NeedsTool DEF TaskInv, cacheVars
<1>4. CASE UNCHANGED <<cacheVars, toolVars>>
  BY <1>1, <1>4, Untouched DEF TaskInv, cacheVars, toolVars
<1> QED
  BY <1>2, <1>3, <1>4

(* What goes wrong outside of the tasks' own steps. *)
LEMMA OutsideKeeps ==
  ASSUME TaskInv, Outside \/ \E p \in Process : Crash(p)
  PROVE  TaskInv'
<1>1. SourceInv /\ ToolInv /\ NeedsInv
  BY DEF TaskInv
<1>2. CASE (MoveRef \/ \E k \in Commit : EvictSource(k)) /\ UNCHANGED toolVars /\ UNCHANGED execVars
  BY <1>1, <1>2, Untouched, TroubleSource DEF TaskInv, toolVars, execVars
<1>3. CASE (\E e \in Entry : Damage(e)) /\ UNCHANGED cacheVars /\ UNCHANGED execVars
  BY <1>1, <1>3, Untouched, DamageTool, NeedsTrouble DEF TaskInv, cacheVars, execVars
<1>4. CASE \E p \in Process : Crash(p)
  <2>1. SourceInv' /\ NeedsInv'
    BY <1>1, <1>4, TroubleSource, NeedsTrouble
  <2>2. \E p \in Process : ToolCrash(p)
    BY <1>4 DEF Crash
  <2> QED
    BY <1>1, <2>1, <2>2, CrashTool DEF TaskInv
<1> QED
  BY <1>2, <1>3, <1>4 DEF Outside

(* Every step keeps the invariant. *)
LEMMA TaskInvStep == ASSUME TaskInv, [Next]_vars PROVE TaskInv'
<1>1. ASSUME NEW t \in Task, TaskStep(t) PROVE TaskInv'
  <2>1. CASE ResolveInvocationFails(t) \/ SetUpFails(t) \/ BodyEnds(t)
    BY <2>1, FinishKeeps DEF ResolveInvocationFails, SetUpFails, BodyEnds
  <2>2. CASE StartTask(t) \/ LoadManifest(t) \/ SetUpSource(t)
    BY <2>2, AttemptKeeps
  <2>3. CASE SetUpTools(t) \/ StartBody(t)
    BY <2>3, SetUpToolsKeeps, StartBodyKeeps
  <2>4. CASE \E i \in Slots(t) : Seal(t, i) \/ Register(t, i)
    BY <2>4, CachesKeep DEF Seal, Register
  <2>5. CASE CacheStep(t) /\ UNCHANGED <<toolVars, execVars, troubles>>
    BY <2>5, CachesKeep DEF execVars
  <2>6. CASE ToolStep(t) /\ UNCHANGED <<cacheVars, execVars, troubles>>
    BY <2>6, CachesKeep DEF execVars
  <2> QED
    BY <1>1, <2>1, <2>2, <2>3, <2>4, <2>5, <2>6 DEF TaskStep
<1>2. ASSUME NEW t \in Task, Fault(t) PROVE TaskInv'
  BY <1>2, CachesKeep DEF Fault, SealFails, execVars
<1>3. CASE UNCHANGED vars
  BY <1>3, Untouched DEF TaskInv, vars, cacheVars, toolVars, execVars
<1> QED
  BY <1>1, <1>2, <1>3, OutsideKeeps DEF Next, Trouble

(* The invariant holds at the start. *)
LEMMA TaskInvInit == ASSUME Init PROVE TaskInv
<1>1. SourceInv
  <2>1. NoResolve \in ResType /\ NoResolve.pc = "off" /\ NoRun \in RunType /\ NoRun.pc = "idle"
    BY DEF NoResolve, ResType, NoRun, RunType
  <2>2. /\ remote \in Commit /\ source = [k \in Commit |-> None]
        /\ res = [t \in Task |-> NoResolve] /\ run = [t \in Task |-> NoRun]
    BY DEF Init, CacheInit
  <2> QED
    BY <2>1, <2>2 DEF SourceInv, SourceOk
<1>2. ToolInv
  <2>1. /\ entry = [e \in Entry |-> [files |-> "none", manifest |-> FALSE]]
        /\ lock = [e \in Entry |-> Nobody] /\ tool = [t \in Task |-> NoPrepare]
    BY DEF Init, ToolInit
  <2>2. NoPrepare \in ToolType /\ NoPrepare.got = {} /\ ~Holds(NoPrepare)
    BY NoPrepareType
  <2>3. entry \in [Entry -> EntryType] /\ lock \in [Entry -> Task \cup {Nobody}] /\ tool \in [Task -> ToolType]
    BY <2>1, <2>2 DEF EntryType
  <2>4. \A e \in Entry : ~entry[e].manifest
    BY <2>1
  <2>5. \A t \in Task : HolderOk(t) /\ ~Replaces(tool[t]) /\ \A e \in Entry : ~Relies(t, e)
    BY <2>1, <2>2 DEF HolderOk, Holds, Replaces, Relies
  <2> QED
    BY <2>3, <2>4, <2>5 DEF ToolInv
<1>3. NeedsInv
  BY DEF Init, ToolInit, NoRun, NoPrepare, NeedsInv, NeedsOk
<1> QED
  BY <1>1, <1>2, <1>3 DEF TaskInv

(* For all tasks, processes, commits, packages and troubles: directories hold their commits, attempts  *)
(* keep the commit they resolved, and only the holder of a lock changes an entry nobody relies on.     *)
THEOREM TaskInvariant == Spec => []TaskInv
<1>1. Init => TaskInv
  BY TaskInvInit
<1>2. TaskInv /\ [Next]_vars => TaskInv'
  BY TaskInvStep
<1> QED
  BY <1>1, <1>2, PTL DEF Spec

(* A body's directory is that of the commit it resolved, unless it was cleaned meanwhile; the packages *)
(* and the secrets it has are those of that commit's manifest, and it may read the secrets.            *)
THEOREM EveryBodyHasItsSource == Spec => []BodyHasItsSource
<1>1. TaskInv => BodyHasItsSource
  <2> SUFFICES ASSUME TaskInv, NEW t \in Task, run[t].pc = "body"
               PROVE  LET commit == run[t].commit IN
                      /\ run[t].manifest = commit
                      /\ source[commit] \in {commit, None}
                      /\ Invocation(t).pin \in {commit, None}
                      /\ run[t].secrets = Defaults(commit) /\ run[t].secrets \subseteq Invocation(t).allowed
                      /\ Range(Depends(commit)) \subseteq tool[t].got
    BY DEF BodyHasItsSource, At
  <2>1. SourceOk(t) /\ NeedsOk(t) /\ \A k \in Commit : source[k] \in {k, None}
    BY DEF TaskInv, SourceInv, NeedsInv
  <2>2. tool[t].todo = <<>> /\ Range(Depends(run[t].manifest)) \subseteq Range(tool[t].todo) \cup tool[t].got
    BY <2>1 DEF NeedsOk
  <2>3. Range(<<>>) = {}
    BY DEF Range
  <2> QED
    BY <2>1, <2>2, <2>3 DEF SourceOk
<1> QED
  BY <1>1, TaskInvariant, PTL

(* A name that a body can run is the package of the closest scope that exports it, and of no other;   *)
(* together with its source this is all that was prepared for it, and it runs nothing else.           *)
THEOREM EveryBodyRunsWhatWasPrepared == Spec => []BodyRunsWhatWasPrepared
<1>1. TaskInv => BodyRunsClosestTools
  <2> SUFFICES ASSUME TaskInv, NEW t \in Task, run[t].pc = "body", NEW x \in Executable, NEW e \in Entry
               PROVE  tool[t].bound[x] = e <=> ClosestPackage(<<Invocation(t).workspace, Depends(run[t].commit)>>, x) = {e}
    BY DEF BodyRunsClosestTools, At
  <2> PICK a, b : a = Invocation(t).workspace /\ b = Depends(run[t].commit)
    OBVIOUS
  <2>1. SourceOk(t) /\ NeedsOk(t)
    BY DEF TaskInv, SourceInv, NeedsInv
  <2>2. run[t].commit \in Commit /\ run[t].manifest = run[t].commit
    BY <2>1 DEF SourceOk
  <2>3. a \in Seq(Entry) /\ b \in Seq(Entry)
    BY <2>2, TaskAssumption
  <2>4. tool[t].scopes = <<a, b>> /\ tool[t].bound = [y \in Executable |-> Bindings(tool[t].scopes, y)]
    BY <2>1, <2>2 DEF NeedsOk, Scopes
  <2>5. tool[t].bound[x] = Bindings(<<a, b>>, x)
    BY <2>4
  <2> QED
    BY <2>3, <2>5, BindingsClosest
<1> QED
  BY <1>1, TaskInvariant, EveryBodyHasItsSource, PTL DEF BodyRunsWhatWasPrepared

(* A package that a task was given stays completely installed until somebody damages it: no installer, *)
(* interrupted or not, of whatever process, replaces it under a running body.                          *)
THEOREM EveryToolStaysWhole == Spec => []ToolsStayWhole
<1>1. TaskInv => ToolsStayWhole
  <2> SUFFICES ASSUME TaskInv, NEW t \in Task, NEW e \in tool[t].got \ tool[t].spoiled
               PROVE  entry[e] = [files |-> "whole", manifest |-> TRUE]
    BY DEF ToolsStayWhole
  <2>1. e \in Entry /\ Relies(t, e)
    BY AtEntry DEF TaskInv, Relies
  <2>2. entry[e] \in EntryType /\ entry[e].files = "whole" /\ entry[e].manifest
    BY <2>1 DEF TaskInv, ToolInv
  <2> QED
    BY <2>2 DEF EntryType
<1> QED
  BY <1>1, TaskInvariant, PTL

-----------------------------------------------------------------------------
(* The objects that a body publishes. *)

(* An archive that is added is there once, like those before. *)
LEMMA AddsOnce ==
  ASSUME NEW S, NEW s \in Seq(S), NEW d \in S, IsInjective(s), d \notin Range(s)
  PROVE  s \o <<d>> \in Seq(S) /\ Range(s \o <<d>>) = Range(s) \cup {d} /\ IsInjective(s \o <<d>>)
<1> PICK one, r : one = <<d>> /\ r = s \o one
  OBVIOUS
<1>1. one \in Seq(S) /\ Len(one) = 1 /\ one[1] = d /\ DOMAIN one = 1..1 /\ Len(s) \in Nat /\ DOMAIN s = 1..Len(s)
  OBVIOUS
<1>2. Range(one) = {d}
  <2>1. 1..1 = {1}
    OBVIOUS
  <2> QED
    BY <1>1, <2>1 DEF Range
<1>3. r \in Seq(S) /\ Len(r) = Len(s) + 1 /\ \A i \in 1..(Len(s) + 1) : r[i] = IF i <= Len(s) THEN s[i] ELSE one[i - Len(s)]
  BY <1>1, ConcatProperties
<1>4. Range(r) = Range(s) \cup {d}
  <2>1. ASSUME NEW c \in Seq(S) PROVE Range(s \o c) = Range(s) \cup Range(c)
    BY <2>1, RangeConcatenation
  <2>2. Range(s \o one) = Range(s) \cup Range(one)
    BY <1>1, <2>1
  <2> QED
    BY <1>2, <2>2
<1>5. DOMAIN r = 1..(Len(s) + 1) /\ r[Len(s) + 1] = d /\ \A i \in 1..Len(s) : r[i] = s[i] /\ s[i] # d
  <2>1. DOMAIN r = 1..(Len(s) + 1)
    BY <1>3
  <2>2. r[Len(s) + 1] = one[Len(s) + 1 - Len(s)]
    <3>1. Len(s) + 1 \in 1..(Len(s) + 1) /\ ~(Len(s) + 1 <= Len(s))
      BY <1>1
    <3> QED
      BY <1>3, <3>1
  <2>3. Len(s) + 1 - Len(s) = 1
    BY <1>1
  <2>4. \A i \in 1..Len(s) : r[i] = s[i]
    BY <1>1, <1>3
  <2>5. \A i \in 1..Len(s) : s[i] # d
    BY <1>1 DEF Range
  <2> QED
    BY <1>1, <2>1, <2>2, <2>3, <2>4, <2>5
<1>6. IsInjective(r)
  <2> SUFFICES ASSUME NEW a \in DOMAIN r, NEW b \in DOMAIN r, r[a] = r[b] PROVE a = b
    BY DEF IsInjective
  <2>1. (a = Len(s) + 1 \/ a \in 1..Len(s)) /\ (b = Len(s) + 1 \/ b \in 1..Len(s))
    BY <1>1, <1>5
  <2>2. CASE a \in 1..Len(s) /\ b \in 1..Len(s)
    BY <1>1, <1>5, <2>2 DEF IsInjective
  <2> QED
    BY <1>5, <2>1, <2>2
<1> QED
  BY <1>3, <1>4, <1>6

(* A step of one task's store, and of its outcome. *)
LEMMA StoreLocal ==
  ASSUME StoreInv, NEW t \in Task, NEW p, NEW o, pubs' = [pubs EXCEPT ![t] = p], outcome' = [outcome EXCEPT ![t] = o],
         StoreIs(t, p), OutcomeIs(t, o)
  PROVE  StoreInv'
<1>1. pubs'[t] = p /\ outcome'[t] = o /\ \A v \in Task \ {t} : pubs'[v] = pubs[v] /\ outcome'[v] = outcome[v]
  BY DEF StoreInv
<1>2. pubs' = [v \in Task |-> pubs'[v]] /\ outcome' = [v \in Task |-> outcome'[v]]
  BY DEF StoreInv
<1>3. ASSUME NEW v \in Task PROVE StoreIs(v, pubs'[v]) /\ OutcomeIs(v, outcome'[v])
  <2>1. StoreIs(v, pubs[v]) /\ OutcomeIs(v, outcome[v])
    BY DEF StoreInv
  <2> QED
    BY <1>1, <2>1
<1> QED
  BY <1>2, <1>3 DEF StoreInv, StoreIs, OutcomeIs, StoreType, PublishedIn

(* An empty store. *)
LEMMA NewStoreIs == ASSUME NEW t \in Task PROVE StoreIs(t, NewStore(t))
<1> PICK p : p = NewStore(t)
  OBVIOUS
<1>1. p \in StoreType(t) /\ p.artifacts = <<>> /\ \A i \in Slots(t) : p.slot[i] = "new"
  BY DEF NewStore, StoreType
<1>2. Range(<<>>) = {} /\ IsInjective(<<>>)
  BY DEF Range, IsInjective
<1>3. PublishedIn(t, p) = {}
  BY <1>1 DEF PublishedIn
<1> QED
  BY <1>1, <1>2, <1>3 DEF StoreIs

(* Sealing an archive, or failing to, publishes nothing; registering it publishes its content. *)
LEMMA PublicationStore ==
  ASSUME StoreInv, NEW t \in Task, NEW i \in Slots(t), Seal(t, i) \/ SealFails(t, i) \/ Register(t, i)
  PROVE  StoreInv'
<1> PICK q, o, d : q = pubs[t] /\ o = outcome[t] /\ d = Invocation(t).objects[i]
  OBVIOUS
<1>1. /\ StoreIs(t, q) /\ OutcomeIs(t, o) /\ pubs = [v \in Task |-> pubs[v]] /\ outcome' = outcome
      /\ outcome = [v \in Task |-> outcome[v]]
  BY DEF StoreInv, Seal, SealFails, Register
<1>2. outcome' = [outcome EXCEPT ![t] = o]
  BY <1>1
<1>3. /\ q \in StoreType(t) /\ q.slot \in [Slots(t) -> {"new", "sealed", "done", "failed"}] /\ q.artifacts \in Seq(STRING)
      /\ Range(q.artifacts) = PublishedIn(t, q) /\ IsInjective(q.artifacts)
  BY <1>1 DEF StoreIs, StoreType
<1>4. d \in STRING
  BY TaskAssumption DEF Slots
<1>5. ASSUME NEW s \in {"sealed", "failed"}, pubs' = [pubs EXCEPT ![t].slot[i] = s], q.slot[i] = "new"
      PROVE  StoreInv'
  <2> PICK f : f = [q.slot EXCEPT ![i] = s]
    OBVIOUS
  <2> PICK p : p = [q EXCEPT !.slot = f]
    OBVIOUS
  <2>1. f \in [Slots(t) -> {"new", "sealed", "done", "failed"}] /\ f[i] = s /\ \A j \in Slots(t) \ {i} : f[j] = q.slot[j]
    BY <1>3
  <2>2. p \in StoreType(t) /\ p.slot = f /\ p.artifacts = q.artifacts
    BY <1>3, <2>1 DEF StoreType
  <2>3. {j \in Slots(t) : f[j] = "done"} = {j \in Slots(t) : q.slot[j] = "done"}
    BY <1>5, <2>1
  <2>4. PublishedIn(t, p) = PublishedIn(t, q)
    BY <2>2, <2>3 DEF PublishedIn
  <2>5. StoreIs(t, p)
    BY <1>3, <2>2, <2>4 DEF StoreIs
  <2>6. pubs' = [pubs EXCEPT ![t] = p]
    BY <1>1, <1>5
  <2> QED
    BY <1>1, <1>2, <2>5, <2>6, StoreLocal
<1>6. CASE Seal(t, i) \/ SealFails(t, i)
  BY <1>5, <1>6 DEF Seal, SealFails
<1>7. CASE Register(t, i)
  <2> PICK f, a : f = [q.slot EXCEPT ![i] = "done"] /\ a = AddArtifact(t, d)
    OBVIOUS
  <2> PICK p : p = [slot |-> f, artifacts |-> a]
    OBVIOUS
  <2>1. f \in [Slots(t) -> {"new", "sealed", "done", "failed"}] /\ f[i] = "done" /\ \A j \in Slots(t) \ {i} : f[j] = q.slot[j]
    BY <1>3
  <2>2. a \in Seq(STRING) /\ Range(a) = Range(q.artifacts) \cup {d} /\ IsInjective(a)
    <3>1. CASE d \in Range(q.artifacts)
      <4>1. a = q.artifacts
        BY <3>1 DEF AddArtifact
      <4> QED
        BY <1>3, <3>1, <4>1
    <3>2. CASE d \notin Range(q.artifacts)
      <4>1. a = q.artifacts \o <<d>>
        BY <3>2 DEF AddArtifact
      <4> QED
        BY <1>3, <1>4, <3>2, <4>1, AddsOnce
    <3> QED
      BY <3>1, <3>2
  <2>3. {j \in Slots(t) : f[j] = "done"} = {j \in Slots(t) : q.slot[j] = "done"} \cup {i}
    BY <2>1
  <2>4. p \in StoreType(t) /\ p.slot = f /\ p.artifacts = a
    BY <2>1, <2>2 DEF StoreType
  <2>5. PublishedIn(t, p) = PublishedIn(t, q) \cup {d}
    BY <2>3, <2>4 DEF PublishedIn
  <2>6. StoreIs(t, p)
    BY <1>3, <2>2, <2>4, <2>5 DEF StoreIs
  <2>7. pubs' = [pubs EXCEPT ![t] = p]
    BY <1>1, <1>7 DEF Register
  <2> QED
    BY <1>1, <1>2, <2>6, <2>7, StoreLocal
<1> QED
  BY <1>6, <1>7

(* The outcome takes the references and the archives over; all of them are done when it succeeds. *)
LEMMA FinishStore ==
  ASSUME StoreInv, NEW t \in Task, NEW ok, Finish(t, ok), ok => \A i \in Slots(t) : pubs[t].slot[i] = "done"
  PROVE  StoreInv'
<1> PICK q, p, r : q = pubs[t] /\ p = NewStore(t) /\ r = IF ok THEN "ok" ELSE "failed"
  OBVIOUS
<1> PICK o : o = [result |-> r, refs |-> Published(t), artifacts |-> q.artifacts]
  OBVIOUS
<1>1. StoreIs(t, q) /\ StoreIs(t, p)
  BY NewStoreIs DEF StoreInv
<1>2. Published(t) = PublishedIn(t, q)
  BY DEF Published, PublishedIn
<1>3. ok => PublishedIn(t, q) = Range(Invocation(t).objects)
  BY DEF PublishedIn, Slots, Range
<1>4. r = "ok" => ok
  OBVIOUS
<1>5. o.result = r /\ o.refs = PublishedIn(t, q) /\ o.artifacts = q.artifacts
  BY <1>2
<1>6. OutcomeIs(t, o)
  BY <1>1, <1>3, <1>4, <1>5 DEF OutcomeIs, StoreIs
<1>7. pubs' = [pubs EXCEPT ![t] = p] /\ outcome' = [outcome EXCEPT ![t] = o]
  BY DEF Finish
<1> QED
  BY <1>1, <1>6, <1>7, StoreLocal

(* Every step keeps the stores. *)
LEMMA StoreInvStep == ASSUME StoreInv, [Next]_vars PROVE StoreInv'
<1>1. UNCHANGED <<pubs, outcome>> => StoreInv'
  <2> SUFFICES ASSUME UNCHANGED <<pubs, outcome>> PROVE StoreInv'
    OBVIOUS
  <2>1. \A t \in Task : pubs'[t] = pubs[t] /\ outcome'[t] = outcome[t]
    OBVIOUS
  <2>2. \A t \in Task : StoreIs(t, pubs'[t]) /\ OutcomeIs(t, outcome'[t])
    BY <2>1 DEF StoreInv
  <2>3. pubs' = [t \in Task |-> pubs'[t]] /\ outcome' = [t \in Task |-> outcome'[t]]
    BY DEF StoreInv
  <2> QED
    BY <2>2, <2>3 DEF StoreInv, StoreIs, OutcomeIs, StoreType, PublishedIn
<1>2. ASSUME NEW t \in Task, TaskStep(t) PROVE StoreInv'
  <2>1. CASE ResolveInvocationFails(t) \/ SetUpFails(t)
    BY <2>1, FinishStore DEF ResolveInvocationFails, SetUpFails
  <2>2. CASE BodyEnds(t)
    BY <2>2, FinishStore DEF BodyEnds
  <2>3. CASE \E i \in Slots(t) : Seal(t, i) \/ Register(t, i)
    BY <2>3, PublicationStore
  <2>4. CASE StartTask(t) \/ LoadManifest(t) \/ SetUpSource(t) \/ SetUpTools(t) \/ StartBody(t)
    BY <1>1, <2>4 DEF StartTask, LoadManifest, SetUpSource, SetUpTools, StartBody
  <2>5. CASE UNCHANGED execVars
    BY <1>1, <2>5 DEF execVars
  <2> QED
    BY <1>2, <2>1, <2>2, <2>3, <2>4, <2>5 DEF TaskStep
<1>3. ASSUME NEW t \in Task, Fault(t) PROVE StoreInv'
  BY <1>1, <1>3, PublicationStore DEF Fault, execVars
<1>4. ASSUME NEW p \in Process, Crash(p) PROVE StoreInv'
  <2>1. /\ pubs' = [t \in Task |-> IF t \in TasksOf(p) THEN NewStore(t) ELSE pubs[t]] /\ outcome' = outcome
    BY <1>4 DEF Crash
  <2>2. pubs' = [t \in Task |-> pubs'[t]] /\ outcome' = [t \in Task |-> outcome'[t]]
    BY <2>1 DEF StoreInv
  <2>3. ASSUME NEW t \in Task PROVE StoreIs(t, pubs'[t]) /\ OutcomeIs(t, outcome'[t])
    <3>1. StoreIs(t, pubs[t]) /\ StoreIs(t, NewStore(t)) /\ OutcomeIs(t, outcome[t])
      BY NewStoreIs DEF StoreInv
    <3>2. pubs'[t] \in {pubs[t], NewStore(t)}
      BY <2>1
    <3> QED
      BY <2>1, <3>1, <3>2
  <2> QED
    BY <2>2, <2>3 DEF StoreInv, StoreIs, OutcomeIs, StoreType, PublishedIn
<1>5. CASE UNCHANGED execVars
  BY <1>1, <1>5 DEF execVars
<1> QED
  BY <1>2, <1>3, <1>4, <1>5 DEF Next, Trouble, Outside, vars

(* Every store, and every outcome, holds the archives of what was published, each once. *)
THEOREM StoreInvariant == Spec => []StoreInv
<1>1. Init => StoreInv
  <2> SUFFICES ASSUME Init PROVE StoreInv
    OBVIOUS
  <2>1. pubs = [t \in Task |-> NewStore(t)] /\ outcome = [t \in Task |-> NoOutcome]
    BY DEF Init
  <2>2. Range(<<>>) = {} /\ IsInjective(<<>>)
    BY DEF Range, IsInjective
  <2>3. \A t \in Task : OutcomeIs(t, NoOutcome)
    BY <2>2 DEF OutcomeIs, NoOutcome
  <2> QED
    BY <2>1, <2>3, NewStoreIs DEF StoreInv
<1>2. StoreInv /\ [Next]_vars => StoreInv'
  BY StoreInvStep
<1> QED
  BY <1>1, <1>2, PTL DEF Spec

(* Every reference a body or an outcome holds resolves to exactly one archive, whatever goroutines *)
(* publish at once and wherever an attempt fails; a task that succeeded has published everything.  *)
THEOREM EveryObjectResolves == Spec => []ObjectsResolve
<1>1. StoreInv => ObjectsResolve
  <2> SUFFICES ASSUME StoreInv, NEW t \in Task
               PROVE  /\ \A digest \in Published(t) :
                            Cardinality({i \in DOMAIN pubs[t].artifacts : pubs[t].artifacts[i] = digest}) = 1
                      /\ outcome[t].refs = Range(outcome[t].artifacts) /\ IsInjective(outcome[t].artifacts)
                      /\ outcome[t].result = "ok" => outcome[t].refs = Range(Invocation(t).objects)
    BY DEF ObjectsResolve
  <2>1. StoreIs(t, pubs[t]) /\ OutcomeIs(t, outcome[t])
    BY DEF StoreInv
  <2>2. ASSUME NEW digest \in Published(t)
        PROVE  Cardinality({i \in DOMAIN pubs[t].artifacts : pubs[t].artifacts[i] = digest}) = 1
    <3> PICK a, S : a = pubs[t].artifacts /\ S = {i \in DOMAIN a : a[i] = digest}
      OBVIOUS
    <3>1. digest \in Range(a) /\ IsInjective(a)
      BY <2>1, <2>2 DEF StoreIs, PublishedIn, Published
    <3>2. PICK i \in DOMAIN a : a[i] = digest
      BY <3>1 DEF Range
    <3>3. S = {i}
      BY <3>1, <3>2 DEF IsInjective
    <3>4. Cardinality({i}) = 1
      BY FS_Singleton
    <3> QED
      BY <3>3, <3>4
  <2> QED
    BY <2>1, <2>2 DEF OutcomeIs
<1> QED
  BY <1>1, StoreInvariant, PTL
=============================================================================
